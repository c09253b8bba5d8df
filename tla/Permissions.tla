---------------------------- MODULE Permissions ----------------------------
(***************************************************************************)
(* The permission engine (lib/permissions/engine.ts) and the services that *)
(* administer roles and assignments (domain/permissions-admin.ts).         *)
(*                                                                         *)
(* The same grants are evaluated in three ways: as a yes or no for an      *)
(* action in a context (can), as a filter of a list (scopeWhereFor) and as *)
(* a guard of a single record (assertRecordInScope).  A request evaluates  *)
(* them on the principal that was loaded when it came in, while other      *)
(* requests change roles and assignments and time passes.                  *)
(***************************************************************************)
EXTENDS Naturals, FiniteSets

CONSTANTS
    Clients,   \* handlers that may be running at the same time
    Users,     \* the people
    Supers,    \* those with the super-admin flag
    Roles,     \* identifiers of roles
    SuperRole, \* the role super_admin
    Keys,      \* VALID_PERMISSIONS, as <<module, action>>
    Forms,     \* the sets of permissions that roles are saved with
    Dims,      \* SCOPE_DIMENSIONS
    Values,    \* the identifiers a dimension can be restricted to
    Offers,    \* what assignments are requested: scope, module, expiry
    Ids,       \* identifiers of assignments (a bound on their number)
    MaxTime,   \* bound on the clock
    None       \* null

Everything == <<"*", "*">>

ManagePermissions == <<"permissions", "manage">>

Modules == {k[1] : k \in Keys}

(* The identifiers of the scope dimensions, null where nothing is named.   *)
Scope == [Dims -> Values \cup {None}]

PeopleAssumption == Supers \subseteq Users /\ SuperRole \in Roles

KeysAssumption ==
    /\ Everything \notin Keys
    /\ ManagePermissions \in Keys

FormsAssumption == Forms \subseteq SUBSET (Keys \cup {Everything})

OffersAssumption ==
    Offers \subseteq [scope : Scope, module : Modules \cup {None},
                      expires : Nat \cup {None}]

(* null is none of the values it stands beside: no identifier, no module,  *)
(* no time, and not the permissions of a role.                             *)
NullAssumption ==
    /\ None \notin Values \cup Modules \cup Nat \cup Users
    /\ \A keys \in SUBSET (Keys \cup {Everything}) : keys # None

ASSUME PeopleAssumption
ASSUME KeysAssumption
ASSUME FormsAssumption
ASSUME OffersAssumption
ASSUME NullAssumption

VARIABLES
    now,        \* the time
    roleKeys,   \* the permissions of each role; None: not created
    assignment, \* rows of RoleAssignment; None: no such row
    handed,     \* history: the scopes that super admins have handed out
    pc,         \* where each client's handler is
    req         \* the principal it was called by

vars == <<now, roleKeys, assignment, handed, pc, req>>

-----------------------------------------------------------------------------
(* The engine *)

(* grantsKey: manage implies the other actions of its module.              *)
Grants(a, key) ==
    \/ Everything \in a.keys
    \/ key \in a.keys
    \/ <<key[1], "manage">> \in a.keys

NotExpired(a, time) == a.expires = None \/ a.expires > time

InModule(a, key) == a.module \in {None, key[1]}

(* The assignments that count for a key at a time. *)
Granting(p, key, time) ==
    {a \in p.assignments : NotExpired(a, time) /\ Grants(a, key) /\ InModule(a, key)}

Restricted(a) == {d \in Dims : a.scope[d] # None}

(* assignmentMatchesContext: whatever is restricted must be provided.      *)
Within(scope, outer) == \A d \in Dims : outer[d] # None => scope[d] = outer[d]

(* can *)
Can(p, key, context, time) ==
    \/ p.isSuperAdmin
    \/ \E a \in Granting(p, key, time) : Within(context, a.scope)

(* Variant: a restriction that the model has no column for is dropped.     *)
ScopeWhereForLax(p, key, dims, time) ==
    LET clauses == {[d \in Restricted(a) \cap dims |-> a.scope[d]] :
                        a \in Granting(p, key, time)}
        all == [d \in {} |-> None]
    IN IF p.isSuperAdmin \/ all \in clauses THEN {all} ELSE clauses

(* scopeWhereFor: the clauses of a where, joined by or; the empty clause   *)
(* lets everything through and no clause denies everything.                *)
ScopeWhereFor(p, key, dims, time) ==
    LET usable == {a \in Granting(p, key, time) : Restricted(a) \subseteq dims}
        clauses == {[d \in Restricted(a) \cap dims |-> a.scope[d]] : a \in usable}
        all == [d \in {} |-> None]
    IN IF p.isSuperAdmin \/ all \in clauses THEN {all} ELSE clauses

(* What the database makes of it: a null column equals nothing.            *)
Selects(where, record) ==
    \E clause \in where : \A d \in DOMAIN clause : record[d] = clause[d]

(* accessibleScopeIds: the choices of a dimension, for lists and forms.    *)
AccessibleScopeIds(p, key, dim, time) ==
    LET granting == Granting(p, key, time) IN
    IF p.isSuperAdmin \/ \E a \in granting : a.scope[dim] = None
      THEN Values
      ELSE {a.scope[dim] : a \in granting}

(* assertRecordInScope does not throw. *)
RecordInScope(p, key, record, dims, time) ==
    \/ p.isSuperAdmin
    \/ \E a \in Granting(p, key, time) :
          /\ Restricted(a) \subseteq dims
          /\ \A d \in dims : a.scope[d] \in {None, record[d]}

(* loadPrincipal: the roles are resolved to their permissions here.        *)
LoadPrincipal(user) ==
    [user |-> user,
     isSuperAdmin |-> user \in Supers,
     assignments |->
        {[keys |-> roleKeys[assignment[i].role], scope |-> assignment[i].scope,
          module |-> assignment[i].module, expires |-> assignment[i].expires] :
             i \in {j \in Ids : assignment[j] # None /\ assignment[j].user = user}}]

-----------------------------------------------------------------------------
(* Administration *)

Unscoped == [d \in Dims |-> None]

(* requirePrincipal: a request comes in and its principal is loaded.       *)
Arrive(c, user) ==
    /\ pc[c] = "idle"
    /\ pc' = [pc EXCEPT ![c] = "loaded"]
    /\ req' = [req EXCEPT ![c] = LoadPrincipal(user)]
    /\ UNCHANGED <<now, roleKeys, assignment, handed>>

Return(c) ==
    /\ pc[c] = "loaded"
    /\ pc' = [pc EXCEPT ![c] = "idle"]
    /\ req' = [req EXCEPT ![c] = None]

(* Refused, failed, or a request about something else. *)
Leave(c) == Return(c) /\ UNCHANGED <<now, roleKeys, assignment, handed>>

(* createRole: only permissions of the catalog are kept. *)
CreateRole(c, role, keys) ==
    /\ Return(c)
    /\ Can(req[c], ManagePermissions, Unscoped, now)
    /\ roleKeys[role] = None
    /\ roleKeys' = [roleKeys EXCEPT ![role] = keys \cap Keys]
    /\ UNCHANGED <<now, assignment, handed>>

(* updateRole: the super-admin role cannot be edited. *)
UpdateRole(c, role, keys) ==
    /\ Return(c)
    /\ Can(req[c], ManagePermissions, Unscoped, now)
    /\ roleKeys[role] # None
    /\ role # SuperRole
    /\ roleKeys' = [roleKeys EXCEPT ![role] = keys \cap Keys]
    /\ UNCHANGED <<now, assignment, handed>>

Granted(c, user, role, offer) ==
    [user |-> user, role |-> role, scope |-> offer.scope, module |-> offer.module,
     expires |-> offer.expires, grantedBy |-> req[c].user]

Handed(c, offer) == IF req[c].isSuperAdmin THEN {offer.scope} ELSE {}

(* Variant: administering some scope is enough to grant any. *)
AssignRoleAnywhere(c, i, user, role, offer) ==
    /\ Return(c)
    /\ assignment[i] = None
    /\ roleKeys[role] # None
    /\ role = SuperRole => req[c].isSuperAdmin
    /\ req[c].isSuperAdmin \/ Granting(req[c], ManagePermissions, now) # {}
    /\ assignment' = [assignment EXCEPT ![i] = Granted(c, user, role, offer)]
    /\ handed' = handed \cup Handed(c, offer)
    /\ UNCHANGED <<now, roleKeys>>

(* assignRole: the granter must administer the scope granted, and only a   *)
(* super admin grants the super-admin role.                                *)
AssignRole(c, i, user, role, offer) ==
    /\ Return(c)
    /\ assignment[i] = None
    /\ roleKeys[role] # None
    /\ role = SuperRole => req[c].isSuperAdmin
    /\ Can(req[c], ManagePermissions, offer.scope, now)
    /\ assignment' = [assignment EXCEPT ![i] = Granted(c, user, role, offer)]
    /\ handed' = handed \cup Handed(c, offer)
    /\ UNCHANGED <<now, roleKeys>>

(* removeAssignment *)
RemoveAssignment(c, i) ==
    /\ Return(c)
    /\ assignment[i] # None
    /\ Can(req[c], ManagePermissions, assignment[i].scope, now)
    /\ assignment' = [assignment EXCEPT ![i] = None]
    /\ UNCHANGED <<now, roleKeys, handed>>

PassTime ==
    /\ now < MaxTime
    /\ now' = now + 1
    /\ UNCHANGED <<roleKeys, assignment, handed, pc, req>>

-----------------------------------------------------------------------------

(* A fresh installation: the super-admin role and nothing assigned. *)
Init ==
    /\ now = 0
    /\ roleKeys = [r \in Roles |-> IF r = SuperRole THEN {Everything} ELSE None]
    /\ assignment = [i \in Ids |-> None]
    /\ handed = {}
    /\ pc = [c \in Clients |-> "idle"]
    /\ req = [c \in Clients |-> None]

Administer(c) ==
    \/ \E u \in Users : Arrive(c, u)
    \/ Leave(c)
    \/ \E r \in Roles, keys \in Forms :
          CreateRole(c, r, keys) \/ UpdateRole(c, r, keys)
    \/ \E i \in Ids, u \in Users, r \in Roles, o \in Offers : AssignRole(c, i, u, r, o)
    \/ \E i \in Ids : RemoveAssignment(c, i)

Next == PassTime \/ \E c \in Clients : Administer(c)

Spec == Init /\ [][Next]_vars

-----------------------------------------------------------------------------
(* Properties *)

Assignment == [user : Users, role : Roles, scope : Scope, module : Modules \cup {None},
               expires : Nat \cup {None}, grantedBy : Users]

PermissionSet == SUBSET (Keys \cup {Everything})

Loaded == [keys : PermissionSet, scope : Scope,
           module : Modules \cup {None}, expires : Nat \cup {None}]

Principal == [user : Users, isSuperAdmin : BOOLEAN, assignments : SUBSET Loaded]

(* Rows and principals hold values of their types, and who is assigned a   *)
(* role has one that exists.                                               *)
TypeOK ==
    /\ now \in Nat
    /\ roleKeys \in [Roles -> PermissionSet \cup {None}]
    /\ assignment \in [Ids -> Assignment \cup {None}]
    /\ handed \subseteq Scope
    /\ pc \in [Clients -> {"idle", "loaded"}]
    /\ req \in [Clients -> Principal \cup {None}]
    /\ \A c \in Clients : pc[c] = "loaded" => req[c] \in Principal
    /\ \A i \in Ids : assignment[i] # None => roleKeys[assignment[i].role] # None

(* The record of a model that has the columns dims. *)
Columns(record, dims) == [d \in Dims |-> IF d \in dims THEN record[d] ELSE None]

(* A record is on a list if and only if it can be opened on its own, and   *)
(* if and only if the action is allowed in its context, and whoever may    *)
(* open it is offered the company, brand or country that it belongs to:    *)
(* the filter, the guard, the yes or no and the choices agree for every    *)
(* principal in use, stale ones too, and for every key and model           *)
(* (lib/permissions/engine.ts:84-217).  Nothing leaves its type.           *)
EvaluationsAgree ==
    /\ TypeOK
    /\ \A p \in {req[c] : c \in Clients} \ {None}, key \in Keys :
        /\ \A dims \in SUBSET Dims :
              LET where == ScopeWhereFor(p, key, dims, now) IN
              \A row \in {Columns(record, dims) : record \in Scope} :
                  LET opened == RecordInScope(p, key, row, dims, now)
                  IN /\ Selects(where, row) <=> opened
                     /\ Can(p, key, row, now) <=> opened
        /\ \A dim \in Dims :
              LET offered == AccessibleScopeIds(p, key, dim, now) IN
              \A record \in Scope :
                  Can(p, key, record, now) /\ record[dim] # None => record[dim] \in offered

(* "Never a scope broader than their own": however administrators delegate *)
(* to each other, use principals loaded before a revocation and edit roles *)
(* underneath, no assignment reaches beyond a scope that a super admin     *)
(* handed out, and only super admins make super admins.                    *)
DelegationStaysWithin ==
    /\ \A i \in Ids : assignment[i] # None =>
         \E scope \in handed : Within(assignment[i].scope, scope)
    /\ \A i \in Ids : assignment[i] # None /\ assignment[i].role = SuperRole =>
         assignment[i].grantedBy \in Supers
    /\ \A r \in Roles \ {SuperRole} : roleKeys[r] # None => Everything \notin roleKeys[r]

=============================================================================
