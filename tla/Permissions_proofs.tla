------------------------- MODULE Permissions_proofs -------------------------
(***************************************************************************)
(* Proofs about Permissions, for any clients, people, roles, catalog,      *)
(* dimensions, values and offers, at any time: type correctness, that the  *)
(* evaluations of the engine agree with each other on every principal in   *)
(* use, and that delegation never widens what was handed out.              *)
(***************************************************************************)
EXTENDS Permissions, TLAPS

-----------------------------------------------------------------------------
(* Type correctness *)

(* loadPrincipal yields a principal: what it resolves through a row is the *)
(* permissions of a role that exists.                                      *)
LEMMA LoadedPrincipal ==
    ASSUME TypeOK, NEW user \in Users
    PROVE  LoadPrincipal(user) \in Principal
<1>1. ASSUME NEW i \in Ids, assignment[i] # None
      PROVE  [keys |-> roleKeys[assignment[i].role], scope |-> assignment[i].scope,
              module |-> assignment[i].module, expires |-> assignment[i].expires]
                \in Loaded
  <2>1. assignment[i] \in Assignment
    BY <1>1 DEF TypeOK
  <2>2. roleKeys[assignment[i].role] \in PermissionSet
    BY <1>1, <2>1 DEF TypeOK, Assignment
  <2> QED
    BY <2>1, <2>2 DEF Assignment, Loaded
<1> QED
  BY <1>1 DEF LoadPrincipal, Principal

(* A handler that runs holds a principal. *)
LEMMA HeldPrincipal ==
    ASSUME TypeOK, NEW c \in Clients, pc[c] = "loaded"
    PROVE  req[c] \in Principal
BY DEF TypeOK

(* A step that ends a handler leaves every other one as it was. *)
LEMMA ReturnTyped ==
    ASSUME TypeOK, NEW c \in Clients, Return(c)
    PROVE  /\ pc' \in [Clients -> {"idle", "loaded"}]
           /\ req' \in [Clients -> Principal \cup {None}]
           /\ \A d \in Clients : pc'[d] = "loaded" => req'[d] \in Principal
BY DEF TypeOK, Return

(* Every state holds typed rows and principals, and no one is assigned a   *)
(* role that does not exist: createRole, updateRole, assignRole,           *)
(* removeAssignment and the requests that load a principal keep it so      *)
(* (domain/permissions-admin.ts).                                          *)
THEOREM TypeCorrect == Spec => []TypeOK
<1>1. Init => TypeOK
  BY PeopleAssumption DEF PeopleAssumption, Init, TypeOK, PermissionSet
<1>2. TypeOK /\ [Next]_vars => TypeOK'
  <2> SUFFICES ASSUME TypeOK, [Next]_vars PROVE TypeOK'
    OBVIOUS
  <2>1. CASE PassTime
    BY <2>1 DEF PassTime, TypeOK
  <2>2. ASSUME NEW c \in Clients, NEW u \in Users, Arrive(c, u) PROVE TypeOK'
    <3>1. LoadPrincipal(u) \in Principal
      BY LoadedPrincipal
    <3> QED
      BY <2>2, <3>1 DEF Arrive, TypeOK
  <2>3. ASSUME NEW c \in Clients, Leave(c) PROVE TypeOK'
    BY <2>3, ReturnTyped DEF Leave, TypeOK
  <2>4. ASSUME NEW c \in Clients, NEW r \in Roles, NEW keys \in Forms,
               CreateRole(c, r, keys) \/ UpdateRole(c, r, keys)
        PROVE  TypeOK'
    <3>1. keys \cap Keys \in PermissionSet /\ keys \cap Keys # None
      BY NullAssumption DEF NullAssumption, PermissionSet
    <3>2. Return(c) /\ UNCHANGED <<now, assignment, handed>>
          /\ roleKeys' = [roleKeys EXCEPT ![r] = keys \cap Keys]
      BY <2>4 DEF CreateRole, UpdateRole
    <3>3. \A i \in Ids : assignment'[i] # None => roleKeys'[assignment'[i].role] # None
      <4> SUFFICES ASSUME NEW i \in Ids, assignment[i] # None
                   PROVE  roleKeys'[assignment[i].role] # None
        BY <3>2
      <4>1. assignment[i].role \in Roles
        BY DEF TypeOK, Assignment
      <4> QED
        BY <3>1, <3>2, <4>1 DEF TypeOK
    <3> QED
      BY <3>1, <3>2, <3>3, ReturnTyped DEF TypeOK
  <2>5. ASSUME NEW c \in Clients, NEW i \in Ids, NEW u \in Users, NEW r \in Roles,
               NEW o \in Offers, AssignRole(c, i, u, r, o)
        PROVE  TypeOK'
    <3>1. req[c] \in Principal
      BY <2>5, HeldPrincipal DEF AssignRole, Return
    <3>2. o \in [scope : Scope, module : Modules \cup {None}, expires : Nat \cup {None}]
      BY OffersAssumption DEF OffersAssumption
    <3>3. Granted(c, u, r, o) \in Assignment /\ Granted(c, u, r, o).role = r
      BY <3>1, <3>2 DEF Granted, Assignment, Principal
    <3>4. handed' \subseteq Scope
      BY <2>5, <3>2 DEF AssignRole, Handed, TypeOK
    <3>5. /\ Return(c) /\ roleKeys[r] # None /\ UNCHANGED <<now, roleKeys>>
          /\ assignment' = [assignment EXCEPT ![i] = Granted(c, u, r, o)]
      BY <2>5 DEF AssignRole
    <3>6. assignment' \in [Ids -> Assignment \cup {None}]
      BY <3>3, <3>5 DEF TypeOK
    <3>7. \A j \in Ids : assignment'[j] # None => roleKeys'[assignment'[j].role] # None
      BY <3>3, <3>5 DEF TypeOK
    <3> QED
      BY <3>4, <3>5, <3>6, <3>7, ReturnTyped DEF TypeOK
  <2>6. ASSUME NEW c \in Clients, NEW i \in Ids, RemoveAssignment(c, i) PROVE TypeOK'
    BY <2>6, ReturnTyped DEF RemoveAssignment, TypeOK
  <2>7. CASE UNCHANGED vars
    BY <2>7 DEF vars, TypeOK
  <2> QED
    BY <2>1, <2>2, <2>3, <2>4, <2>5, <2>6, <2>7 DEF Next, Administer
<1> QED
  BY <1>1, <1>2, PTL DEF Spec

-----------------------------------------------------------------------------
(* The evaluations *)

(* A clause of a filter selects exactly the rows that its assignment's     *)
(* scope lets through, when the model has a column for every restriction.  *)
LEMMA ClauseSelects ==
    ASSUME NEW a \in Loaded, NEW dims \in SUBSET Dims, NEW row \in Scope,
           Restricted(a) \subseteq dims
    PROVE  LET clause == [d \in Restricted(a) \cap dims |-> a.scope[d]]
           IN (\A d \in DOMAIN clause : row[d] = clause[d])
                 <=> (\A d \in dims : a.scope[d] \in {None, row[d]})
<1> DEFINE clause == [d \in Restricted(a) \cap dims |-> a.scope[d]]
<1>1. DOMAIN clause = Restricted(a)
  OBVIOUS
<1>2. \A d \in Restricted(a) : clause[d] = a.scope[d]
  OBVIOUS
<1>3. (\A d \in DOMAIN clause : row[d] = clause[d])
         <=> (\A d \in Restricted(a) : row[d] = a.scope[d])
  BY <1>1, <1>2
<1>4. (\A d \in Restricted(a) : row[d] = a.scope[d])
         <=> (\A d \in dims : a.scope[d] \in {None, row[d]})
  BY DEF Restricted
<1> QED
  BY <1>3, <1>4

(* The filter of a list selects a row exactly when the guard of a single   *)
(* record lets the row through: the short cut for an unrestricted          *)
(* assignment and the assignments without a usable clause make no          *)
(* difference (scopeWhereFor, assertRecordInScope).                        *)
LEMMA ListAgreesWithGuard ==
    ASSUME NEW p \in Principal, NEW key, NEW time, NEW dims \in SUBSET Dims,
           NEW row \in Scope
    PROVE  Selects(ScopeWhereFor(p, key, dims, time), row)
              <=> RecordInScope(p, key, row, dims, time)
<1> DEFINE usable == {a \in Granting(p, key, time) : Restricted(a) \subseteq dims}
           Clause(a) == [d \in Restricted(a) \cap dims |-> a.scope[d]]
           clauses == {Clause(a) : a \in usable}
           all == [d \in {} |-> None]
           Lets(clause) == \A d \in DOMAIN clause : row[d] = clause[d]
<1>1. ScopeWhereFor(p, key, dims, time)
         = IF p.isSuperAdmin \/ all \in clauses THEN {all} ELSE clauses
  BY DEF ScopeWhereFor
<1>2. Lets(all)
  OBVIOUS
<1>3. \A a \in usable : a \in Loaded
  BY DEF Granting, Principal
<1>4. \A a \in usable : Lets(Clause(a)) <=> \A d \in dims : a.scope[d] \in {None, row[d]}
  BY <1>3, ClauseSelects
<1>5. (\E clause \in clauses : Lets(clause))
         <=> \E a \in usable : \A d \in dims : a.scope[d] \in {None, row[d]}
  <2> HIDE DEF usable, Clause, Lets
  <2> QED
    BY <1>4
<1>6. RecordInScope(p, key, row, dims, time)
         <=> p.isSuperAdmin \/ \E clause \in clauses : Lets(clause)
  <2> HIDE DEF clauses, Lets
  <2> QED
    BY <1>5 DEF RecordInScope
<1>7. Selects(ScopeWhereFor(p, key, dims, time), row)
         <=> \E clause \in ScopeWhereFor(p, key, dims, time) : Lets(clause)
  BY DEF Selects
<1> HIDE DEF clauses, Lets, all
<1> QED
  BY <1>1, <1>2, <1>6, <1>7

(* On a row of a model, the action is allowed in the row's context exactly *)
(* when the guard lets the row through: a restriction that the model has   *)
(* no column for fails in both (can, assertRecordInScope).                 *)
LEMMA ActionAgreesWithGuard ==
    ASSUME NEW p \in Principal, NEW key, NEW time, NEW dims \in SUBSET Dims,
           NEW record \in Scope
    PROVE  LET row == Columns(record, dims)
           IN Can(p, key, row, time) <=> RecordInScope(p, key, row, dims, time)
<1> DEFINE row == Columns(record, dims)
<1>1. row \in Scope /\ \A d \in Dims \ dims : row[d] = None
  BY DEF Columns, Scope
<1> HIDE DEF row
<1>2. ASSUME NEW a \in Granting(p, key, time)
      PROVE  Within(row, a.scope)
                <=> /\ Restricted(a) \subseteq dims
                    /\ \A d \in dims : a.scope[d] \in {None, row[d]}
  BY <1>1 DEF Within, Restricted
<1> QED
  BY <1>2 DEF Can, RecordInScope, row

(* Whoever may act on a record is offered the value that the record has in *)
(* a dimension (can, accessibleScopeIds).                                  *)
LEMMA ChoicesAreOffered ==
    ASSUME NEW p \in Principal, NEW key, NEW time, NEW dim \in Dims,
           NEW record \in Scope, Can(p, key, record, time), record[dim] # None
    PROVE  record[dim] \in AccessibleScopeIds(p, key, dim, time)
<1>1. record[dim] \in Values
  BY DEF Scope
<1>2. CASE p.isSuperAdmin
  BY <1>1, <1>2 DEF AccessibleScopeIds
<1>3. CASE \E a \in Granting(p, key, time) : Within(record, a.scope)
  <2>1. PICK a \in Granting(p, key, time) : Within(record, a.scope)
    BY <1>3
  <2>2. a.scope[dim] = None \/ a.scope[dim] = record[dim]
    BY <2>1 DEF Within
  <2> QED
    BY <1>1, <2>1, <2>2 DEF AccessibleScopeIds
<1> QED
  BY <1>2, <1>3 DEF Can

(* For every principal in use, with whatever was true when it was loaded,  *)
(* every key and every model, the list, the guard of a record, the yes or  *)
(* no and the choices on offer agree (lib/permissions/engine.ts:84-217).   *)
THEOREM AllEvaluationsAgree == Spec => []EvaluationsAgree
<1>1. TypeOK => EvaluationsAgree
  <2> SUFFICES ASSUME TypeOK, NEW p \in {req[c] : c \in Clients} \ {None}, NEW key \in Keys
               PROVE  /\ \A dims \in SUBSET Dims :
                            LET where == ScopeWhereFor(p, key, dims, now) IN
                            \A row \in {Columns(record, dims) : record \in Scope} :
                                LET opened == RecordInScope(p, key, row, dims, now)
                                IN /\ Selects(where, row) <=> opened
                                   /\ Can(p, key, row, now) <=> opened
                      /\ \A dim \in Dims :
                            LET offered == AccessibleScopeIds(p, key, dim, now) IN
                            \A record \in Scope :
                                Can(p, key, record, now) /\ record[dim] # None
                                   => record[dim] \in offered
    BY DEF EvaluationsAgree
  <2>1. p \in Principal
    BY DEF TypeOK
  <2>2. ASSUME NEW dims \in SUBSET Dims, NEW record \in Scope
        PROVE  LET row == Columns(record, dims)
                   opened == RecordInScope(p, key, row, dims, now)
               IN /\ Selects(ScopeWhereFor(p, key, dims, now), row) <=> opened
                  /\ Can(p, key, row, now) <=> opened
    <3>1. Columns(record, dims) \in Scope
      BY DEF Columns, Scope
    <3> QED
      BY <2>1, <3>1, ListAgreesWithGuard, ActionAgreesWithGuard
  <2> QED
    BY <2>1, <2>2, ChoicesAreOffered
<1> QED
  BY <1>1, TypeCorrect, PTL

-----------------------------------------------------------------------------
(* Delegation *)

(* What an administrator carries into a handler lies within what super     *)
(* admins handed out, even when the rows it was loaded from are gone, and  *)
(* the super-admin flag belongs to super admins.                           *)
CarriedStaysWithin ==
    \A c \in Clients : pc[c] = "loaded" =>
        /\ req[c].isSuperAdmin => req[c].user \in Supers
        /\ \A a \in req[c].assignments : \E scope \in handed : Within(a.scope, scope)

IInv == TypeOK /\ DelegationStaysWithin /\ CarriedStaysWithin

(* What lies within a scope that lies within another lies within the other.*)
LEMMA WithinIsTransitive ==
    ASSUME NEW inner, NEW middle, NEW outer,
           Within(inner, middle), Within(middle, outer)
    PROVE  Within(inner, outer)
BY DEF Within

(* A step that ends a handler and takes no scope back keeps what the other *)
(* handlers carry within bounds.                                           *)
LEMMA ReturnCarries ==
    ASSUME IInv, NEW c \in Clients, Return(c), handed \subseteq handed'
    PROVE  CarriedStaysWithin'
<1> SUFFICES ASSUME NEW d \in Clients, pc'[d] = "loaded"
             PROVE  /\ req'[d].isSuperAdmin => req'[d].user \in Supers
                    /\ \A a \in req'[d].assignments :
                          \E scope \in handed' : Within(a.scope, scope)
  BY DEF CarriedStaysWithin
<1>1. d # c /\ pc[d] = "loaded" /\ req'[d] = req[d]
  BY DEF Return, IInv, TypeOK
<1> QED
  BY <1>1 DEF IInv, CarriedStaysWithin

(* A scope that a principal may administer lies within one that was handed *)
(* out, once this principal has handed it out if it is a super admin.      *)
LEMMA GrantStaysWithin ==
    ASSUME IInv, NEW c \in Clients, pc[c] = "loaded", NEW o \in Offers,
           Can(req[c], ManagePermissions, o.scope, now)
    PROVE  \E scope \in handed \cup Handed(c, o) : Within(o.scope, scope)
<1>1. CASE req[c].isSuperAdmin
  BY <1>1 DEF Handed, Within
<1>2. CASE \E a \in Granting(req[c], ManagePermissions, now) : Within(o.scope, a.scope)
  <2>1. PICK a \in req[c].assignments : Within(o.scope, a.scope)
    BY <1>2 DEF Granting
  <2>2. PICK scope \in handed : Within(a.scope, scope)
    BY DEF IInv, CarriedStaysWithin
  <2> QED
    BY <2>1, <2>2, WithinIsTransitive
<1> QED
  BY <1>1, <1>2 DEF Can

(* The rows and the roles behave while a handler loads, ends, edits a role,*)
(* grants or revokes.                                                      *)
LEMMA IInvPreserved == IInv /\ TypeOK' /\ [Next]_vars => IInv'
<1> SUFFICES ASSUME IInv, TypeOK', [Next]_vars
             PROVE  DelegationStaysWithin' /\ CarriedStaysWithin'
  BY DEF IInv
<1>1. CASE PassTime
  BY <1>1 DEF PassTime, IInv, DelegationStaysWithin, CarriedStaysWithin
<1>2. ASSUME NEW c \in Clients, NEW u \in Users, Arrive(c, u)
      PROVE  DelegationStaysWithin' /\ CarriedStaysWithin'
  <2>1. DelegationStaysWithin'
    BY <1>2 DEF Arrive, IInv, DelegationStaysWithin
  <2>2. ASSUME NEW a \in LoadPrincipal(u).assignments
        PROVE  \E scope \in handed : Within(a.scope, scope)
    <3>1. PICK i \in Ids : assignment[i] # None /\ a.scope = assignment[i].scope
      BY DEF LoadPrincipal
    <3> QED
      BY <3>1 DEF IInv, DelegationStaysWithin
  <2>3. LoadPrincipal(u).isSuperAdmin => LoadPrincipal(u).user \in Supers
    BY DEF LoadPrincipal
  <2> HIDE DEF LoadPrincipal
  <2>4. CarriedStaysWithin'
    <3> SUFFICES ASSUME NEW d \in Clients, pc'[d] = "loaded"
                 PROVE  /\ req'[d].isSuperAdmin => req'[d].user \in Supers
                        /\ \A a \in req'[d].assignments :
                              \E scope \in handed' : Within(a.scope, scope)
      BY DEF CarriedStaysWithin
    <3>1. CASE d = c
      BY <1>2, <2>2, <2>3, <3>1 DEF Arrive, IInv, TypeOK
    <3>2. CASE d # c
      BY <1>2, <3>2 DEF Arrive, IInv, TypeOK, CarriedStaysWithin
    <3> QED
      BY <3>1, <3>2
  <2> QED
    BY <2>1, <2>4
<1>3. ASSUME NEW c \in Clients, Leave(c)
      PROVE  DelegationStaysWithin' /\ CarriedStaysWithin'
  BY <1>3, ReturnCarries DEF Leave, IInv, DelegationStaysWithin
<1>4. ASSUME NEW c \in Clients, NEW r \in Roles, NEW keys \in Forms,
             CreateRole(c, r, keys) \/ UpdateRole(c, r, keys)
      PROVE  DelegationStaysWithin' /\ CarriedStaysWithin'
  <2>1. /\ Return(c) /\ UNCHANGED <<assignment, handed>>
        /\ roleKeys' = [roleKeys EXCEPT ![r] = keys \cap Keys]
    BY <1>4 DEF CreateRole, UpdateRole
  <2>2. Everything \notin keys \cap Keys
    BY KeysAssumption DEF KeysAssumption
  <2>3. DelegationStaysWithin'
    BY <2>1, <2>2 DEF IInv, DelegationStaysWithin, TypeOK
  <2> QED
    BY <2>1, <2>3, ReturnCarries
<1>5. ASSUME NEW c \in Clients, NEW i \in Ids, NEW u \in Users, NEW r \in Roles,
             NEW o \in Offers, AssignRole(c, i, u, r, o)
      PROVE  DelegationStaysWithin' /\ CarriedStaysWithin'
  <2>1. /\ Return(c) /\ pc[c] = "loaded" /\ roleKeys' = roleKeys
        /\ r = SuperRole => req[c].isSuperAdmin
        /\ assignment' = [assignment EXCEPT ![i] = Granted(c, u, r, o)]
        /\ handed' = handed \cup Handed(c, o)
    BY <1>5 DEF AssignRole, Return
  <2>2. \E scope \in handed' : Within(o.scope, scope)
    BY <1>5, <2>1, GrantStaysWithin DEF AssignRole
  <2>3. /\ Granted(c, u, r, o).scope = o.scope /\ Granted(c, u, r, o).role = r
        /\ Granted(c, u, r, o).grantedBy = req[c].user
    BY DEF Granted
  <2>4. r = SuperRole => req[c].user \in Supers
    BY <2>1 DEF IInv, CarriedStaysWithin
  <2>5. ASSUME NEW j \in Ids, assignment'[j] # None
        PROVE  /\ \E scope \in handed' : Within(assignment'[j].scope, scope)
               /\ assignment'[j].role = SuperRole => assignment'[j].grantedBy \in Supers
    <3>1. CASE j = i
      BY <2>1, <2>2, <2>3, <2>4, <3>1 DEF IInv, TypeOK
    <3>2. CASE j # i
      BY <2>1, <2>5, <3>2 DEF IInv, TypeOK, DelegationStaysWithin
    <3> QED
      BY <3>1, <3>2
  <2>6. DelegationStaysWithin'
    BY <2>1, <2>5 DEF IInv, DelegationStaysWithin
  <2> QED
    BY <2>1, <2>6, ReturnCarries
<1>6. ASSUME NEW c \in Clients, NEW i \in Ids, RemoveAssignment(c, i)
      PROVE  DelegationStaysWithin' /\ CarriedStaysWithin'
  <2>1. /\ Return(c) /\ UNCHANGED <<roleKeys, handed>>
        /\ assignment' = [assignment EXCEPT ![i] = None]
    BY <1>6 DEF RemoveAssignment
  <2>2. DelegationStaysWithin'
    BY <2>1 DEF IInv, TypeOK, DelegationStaysWithin
  <2> QED
    BY <2>1, <2>2, ReturnCarries
<1>7. CASE UNCHANGED vars
  BY <1>7 DEF vars, IInv, DelegationStaysWithin, CarriedStaysWithin
<1> QED
  BY <1>1, <1>2, <1>3, <1>4, <1>5, <1>6, <1>7 DEF Next, Administer

(* Nobody delegates more than was handed out: however administrators       *)
(* delegate to each other, act on principals loaded before a revocation    *)
(* and edit roles underneath, every assignment lies within a scope that a  *)
(* super admin handed out, only super admins make super admins, and no     *)
(* other role holds the wildcard (assignRole, createRole, updateRole).     *)
THEOREM DelegationNeverWidens == Spec => []DelegationStaysWithin
<1>1. Init => IInv
  <2>1. Init => DelegationStaysWithin /\ CarriedStaysWithin
    BY DEF Init, DelegationStaysWithin, CarriedStaysWithin
  <2>2. Init => TypeOK
    BY PeopleAssumption DEF PeopleAssumption, Init, TypeOK, PermissionSet
  <2> QED
    BY <2>1, <2>2 DEF IInv
<1>2. IInv => DelegationStaysWithin
  BY DEF IInv
<1> QED
  BY <1>1, <1>2, TypeCorrect, IInvPreserved, PTL DEF Spec

=============================================================================
