--------------------------- MODULE MCPermissions ---------------------------
(* Permissions with two dimensions, an administrator and a colleague. *)
EXTENDS Permissions, TLC

CONSTANTS c1, c2, root, amy, a1, a2, super, admin

CatalogKeys == {ManagePermissions, <<"brands", "view">>}

(* A role may be saved with a wildcard that the catalog does not hold. *)
SomeForms == { {ManagePermissions}, {<<"brands", "view">>, Everything} }

In(company, brand) == [d \in Dims |-> IF d = "companyId" THEN company ELSE brand]

Offer(scope, module, expires) == [scope |-> scope, module |-> module, expires |-> expires]

(* A company, until a time; a brand, for a module; a brand of a company.   *)
SomeOffers ==
    { Offer(In("x", None), None, 1),
      Offer(In(None, "x"), "brands", None),
      Offer(In("x", "x"), None, None) }

Permuted == Permutations(Ids) \cup Permutations(Clients)

=============================================================================
