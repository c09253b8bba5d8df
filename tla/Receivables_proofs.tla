------------------------ MODULE Receivables_proofs ------------------------
(***************************************************************************)
(* Proofs about Receivables, for any documents, amounts, lists and bounds. *)
(* Types hold however the handlers interleave; so does NoOverAllocation    *)
(* while invoices are paid by receipts of one year only.  The tie-out, the *)
(* match of documents and entries, and the finality of a settled status    *)
(* hold when requests are made one at a time.                              *)
(*                                                                         *)
(* The properties speak of sums.  SumFunctionOnSet is a recursion over the *)
(* subsets of a set, so the module begins with an induction over the       *)
(* naturals that is stated with a set, and with what those sums add up to. *)
(***************************************************************************)
EXTENDS Receivables, FiniteSetTheorems, WellFoundedInduction, TLAPS

-----------------------------------------------------------------------------
(* Naturals *)

(* A set of naturals that is not empty has a least element. *)
LEMMA LeastNatural ==
    ASSUME NEW S, S \subseteq Nat, S # {}
    PROVE  \E n \in S : \A m \in S : n <= m
<1>1. PICK R : R = OpToRel(<, Nat)
  OBVIOUS
<1>2. IsWellFoundedOn(R, Nat)
  BY <1>1, NatLessThanWellFounded
<1>3. PICK n \in S : \A m \in S : <<m, n>> \notin R
  BY <1>2, WFMin
<1>4. \A m \in S : ~(m < n)
  BY <1>1, <1>3 DEF OpToRel
<1> QED
  BY <1>4

(* A set of naturals that holds 0 and the successors of its elements holds *)
(* all of them.                                                            *)
LEMMA AllNaturals ==
    ASSUME NEW S, 0 \in S, \A n \in Nat : n \in S => n + 1 \in S
    PROVE  \A n \in Nat : n \in S
<1> SUFFICES ASSUME NEW n \in Nat, n \notin S PROVE FALSE
  OBVIOUS
<1>1. PICK least \in Nat \ S : \A m \in Nat \ S : least <= m
  BY LeastNatural
<1>2. least - 1 \in Nat
  BY <1>1
<1>3. least - 1 \in S
  BY <1>1, <1>2
<1> QED
  BY <1>1, <1>2, <1>3

-----------------------------------------------------------------------------
(* The recursion *)

(* The element that the recursion takes away first. *)
First(s) == CHOOSE x \in s : TRUE

(* The sums over the subsets of S, as the recursion has them. *)
SumsOver(f, S, g) ==
    g = [s \in SUBSET S |-> IF s = {} THEN 0 ELSE f[First(s)] + g[s \ {First(s)}]]

(* ... over those with up to n elements. *)
UpTo(S, n) == {s \in SUBSET S : Cardinality(s) <= n}

(* ... and the recursion over these. *)
SumsUpTo(f, S, n, g) ==
    g = [s \in UpTo(S, n) |-> IF s = {} THEN 0 ELSE f[First(s)] + g[s \ {First(s)}]]

(* What is left of a finite set has one element less. *)
LEMMA Rest ==
    ASSUME NEW S, IsFiniteSet(S), NEW s \in SUBSET S, s # {}
    PROVE  /\ First(s) \in s /\ s \ {First(s)} \in SUBSET S
           /\ IsFiniteSet(s) /\ Cardinality(s) \in Nat
           /\ Cardinality(s \ {First(s)}) = Cardinality(s) - 1
           /\ Cardinality(s) # 0
<1>1. First(s) \in s
  BY DEF First
<1>2. IsFiniteSet(s) /\ Cardinality(s) \in Nat
  BY FS_Subset, FS_CardinalityType
<1>3. Cardinality(s \ {First(s)}) = Cardinality(s) - 1
  BY <1>1, <1>2, FS_RemoveElement
<1>4. Cardinality(s) # 0
  BY <1>2, FS_EmptySet
<1> QED
  BY <1>1, <1>2, <1>3, <1>4

(* The recursion is well defined. *)
LEMMA SumsExist ==
    ASSUME NEW f, NEW S, IsFiniteSet(S)
    PROVE  \E g : SumsOver(f, S, g)
<1> DEFINE Fine == {n \in Nat : \E g : SumsUpTo(f, S, n, g)}
<1>a. \A s \in SUBSET S : Cardinality(s) \in Nat /\ (Cardinality(s) = 0 <=> s = {})
  BY FS_Subset, FS_CardinalityType, FS_EmptySet
<1>1. 0 \in Fine
  <2>1. PICK g : g = [s \in UpTo(S, 0) |-> 0]
    OBVIOUS
  <2>2. \A s \in UpTo(S, 0) : s = {}
    BY <1>a DEF UpTo
  <2>3. g = [s \in UpTo(S, 0) |-> IF s = {} THEN 0 ELSE f[First(s)] + g[s \ {First(s)}]]
    BY <2>1, <2>2
  <2> QED
    BY <2>3 DEF SumsUpTo
<1>2. ASSUME NEW n \in Nat, n \in Fine PROVE n + 1 \in Fine
  <2>1. PICK g : SumsUpTo(f, S, n, g)
    BY <1>2
  <2>2. PICK h : h = [s \in UpTo(S, n + 1) |->
                         IF s = {} THEN 0 ELSE f[First(s)] + g[s \ {First(s)}]]
    OBVIOUS
  <2>3. \A s \in UpTo(S, n) : s \in UpTo(S, n + 1) /\ h[s] = g[s]
    <3>1. \A s \in UpTo(S, n) : s \in UpTo(S, n + 1)
      BY <1>a DEF UpTo
    <3>2. \A s \in UpTo(S, n) :
             g[s] = IF s = {} THEN 0 ELSE f[First(s)] + g[s \ {First(s)}]
      BY <2>1 DEF SumsUpTo
    <3> QED
      BY <2>2, <3>1, <3>2
  <2>4. \A s \in UpTo(S, n + 1) : s # {} => s \ {First(s)} \in UpTo(S, n)
    BY <1>a, Rest DEF UpTo
  <2>5. h = [s \in UpTo(S, n + 1) |->
                IF s = {} THEN 0 ELSE f[First(s)] + h[s \ {First(s)}]]
    BY <2>2, <2>3, <2>4
  <2>6. SumsUpTo(f, S, n + 1, h)
    BY <2>5 DEF SumsUpTo
  <2>7. \E k : SumsUpTo(f, S, n + 1, k)
    BY <2>6
  <2> QED
    BY <2>7
<1>3. Cardinality(S) \in Fine
  <2> HIDE DEF Fine
  <2> QED
    BY <1>1, <1>2, AllNaturals, FS_CardinalityType
<1>4. UpTo(S, Cardinality(S)) = SUBSET S
  BY FS_Subset DEF UpTo
<1> QED
  BY <1>3, <1>4 DEF SumsUpTo, SumsOver

(* The recursion adds up the same whatever set it is started from, and     *)
(* whatever else the functions hold.                                       *)
LEMMA SumsAgree ==
    ASSUME NEW f, NEW e, NEW S, IsFiniteSet(S), NEW T \in SUBSET S,
           NEW g, SumsOver(f, S, g), NEW h, SumsOver(e, T, h),
           \A x \in T : f[x] = e[x]
    PROVE  \A s \in SUBSET T : g[s] = h[s]
<1> DEFINE Same == {n \in Nat : \A s \in SUBSET T : Cardinality(s) = n => g[s] = h[s]}
<1>a. \A s \in SUBSET T : Cardinality(s) \in Nat /\ (Cardinality(s) = 0 <=> s = {})
  BY FS_Subset, FS_CardinalityType, FS_EmptySet
<1>b. \A s \in SUBSET T :
         /\ g[s] = IF s = {} THEN 0 ELSE f[First(s)] + g[s \ {First(s)}]
         /\ h[s] = IF s = {} THEN 0 ELSE e[First(s)] + h[s \ {First(s)}]
  BY DEF SumsOver
<1>1. 0 \in Same
  BY <1>a, <1>b
<1>2. ASSUME NEW n \in Nat, n \in Same PROVE n + 1 \in Same
  <2> SUFFICES ASSUME NEW s \in SUBSET T, Cardinality(s) = n + 1 PROVE g[s] = h[s]
    OBVIOUS
  <2>1. s # {}
    BY <1>a
  <2>2. IsFiniteSet(T)
    BY FS_Subset
  <2>3. First(s) \in T /\ s \ {First(s)} \in SUBSET T
        /\ Cardinality(s \ {First(s)}) = n
    BY <2>1, <2>2, Rest
  <2>4. g[s \ {First(s)}] = h[s \ {First(s)}]
    BY <1>2, <2>3
  <2> QED
    BY <1>b, <2>1, <2>3, <2>4
<1>3. \A n \in Nat : n \in Same
  <2> HIDE DEF Same
  <2> QED
    BY <1>1, <1>2, AllNaturals
<1> QED
  BY <1>a, <1>3

(* What the operator returns is what the recursion has. *)
LEMMA SumIsOver ==
    ASSUME NEW f, NEW S, IsFiniteSet(S)
    PROVE  \E g : SumsOver(f, S, g) /\ SumFunctionOnSet(f, S) = g[S]
<1>1. SumFunctionOnSet(f, S) =
        (CHOOSE g : g = [s \in SUBSET S |->
             IF s = {} THEN 0
             ELSE f[CHOOSE x \in s : TRUE] + g[s \ {CHOOSE x \in s : TRUE}]])[S]
  BY DEF SumFunctionOnSet, FoldFunctionOnSet, MapThenFoldSet
<1>2. PICK h : SumsOver(f, S, h)
  BY SumsExist
<1>3. h = [s \in SUBSET S |->
             IF s = {} THEN 0
             ELSE f[CHOOSE x \in s : TRUE] + h[s \ {CHOOSE x \in s : TRUE}]]
  BY <1>2 DEF SumsOver, First
<1>4. PICK r : r = CHOOSE g : g = [s \in SUBSET S |->
             IF s = {} THEN 0
             ELSE f[CHOOSE x \in s : TRUE] + g[s \ {CHOOSE x \in s : TRUE}]]
  OBVIOUS
<1>5. r = [s \in SUBSET S |->
             IF s = {} THEN 0
             ELSE f[CHOOSE x \in s : TRUE] + r[s \ {CHOOSE x \in s : TRUE}]]
  <2>1. \E k : k = [s \in SUBSET S |->
             IF s = {} THEN 0
             ELSE f[CHOOSE x \in s : TRUE] + k[s \ {CHOOSE x \in s : TRUE}]]
    BY <1>3
  <2> QED
    BY <1>4, <2>1
<1>6. SumsOver(f, S, r)
  BY <1>5 DEF SumsOver, First
<1> QED
  BY <1>1, <1>4, <1>6

-----------------------------------------------------------------------------
(* Sums *)

(* The sum over no elements is 0; over some, it is the value of the first  *)
(* element and the sum over the others.                                    *)
LEMMA SumFirst ==
    ASSUME NEW f, NEW S, IsFiniteSet(S)
    PROVE  SumFunctionOnSet(f, S) =
              IF S = {} THEN 0
              ELSE f[First(S)] + SumFunctionOnSet(f, S \ {First(S)})
<1>1. PICK g : SumsOver(f, S, g) /\ SumFunctionOnSet(f, S) = g[S]
  BY SumIsOver
<1>2. g[S] = IF S = {} THEN 0 ELSE f[First(S)] + g[S \ {First(S)}]
  BY <1>1 DEF SumsOver
<1>3. PICK T : T = S \ {First(S)}
  OBVIOUS
<1>4. T \in SUBSET S /\ IsFiniteSet(T)
  BY <1>3, FS_Subset
<1>5. PICK h : SumsOver(f, T, h) /\ SumFunctionOnSet(f, T) = h[T]
  BY <1>4, SumIsOver
<1>6. \A s \in SUBSET T : g[s] = h[s]
  BY <1>1, <1>4, <1>5, SumsAgree
<1>7. g[T] = h[T]
  BY <1>6
<1> QED
  BY <1>1, <1>2, <1>3, <1>5, <1>7

(* Functions that agree on a set have the same sum over it. *)
LEMMA SumSame ==
    ASSUME NEW f, NEW e, NEW S, IsFiniteSet(S), \A x \in S : f[x] = e[x]
    PROVE  SumFunctionOnSet(f, S) = SumFunctionOnSet(e, S)
<1>1. PICK g : SumsOver(f, S, g) /\ SumFunctionOnSet(f, S) = g[S]
  BY SumIsOver
<1>2. PICK h : SumsOver(e, S, h) /\ SumFunctionOnSet(e, S) = h[S]
  BY SumIsOver
<1>3. PICK T : T = S
  OBVIOUS
<1>4. \A s \in SUBSET S : g[s] = h[s]
  <2>1. T \in SUBSET S /\ SumsOver(e, T, h) /\ \A x \in T : f[x] = e[x]
    BY <1>2, <1>3
  <2>2. \A s \in SUBSET T : g[s] = h[s]
    BY <1>1, <2>1, SumsAgree
  <2> QED
    BY <1>3, <2>2
<1>5. g[S] = h[S]
  BY <1>4
<1> QED
  BY <1>1, <1>2, <1>5

(* A set that holds 0 and is closed under addition holds the sums of its   *)
(* elements.                                                               *)
LEMMA SumType ==
    ASSUME NEW D, 0 \in D, \A a \in D : \A b \in D : a + b \in D,
           NEW f, NEW S, IsFiniteSet(S), \A x \in S : f[x] \in D
    PROVE  SumFunctionOnSet(f, S) \in D
<1> DEFINE Fine == {n \in Nat : \A s \in SUBSET S :
                       Cardinality(s) = n => SumFunctionOnSet(f, s) \in D}
<1>a. \A s \in SUBSET S : /\ IsFiniteSet(s) /\ Cardinality(s) \in Nat
                           /\ (Cardinality(s) = 0 <=> s = {})
  BY FS_Subset, FS_CardinalityType, FS_EmptySet
<1>1. 0 \in Fine
  <2>1. SumFunctionOnSet(f, {}) = 0
    BY SumFirst, FS_EmptySet
  <2> QED
    BY <1>a, <2>1
<1>2. ASSUME NEW n \in Nat, n \in Fine PROVE n + 1 \in Fine
  <2> SUFFICES ASSUME NEW s \in SUBSET S, Cardinality(s) = n + 1
               PROVE  SumFunctionOnSet(f, s) \in D
    OBVIOUS
  <2>1. s # {} /\ IsFiniteSet(s)
    BY <1>a
  <2>2. SumFunctionOnSet(f, s) = f[First(s)] + SumFunctionOnSet(f, s \ {First(s)})
    BY <2>1, SumFirst
  <2>3. First(s) \in S /\ s \ {First(s)} \in SUBSET S
        /\ Cardinality(s \ {First(s)}) = n
    BY <2>1, Rest
  <2>4. SumFunctionOnSet(f, s \ {First(s)}) \in D
    BY <1>2, <2>3
  <2> QED
    BY <2>2, <2>3, <2>4
<1>3. Cardinality(S) \in Fine
  <2> HIDE DEF Fine
  <2> QED
    BY <1>1, <1>2, AllNaturals, FS_CardinalityType
<1> QED
  BY <1>3

(* The sum over any other order: each element may be taken away first. *)
LEMMA SumRemove ==
    ASSUME NEW f, NEW S, IsFiniteSet(S), \A x \in S : f[x] \in Int
    PROVE  /\ SumFunctionOnSet(f, S) \in Int
           /\ \A x \in S : SumFunctionOnSet(f, S) = f[x] + SumFunctionOnSet(f, S \ {x})
<1> DEFINE Good(s) == /\ SumFunctionOnSet(f, s) \in Int
                      /\ \A x \in s : SumFunctionOnSet(f, s) =
                                          f[x] + SumFunctionOnSet(f, s \ {x})
           Fine == {n \in Nat : \A s \in SUBSET S : Cardinality(s) = n => Good(s)}
<1>a. \A s \in SUBSET S : /\ IsFiniteSet(s) /\ Cardinality(s) \in Nat
                           /\ (Cardinality(s) = 0 <=> s = {})
  BY FS_Subset, FS_CardinalityType, FS_EmptySet
<1>b. \A s \in SUBSET S : \A x \in s :
         s \ {x} \in SUBSET S /\ Cardinality(s \ {x}) = Cardinality(s) - 1
  <2> TAKE s \in SUBSET S
  <2> TAKE x \in s
  <2>1. IsFiniteSet(s)
    BY <1>a
  <2> QED
    BY <2>1, FS_RemoveElement
<1>1. 0 \in Fine
  <2>1. SumFunctionOnSet(f, {}) = 0
    BY SumFirst, FS_EmptySet
  <2>2. Good({})
    BY <2>1
  <2> QED
    BY <1>a, <2>2
<1>2. ASSUME NEW n \in Nat, n \in Fine PROVE n + 1 \in Fine
  <2> SUFFICES ASSUME NEW s \in SUBSET S, Cardinality(s) = n + 1 PROVE Good(s)
    OBVIOUS
  <2>1. PICK a : a = First(s)
    OBVIOUS
  <2>2. s # {} /\ a \in s
    BY <1>a, <2>1 DEF First
  <2>3. PICK t : t = s \ {a}
    OBVIOUS
  <2>4. SumFunctionOnSet(f, s) = f[a] + SumFunctionOnSet(f, t)
    BY <1>a, <2>1, <2>2, <2>3, SumFirst
  <2>5. t \in SUBSET S /\ Cardinality(t) = n
    BY <1>b, <2>2, <2>3
  <2>6. Good(t)
    BY <1>2, <2>5
  <2>7. ASSUME NEW x \in s
        PROVE  SumFunctionOnSet(f, s) = f[x] + SumFunctionOnSet(f, s \ {x})
    <3>1. CASE x = a
      BY <2>3, <2>4, <3>1
    <3>2. CASE x # a
      <4>1. PICK u : u = s \ {x}
        OBVIOUS
      <4>2. u \in SUBSET S /\ Cardinality(u) = n /\ a \in u
        BY <1>b, <2>2, <3>2, <4>1
      <4>3. Good(u)
        BY <1>2, <4>2
      <4>4. SumFunctionOnSet(f, u) = f[a] + SumFunctionOnSet(f, u \ {a})
        BY <4>2, <4>3
      <4>5. x \in t /\ t \ {x} = u \ {a}
        BY <2>3, <3>2, <4>1
      <4>6. SumFunctionOnSet(f, t) = f[x] + SumFunctionOnSet(f, t \ {x})
        BY <2>6, <4>5
      <4>7. u \ {a} \in SUBSET S /\ Cardinality(u \ {a}) = n - 1 /\ n - 1 \in Nat
        BY <1>a, <1>b, <4>2
      <4>8. SumFunctionOnSet(f, u) \in Int /\ f[a] \in Int /\ f[x] \in Int
        BY <2>2, <4>3
      <4>9. SumFunctionOnSet(f, u \ {a}) \in Int
        <5>1. \A y \in u \ {a} : f[y] \in Int
          BY <4>7
        <5>2. IsFiniteSet(u \ {a})
          BY <1>a, <4>7
        <5> QED
          BY <5>1, <5>2, SumType
      <4>10. PICK w : w = SumFunctionOnSet(f, u \ {a})
        OBVIOUS
      <4>11. SumFunctionOnSet(f, t) = f[x] + w
        BY <4>5, <4>6, <4>10
      <4>12. SumFunctionOnSet(f, u) = f[a] + w
        BY <4>4, <4>10
      <4>13. f[a] + (f[x] + w) = f[x] + (f[a] + w)
        BY <4>8, <4>9, <4>10
      <4>14. SumFunctionOnSet(f, s) = f[x] + SumFunctionOnSet(f, u)
        BY <2>4, <4>11, <4>12, <4>13
      <4> QED
        BY <4>1, <4>14
    <3> QED
      BY <3>1, <3>2
  <2> QED
    BY <2>2, <2>4, <2>6, <2>7
<1>3. Cardinality(S) \in Fine
  <2> HIDE DEF Fine
  <2> QED
    BY <1>1, <1>2, AllNaturals, FS_CardinalityType
<1> QED
  BY <1>3

(* Sums of integers, and of naturals. *)
LEMMA SumInt ==
    ASSUME NEW f, NEW S, IsFiniteSet(S), \A x \in S : f[x] \in Int
    PROVE  SumFunctionOnSet(f, S) \in Int
  BY SumRemove

(* Naturals add up to a natural. *)
LEMMA SumNat ==
    ASSUME NEW f, NEW S, IsFiniteSet(S), \A x \in S : f[x] \in Nat
    PROVE  SumFunctionOnSet(f, S) \in Nat
<1>1. 0 \in Nat /\ \A a \in Nat : \A b \in Nat : a + b \in Nat
  OBVIOUS
<1> QED
  BY <1>1, SumType

(* A sum of naturals is at least each of them. *)
LEMMA SumAtLeast ==
    ASSUME NEW f, NEW S, IsFiniteSet(S), \A x \in S : f[x] \in Nat, NEW x \in S
    PROVE  f[x] <= SumFunctionOnSet(f, S)
<1>1. IsFiniteSet(S \ {x}) /\ \A y \in S : f[y] \in Int
  BY FS_Subset
<1>2. SumFunctionOnSet(f, S) = f[x] + SumFunctionOnSet(f, S \ {x})
  BY <1>1, SumRemove
<1>3. SumFunctionOnSet(f, S \ {x}) \in Nat
  BY <1>1, SumNat
<1> QED
  BY <1>2, <1>3

(* Zeros add up to zero. *)
LEMMA SumZero ==
    ASSUME NEW f, NEW S, IsFiniteSet(S), \A x \in S : f[x] = 0
    PROVE  SumFunctionOnSet(f, S) = 0
<1>1. PICK D : D = {0}
  OBVIOUS
<1>2. SumFunctionOnSet(f, S) \in D
  BY <1>1, SumType
<1> QED
  BY <1>1, <1>2

(* Changing the value at one element changes the sum by as much. *)
LEMMA SumChange ==
    ASSUME NEW f, NEW e, NEW S, IsFiniteSet(S), NEW x \in S,
           \A y \in S : f[y] \in Int /\ e[y] \in Int,
           \A y \in S \ {x} : e[y] = f[y]
    PROVE  SumFunctionOnSet(e, S) = SumFunctionOnSet(f, S) + (e[x] - f[x])
<1>1. IsFiniteSet(S \ {x})
  BY FS_Subset
<1>2. SumFunctionOnSet(e, S \ {x}) = SumFunctionOnSet(f, S \ {x})
  BY <1>1, SumSame
<1>3. SumFunctionOnSet(f, S \ {x}) \in Int
  BY <1>1, SumInt
<1>4. SumFunctionOnSet(f, S) = f[x] + SumFunctionOnSet(f, S \ {x})
  BY SumRemove
<1>5. SumFunctionOnSet(e, S) = e[x] + SumFunctionOnSet(e, S \ {x})
  BY SumRemove
<1> QED
  BY <1>2, <1>3, <1>4, <1>5

(* A sum over one more element. *)
LEMMA SumAdd ==
    ASSUME NEW f, NEW S, IsFiniteSet(S), NEW x, x \notin S,
           f[x] \in Int, \A y \in S : f[y] \in Int
    PROVE  SumFunctionOnSet(f, S \cup {x}) = SumFunctionOnSet(f, S) + f[x]
<1>1. PICK T : T = S \cup {x}
  OBVIOUS
<1>2. IsFiniteSet(T)
  BY <1>1, FS_AddElement
<1>3. T \ {x} = S /\ x \in T /\ \A y \in T : f[y] \in Int
  BY <1>1
<1>4. SumFunctionOnSet(f, T) = f[x] + SumFunctionOnSet(f, T \ {x})
  BY <1>2, <1>3, SumRemove
<1>5. SumFunctionOnSet(f, S) \in Int
  BY SumInt
<1>6. SumFunctionOnSet(f, T) = f[x] + SumFunctionOnSet(f, S)
  BY <1>3, <1>4
<1>7. f[x] + SumFunctionOnSet(f, S) = SumFunctionOnSet(f, S) + f[x]
  BY <1>5
<1> QED
  BY <1>1, <1>6, <1>7

(* Sums add up element by element. *)
LEMMA SumPlus ==
    ASSUME NEW f, NEW e, NEW g, NEW S, IsFiniteSet(S),
           \A x \in S : f[x] \in Int /\ e[x] \in Int /\ g[x] = f[x] + e[x]
    PROVE  SumFunctionOnSet(g, S) = SumFunctionOnSet(f, S) + SumFunctionOnSet(e, S)
<1> DEFINE Fine == {n \in Nat : \A s \in SUBSET S : Cardinality(s) = n =>
                       SumFunctionOnSet(g, s) =
                           SumFunctionOnSet(f, s) + SumFunctionOnSet(e, s)}
<1>a. \A s \in SUBSET S : /\ IsFiniteSet(s) /\ Cardinality(s) \in Nat
                           /\ (Cardinality(s) = 0 <=> s = {})
  BY FS_Subset, FS_CardinalityType, FS_EmptySet
<1>1. 0 \in Fine
  <2>1. /\ SumFunctionOnSet(f, {}) = 0 /\ SumFunctionOnSet(e, {}) = 0
        /\ SumFunctionOnSet(g, {}) = 0
    BY SumFirst, FS_EmptySet
  <2>2. \A s \in SUBSET S : Cardinality(s) = 0 => s = {}
    BY <1>a
  <2>3. SumFunctionOnSet(g, {}) = SumFunctionOnSet(f, {}) + SumFunctionOnSet(e, {})
    BY <2>1
  <2> QED
    BY <2>2, <2>3
<1>2. ASSUME NEW n \in Nat, n \in Fine PROVE n + 1 \in Fine
  <2> SUFFICES ASSUME NEW s \in SUBSET S, Cardinality(s) = n + 1
               PROVE  SumFunctionOnSet(g, s) =
                          SumFunctionOnSet(f, s) + SumFunctionOnSet(e, s)
    OBVIOUS
  <2>1. s # {} /\ IsFiniteSet(s)
    BY <1>a
  <2>2. PICK a : a = First(s)
    OBVIOUS
  <2>3. PICK t : t = s \ {a}
    OBVIOUS
  <2>4. a \in S /\ t \in SUBSET S /\ Cardinality(t) = n /\ IsFiniteSet(t)
    <3>1. /\ First(s) \in s /\ s \ {First(s)} \in SUBSET S
          /\ Cardinality(s \ {First(s)}) = Cardinality(s) - 1
      BY <2>1, Rest
    <3> QED
      BY <1>a, <2>2, <2>3, <3>1
  <2>5. SumFunctionOnSet(f, s) = f[a] + SumFunctionOnSet(f, t)
    BY <2>1, <2>2, <2>3, SumFirst
  <2>6. SumFunctionOnSet(e, s) = e[a] + SumFunctionOnSet(e, t)
    BY <2>1, <2>2, <2>3, SumFirst
  <2>7. SumFunctionOnSet(g, s) = g[a] + SumFunctionOnSet(g, t)
    BY <2>1, <2>2, <2>3, SumFirst
  <2>8. SumFunctionOnSet(g, t) = SumFunctionOnSet(f, t) + SumFunctionOnSet(e, t)
    BY <1>2, <2>4
  <2>9. SumFunctionOnSet(f, t) \in Int /\ SumFunctionOnSet(e, t) \in Int
    BY <2>4, SumInt
  <2> QED
    BY <2>4, <2>5, <2>6, <2>7, <2>8, <2>9
<1>3. Cardinality(S) \in Fine
  <2> HIDE DEF Fine
  <2> QED
    BY <1>1, <1>2, AllNaturals, FS_CardinalityType
<1> QED
  BY <1>3

(* Sums over a list *)

(* A sum over one more index. *)
LEMMA SumNext ==
    ASSUME NEW n \in Nat, NEW f, \A k \in 1 .. n + 1 : f[k] \in Int
    PROVE  SumFunctionOnSet(f, 1 .. n + 1) = SumFunctionOnSet(f, 1 .. n) + f[n + 1]
<1>1. PICK S : S = 1 .. n
  OBVIOUS
<1>2. PICK T : T = 1 .. n + 1
  OBVIOUS
<1>3. PICK x : x = n + 1
  OBVIOUS
<1>4. IsFiniteSet(S)
  BY <1>1, FS_Interval
<1>5. T = S \cup {x} /\ x \notin S /\ f[x] \in Int /\ \A y \in S : f[y] \in Int
  BY <1>1, <1>2, <1>3
<1>6. SumFunctionOnSet(f, S \cup {x}) = SumFunctionOnSet(f, S) + f[x]
  BY <1>4, <1>5, SumAdd
<1> QED
  BY <1>1, <1>2, <1>3, <1>5, <1>6

(* A sum over a list, one element at a time. *)
LEMMA SumFirstOfList ==
    ASSUME NEW m \in Nat, NEW f, \A k \in 1 .. m + 1 : f[k] \in Int,
           NEW e, \A k \in 1 .. m : e[k] = f[k + 1]
    PROVE  SumFunctionOnSet(f, 1 .. m + 1) = f[1] + SumFunctionOnSet(e, 1 .. m)
<1> DEFINE Fine == {n \in Nat : n <= m =>
                       SumFunctionOnSet(f, 1 .. n + 1) = f[1] + SumFunctionOnSet(e, 1 .. n)}
<1>a. \A n \in Nat : IsFiniteSet(1 .. n)
  BY FS_Interval
<1>1. 0 \in Fine
  <2>1. SumFunctionOnSet(f, {}) = 0 /\ SumFunctionOnSet(e, {}) = 0
    BY SumFirst, FS_EmptySet
  <2>2. 0 \in Nat /\ \A k \in 1 .. 0 + 1 : f[k] \in Int
    OBVIOUS
  <2>3. SumFunctionOnSet(f, 1 .. 0 + 1) = SumFunctionOnSet(f, 1 .. 0) + f[0 + 1]
    BY <2>2, SumNext
  <2>4. 1 .. 0 = {} /\ f[0 + 1] = f[1] /\ f[1] \in Int
    BY <2>2
  <2> QED
    BY <2>1, <2>3, <2>4
<1>2. ASSUME NEW n \in Nat, n \in Fine PROVE n + 1 \in Fine
  <2> SUFFICES ASSUME n + 1 <= m
               PROVE  SumFunctionOnSet(f, 1 .. (n + 1) + 1) = f[1] + SumFunctionOnSet(e, 1 .. n + 1)
    OBVIOUS
  <2>1. SumFunctionOnSet(f, 1 .. n + 1) = f[1] + SumFunctionOnSet(e, 1 .. n)
    BY <1>2
  <2>2. /\ \A k \in 1 .. (n + 1) + 1 : f[k] \in Int
        /\ \A k \in 1 .. n + 1 : e[k] \in Int
    OBVIOUS
  <2>3. SumFunctionOnSet(f, 1 .. (n + 1) + 1) = SumFunctionOnSet(f, 1 .. n + 1) + f[(n + 1) + 1]
    BY <2>2, SumNext
  <2>4. SumFunctionOnSet(e, 1 .. n + 1) = SumFunctionOnSet(e, 1 .. n) + e[n + 1]
    BY <2>2, SumNext
  <2>5. e[n + 1] = f[(n + 1) + 1] /\ f[1] \in Int /\ e[n + 1] \in Int
    OBVIOUS
  <2>6. SumFunctionOnSet(e, 1 .. n) \in Int
    BY <1>a, <2>2, SumInt
  <2> QED
    BY <2>1, <2>3, <2>4, <2>5, <2>6
<1>3. m \in Fine
  <2> HIDE DEF Fine
  <2> QED
    BY <1>1, <1>2, AllNaturals
<1> QED
  BY <1>3

(* The amounts of a list that is typed add up to an integer. *)
LEMMA ListTotalType ==
    ASSUME NEW D, 0 \in D, \A a \in D : \A b \in D : a + b \in D,
           NEW T, NEW s \in Seq(T), \A x \in T : x.amount \in D
    PROVE  ListTotal(s) \in D
<1>1. IsFiniteSet(DOMAIN s)
  BY FS_Interval
<1>2. PICK f : f = [k \in DOMAIN s |-> s[k].amount]
  OBVIOUS
<1>3. \A k \in DOMAIN s : f[k] \in D
  BY <1>2
<1>4. SumFunctionOnSet(f, DOMAIN s) \in D
  BY <1>1, <1>3, SumType
<1> QED
  BY <1>2, <1>4 DEF ListTotal, SumFunction

(* ... and an empty one to nothing. *)
LEMMA ListTotalEmpty == ListTotal(<<>>) = 0
<1>1. PICK f : f = [k \in DOMAIN <<>> |-> <<>>[k].amount]
  OBVIOUS
<1>2. DOMAIN f = {}
  BY <1>1
<1>3. SumFunctionOnSet(f, {}) = 0
  BY SumFirst, FS_EmptySet
<1> QED
  BY <1>1, <1>2, <1>3 DEF ListTotal, SumFunction

(* One more element adds its amount. *)
LEMMA ListTotalAppend ==
    ASSUME NEW T, NEW s \in Seq(T), NEW x \in T, \A y \in T : y.amount \in Int
    PROVE  ListTotal(Append(s, x)) = ListTotal(s) + x.amount
<1>1. PICK f : f = [k \in DOMAIN Append(s, x) |-> Append(s, x)[k].amount]
  OBVIOUS
<1>2. PICK e : e = [k \in DOMAIN s |-> s[k].amount]
  OBVIOUS
<1>3. PICK n \in Nat : n = Len(s) /\ DOMAIN s = 1 .. n
  OBVIOUS
<1>4. DOMAIN Append(s, x) = 1 .. n + 1
  BY <1>3
<1>5. /\ f[n + 1] = x.amount /\ \A k \in 1 .. n : f[k] = e[k]
      /\ \A k \in 1 .. n + 1 : f[k] \in Int
  BY <1>1, <1>2, <1>3, <1>4
<1>6. SumFunctionOnSet(f, 1 .. n + 1) = SumFunctionOnSet(f, 1 .. n) + f[n + 1]
  BY <1>5, SumNext
<1>7. IsFiniteSet(1 .. n)
  BY FS_Interval
<1>8. SumFunctionOnSet(f, 1 .. n) = SumFunctionOnSet(e, 1 .. n)
  BY <1>5, <1>7, SumSame
<1>9. ListTotal(Append(s, x)) = SumFunctionOnSet(f, 1 .. n + 1)
  BY <1>1, <1>4 DEF ListTotal, SumFunction
<1>10. ListTotal(s) = SumFunctionOnSet(e, 1 .. n)
  BY <1>2, <1>3 DEF ListTotal, SumFunction
<1> QED
  BY <1>5, <1>6, <1>8, <1>9, <1>10

(* Taking the first element off takes its amount off. *)
LEMMA ListTotalTail ==
    ASSUME NEW T, NEW s \in Seq(T), s # <<>>, \A y \in T : y.amount \in Int
    PROVE  ListTotal(s) = Head(s).amount + ListTotal(Tail(s))
<1>1. PICK f : f = [k \in DOMAIN s |-> s[k].amount]
  OBVIOUS
<1>2. PICK e : e = [k \in DOMAIN Tail(s) |-> Tail(s)[k].amount]
  OBVIOUS
<1>3. PICK n \in Nat : n + 1 = Len(s)
  <2>1. Len(s) \in Nat /\ Len(s) # 0
    OBVIOUS
  <2>2. Len(s) - 1 \in Nat /\ (Len(s) - 1) + 1 = Len(s)
    BY <2>1
  <2> QED
    BY <2>2
<1>4. DOMAIN s = 1 .. n + 1 /\ DOMAIN Tail(s) = 1 .. n
  BY <1>3
<1>5. f[1] = Head(s).amount
  BY <1>1, <1>4
<1>6. \A k \in 1 .. n + 1 : f[k] \in Int
  BY <1>1, <1>4
<1>7. \A k \in 1 .. n : e[k] = f[k + 1]
  BY <1>1, <1>2, <1>4
<1>8. SumFunctionOnSet(f, 1 .. n + 1) = f[1] + SumFunctionOnSet(e, 1 .. n)
  BY <1>6, <1>7, SumFirstOfList
<1> QED
  BY <1>1, <1>2, <1>4, <1>5, <1>8 DEF ListTotal, SumFunction

(* Only the amounts count. *)
LEMMA ListTotalSame ==
    ASSUME NEW s, NEW t, DOMAIN s = DOMAIN t, \A k \in DOMAIN s : s[k].amount = t[k].amount
    PROVE  ListTotal(s) = ListTotal(t)
<1>1. [k \in DOMAIN s |-> s[k].amount] = [k \in DOMAIN t |-> t[k].amount]
  OBVIOUS
<1> QED
  BY <1>1 DEF ListTotal

(* A handler's request is one that its step works on, and of a kind that   *)
(* is made; an open allocation knows what it is about to write.            *)
RequestFits(c) ==
    /\ pc[c] # "idle" => req[c].kind \in Kinds
    /\ pc[c] = "checked" => req[c] \in DraftRequest \cup ListRequest \cup ReceiptRequest
    /\ pc[c] \in {"voiding", "reversing", "reversed"} =>
          req[c] \in VoidRequest /\ req[c].entry \in 1 .. Len(gl)
    /\ pc[c] = "reversed" => req[c].kind = "void"
    /\ pc[c] \in {"allocating", "writing"} => req[c] \in AllocationRequest \cup ReceiptRequest
    /\ pc[c] = "writing" => req[c].todo # <<>> /\ req[c].row \in Pending

(* The document that it is about is there. *)
DocumentExists(c) ==
    /\ pc[c] # "idle" /\ req[c].kind \in {"update", "issue", "void"} => invoice[req[c].doc] # None
    /\ pc[c] # "idle" /\ req[c].kind \in {"credit", "apply"} => credit[req[c].doc] # None
    /\ pc[c] # "idle" /\ req[c].kind = "allocate" => receipt[req[c].doc] # None

(* An invoice that was issued. *)
HasEntry(i) == invoice[i] # None /\ invoice[i].entry # 0

(* Only an open transaction has written rows, and it holds their locks;    *)
(* it writes rows of invoices that were issued.                            *)
RowsAreHeld(c) ==
    /\ DOMAIN made[c] = DOMAIN writes[c]
    /\ pc[c] \notin {"allocating", "writing"} => writes[c] = NoRows
    /\ \A i \in DOMAIN writes[c] : lock[i] = c /\ HasEntry(i)
    /\ pc[c] = "writing" => HasEntry(Head(req[c].todo).invoice)

(* What holds of a handler. *)
Fits(c) == RequestFits(c) /\ DocumentExists(c) /\ RowsAreHeld(c)

(* An invoice that was issued has an entry. *)
EntriesFit ==
    \A i \in Invoices : invoice[i] # None =>
        /\ invoice[i].entry \in 0 .. Len(gl)
        /\ invoice[i].status \notin {"draft", "void"} => invoice[i].entry # 0

(* The inductive invariant of the types: rows, requests and open           *)
(* transactions.                                                           *)
IInv == TypeOK /\ EntriesFit /\ \A c \in Clients : Fits(c)

-----------------------------------------------------------------------------
(* What the actions of c leave alone. *)
OthersStay(c) ==
    \A d \in Clients \ {c} :
        /\ pc'[d] = pc[d] /\ req'[d] = req[d] /\ writes'[d] = writes[d] /\ made'[d] = made[d]
        /\ \A x \in Lockable : lock[x] = d => lock'[x] = d

(* Rows are never deleted, nor entries. *)
TablesGrow ==
    /\ \A i \in Invoices : invoice[i] # None =>
          invoice'[i] # None /\ (invoice[i].entry # 0 => invoice'[i].entry # 0)
    /\ \A n \in CreditNotes : credit[n] # None => credit'[n] # None
    /\ \A r \in Receipts : receipt[r] # None => receipt'[r] # None
    /\ Len(gl) <= Len(gl')

(* Partial functions from invoices. *)
LEMMA NoRowsType ==
    ASSUME NEW T
    PROVE  HasRows(NoRows, T) /\ DOMAIN NoRows = {}
BY DEF NoRows, HasRows

(* The rows that a handler reads, and the request it works on, are typed. *)
LEMMA RowsTyped ==
    ASSUME TypeOK
    PROVE  /\ \A i \in Invoices : invoice[i] # None => invoice[i] \in Invoice
           /\ \A n \in CreditNotes : credit[n] # None => credit[n] \in CreditNote
           /\ \A r \in Receipts : receipt[r] # None => receipt[r] \in Receipt
           /\ \A k \in 1 .. Len(gl) : gl[k] \in GlEntry
           /\ Len(gl) \in Nat /\ DOMAIN gl = 1 .. Len(gl)
           /\ \A c \in Clients : /\ DOMAIN writes[c] \subseteq Invoices
                                 /\ writes[c] \in [DOMAIN writes[c] -> Pending]
                                 /\ DOMAIN made[c] \subseteq Invoices
                                 /\ made[c] \in [DOMAIN made[c] -> Nat]
           /\ \A c \in Clients, i \in Invoices : Made(c, i) \in Nat
<1>1. /\ \A i \in Invoices : invoice[i] # None => invoice[i] \in Invoice
      /\ \A n \in CreditNotes : credit[n] # None => credit[n] \in CreditNote
      /\ \A r \in Receipts : receipt[r] # None => receipt[r] \in Receipt
  BY DEF TypeOK
<1>2. /\ \A k \in 1 .. Len(gl) : gl[k] \in GlEntry
      /\ Len(gl) \in Nat /\ DOMAIN gl = 1 .. Len(gl)
  BY DEF TypeOK
<1>4. \A c \in Clients : /\ DOMAIN writes[c] \subseteq Invoices
                         /\ writes[c] \in [DOMAIN writes[c] -> Pending]
                         /\ DOMAIN made[c] \subseteq Invoices
                         /\ made[c] \in [DOMAIN made[c] -> Nat]
  BY DEF TypeOK, HasRows
<1>5. \A c \in Clients, i \in Invoices : Made(c, i) \in Nat
  BY <1>4 DEF Made
<1> QED
  BY <1>1, <1>2, <1>4, <1>5

(* What holds of the handler that made a step holds of all. *)
LEMMA StepKeeps ==
    ASSUME IInv, NEW c \in Clients, OthersStay(c), TablesGrow, TypeOK', EntriesFit', Fits(c)'
    PROVE  IInv'
<1> SUFFICES ASSUME NEW d \in Clients \ {c} PROVE Fits(d)'
  BY DEF IInv
<1>1. /\ pc'[d] = pc[d] /\ req'[d] = req[d] /\ writes'[d] = writes[d] /\ made'[d] = made[d]
      /\ \A x \in Lockable : lock[x] = d => lock'[x] = d
  BY DEF OthersStay
<1>2. Fits(d) /\ TypeOK
  BY DEF IInv
<1>3. DOMAIN writes[d] \subseteq Invoices
  BY <1>2, RowsTyped
<1>4. \A i \in Invoices : HasEntry(i) => HasEntry(i)'
  BY DEF TablesGrow, HasEntry
<1>5. Len(gl) \in Nat /\ Len(gl') \in Nat /\ Len(gl) <= Len(gl')
  BY <1>2 DEF TypeOK, TablesGrow
<1>6. RequestFits(d)'
  <2>1. 1 .. Len(gl) \subseteq 1 .. Len(gl')
    BY <1>5
  <2> QED
    BY <1>1, <1>2, <2>1 DEF Fits, RequestFits
<1>7. DocumentExists(d)'
  <2>1. pc[d] # "idle" => req[d] \in Request
    BY <1>2, NullAssumption DEF TypeOK, NullAssumption
  <2>2. /\ pc[d] # "idle" /\ req[d].kind \in {"update", "issue", "void"} => req[d].doc \in Invoices
        /\ pc[d] # "idle" /\ req[d].kind \in {"credit", "apply"} => req[d].doc \in CreditNotes
        /\ pc[d] # "idle" /\ req[d].kind = "allocate" => req[d].doc \in Receipts
    BY <2>1 DEF Request, DraftRequest, VoidRequest, ListRequest, AllocationRequest, ReceiptRequest
  <2> QED
    BY <1>1, <1>2, <2>2 DEF Fits, DocumentExists, TablesGrow
<1>8. RowsAreHeld(d)'
  <2>1. pc[d] = "writing" => Head(req[d].todo).invoice \in Invoices
    <3> SUFFICES ASSUME pc[d] = "writing" PROVE Head(req[d].todo).invoice \in Invoices
      OBVIOUS
    <3>1. req[d].todo \in Seq(Allocation) /\ req[d].todo # <<>>
      BY <1>2 DEF Fits, RequestFits, AllocationRequest, ReceiptRequest
    <3>2. Head(req[d].todo) \in Allocation
      BY <3>1
    <3> QED
      BY <3>2 DEF Allocation
  <2>2. /\ DOMAIN made[d] = DOMAIN writes[d]
        /\ pc[d] \notin {"allocating", "writing"} => writes[d] = NoRows
        /\ \A i \in DOMAIN writes[d] : lock[i] = d /\ HasEntry(i)
        /\ pc[d] = "writing" => HasEntry(Head(req[d].todo).invoice)
    BY <1>2 DEF Fits, RowsAreHeld
  <2>3. \A i \in DOMAIN writes[d] : lock'[i] = d /\ HasEntry(i)'
    BY <1>1, <1>3, <1>4, <2>2 DEF Lockable
  <2>4. pc[d] = "writing" => HasEntry(Head(req[d].todo).invoice)'
    <3>1. PICK i : i = Head(req[d].todo).invoice
      OBVIOUS
    <3>2. pc[d] = "writing" => HasEntry(i)'
      BY <1>4, <2>1, <2>2, <3>1
    <3>3. Head(req'[d].todo).invoice = i
      BY <1>1, <3>1
    <3> QED
      BY <1>1, <3>2, <3>3 DEF HasEntry
  <2> QED
    BY <1>1, <2>2, <2>3, <2>4 DEF RowsAreHeld
<1> QED
  BY <1>6, <1>7, <1>8 DEF Fits

(* Where a handler may be. *)
Stages == Uncommitted \cup {"idle", "reversed"}

(* What a handler that is at work has for a request. *)
LEMMA RequestTyped ==
    ASSUME IInv, NEW c \in Clients, pc[c] # "idle"
    PROVE  /\ req[c] \in Request /\ pc[c] \in Stages
           /\ req[c].kind \in Kinds
           /\ pc[c] = "checked" /\ req[c].kind \in {"update", "issue", "void"} =>
                 req[c].doc \in Invoices /\ req[c].total \in Nat
           /\ pc[c] = "checked" /\ req[c].kind = "credit" =>
                 req[c].doc \in CreditNotes /\ req[c].total \in Nat
           /\ req[c].kind = "void" => req[c].doc \in Invoices
           /\ req[c].kind = "apply" => req[c].doc \in CreditNotes
           /\ req[c].kind = "allocate" => req[c].doc \in Receipts
           /\ req[c].kind = "receipt" => req[c] \in ReceiptRequest
           /\ pc[c] \in {"allocating", "writing"} /\ req[c].kind = "apply" =>
                 req[c] \in [kind : {"apply"}, doc : CreditNotes, todo : Seq(Allocation),
                             row : Pending \cup {None}, left : Int]
           /\ pc[c] \in {"allocating", "writing"} /\ req[c].kind = "allocate" =>
                 req[c] \in [kind : {"allocate"}, doc : Receipts, todo : Seq(Allocation),
                             row : Pending \cup {None}, left : Int]
<1>1. TypeOK /\ Fits(c)
  BY DEF IInv
<1>2. req[c] \in Request /\ pc[c] \in Stages
  BY <1>1, NullAssumption DEF TypeOK, NullAssumption, Stages
<1>3. req[c].kind \in Kinds
  BY <1>1 DEF Fits, RequestFits
<1>4. /\ req[c].kind = "void" => req[c].doc \in Invoices
      /\ req[c].kind = "apply" => req[c].doc \in CreditNotes
      /\ req[c].kind = "allocate" => req[c].doc \in Receipts
      /\ req[c].kind = "receipt" => req[c] \in ReceiptRequest
  BY <1>2 DEF Request, DraftRequest, VoidRequest, ListRequest, AllocationRequest, ReceiptRequest
<1>5. /\ pc[c] = "checked" /\ req[c].kind \in {"update", "issue", "void"} =>
             req[c].doc \in Invoices /\ req[c].total \in Nat
      /\ pc[c] = "checked" /\ req[c].kind = "credit" =>
             req[c].doc \in CreditNotes /\ req[c].total \in Nat
  BY <1>1 DEF Fits, RequestFits, DraftRequest, ListRequest, ReceiptRequest
<1>6. /\ pc[c] \in {"allocating", "writing"} /\ req[c].kind = "apply" =>
             req[c] \in [kind : {"apply"}, doc : CreditNotes, todo : Seq(Allocation),
                         row : Pending \cup {None}, left : Int]
      /\ pc[c] \in {"allocating", "writing"} /\ req[c].kind = "allocate" =>
             req[c] \in [kind : {"allocate"}, doc : Receipts, todo : Seq(Allocation),
                         row : Pending \cup {None}, left : Int]
  BY <1>1 DEF Fits, RequestFits, AllocationRequest, ReceiptRequest
<1> QED
  BY <1>2, <1>3, <1>4, <1>5, <1>6

(* Every step of a handler that leaves the tables, the locks and what it   *)
(* has written alone.                                                      *)
LEMMA RequestStep ==
    ASSUME IInv, NEW c \in Clients, NEW stage \in Stages, NEW r,
           stage = "idle" => r = None,
           stage # "idle" => r \in Request,
           pc' = [pc EXCEPT ![c] = stage], req' = [req EXCEPT ![c] = r],
           UNCHANGED <<tables, lock, writes, made>>,
           stage \notin {"allocating", "writing"} => writes[c] = NoRows,
           stage = "writing" => HasEntry(Head(r.todo).invoice),
           RequestFits(c)', DocumentExists(c)'
    PROVE  IInv'
<1>1. TypeOK /\ EntriesFit /\ RowsAreHeld(c)
  BY DEF IInv, Fits
<1>2. UNCHANGED <<invoice, credit, receipt, alloc, gl, lock, writes, made>>
  BY DEF tables
<1>3. pc'[c] = stage /\ req'[c] = r
  BY <1>1 DEF TypeOK
<1>4. OthersStay(c)
  BY <1>1, <1>2 DEF OthersStay, TypeOK
<1>5. TablesGrow
  BY <1>1, <1>2 DEF TablesGrow, TypeOK
<1>6. EntriesFit'
  BY <1>1, <1>2 DEF EntriesFit
<1>7. RowsAreHeld(c)'
  BY <1>1, <1>2, <1>3 DEF RowsAreHeld, HasEntry
<1>8. TypeOK'
  <2>1. pc' \in [Clients -> Stages]
    BY <1>1 DEF TypeOK, Stages
  <2>2. req' \in [Clients -> Request \cup {None}]
    BY <1>1, NullAssumption DEF TypeOK, NullAssumption
  <2>3. \A d \in Clients : pc'[d] = "idle" <=> req'[d] = None
    BY <1>1, <1>3, NullAssumption DEF TypeOK, NullAssumption
  <2> QED
    BY <1>1, <1>2, <2>1, <2>2, <2>3 DEF TypeOK, Stages
<1> QED
  BY <1>4, <1>5, <1>6, <1>7, <1>8, StepKeeps DEF Fits

(* A handler outside its transaction has written nothing. *)
LEMMA IdleHoldsNothing ==
    ASSUME IInv, NEW c \in Clients, pc[c] \notin {"allocating", "writing"}
    PROVE  writes[c] = NoRows /\ DOMAIN writes[c] = {} /\ DOMAIN made[c] = {}
BY NoRowsType DEF IInv, Fits, RowsAreHeld

(* Steps that start a request, or only read. *)
LEMMA ReadDraftTyped ==
    ASSUME IInv, NEW c \in Clients, NEW i \in Invoices, NEW kind \in {"update", "issue", "void"},
           NEW total, ReadDraft(c, i, kind, total), total \in Nat
    PROVE  IInv'
<1> USE DEF ReadDraft, Goto, Starts
<1>1. PICK r : r = [kind |-> kind, doc |-> i, total |-> total]
  OBVIOUS
<1>2. r \in DraftRequest /\ r \in Request
  BY <1>1 DEF DraftRequest, Request
<1>3. pc'[c] = "checked" /\ req'[c] = r
  BY <1>1 DEF IInv, TypeOK
<1>4. RequestFits(c)'
  BY <1>1, <1>2, <1>3 DEF RequestFits
<1>5. DocumentExists(c)'
  BY <1>1, <1>3 DEF DocumentExists, tables
<1>6. writes[c] = NoRows
  BY IdleHoldsNothing
<1> QED
  BY <1>1, <1>2, <1>4, <1>5, <1>6, RequestStep DEF Stages, Uncommitted

(* voidInvoice, of an issued invoice, keeps the types. *)
LEMMA ReadForVoidTyped ==
    ASSUME IInv, NEW c \in Clients, NEW i \in Invoices, ReadForVoid(c, i)
    PROVE  IInv'
<1> USE DEF ReadForVoid, Goto, Starts
<1>1. PICK r : r = [kind |-> "void", doc |-> i, entry |-> invoice[i].entry]
  OBVIOUS
<1>2. r \in VoidRequest /\ r \in Request /\ r.entry \in 1 .. Len(gl)
  <2>1. invoice[i].entry \in 0 .. Len(gl) /\ invoice[i].entry # 0
    BY DEF IInv, EntriesFit
  <2>2. Len(gl) \in Nat
    BY RowsTyped DEF IInv
  <2>3. r.entry \in Nat /\ r.entry \in 1 .. Len(gl)
    BY <1>1, <2>1, <2>2
  <2> QED
    BY <1>1, <2>3 DEF VoidRequest, Request
<1>3. pc'[c] = "voiding" /\ req'[c] = r
  BY <1>1 DEF IInv, TypeOK
<1>4. RequestFits(c)'
  BY <1>1, <1>2, <1>3 DEF RequestFits, tables
<1>5. DocumentExists(c)'
  BY <1>1, <1>3 DEF DocumentExists, tables
<1>6. writes[c] = NoRows
  BY IdleHoldsNothing
<1> QED
  BY <1>1, <1>2, <1>4, <1>5, <1>6, RequestStep DEF Stages, Uncommitted

(* The request of a reversal keeps the types. *)
LEMMA RequestReversalTyped ==
    ASSUME IInv, NEW c \in Clients, NEW e \in DOMAIN gl, RequestReversal(c, e)
    PROVE  IInv'
<1> USE DEF RequestReversal, Goto, Starts
<1>1. PICK r : r = [kind |-> "reverse", doc |-> gl[e].source, entry |-> e]
  OBVIOUS
<1>2. r \in VoidRequest /\ r \in Request /\ r.entry \in 1 .. Len(gl)
  <2>1. DOMAIN gl = 1 .. Len(gl) /\ gl[e] \in GlEntry /\ Len(gl) \in Nat
    BY RowsTyped DEF IInv
  <2> QED
    BY <1>1, <2>1 DEF VoidRequest, Request, GlEntry
<1>3. pc'[c] = "voiding" /\ req'[c] = r
  BY <1>1 DEF IInv, TypeOK
<1>4. RequestFits(c)'
  BY <1>1, <1>2, <1>3 DEF RequestFits, tables
<1>5. DocumentExists(c)'
  BY <1>1, <1>3 DEF DocumentExists, tables
<1>6. writes[c] = NoRows
  BY IdleHoldsNothing
<1> QED
  BY <1>1, <1>2, <1>4, <1>5, <1>6, RequestStep DEF Stages, Uncommitted

(* The read of reverseEntry keeps the types. *)
LEMMA ReadEntryTyped ==
    ASSUME IInv, NEW c \in Clients, ReadEntry(c)
    PROVE  IInv'
<1> USE DEF ReadEntry, Goto
<1>1. PICK r : r = req[c]
  OBVIOUS
<1>2. r \in Request /\ RequestFits(c) /\ DocumentExists(c)
  BY <1>1, RequestTyped DEF IInv, Fits
<1>3. req' = [req EXCEPT ![c] = r]
  BY <1>1 DEF IInv, TypeOK
<1>4. pc'[c] = "reversing" /\ req'[c] = r
  BY <1>3 DEF IInv, TypeOK
<1>5. RequestFits(c)'
  BY <1>1, <1>2, <1>4 DEF RequestFits, tables
<1>6. DocumentExists(c)'
  BY <1>1, <1>2, <1>4 DEF DocumentExists, tables
<1>7. writes[c] = NoRows
  BY IdleHoldsNothing
<1> QED
  BY <1>2, <1>3, <1>5, <1>6, <1>7, RequestStep DEF Stages, Uncommitted

(* The read of issueCreditNote keeps the types. *)
LEMMA ReadDraftCreditTyped ==
    ASSUME IInv, NEW c \in Clients, NEW n \in CreditNotes, ReadDraftCredit(c, n)
    PROVE  IInv'
<1> USE DEF ReadDraftCredit, Goto, Starts
<1>1. PICK r : r = [kind |-> "credit", doc |-> n, total |-> credit[n].total]
  OBVIOUS
<1>2. r \in DraftRequest /\ r \in Request
  <2>1. credit[n] \in CreditNote
    BY RowsTyped DEF IInv
  <2> QED
    BY <1>1, <2>1 DEF DraftRequest, Request, CreditNote
<1>3. pc'[c] = "checked" /\ req'[c] = r
  BY <1>1 DEF IInv, TypeOK
<1>4. RequestFits(c)'
  BY <1>1, <1>2, <1>3 DEF RequestFits
<1>5. DocumentExists(c)'
  BY <1>1, <1>3 DEF DocumentExists, tables
<1>6. writes[c] = NoRows
  BY IdleHoldsNothing
<1> QED
  BY <1>1, <1>2, <1>4, <1>5, <1>6, RequestStep DEF Stages, Uncommitted

(* The read of applyCreditNote keeps the types. *)
LEMMA ReadCreditTyped ==
    ASSUME IInv, NEW c \in Clients, NEW n \in CreditNotes, NEW list \in Lists,
           ReadCredit(c, n, list)
    PROVE  IInv'
<1> USE DEF ReadCredit, Goto, Starts
<1>1. PICK r : r = [kind |-> "apply", doc |-> n, todo |-> list]
  OBVIOUS
<1>2. r \in ListRequest /\ r \in Request
  <2>1. list \in Seq(Allocation)
    BY AmountsAssumption DEF AmountsAssumption
  <2> QED
    BY <1>1, <2>1 DEF ListRequest, Request
<1>3. pc'[c] = "checked" /\ req'[c] = r
  BY <1>1 DEF IInv, TypeOK
<1>4. RequestFits(c)'
  BY <1>1, <1>2, <1>3 DEF RequestFits
<1>5. DocumentExists(c)'
  BY <1>1, <1>3 DEF DocumentExists, tables
<1>6. writes[c] = NoRows
  BY IdleHoldsNothing
<1> QED
  BY <1>1, <1>2, <1>4, <1>5, <1>6, RequestStep DEF Stages, Uncommitted

(* The read of allocateReceipt keeps the types. *)
LEMMA ReadReceiptTyped ==
    ASSUME IInv, NEW c \in Clients, NEW n \in Receipts, NEW list \in Lists,
           ReadReceipt(c, n, list)
    PROVE  IInv'
<1> USE DEF ReadReceipt, Goto, Starts
<1>1. PICK r : r = [kind |-> "allocate", doc |-> n, todo |-> list]
  OBVIOUS
<1>2. r \in ListRequest /\ r \in Request
  <2>1. list \in Seq(Allocation)
    BY AmountsAssumption DEF AmountsAssumption
  <2> QED
    BY <1>1, <2>1 DEF ListRequest, Request
<1>3. pc'[c] = "checked" /\ req'[c] = r
  BY <1>1 DEF IInv, TypeOK
<1>4. RequestFits(c)'
  BY <1>1, <1>2, <1>3 DEF RequestFits
<1>5. DocumentExists(c)'
  BY <1>1, <1>3 DEF DocumentExists, tables
<1>6. writes[c] = NoRows
  BY IdleHoldsNothing
<1> QED
  BY <1>1, <1>2, <1>4, <1>5, <1>6, RequestStep DEF Stages, Uncommitted

(* A list of allocations adds up to a natural number. *)
LEMMA AllocationsAddUp ==
    ASSUME NEW list \in Seq(Allocation)
    PROVE  ListTotal(list) \in Nat
<1>1. \A x \in Allocation : x.amount \in Nat
  BY DEF Allocation
<1>2. 0 \in Nat /\ \A a \in Nat : \A b \in Nat : a + b \in Nat
  OBVIOUS
<1> QED
  BY <1>1, <1>2, ListTotalType

(* The check of postReceipt keeps the types. *)
LEMMA PrepareReceiptTyped ==
    ASSUME IInv, NEW c \in Clients, NEW n \in Receipts, NEW y \in Years, NEW amount \in Totals,
           NEW list \in Lists \cup {<<>>}, PrepareReceipt(c, n, y, amount, list)
    PROVE  IInv'
<1> USE DEF PrepareReceipt, Goto, Starts
<1>1. PICK r : r = [kind |-> "receipt", doc |-> n, todo |-> list, row |-> None,
                    left |-> ListTotal(list), allocated |-> ListTotal(list),
                    year |-> y, amount |-> amount]
  OBVIOUS
<1>2. r \in ReceiptRequest /\ r \in Request
  <2>1. list \in Seq(Allocation) /\ amount \in Nat
    <3>1. <<>> \in Seq(Allocation)
      OBVIOUS
    <3> QED
      BY <3>1, AmountsAssumption DEF AmountsAssumption
  <2>2. ListTotal(list) \in Nat
    BY <2>1, AllocationsAddUp
  <2> QED
    BY <1>1, <2>1, <2>2 DEF ReceiptRequest, Request
<1>3. pc'[c] = "checked" /\ req'[c] = r
  BY <1>1 DEF IInv, TypeOK
<1>4. RequestFits(c)'
  BY <1>1, <1>2, <1>3 DEF RequestFits
<1>5. DocumentExists(c)'
  BY <1>1, <1>3 DEF DocumentExists, tables
<1>6. writes[c] = NoRows
  BY IdleHoldsNothing
<1> QED
  BY <1>1, <1>2, <1>4, <1>5, <1>6, RequestStep DEF Stages, Uncommitted

(* The start of an allocation keeps the types. *)
LEMMA BeginAllocationTyped ==
    ASSUME IInv, NEW c \in Clients, BeginAllocation(c)
    PROVE  IInv'
<1> USE DEF BeginAllocation, Goto
<1>1. PICK r : r = [kind |-> req[c].kind, doc |-> req[c].doc, todo |-> req[c].todo, row |-> None,
                    left |-> IF req[c].kind = "apply" THEN credit[req[c].doc].remaining
                                                      ELSE receipt[req[c].doc].unapplied]
  OBVIOUS
<1>2. req[c] \in ListRequest /\ DocumentExists(c) /\ RequestFits(c)
  <2>1. Fits(c)
    BY DEF IInv
  <2> QED
    BY <2>1 DEF Fits, RequestFits, DraftRequest, ReceiptRequest
<1>3. r \in AllocationRequest /\ r \in Request
  <2>1. /\ req[c].todo \in Seq(Allocation)
        /\ \/ req[c].kind = "apply" /\ req[c].doc \in CreditNotes
           \/ req[c].kind = "allocate" /\ req[c].doc \in Receipts
    BY <1>2 DEF ListRequest
  <2>2. /\ req[c].kind = "apply" => credit[req[c].doc] \in CreditNote
        /\ req[c].kind = "allocate" => receipt[req[c].doc] \in Receipt
    BY <1>2, <2>1, RowsTyped DEF IInv, DocumentExists
  <2>3. r.left \in Int
    BY <1>1, <2>1, <2>2 DEF CreditNote, Receipt
  <2> QED
    BY <1>1, <2>1, <2>3 DEF AllocationRequest, Request
<1>4. req' = [req EXCEPT ![c] = r]
  BY <1>1 DEF IInv, TypeOK
<1>5. pc'[c] = "allocating" /\ req'[c] = r
  BY <1>4 DEF IInv, TypeOK
<1>6. RequestFits(c)'
  BY <1>1, <1>2, <1>3, <1>5 DEF RequestFits
<1>7. DocumentExists(c)'
  BY <1>1, <1>2, <1>5 DEF DocumentExists, tables
<1> QED
  BY <1>3, <1>4, <1>6, <1>7, RequestStep DEF Stages, Uncommitted

(* An allocation that reads on: its next invoice. *)
LEMMA NextAllocation ==
    ASSUME IInv, NEW c \in Clients, pc[c] \in {"allocating", "writing"}, req[c].todo # <<>>
    PROVE  /\ req[c].todo \in Seq(Allocation) /\ Head(req[c].todo) \in Allocation
           /\ Tail(req[c].todo) \in Seq(Allocation)
           /\ Head(req[c].todo).invoice \in Invoices
           /\ Head(req[c].todo).amount \in Nat /\ Head(req[c].todo).amount > 0
           /\ req[c].left \in Int
<1>1. req[c] \in AllocationRequest \cup ReceiptRequest
  BY DEF IInv, Fits, RequestFits
<1>2. req[c].todo \in Seq(Allocation) /\ req[c].left \in Int
  BY <1>1 DEF AllocationRequest, ReceiptRequest
<1>3. Head(req[c].todo) \in Allocation /\ Tail(req[c].todo) \in Seq(Allocation)
  BY <1>2
<1> QED
  BY <1>2, <1>3 DEF Allocation

(* An invoice as a transaction sees it is a row still, and has an entry if *)
(* the stored one has.                                                     *)
LEMMA SeenTyped ==
    ASSUME IInv, NEW c \in Clients, NEW i \in Invoices, invoice[i] # None
    PROVE  /\ Seen(c, i) \in Invoice
           /\ Seen(c, i).entry = invoice[i].entry /\ Seen(c, i).total = invoice[i].total
           /\ Seen(c, i).status \notin {"draft", "void"} => invoice[i].entry # 0
           /\ i \in DOMAIN writes[c] =>
                 /\ Seen(c, i).status = writes[c][i].status
                 /\ Seen(c, i).paid = writes[c][i].paid
                 /\ Seen(c, i).due = writes[c][i].due
           /\ i \notin DOMAIN writes[c] => Seen(c, i) = invoice[i]
<1>1. invoice[i] \in Invoice
  BY RowsTyped DEF IInv
<1>2. i \in DOMAIN writes[c] => writes[c][i] \in Pending
  BY RowsTyped DEF IInv
<1>3. i \in DOMAIN writes[c] => invoice[i].entry # 0
  BY DEF IInv, Fits, RowsAreHeld, HasEntry
<1>4. invoice[i].status \notin {"draft", "void"} => invoice[i].entry # 0
  BY DEF IInv, EntriesFit
<1>5. CASE i \notin DOMAIN writes[c]
  BY <1>1, <1>4, <1>5 DEF Seen
<1>6. CASE i \in DOMAIN writes[c]
  <2>1. Seen(c, i) = [invoice[i] EXCEPT !.status = writes[c][i].status,
                              !.paid = writes[c][i].paid,
                              !.due = writes[c][i].due]
    BY <1>6 DEF Seen
  <2> QED
    BY <1>1, <1>2, <1>3, <1>6, <2>1 DEF Invoice, Pending, Open
<1> QED
  BY <1>5, <1>6

(* Reading an invoice in the loop keeps the types. *)
LEMMA ReadForAllocationTyped ==
    ASSUME IInv, NEW c \in Clients, ReadForAllocation(c)
    PROVE  IInv'
<1> USE DEF Goto
<1>1. PICK i : i = Head(req[c].todo).invoice
  OBVIOUS
<1>2. PICK amount : amount = Head(req[c].todo).amount
  OBVIOUS
<1>3. /\ pc[c] = "allocating" /\ req[c].todo # <<>> /\ invoice[i] # None
      /\ Seen(c, i).status \in Open
      /\ pc' = [pc EXCEPT ![c] = "writing"]
      /\ req' = [req EXCEPT ![c].row = Allocated(Seen(c, i), amount)]
      /\ UNCHANGED <<tables, lock, writes, made>>
  BY <1>1, <1>2 DEF ReadForAllocation
<1>4. i \in Invoices /\ amount \in Nat
  BY <1>1, <1>2, <1>3, NextAllocation
<1>5. Allocated(Seen(c, i), amount) \in Pending
  <2>1. Seen(c, i) \in Invoice
    BY <1>3, <1>4, SeenTyped
  <2> QED
    BY <1>4, <2>1 DEF Allocated, Pending, Invoice
<1>6. PICK r : r = [req[c] EXCEPT !.row = Allocated(Seen(c, i), amount)]
  OBVIOUS
<1>7. req' = [req EXCEPT ![c] = r]
  BY <1>3, <1>6
<1>8. RequestFits(c) /\ DocumentExists(c)
  BY DEF IInv, Fits
<1>9. /\ r \in AllocationRequest \cup ReceiptRequest /\ r \in Request
      /\ r.row \in Pending /\ r.todo = req[c].todo /\ r.kind = req[c].kind /\ r.doc = req[c].doc
  BY <1>3, <1>5, <1>6, <1>8 DEF RequestFits, AllocationRequest, ReceiptRequest, Request
<1>10. pc'[c] = "writing" /\ req'[c] = r
  BY <1>3, <1>7 DEF IInv, TypeOK
<1>11. RequestFits(c)'
  BY <1>3, <1>8, <1>9, <1>10 DEF RequestFits
<1>12. DocumentExists(c)'
  BY <1>3, <1>8, <1>9, <1>10 DEF DocumentExists, tables
<1>13. HasEntry(Head(r.todo).invoice)
  <2>1. invoice[i].entry # 0
    BY <1>3, <1>4, SeenTyped DEF Open
  <2> QED
    BY <1>1, <1>3, <1>9, <2>1 DEF HasEntry
<1> QED
  BY <1>3, <1>7, <1>9, <1>11, <1>12, <1>13, RequestStep DEF Stages, Uncommitted

(* A failure between the two transactions of a void keeps the types. *)
LEMMA FailBetweenTyped ==
    ASSUME IInv, NEW c \in Clients, FailBetween(c)
    PROVE  IInv'
<1> USE DEF FailBetween, Return
<1>1. pc'[c] = "idle" /\ req'[c] = None
  BY DEF IInv, TypeOK
<1>2. RequestFits(c)' /\ DocumentExists(c)'
  BY <1>1 DEF RequestFits, DocumentExists
<1>3. writes[c] = NoRows
  BY IdleHoldsNothing
<1> QED
  BY <1>2, <1>3, RequestStep DEF Stages

-----------------------------------------------------------------------------
(* Steps that create a row. *)

(* createInvoice keeps the types. *)
LEMMA CreateInvoiceTyped ==
    ASSUME IInv, NEW c \in Clients, NEW i \in Invoices, NEW total \in Totals,
           CreateInvoice(c, i, total)
    PROVE  IInv'
<1> USE DEF CreateInvoice
<1>1. TypeOK /\ EntriesFit /\ Fits(c)
  BY DEF IInv
<1>2. Draft(total) \in Invoice /\ Draft(total) # None /\ Draft(total).entry = 0
      /\ Draft(total).status = "draft"
  <2>1. total \in Nat
    BY AmountsAssumption DEF AmountsAssumption
  <2> QED
    BY <2>1, NullAssumption DEF Draft, Invoice, NullAssumption
<1>3. invoice' \in [Invoices -> Invoice \cup {None}]
  BY <1>1, <1>2 DEF TypeOK
<1>4. /\ \A j \in Invoices \ {i} : invoice'[j] = invoice[j]
      /\ invoice'[i] = Draft(total)
  BY <1>1 DEF TypeOK
<1>5. TypeOK'
  BY <1>1, <1>3 DEF TypeOK
<1>6. OthersStay(c)
  BY DEF OthersStay
<1>7. TablesGrow
  BY <1>1, <1>2, <1>4 DEF TablesGrow, TypeOK
<1>8. EntriesFit'
  BY <1>1, <1>2, <1>4, RowsTyped DEF EntriesFit
<1>9. Fits(c)'
  <2>1. pc'[c] = "idle" /\ writes'[c] = NoRows /\ DOMAIN writes[c] = {} /\ DOMAIN made[c] = {}
    BY IdleHoldsNothing DEF Starts
  <2> QED
    BY <2>1 DEF Fits, RequestFits, DocumentExists, RowsAreHeld
<1> QED
  BY <1>5, <1>6, <1>7, <1>8, <1>9, StepKeeps

(* createCreditNote keeps the types. *)
LEMMA CreateCreditTyped ==
    ASSUME IInv, NEW c \in Clients, NEW n \in CreditNotes, NEW total \in Totals,
           CreateCreditNote(c, n, total)
    PROVE  IInv'
<1> USE DEF CreateCreditNote
<1>1. TypeOK /\ EntriesFit /\ Fits(c)
  BY DEF IInv
<1>2. DraftCredit(total) \in CreditNote /\ DraftCredit(total) # None
  <2>1. total \in Nat
    BY AmountsAssumption DEF AmountsAssumption
  <2> QED
    BY <2>1, NullAssumption DEF DraftCredit, CreditNote, NullAssumption
<1>3. credit' \in [CreditNotes -> CreditNote \cup {None}]
  BY <1>1, <1>2 DEF TypeOK
<1>4. TypeOK'
  BY <1>1, <1>3 DEF TypeOK
<1>5. OthersStay(c)
  BY DEF OthersStay
<1>6. TablesGrow
  BY <1>1, <1>2 DEF TablesGrow, TypeOK
<1>7. EntriesFit'
  BY <1>1 DEF EntriesFit
<1>8. Fits(c)'
  <2>1. pc'[c] = "idle" /\ writes'[c] = NoRows /\ DOMAIN writes[c] = {} /\ DOMAIN made[c] = {}
    BY IdleHoldsNothing DEF Starts
  <2> QED
    BY <2>1 DEF Fits, RequestFits, DocumentExists, RowsAreHeld
<1> QED
  BY <1>4, <1>5, <1>6, <1>7, <1>8, StepKeeps

-----------------------------------------------------------------------------
(* Steps that commit and leave no transaction open. *)

(* A commit that returns, without an open allocation, has to keep the      *)
(* tables typed.                                                           *)
LEMMA CommitStep ==
    ASSUME IInv, NEW c \in Clients, pc[c] \notin {"allocating", "writing"}, Return(c),
           UNCHANGED <<receipt, alloc, lock, writes, made>>,
           invoice' \in [Invoices -> Invoice \cup {None}],
           credit' \in [CreditNotes -> CreditNote \cup {None}],
           gl' \in Seq(GlEntry), TablesGrow, EntriesFit'
    PROVE  IInv'
<1> USE DEF Return
<1>1. TypeOK
  BY DEF IInv
<1>2. pc'[c] = "idle" /\ req'[c] = None
  BY <1>1 DEF TypeOK
<1>3. TypeOK'
  BY <1>1, <1>2 DEF TypeOK
<1>4. OthersStay(c)
  BY <1>1 DEF OthersStay, TypeOK
<1>5. Fits(c)'
  <2>1. writes'[c] = NoRows /\ DOMAIN writes[c] = {} /\ DOMAIN made[c] = {}
    BY IdleHoldsNothing
  <2> QED
    BY <1>2, <2>1 DEF Fits, RequestFits, DocumentExists, RowsAreHeld
<1> QED
  BY <1>3, <1>4, <1>5, StepKeeps

(* Rewriting the row of an invoice that is there. *)
LEMMA InvoiceWritten ==
    ASSUME IInv, NEW i \in Invoices, invoice[i] # None, NEW row \in Invoice,
           invoice' = [invoice EXCEPT ![i] = row], UNCHANGED <<credit, receipt>>,
           Len(gl') \in Nat, Len(gl) <= Len(gl'), row.entry \in 0 .. Len(gl'),
           row.entry = 0 => invoice[i].entry = 0 /\ row.status \in {"draft", "void"}
    PROVE  /\ invoice' \in [Invoices -> Invoice \cup {None}] /\ invoice'[i] = row
           /\ \A j \in Invoices \ {i} : invoice'[j] = invoice[j]
           /\ TablesGrow /\ EntriesFit'
<1>1. TypeOK /\ EntriesFit
  BY DEF IInv
<1>2. invoice \in [Invoices -> Invoice \cup {None}] /\ Len(gl) \in Nat
  BY <1>1 DEF TypeOK
<1>3. row # None
  BY NullAssumption DEF NullAssumption
<1>4. /\ invoice' \in [Invoices -> Invoice \cup {None}] /\ invoice'[i] = row
      /\ \A j \in Invoices \ {i} : invoice'[j] = invoice[j]
  BY <1>2
<1>5. \A j \in Invoices : invoice[j] # None =>
          invoice'[j] # None /\ (invoice[j].entry # 0 => invoice'[j].entry # 0)
  <2> TAKE j \in Invoices
  <2>1. CASE j = i
    BY <1>3, <1>4, <2>1
  <2>2. CASE j # i
    BY <1>4, <2>2
  <2> QED
    BY <2>1, <2>2
<1>6. TablesGrow
  BY <1>5 DEF TablesGrow
<1>7. EntriesFit'
  <2> SUFFICES ASSUME NEW j \in Invoices, invoice'[j] # None
               PROVE  /\ invoice'[j].entry \in 0 .. Len(gl')
                      /\ invoice'[j].status \notin {"draft", "void"} => invoice'[j].entry # 0
    BY DEF EntriesFit
  <2>1. CASE j = i
    BY <1>4, <2>1
  <2>2. CASE j # i
    BY <1>1, <1>2, <1>4, <2>2 DEF EntriesFit
  <2> QED
    BY <2>1, <2>2
<1> QED
  BY <1>4, <1>6, <1>7

(* updateInvoice keeps the types. *)
LEMMA CommitUpdateTyped ==
    ASSUME IInv, NEW c \in Clients, CommitUpdate(c)
    PROVE  IInv'
<1> USE DEF CommitUpdate
<1>1. PICK i : i = req[c].doc
  OBVIOUS
<1>2. i \in Invoices /\ req[c].total \in Nat /\ invoice[i] # None /\ invoice[i] \in Invoice
  BY <1>1, RequestTyped, RowsTyped DEF IInv, Fits, DocumentExists
<1>3. PICK old : old = invoice[i]
  OBVIOUS
<1>4. PICK row : row = [old EXCEPT !.total = req[c].total, !.due = req[c].total]
  OBVIOUS
<1>5. row \in Invoice /\ row.entry = old.entry /\ row.status = old.status
  <2>1. row = [status |-> old.status, total |-> req[c].total, paid |-> old.paid, due |-> req[c].total,
               entry |-> old.entry]
    BY <1>2, <1>3, <1>4 DEF Invoice
  <2> QED
    BY <1>2, <1>3, <2>1 DEF Invoice
<1>6. invoice' = [invoice EXCEPT ![i] = row]
  BY <1>1, <1>3, <1>4
<1>7. gl' \in Seq(GlEntry) /\ Len(gl') \in Nat /\ Len(gl) <= Len(gl')
  BY DEF IInv, TypeOK
<1>8. /\ row.entry \in 0 .. Len(gl')
      /\ row.entry = 0 => invoice[i].entry = 0 /\ row.status \in {"draft", "void"}
  BY <1>2, <1>3, <1>5 DEF IInv, EntriesFit
<1>9. invoice' \in [Invoices -> Invoice \cup {None}] /\ TablesGrow /\ EntriesFit'
  BY <1>2, <1>5, <1>6, <1>7, <1>8, InvoiceWritten
<1>10. credit' \in [CreditNotes -> CreditNote \cup {None}]
  BY DEF IInv, TypeOK
<1>11. pc[c] \notin {"allocating", "writing"}
  OBVIOUS
<1> QED
  BY <1>7, <1>9, <1>10, <1>11, CommitStep

(* Voiding a draft keeps the types. *)
LEMMA CommitVoidDraftTyped ==
    ASSUME IInv, NEW c \in Clients, CommitVoidDraft(c)
    PROVE  IInv'
<1> USE DEF CommitVoidDraft
<1>1. PICK i : i = req[c].doc
  OBVIOUS
<1>2. i \in Invoices /\ invoice[i] # None /\ invoice[i] \in Invoice
  BY <1>1, RequestTyped, RowsTyped DEF IInv, Fits, DocumentExists
<1>3. PICK old : old = invoice[i]
  OBVIOUS
<1>4. PICK row : row = [old EXCEPT !.status = "void"]
  OBVIOUS
<1>5. row \in Invoice /\ row.entry = old.entry /\ row.status = "void"
  BY <1>2, <1>3, <1>4 DEF Invoice
<1>6. invoice' = [invoice EXCEPT ![i] = row]
  BY <1>1, <1>3, <1>4
<1>7. gl' \in Seq(GlEntry) /\ Len(gl') \in Nat /\ Len(gl) <= Len(gl')
  BY DEF IInv, TypeOK
<1>8. /\ row.entry \in 0 .. Len(gl')
      /\ row.entry = 0 => invoice[i].entry = 0 /\ row.status \in {"draft", "void"}
  BY <1>2, <1>3, <1>5 DEF IInv, EntriesFit
<1>9. invoice' \in [Invoices -> Invoice \cup {None}] /\ TablesGrow /\ EntriesFit'
  BY <1>2, <1>5, <1>6, <1>7, <1>8, InvoiceWritten
<1>10. credit' \in [CreditNotes -> CreditNote \cup {None}]
  BY DEF IInv, TypeOK
<1>11. pc[c] \notin {"allocating", "writing"}
  OBVIOUS
<1> QED
  BY <1>7, <1>9, <1>10, <1>11, CommitStep

(* The update after a reversal keeps the types. *)
LEMMA CommitVoidTyped ==
    ASSUME IInv, NEW c \in Clients, CommitVoid(c)
    PROVE  IInv'
<1> USE DEF CommitVoid
<1>1. PICK i : i = req[c].doc
  OBVIOUS
<1>2. i \in Invoices /\ invoice[i] # None /\ invoice[i] \in Invoice
  <2>1. req[c].kind = "void"
    BY DEF IInv, Fits, RequestFits
  <2> QED
    BY <1>1, <2>1, RequestTyped, RowsTyped DEF IInv, Fits, DocumentExists
<1>3. PICK old : old = invoice[i]
  OBVIOUS
<1>4. PICK row : row = [old EXCEPT !.status = "void", !.due = 0]
  OBVIOUS
<1>5. row \in Invoice /\ row.entry = old.entry /\ row.status = "void"
  <2>1. row = [status |-> "void", total |-> old.total, paid |-> old.paid, due |-> 0,
               entry |-> old.entry]
    BY <1>2, <1>3, <1>4 DEF Invoice
  <2> QED
    BY <1>2, <1>3, <2>1 DEF Invoice
<1>6. invoice' = [invoice EXCEPT ![i] = row]
  BY <1>1, <1>3, <1>4
<1>7. gl' \in Seq(GlEntry) /\ Len(gl') \in Nat /\ Len(gl) <= Len(gl')
  BY DEF IInv, TypeOK
<1>8. /\ row.entry \in 0 .. Len(gl')
      /\ row.entry = 0 => invoice[i].entry = 0 /\ row.status \in {"draft", "void"}
  BY <1>2, <1>3, <1>5 DEF IInv, EntriesFit
<1>9. invoice' \in [Invoices -> Invoice \cup {None}] /\ TablesGrow /\ EntriesFit'
  BY <1>2, <1>5, <1>6, <1>7, <1>8, InvoiceWritten
<1>10. credit' \in [CreditNotes -> CreditNote \cup {None}]
  BY DEF IInv, TypeOK
<1>11. pc[c] \notin {"allocating", "writing"}
  OBVIOUS
<1> QED
  BY <1>7, <1>9, <1>10, <1>11, CommitStep

(* issueInvoice keeps the types. *)
LEMMA CommitIssueTyped ==
    ASSUME IInv, NEW c \in Clients, CommitIssue(c)
    PROVE  IInv'
<1> USE DEF CommitIssue
<1>1. PICK i : i = req[c].doc
  OBVIOUS
<1>2. i \in Invoices /\ req[c].total \in Nat /\ invoice[i] # None /\ invoice[i] \in Invoice
  BY <1>1, RequestTyped, RowsTyped DEF IInv, Fits, DocumentExists
<1>3. PICK old : old = invoice[i]
  OBVIOUS
<1>4. PICK row : row = [old EXCEPT !.status = "issued", !.entry = Len(gl) + 1]
  OBVIOUS
<1>5. gl \in Seq(GlEntry) /\ Len(gl) \in Nat
  BY DEF IInv, TypeOK
<1>6. row \in Invoice /\ row.entry = Len(gl) + 1
  <2>1. row = [status |-> "issued", total |-> old.total, paid |-> old.paid, due |-> old.due,
               entry |-> Len(gl) + 1]
    BY <1>2, <1>3, <1>4 DEF Invoice
  <2> QED
    BY <1>2, <1>3, <1>5, <2>1 DEF Invoice, Open
<1>7. invoice' = [invoice EXCEPT ![i] = row]
  BY <1>1, <1>3, <1>4
<1>8. Posting(i, req[c].total) \in GlEntry
  BY <1>2 DEF Posting, GlEntry
<1>9. gl' \in Seq(GlEntry) /\ Len(gl') = Len(gl) + 1
  BY <1>1, <1>5, <1>8
<1>10. Len(gl') \in Nat /\ Len(gl) <= Len(gl') /\ row.entry \in 0 .. Len(gl') /\ row.entry # 0
  BY <1>5, <1>6, <1>9
<1>11. invoice' \in [Invoices -> Invoice \cup {None}] /\ TablesGrow /\ EntriesFit'
  BY <1>2, <1>6, <1>7, <1>10, InvoiceWritten
<1>12. credit' \in [CreditNotes -> CreditNote \cup {None}]
  BY DEF IInv, TypeOK
<1>13. pc[c] \notin {"allocating", "writing"}
  OBVIOUS
<1> QED
  BY <1>9, <1>11, <1>12, <1>13, CommitStep

(* issueCreditNote keeps the types. *)
LEMMA CommitCreditTyped ==
    ASSUME IInv, NEW c \in Clients, CommitCredit(c)
    PROVE  IInv'
<1> USE DEF CommitCredit
<1>1. PICK n : n = req[c].doc
  OBVIOUS
<1>2. n \in CreditNotes /\ req[c].total \in Nat /\ credit[n] # None /\ credit[n] \in CreditNote
  BY <1>1, RequestTyped, RowsTyped DEF IInv, Fits, DocumentExists
<1>3. PICK row : row = [credit[n] EXCEPT !.status = "issued"]
  OBVIOUS
<1>4. row \in CreditNote /\ row # None
  BY <1>2, <1>3, NullAssumption DEF CreditNote, NullAssumption
<1>5. credit' = [credit EXCEPT ![n] = row]
  BY <1>1, <1>3
<1>6. credit' \in [CreditNotes -> CreditNote \cup {None}]
  BY <1>2, <1>4, <1>5 DEF IInv, TypeOK
<1>7. gl' \in Seq(GlEntry) /\ Len(gl') = Len(gl) + 1 /\ Len(gl) \in Nat
  <2>1. Posting(n, -req[c].total) \in GlEntry
    BY <1>2 DEF Posting, GlEntry, Sources
  <2> QED
    BY <1>1, <2>1 DEF IInv, TypeOK
<1>8. TablesGrow
  <2>1. \A m \in CreditNotes : credit[m] # None => credit'[m] # None
    BY <1>2, <1>4, <1>5 DEF IInv, TypeOK
  <2> QED
    BY <1>7, <2>1 DEF TablesGrow
<1>9. EntriesFit'
  BY <1>7 DEF IInv, EntriesFit
<1> QED
  BY <1>6, <1>7, <1>8, <1>9, CommitStep DEF IInv, TypeOK

(* reverseEntry keeps the types. *)
LEMMA CommitReversalTyped ==
    ASSUME IInv, NEW c \in Clients, CommitReversal(c)
    PROVE  IInv'
<1> USE DEF CommitReversal
<1>1. PICK e : e = req[c].entry
  OBVIOUS
<1>2. gl \in Seq(GlEntry) /\ Len(gl) \in Nat /\ e \in 1 .. Len(gl) /\ gl[e] \in GlEntry
  BY <1>1, RowsTyped DEF IInv, TypeOK, Fits, RequestFits
<1>3. PICK flipped : flipped = [gl EXCEPT ![e].status = "reversed"]
  OBVIOUS
<1>4. PICK new : new = Posting(gl[e].source, -gl[e].amount)
  OBVIOUS
<1>5. new \in GlEntry
  BY <1>2, <1>4 DEF Posting, GlEntry
<1>6. flipped \in Seq(GlEntry) /\ Len(flipped) = Len(gl)
  <2>1. [gl[e] EXCEPT !.status = "reversed"] \in GlEntry
    BY <1>2 DEF GlEntry
  <2>2. flipped = [gl EXCEPT ![e] = [gl[e] EXCEPT !.status = "reversed"]]
    BY <1>3
  <2> QED
    BY <1>2, <2>1, <2>2
<1>7. gl' = Append(flipped, new)
  BY <1>1, <1>3, <1>4
<1>8. gl' \in Seq(GlEntry) /\ Len(gl') = Len(gl) + 1
  <2>1. Append(flipped, new) \in Seq(GlEntry) /\ Len(Append(flipped, new)) = Len(flipped) + 1
    BY <1>5, <1>6
  <2> QED
    BY <1>6, <1>7, <2>1
<1>9. TypeOK /\ EntriesFit /\ Fits(c)
  BY DEF IInv
<1>10. TablesGrow
  BY <1>2, <1>8 DEF TablesGrow
<1>11. EntriesFit'
  BY <1>2, <1>8, <1>9 DEF EntriesFit
<1>12. writes[c] = NoRows /\ DOMAIN writes[c] = {} /\ DOMAIN made[c] = {}
  BY IdleHoldsNothing
<1>13. CASE req[c].kind = "void"
  <2>1. pc' = [pc EXCEPT ![c] = "reversed"] /\ req' = req
    BY <1>13 DEF Goto
  <2>2. pc'[c] = "reversed" /\ req[c] # None
    BY <1>9, <2>1 DEF TypeOK
  <2>3. TypeOK'
    BY <1>8, <1>9, <2>1, <2>2 DEF TypeOK
  <2>4. OthersStay(c)
    BY <1>9, <2>1 DEF OthersStay, TypeOK
  <2>5. 1 .. Len(gl) \subseteq 1 .. Len(gl')
    BY <1>2, <1>8
  <2>6. Fits(c)'
    BY <1>9, <1>12, <1>13, <2>1, <2>2, <2>5 DEF Fits, RequestFits, DocumentExists, RowsAreHeld
  <2> QED
    BY <1>10, <1>11, <2>3, <2>4, <2>6, StepKeeps
<1>14. CASE req[c].kind # "void"
  <2>1. Return(c)
    BY <1>14
  <2>2. pc[c] \notin {"allocating", "writing"}
    OBVIOUS
  <2>3. /\ invoice' \in [Invoices -> Invoice \cup {None}]
        /\ credit' \in [CreditNotes -> CreditNote \cup {None}]
    BY <1>9 DEF TypeOK
  <2> QED
    BY <1>8, <1>10, <1>11, <2>1, <2>2, <2>3, CommitStep
<1> QED
  BY <1>13, <1>14

-----------------------------------------------------------------------------
(* Steps of an open transaction *)

(* The start of a receipt's transaction keeps the types. *)
LEMMA BeginReceiptTyped ==
    ASSUME IInv, NEW c \in Clients, BeginReceipt(c)
    PROVE  IInv'
<1> USE DEF BeginReceipt, Goto
<1>1. TypeOK /\ EntriesFit /\ Fits(c)
  BY DEF IInv
<1>2. UNCHANGED <<invoice, credit, receipt, alloc, gl, req, writes, made>>
  BY DEF tables
<1>3. req[c] \in ReceiptRequest /\ req[c].year \in Years
  BY RequestTyped DEF ReceiptRequest
<1>4. lock' \in [Lockable -> Clients \cup {None}]
  BY <1>1, <1>3 DEF TypeOK, Lockable
<1>5. pc'[c] = "allocating" /\ req[c] # None
  BY <1>1 DEF TypeOK
<1>6. TypeOK'
  BY <1>1, <1>2, <1>4, <1>5 DEF TypeOK, Uncommitted
<1>7. OthersStay(c)
  <2>1. \A d \in Clients \ {c} : \A x \in Lockable : lock[x] = d => lock'[x] = d
    BY <1>1, <1>3, IdentifiersAssumption DEF TypeOK, IdentifiersAssumption
  <2> QED
    BY <1>1, <1>2, <2>1 DEF OthersStay, TypeOK
<1>8. TablesGrow
  BY <1>1, <1>2 DEF TablesGrow, TypeOK
<1>9. EntriesFit'
  BY <1>1, <1>2 DEF EntriesFit
<1>10. writes[c] = NoRows /\ DOMAIN writes[c] = {} /\ DOMAIN made[c] = {}
  BY IdleHoldsNothing
<1>11. Fits(c)'
  BY <1>1, <1>2, <1>3, <1>5, <1>10 DEF Fits, RequestFits, DocumentExists, RowsAreHeld
<1> QED
  BY <1>6, <1>7, <1>8, <1>9, <1>11, StepKeeps

(* What an allocation that writes does to the rows it has written. *)
LEMMA WriteEffect ==
    ASSUME IInv, NEW c \in Clients, WriteAllocation(c),
           NEW i, i = Head(req[c].todo).invoice, NEW amount, amount = Head(req[c].todo).amount
    PROVE  /\ pc[c] = "writing" /\ req[c].todo # <<>> /\ req[c].row \in Pending
           /\ i \in Invoices /\ amount \in Nat /\ amount > 0 /\ HasEntry(i)
           /\ HasRows(writes'[c], Pending) /\ HasRows(made'[c], Nat)
           /\ DOMAIN writes'[c] = DOMAIN writes[c] \cup {i}
           /\ DOMAIN made'[c] = DOMAIN made[c] \cup {i}
           /\ writes'[c][i] = req[c].row
           /\ \A j \in DOMAIN writes[c] \ {i} : writes'[c][j] = writes[c][j]
           /\ made'[c][i] = amount + Made(c, i)
           /\ \A j \in DOMAIN made[c] \ {i} : made'[c][j] = made[c][j]
           /\ \A j \in Invoices : Made(c, j)' = IF j = i THEN Made(c, i) + amount ELSE Made(c, j)
           /\ \A d \in Clients \ {c} : writes'[d] = writes[d] /\ made'[d] = made[d]
<1> USE DEF WriteAllocation, Goto
<1>1. pc[c] = "writing" /\ req[c].todo # <<>> /\ req[c].row \in Pending
  BY DEF IInv, Fits, RequestFits
<1>2. i \in Invoices /\ amount \in Nat /\ amount > 0
  BY <1>1, NextAllocation
<1>3. HasEntry(i)
  BY <1>1 DEF IInv, Fits, RowsAreHeld
<1>4. HasRows(writes[c], Pending) /\ HasRows(made[c], Nat) /\ Made(c, i) \in Nat
  BY <1>2, RowsTyped DEF IInv, TypeOK
<1>5. writes'[c] = With(writes[c], i, req[c].row)
  BY DEF IInv, TypeOK
<1>6. made'[c] = With(made[c], i, amount + Made(c, i))
  BY DEF IInv, TypeOK
<1>7. amount + Made(c, i) \in Nat
  BY <1>2, <1>4
<1>8. HasRows(writes'[c], Pending) /\ DOMAIN writes'[c] = DOMAIN writes[c] \cup {i}
  <2>1. HasRows(With(writes[c], i, req[c].row), Pending)
        /\ DOMAIN With(writes[c], i, req[c].row) = DOMAIN writes[c] \cup {i}
    BY <1>1, <1>2, <1>4 DEF HasRows, With
  <2> QED
    BY <1>5, <2>1
<1>9. HasRows(made'[c], Nat) /\ DOMAIN made'[c] = DOMAIN made[c] \cup {i}
  <2>1. HasRows(With(made[c], i, amount + Made(c, i)), Nat)
        /\ DOMAIN With(made[c], i, amount + Made(c, i)) = DOMAIN made[c] \cup {i}
    BY <1>2, <1>4, <1>7 DEF HasRows, With
  <2> QED
    BY <1>6, <2>1
<1>10. /\ writes'[c][i] = req[c].row
       /\ \A j \in DOMAIN writes[c] \ {i} : writes'[c][j] = writes[c][j]
  BY <1>5 DEF With
<1>11. /\ made'[c][i] = amount + Made(c, i)
       /\ \A j \in DOMAIN made[c] \ {i} : made'[c][j] = made[c][j]
  BY <1>6 DEF With
<1>12. \A j \in Invoices : Made(c, j)' = IF j = i THEN Made(c, i) + amount ELSE Made(c, j)
  <2> TAKE j \in Invoices
  <2>1. Made(c, j)' = IF j \in DOMAIN made'[c] THEN made'[c][j] ELSE 0
    BY DEF Made
  <2>2. Made(c, j) = IF j \in DOMAIN made[c] THEN made[c][j] ELSE 0
    BY DEF Made
  <2>3. CASE j = i
    <3>1. Made(c, i)' = amount + Made(c, i)
      BY <1>9, <1>11, <2>1, <2>3
    <3>2. amount + Made(c, i) = Made(c, i) + amount
      BY <1>2, <1>4
    <3> QED
      BY <2>3, <3>1, <3>2
  <2>4. CASE j # i
    BY <1>9, <1>11, <2>1, <2>2, <2>4
  <2> QED
    BY <2>3, <2>4
<1>13. \A d \in Clients \ {c} : writes'[d] = writes[d] /\ made'[d] = made[d]
  BY DEF IInv, TypeOK
<1> QED
  BY <1>1, <1>2, <1>3, <1>8, <1>9, <1>10, <1>11, <1>12, <1>13

(* Writing an allocation keeps the types. *)
LEMMA WriteAllocationTyped ==
    ASSUME IInv, NEW c \in Clients, WriteAllocation(c)
    PROVE  IInv'
<1>1. TypeOK /\ EntriesFit /\ Fits(c)
  BY DEF IInv
<1>2. PICK i : i = Head(req[c].todo).invoice
  OBVIOUS
<1>3. PICK amount : amount = Head(req[c].todo).amount
  OBVIOUS
<1>4. /\ pc[c] = "writing" /\ pc' = [pc EXCEPT ![c] = "allocating"]
      /\ lock[i] \in {None, c} /\ lock' = [lock EXCEPT ![i] = c]
      /\ req' = [req EXCEPT ![c].todo = Tail(@), ![c].row = None, ![c].left = @ - amount]
      /\ DOMAIN writes' = Clients /\ DOMAIN made' = Clients
      /\ UNCHANGED <<invoice, credit, receipt, alloc, gl>>
  BY <1>1, <1>2, <1>3 DEF WriteAllocation, Goto, tables, TypeOK
<1>5. /\ req[c].todo # <<>> /\ i \in Invoices /\ amount \in Nat /\ HasEntry(i)
      /\ HasRows(writes'[c], Pending) /\ HasRows(made'[c], Nat)
      /\ DOMAIN writes'[c] = DOMAIN writes[c] \cup {i}
      /\ DOMAIN made'[c] = DOMAIN made[c] \cup {i}
      /\ \A d \in Clients \ {c} : writes'[d] = writes[d] /\ made'[d] = made[d]
  BY <1>2, <1>3, WriteEffect
<1>6. PICK r : r = [[[req[c] EXCEPT !.todo = Tail(req[c].todo)] EXCEPT !.row = None]
                      EXCEPT !.left = req[c].left - amount]
  OBVIOUS
<1>7. req' = [req EXCEPT ![c] = r]
  <2>1. req[c] \in AllocationRequest \cup ReceiptRequest /\ DOMAIN req = Clients
    BY <1>1, <1>4 DEF Fits, RequestFits, TypeOK
  <2> QED
    BY <1>4, <1>6, <2>1 DEF AllocationRequest, ReceiptRequest
<1>8. /\ r \in AllocationRequest \cup ReceiptRequest
      /\ r.kind = req[c].kind /\ r.doc = req[c].doc
  <2>1. Tail(req[c].todo) \in Seq(Allocation) /\ req[c].left - amount \in Int
    BY <1>4, <1>5, NextAllocation
  <2>2. req[c] \in AllocationRequest \cup ReceiptRequest
    BY <1>1, <1>4 DEF Fits, RequestFits
  <2> QED
    BY <1>6, <2>1, <2>2 DEF AllocationRequest, ReceiptRequest
<1>9. pc'[c] = "allocating" /\ req'[c] = r /\ r \in Request /\ r # None
  BY <1>1, <1>4, <1>7, <1>8, NullAssumption DEF TypeOK, Request, NullAssumption
<1>10. TypeOK'
  <2>1. lock' \in [Lockable -> Clients \cup {None}]
    BY <1>1, <1>4 DEF TypeOK
  <2>2. pc' \in [Clients -> Uncommitted \cup {"idle", "reversed"}]
    BY <1>1, <1>4 DEF TypeOK, Uncommitted
  <2>3. req' \in [Clients -> Request \cup {None}]
    BY <1>1, <1>7, <1>9 DEF TypeOK
  <2>4. \A d \in Clients : pc'[d] = "idle" <=> req'[d] = None
    BY <1>1, <1>4, <1>7, <1>9 DEF TypeOK
  <2>5. \A d \in Clients : HasRows(writes'[d], Pending) /\ HasRows(made'[d], Nat)
    BY <1>1, <1>5 DEF TypeOK
  <2>6. /\ invoice' \in [Invoices -> Invoice \cup {None}]
        /\ credit' \in [CreditNotes -> CreditNote \cup {None}]
        /\ receipt' \in [Receipts -> Receipt \cup {None}]
        /\ alloc' \in [Sources -> [Invoices -> Nat]]
        /\ gl' \in Seq(GlEntry)
    BY <1>1, <1>4 DEF TypeOK
  <2> QED
    BY <1>4, <2>1, <2>2, <2>3, <2>4, <2>5, <2>6 DEF TypeOK
<1>11. OthersStay(c)
  <2>1. \A d \in Clients \ {c} : pc'[d] = pc[d] /\ req'[d] = req[d]
    BY <1>1, <1>4, <1>7 DEF TypeOK
  <2>2. \A d \in Clients \ {c} : \A x \in Lockable : lock[x] = d => lock'[x] = d
    BY <1>1, <1>4, IdentifiersAssumption DEF TypeOK, IdentifiersAssumption
  <2> QED
    BY <1>5, <2>1, <2>2 DEF OthersStay
<1>12. TablesGrow
  BY <1>1, <1>4 DEF TablesGrow, TypeOK
<1>13. EntriesFit'
  BY <1>1, <1>4 DEF EntriesFit
<1>14. RequestFits(c)'
  BY <1>1, <1>4, <1>8, <1>9 DEF Fits, RequestFits
<1>15. DocumentExists(c)'
  BY <1>1, <1>4, <1>8, <1>9 DEF Fits, DocumentExists
<1>16. RowsAreHeld(c)'
  <2>1. DOMAIN writes[c] \subseteq Invoices
    BY <1>1, RowsTyped
  <2>2. \A j \in DOMAIN writes'[c] : lock'[j] = c /\ HasEntry(j)'
    BY <1>1, <1>4, <1>5, <2>1 DEF TypeOK, Lockable, Fits, RowsAreHeld, HasEntry
  <2> QED
    BY <1>1, <1>5, <1>9, <2>2 DEF Fits, RowsAreHeld
<1> QED
  BY <1>10, <1>11, <1>12, <1>13, <1>14, <1>15, <1>16, StepKeeps DEF Fits

(* The end of a transaction, whatever becomes of the tables. *)
LEMMA EndStep ==
    ASSUME IInv, NEW c \in Clients, EndTransaction(c),
           pc' = [pc EXCEPT ![c] = "idle"], req' = [req EXCEPT ![c] = None],
           invoice' \in [Invoices -> Invoice \cup {None}],
           credit' \in [CreditNotes -> CreditNote \cup {None}],
           receipt' \in [Receipts -> Receipt \cup {None}],
           alloc' \in [Sources -> [Invoices -> Nat]],
           gl' \in Seq(GlEntry), TablesGrow, EntriesFit'
    PROVE  IInv'
<1> USE DEF EndTransaction
<1>1. TypeOK
  BY DEF IInv
<1>2. pc'[c] = "idle" /\ req'[c] = None /\ writes'[c] = NoRows /\ made'[c] = NoRows
  BY <1>1 DEF TypeOK
<1>3. \A d \in Clients \ {c} : /\ pc'[d] = pc[d] /\ req'[d] = req[d]
                               /\ writes'[d] = writes[d] /\ made'[d] = made[d]
                               /\ \A x \in Lockable : lock[x] = d => lock'[x] = d
  BY <1>1 DEF TypeOK
<1>4. OthersStay(c)
  BY <1>3 DEF OthersStay
<1>5. TypeOK'
  <2>1. lock' \in [Lockable -> Clients \cup {None}]
    BY <1>1 DEF TypeOK
  <2>2. pc' \in [Clients -> Uncommitted \cup {"idle", "reversed"}]
    BY <1>1 DEF TypeOK
  <2>3. req' \in [Clients -> Request \cup {None}]
    BY <1>1 DEF TypeOK
  <2>4. \A d \in Clients : pc'[d] = "idle" <=> req'[d] = None
    BY <1>1, <1>2, <1>3 DEF TypeOK
  <2>5. \A d \in Clients : HasRows(writes'[d], Pending) /\ HasRows(made'[d], Nat)
    BY <1>1, <1>2, <1>3, NoRowsType DEF TypeOK
  <2>6. DOMAIN writes' = Clients /\ DOMAIN made' = Clients
    BY <1>1 DEF TypeOK
  <2> QED
    BY <2>1, <2>2, <2>3, <2>4, <2>5, <2>6 DEF TypeOK
<1>6. Fits(c)'
  BY <1>2, NoRowsType DEF Fits, RequestFits, DocumentExists, RowsAreHeld
<1> QED
  BY <1>4, <1>5, <1>6, StepKeeps

(* A failure that is rolled back keeps the types. *)
LEMMA FailTyped ==
    ASSUME IInv, NEW c \in Clients, Fail(c)
    PROVE  IInv'
<1>1. /\ EndTransaction(c) /\ pc' = [pc EXCEPT ![c] = "idle"] /\ req' = [req EXCEPT ![c] = None]
      /\ UNCHANGED <<invoice, credit, receipt, alloc, gl>>
  BY DEF Fail, Return, tables
<1>2. TypeOK /\ EntriesFit
  BY DEF IInv
<1>3. /\ invoice' \in [Invoices -> Invoice \cup {None}]
      /\ credit' \in [CreditNotes -> CreditNote \cup {None}]
      /\ receipt' \in [Receipts -> Receipt \cup {None}]
      /\ alloc' \in [Sources -> [Invoices -> Nat]]
      /\ gl' \in Seq(GlEntry)
  BY <1>1, <1>2 DEF TypeOK
<1>4. TablesGrow
  BY <1>1, <1>2 DEF TablesGrow, TypeOK
<1>5. EntriesFit'
  BY <1>1, <1>2 DEF EntriesFit
<1> QED
  BY <1>1, <1>3, <1>4, <1>5, EndStep

(* What the commit of allocations does: the invoices are as the            *)
(* transaction sees them, and one source has more allocated from it.       *)
LEMMA CommitEffect ==
    ASSUME IInv, NEW c \in Clients, pc[c] \in {"allocating", "writing"}, CommitAllocations(c),
           NEW s, s = req[c].doc
    PROVE  /\ s \in Sources
           /\ invoice' \in [Invoices -> Invoice \cup {None}]
           /\ \A i \in Invoices : /\ invoice[i] = None => invoice'[i] = None
                                  /\ invoice[i] # None => invoice'[i] = Seen(c, i) /\ invoice'[i] # None
           /\ alloc' \in [Sources -> [Invoices -> Nat]]
           /\ \A i \in Invoices : alloc'[s][i] = alloc[s][i] + Made(c, i)
           /\ \A t \in Sources \ {s} : alloc'[t] = alloc[t]
<1>1. TypeOK
  BY DEF IInv
<1>2. s \in Sources
  <2>1. req[c] \in AllocationRequest \cup ReceiptRequest
    BY DEF IInv, Fits, RequestFits
  <2> QED
    BY <2>1 DEF AllocationRequest, ReceiptRequest, Sources
<1>3. \A i \in Invoices : invoice'[i] = IF invoice[i] = None THEN None ELSE Seen(c, i)
  BY DEF CommitAllocations
<1>4. \A i \in Invoices : invoice[i] # None => Seen(c, i) \in Invoice
  BY SeenTyped
<1>5. \A i \in Invoices : invoice[i] # None => Seen(c, i) # None
  BY <1>4, NullAssumption DEF NullAssumption
<1>6. invoice' \in [Invoices -> Invoice \cup {None}]
  BY <1>4 DEF CommitAllocations
<1>7. \A i \in Invoices : Made(c, i) \in Nat
  BY <1>1, RowsTyped
<1>8. alloc' = [alloc EXCEPT ![s] = [i \in Invoices |-> alloc[s][i] + Made(c, i)]]
  BY DEF CommitAllocations
<1>9. alloc \in [Sources -> [Invoices -> Nat]]
  BY <1>1 DEF TypeOK
<1>10. [i \in Invoices |-> alloc[s][i] + Made(c, i)] \in [Invoices -> Nat]
  BY <1>2, <1>7, <1>9
<1> QED
  BY <1>2, <1>3, <1>5, <1>6, <1>8, <1>9, <1>10

(* A commit of allocations deletes nothing, and pays what has an entry. *)
LEMMA CommitGrows ==
    ASSUME IInv, NEW c \in Clients, pc[c] \in {"allocating", "writing"}, CommitAllocations(c),
           \A n \in CreditNotes : credit[n] # None => credit'[n] # None,
           \A r \in Receipts : receipt[r] # None => receipt'[r] # None,
           Len(gl') \in Nat, Len(gl) <= Len(gl')
    PROVE  TablesGrow /\ EntriesFit'
<1>1. PICK s : s = req[c].doc
  OBVIOUS
<1>2. \A i \in Invoices : /\ invoice[i] = None => invoice'[i] = None
                          /\ invoice[i] # None => invoice'[i] = Seen(c, i) /\ invoice'[i] # None
  BY <1>1, CommitEffect
<1>3. \A i \in Invoices : invoice[i] # None =>
         /\ Seen(c, i).entry = invoice[i].entry
         /\ Seen(c, i).status \notin {"draft", "void"} => invoice[i].entry # 0
  BY SeenTyped
<1>4. TablesGrow
  BY <1>2, <1>3 DEF TablesGrow
<1>5. Len(gl) \in Nat
  BY DEF IInv, TypeOK
<1>6. EntriesFit'
  BY <1>2, <1>3, <1>5 DEF EntriesFit, IInv
<1> QED
  BY <1>4, <1>6

(* The commit of applyCreditNote keeps the types. *)
LEMMA FinishApplyTyped ==
    ASSUME IInv, NEW c \in Clients, FinishApply(c)
    PROVE  IInv'
<1>1. PICK n : n = req[c].doc
  OBVIOUS
<1>2. PICK left : left = req[c].left
  OBVIOUS
<1>3. /\ pc[c] = "allocating" /\ req[c].kind = "apply" /\ CommitAllocations(c)
      /\ pc' = [pc EXCEPT ![c] = "idle"] /\ req' = [req EXCEPT ![c] = None]
      /\ credit' = [credit EXCEPT ![n].applied = credit[n].total - left,
                                  ![n].remaining = left,
                                  ![n].status = IF left = 0 THEN "applied" ELSE "issued"]
      /\ EndTransaction(c) /\ UNCHANGED <<receipt, gl>>
  BY <1>1, <1>2 DEF FinishApply, Goto
<1>4. TypeOK /\ Fits(c)
  BY DEF IInv
<1>5. n \in CreditNotes /\ left \in Int
  BY <1>1, <1>2, <1>3, RequestTyped
<1>6. credit[n] # None /\ credit[n] \in CreditNote
  BY <1>1, <1>3, <1>4, <1>5, RowsTyped DEF Fits, DocumentExists
<1>7. PICK old : old = credit[n]
  OBVIOUS
<1>8. PICK row : row = [old EXCEPT !.applied = old.total - left, !.remaining = left,
                                   !.status = IF left = 0 THEN "applied" ELSE "issued"]
  OBVIOUS
<1>9. row \in CreditNote /\ row # None
  <2>1. row = [status |-> IF left = 0 THEN "applied" ELSE "issued", total |-> old.total,
               applied |-> old.total - left, remaining |-> left]
    BY <1>6, <1>7, <1>8 DEF CreditNote
  <2> QED
    BY <1>5, <1>6, <1>7, <2>1, NullAssumption DEF CreditNote, NullAssumption
<1>10. credit' = [credit EXCEPT ![n] = row]
  BY <1>3, <1>4, <1>5, <1>7, <1>8 DEF TypeOK
<1>11. /\ credit' \in [CreditNotes -> CreditNote \cup {None}]
       /\ \A m \in CreditNotes : credit[m] # None => credit'[m] # None
  BY <1>4, <1>5, <1>9, <1>10 DEF TypeOK
<1>12. /\ invoice' \in [Invoices -> Invoice \cup {None}]
       /\ alloc' \in [Sources -> [Invoices -> Nat]]
  BY <1>1, <1>3, CommitEffect
<1>13. /\ receipt' \in [Receipts -> Receipt \cup {None}] /\ gl' \in Seq(GlEntry)
       /\ Len(gl') \in Nat /\ Len(gl) <= Len(gl')
  BY <1>3, <1>4 DEF TypeOK
<1>14. TablesGrow /\ EntriesFit'
  BY <1>3, <1>11, <1>13, CommitGrows
<1> QED
  BY <1>3, <1>11, <1>12, <1>13, <1>14, EndStep

(* The commit of allocateReceipt keeps the types. *)
LEMMA FinishAllocateTyped ==
    ASSUME IInv, NEW c \in Clients, FinishAllocate(c)
    PROVE  IInv'
<1>1. PICK n : n = req[c].doc
  OBVIOUS
<1>2. PICK left : left = req[c].left
  OBVIOUS
<1>3. /\ pc[c] = "allocating" /\ req[c].kind = "allocate" /\ CommitAllocations(c)
      /\ pc' = [pc EXCEPT ![c] = "idle"] /\ req' = [req EXCEPT ![c] = None]
      /\ receipt' = [receipt EXCEPT ![n].allocated = receipt[n].amount - left,
                                    ![n].unapplied = left]
      /\ EndTransaction(c) /\ UNCHANGED <<credit, gl>>
  BY <1>1, <1>2 DEF FinishAllocate, Goto
<1>4. TypeOK /\ Fits(c)
  BY DEF IInv
<1>5. n \in Receipts /\ left \in Int
  BY <1>1, <1>2, <1>3, RequestTyped
<1>6. receipt[n] # None /\ receipt[n] \in Receipt
  BY <1>1, <1>3, <1>4, <1>5, RowsTyped DEF Fits, DocumentExists
<1>7. PICK old : old = receipt[n]
  OBVIOUS
<1>8. PICK row : row = [old EXCEPT !.allocated = old.amount - left, !.unapplied = left]
  OBVIOUS
<1>9. row \in Receipt /\ row # None
  <2>1. row = [amount |-> old.amount, allocated |-> old.amount - left, unapplied |-> left]
    BY <1>6, <1>7, <1>8 DEF Receipt
  <2> QED
    BY <1>5, <1>6, <1>7, <2>1, NullAssumption DEF Receipt, NullAssumption
<1>10. receipt' = [receipt EXCEPT ![n] = row]
  BY <1>3, <1>4, <1>5, <1>7, <1>8 DEF TypeOK
<1>11. /\ receipt' \in [Receipts -> Receipt \cup {None}]
       /\ \A m \in Receipts : receipt[m] # None => receipt'[m] # None
  BY <1>4, <1>5, <1>9, <1>10 DEF TypeOK
<1>12. /\ invoice' \in [Invoices -> Invoice \cup {None}]
       /\ alloc' \in [Sources -> [Invoices -> Nat]]
  BY <1>1, <1>3, CommitEffect
<1>13. /\ credit' \in [CreditNotes -> CreditNote \cup {None}] /\ gl' \in Seq(GlEntry)
       /\ Len(gl') \in Nat /\ Len(gl) <= Len(gl')
  BY <1>3, <1>4 DEF TypeOK
<1>14. TablesGrow /\ EntriesFit'
  BY <1>3, <1>11, <1>13, CommitGrows
<1> QED
  BY <1>3, <1>11, <1>12, <1>13, <1>14, EndStep

(* The commit of postReceipt keeps the types. *)
LEMMA FinishReceiptTyped ==
    ASSUME IInv, NEW c \in Clients, FinishReceipt(c)
    PROVE  IInv'
<1>1. PICK n : n = req[c].doc
  OBVIOUS
<1>2. PICK row : row = [amount |-> req[c].amount, allocated |-> req[c].allocated,
                        unapplied |-> req[c].amount - req[c].allocated]
  OBVIOUS
<1>3. /\ pc[c] = "allocating" /\ req[c].kind = "receipt" /\ CommitAllocations(c)
      /\ pc' = [pc EXCEPT ![c] = "idle"] /\ req' = [req EXCEPT ![c] = None]
      /\ receipt' = [receipt EXCEPT ![n] = row]
      /\ gl' = Append(gl, Posting(n, -req[c].amount))
      /\ EndTransaction(c) /\ UNCHANGED credit
  BY <1>1, <1>2 DEF FinishReceipt, Goto
<1>4. TypeOK /\ Fits(c)
  BY DEF IInv
<1>5. n \in Receipts /\ req[c].amount \in Nat /\ req[c].allocated \in Nat
  BY <1>1, <1>3, RequestTyped DEF ReceiptRequest
<1>6. row \in Receipt /\ row # None
  BY <1>2, <1>5, NullAssumption DEF Receipt, NullAssumption
<1>7. /\ receipt' \in [Receipts -> Receipt \cup {None}]
      /\ \A m \in Receipts : receipt[m] # None => receipt'[m] # None
  BY <1>3, <1>4, <1>5, <1>6 DEF TypeOK
<1>8. /\ invoice' \in [Invoices -> Invoice \cup {None}]
      /\ alloc' \in [Sources -> [Invoices -> Nat]]
  BY <1>1, <1>3, CommitEffect
<1>9. Posting(n, -req[c].amount) \in GlEntry
  BY <1>5 DEF Posting, GlEntry, Sources
<1>10. /\ credit' \in [CreditNotes -> CreditNote \cup {None}] /\ gl' \in Seq(GlEntry)
       /\ Len(gl') \in Nat /\ Len(gl) <= Len(gl')
  BY <1>3, <1>4, <1>9 DEF TypeOK
<1>11. \A m \in CreditNotes : credit[m] # None => credit'[m] # None
  BY <1>3
<1>12. TablesGrow /\ EntriesFit'
  BY <1>3, <1>7, <1>10, <1>11, CommitGrows
<1> QED
  BY <1>3, <1>7, <1>8, <1>10, <1>12, EndStep

-----------------------------------------------------------------------------

(* The first state is typed. *)
LEMMA InitTyped ==
    ASSUME Init
    PROVE  IInv
<1>1. TypeOK
  <2>1. pc \in [Clients -> Uncommitted \cup {"idle", "reversed"}]
    BY DEF Init
  <2>2. \A c \in Clients : HasRows(writes[c], Pending) /\ HasRows(made[c], Nat)
    BY NoRowsType DEF Init
  <2> QED
    BY <2>1, <2>2 DEF Init, TypeOK
<1>2. \A c \in Clients : Fits(c)
  BY NoRowsType DEF Init, Fits, RequestFits, DocumentExists, RowsAreHeld
<1>3. EntriesFit
  BY DEF Init, EntriesFit
<1> QED
  BY <1>1, <1>2, <1>3 DEF IInv

(* Every step keeps the types. *)
LEMMA NextTyped ==
    ASSUME IInv, [Next]_vars
    PROVE  IInv'
<1>1. CASE UNCHANGED vars
  <2>1. TypeOK' /\ EntriesFit'
    BY <1>1 DEF vars, IInv, TypeOK, EntriesFit
  <2>2. \A c \in Clients : Fits(c)'
    BY <1>1 DEF vars, IInv, Fits, RequestFits, DocumentExists, RowsAreHeld, HasEntry
  <2> QED
    BY <2>1, <2>2 DEF IInv
<1>2. ASSUME NEW c \in Clients, Start(c) PROVE IInv'
  <2>1. ASSUME NEW i \in Invoices, NEW total \in Totals, CreateInvoice(c, i, total) PROVE IInv'
    BY <2>1, CreateInvoiceTyped
  <2>2. ASSUME NEW n \in CreditNotes, NEW total \in Totals, CreateCreditNote(c, n, total) PROVE IInv'
    BY <2>2, CreateCreditTyped
  <2>3. ASSUME NEW i \in Invoices, NEW total \in Totals, ReadForUpdate(c, i, total) PROVE IInv'
    BY <2>3, ReadDraftTyped, AmountsAssumption DEF ReadForUpdate, AmountsAssumption
  <2>4. ASSUME NEW i \in Invoices, ReadForIssue(c, i) \/ ReadDraftForVoid(c, i) PROVE IInv'
    <3>1. PICK total : total = invoice[i].total
      OBVIOUS
    <3>2. PICK kind \in {"issue", "void"} : ReadDraft(c, i, kind, total)
      BY <2>4, <3>1 DEF ReadForIssue, ReadDraftForVoid
    <3>3. total \in Nat
      BY <3>1, <3>2, RowsTyped DEF IInv, ReadDraft, Invoice
    <3> QED
      BY <3>2, <3>3, ReadDraftTyped
  <2>5. ASSUME NEW i \in Invoices, ReadForVoid(c, i) PROVE IInv'
    BY <2>5, ReadForVoidTyped
  <2>6. ASSUME NEW e \in DOMAIN gl, RequestReversal(c, e) PROVE IInv'
    BY <2>6, RequestReversalTyped
  <2>7. ASSUME NEW n \in CreditNotes, ReadDraftCredit(c, n) PROVE IInv'
    BY <2>7, ReadDraftCreditTyped
  <2>8. ASSUME NEW n \in CreditNotes, NEW list \in Lists, ReadCredit(c, n, list) PROVE IInv'
    BY <2>8, ReadCreditTyped
  <2>9. ASSUME NEW r \in Receipts, NEW list \in Lists, ReadReceipt(c, r, list) PROVE IInv'
    BY <2>9, ReadReceiptTyped
  <2>10. ASSUME NEW r \in Receipts, NEW y \in Years, NEW amount \in Totals,
                NEW list \in Lists \cup {<<>>}, PrepareReceipt(c, r, y, amount, list)
         PROVE  IInv'
    BY <2>10, PrepareReceiptTyped
  <2> QED
    BY <1>2, <2>1, <2>2, <2>3, <2>4, <2>5, <2>6, <2>7, <2>8, <2>9, <2>10 DEF Start
<1>3. ASSUME NEW c \in Clients, Continue(c) PROVE IInv'
  BY <1>3, CommitUpdateTyped, CommitIssueTyped, CommitVoidDraftTyped, ReadEntryTyped,
     CommitReversalTyped, CommitVoidTyped, CommitCreditTyped, BeginAllocationTyped,
     BeginReceiptTyped, ReadForAllocationTyped, WriteAllocationTyped, FinishApplyTyped,
     FinishAllocateTyped, FinishReceiptTyped, FailTyped, FailBetweenTyped DEF Continue
<1> QED
  BY <1>1, <1>2, <1>3 DEF Next

(* Rows, requests, locks and open transactions are of their types, however *)
(* the handlers of ar.ts interleave and fail.                              *)
THEOREM TypeCorrect == Spec => []TypeOK
<1>1. Init => IInv
  BY InitTyped
<1>2. IInv /\ [Next]_vars => IInv'
  BY NextTyped
<1>3. IInv => TypeOK
  BY DEF IInv
<1> QED
  BY <1>1, <1>2, <1>3, PTL DEF Spec

-----------------------------------------------------------------------------
(* Steps of one handler, and the others *)

(* A step of c leaves the other handlers, and their locks, as they are. *)
LEMMA StepStays ==
    ASSUME TypeOK, NEW c \in Clients, Start(c) \/ Continue(c)
    PROVE  OthersStay(c)
<1>a. DOMAIN pc = Clients /\ DOMAIN req = Clients /\ DOMAIN lock = Lockable
      /\ DOMAIN writes = Clients /\ DOMAIN made = Clients /\ None \notin Clients
  BY IdentifiersAssumption DEF TypeOK, IdentifiersAssumption
<1>1. CASE UNCHANGED <<lock, writes, made>> /\ \E x, r : /\ pc' = [pc EXCEPT ![c] = x]
                                                        /\ req' = [req EXCEPT ![c] = r]
  BY <1>a, <1>1 DEF OthersStay
<1>2. CASE EndTransaction(c) /\ \E x, r : /\ pc' = [pc EXCEPT ![c] = x]
                                         /\ req' = [req EXCEPT ![c] = r]
  BY <1>a, <1>2 DEF OthersStay, EndTransaction
<1>3. ASSUME Start(c) PROVE OthersStay(c)
  <2>1. CASE UNCHANGED <<pc, req, lock, writes, made>>
    BY <2>1 DEF OthersStay
  <2>2. CASE \E i \in Invoices : \E total, kind : ReadDraft(c, i, kind, total)
    BY <1>1, <2>2 DEF ReadDraft, Goto
  <2>3. CASE \E i \in Invoices : ReadForVoid(c, i)
    <3>1. PICK i \in Invoices : ReadForVoid(c, i)
      BY <2>3
    <3>2. PICK r : r = [kind |-> "void", doc |-> i, entry |-> invoice[i].entry]
      OBVIOUS
    <3>3. /\ pc' = [pc EXCEPT ![c] = "voiding"] /\ req' = [req EXCEPT ![c] = r]
          /\ UNCHANGED <<lock, writes, made>>
      BY <3>1, <3>2 DEF ReadForVoid, Goto
    <3> QED
      BY <1>1, <3>3
  <2>4. CASE \E e \in DOMAIN gl : RequestReversal(c, e)
    BY <1>1, <2>4 DEF RequestReversal, Goto
  <2>5. CASE \E n \in CreditNotes : ReadDraftCredit(c, n)
    BY <1>1, <2>5 DEF ReadDraftCredit, Goto
  <2>6. CASE \E n \in CreditNotes, list \in Lists : ReadCredit(c, n, list)
    BY <1>1, <2>6 DEF ReadCredit, Goto
  <2>7. CASE \E r \in Receipts, list \in Lists : ReadReceipt(c, r, list)
    BY <1>1, <2>7 DEF ReadReceipt, Goto
  <2>8. CASE \E r \in Receipts, y \in Years, amount \in Totals, list \in Lists \cup {<<>>} :
                PrepareReceipt(c, r, y, amount, list)
    BY <1>1, <2>8 DEF PrepareReceipt, Goto
  <2>9. ASSUME \/ \E i \in Invoices, total \in Totals : CreateInvoice(c, i, total)
               \/ \E n \in CreditNotes, total \in Totals : CreateCreditNote(c, n, total)
        PROVE  UNCHANGED <<pc, req, lock, writes, made>>
    BY <2>9 DEF CreateInvoice, CreateCreditNote
  <2> QED
    BY <1>3, <2>1, <2>2, <2>3, <2>4, <2>5, <2>6, <2>7, <2>8, <2>9
    DEF Start, ReadForUpdate, ReadForIssue, ReadDraftForVoid
<1>4. ASSUME \/ CommitUpdate(c) \/ CommitIssue(c) \/ CommitVoidDraft(c)
             \/ CommitVoid(c) \/ CommitCredit(c) \/ FailBetween(c)
      PROVE  OthersStay(c)
  BY <1>1, <1>4 DEF CommitUpdate, CommitIssue, CommitVoidDraft, CommitVoid, CommitCredit,
                    FailBetween, Return
<1>5. ASSUME ReadEntry(c) PROVE OthersStay(c)
  BY <1>a, <1>5 DEF ReadEntry, Goto, OthersStay
<1>6. ASSUME CommitReversal(c) PROVE OthersStay(c)
  BY <1>a, <1>6 DEF CommitReversal, Goto, Return, OthersStay
<1>7. ASSUME BeginAllocation(c) PROVE OthersStay(c)
  BY <1>1, <1>7 DEF BeginAllocation, Goto
<1>8. ASSUME BeginReceipt(c) PROVE OthersStay(c)
  BY <1>a, <1>8 DEF BeginReceipt, Goto, OthersStay
<1>9. ASSUME ReadForAllocation(c) PROVE OthersStay(c)
  BY <1>a, <1>9 DEF ReadForAllocation, Goto, OthersStay
<1>10. ASSUME WriteAllocation(c) PROVE OthersStay(c)
  BY <1>a, <1>10 DEF WriteAllocation, Goto, OthersStay
<1>11. ASSUME FinishApply(c) \/ FinishAllocate(c) \/ FinishReceipt(c) \/ Fail(c)
       PROVE  OthersStay(c)
  BY <1>2, <1>11 DEF FinishApply, FinishAllocate, FinishReceipt, Fail, Goto, Return
<1> QED
  BY <1>3, <1>4, <1>5, <1>6, <1>7, <1>8, <1>9, <1>10, <1>11 DEF Continue

-----------------------------------------------------------------------------
(* What is allocated to an invoice *)

(* Allocations to an invoice add up to a natural. *)
LEMMA AllocatedToType ==
    ASSUME TypeOK, NEW i \in Invoices
    PROVE  AllocatedTo(i) \in Nat
<1>1. IsFiniteSet(Sources)
  BY IdentifiersAssumption, FS_Union DEF IdentifiersAssumption, Sources
<1>2. PICK f : f = [s \in Sources |-> alloc[s][i]]
  OBVIOUS
<1>3. DOMAIN f = Sources /\ \A s \in Sources : f[s] \in Nat
  BY <1>2 DEF TypeOK
<1>4. SumFunctionOnSet(f, Sources) \in Nat
  BY <1>1, <1>3, SumNat
<1> QED
  BY <1>2, <1>3, <1>4 DEF AllocatedTo, SumFunction

(* A commit adds to them what the transaction made. *)
LEMMA AllocatedToCommit ==
    ASSUME IInv, NEW c \in Clients, pc[c] \in {"allocating", "writing"}, CommitAllocations(c),
           NEW i \in Invoices
    PROVE  AllocatedTo(i)' = AllocatedTo(i) + Made(c, i)
<1>1. IsFiniteSet(Sources)
  BY IdentifiersAssumption, FS_Union DEF IdentifiersAssumption, Sources
<1>2. PICK f : f = [s \in Sources |-> alloc[s][i]]
  OBVIOUS
<1>3. PICK e : e = [s \in Sources |-> alloc'[s][i]]
  OBVIOUS
<1>4. PICK s : s = req[c].doc
  OBVIOUS
<1>5. /\ s \in Sources /\ alloc' \in [Sources -> [Invoices -> Nat]]
      /\ alloc'[s][i] = alloc[s][i] + Made(c, i)
      /\ \A t \in Sources \ {s} : alloc'[t] = alloc[t]
  BY <1>4, CommitEffect
<1>6. alloc \in [Sources -> [Invoices -> Nat]] /\ Made(c, i) \in Nat
  BY RowsTyped DEF IInv, TypeOK
<1>7. \A t \in Sources : f[t] \in Int /\ e[t] \in Int
  BY <1>2, <1>3, <1>5, <1>6
<1>8. \A t \in Sources \ {s} : e[t] = f[t]
  BY <1>2, <1>3, <1>5
<1>9. SumFunctionOnSet(e, Sources) = SumFunctionOnSet(f, Sources) + (e[s] - f[s])
  BY <1>1, <1>5, <1>7, <1>8, SumChange
<1>10. e[s] - f[s] = Made(c, i)
  BY <1>2, <1>3, <1>5, <1>6
<1>11. AllocatedTo(i) = SumFunctionOnSet(f, Sources)
  BY <1>2 DEF AllocatedTo, SumFunction
<1>12. AllocatedTo(i)' = SumFunctionOnSet(e, Sources)
  BY <1>3 DEF AllocatedTo, SumFunction
<1> QED
  BY <1>9, <1>10, <1>11, <1>12

(* They are a matter of the allocation rows only. *)
LEMMA AllocatedToSame ==
    ASSUME alloc' = alloc, NEW i
    PROVE  AllocatedTo(i)' = AllocatedTo(i)
BY DEF AllocatedTo

-----------------------------------------------------------------------------
(* No over-allocation by receipts *)

(* What a row would leave due is covered by the total, with what is        *)
(* allocated to the invoice and the amount that is about to be.            *)
Covered(i, amount, row) ==
    /\ invoice[i] # None
    /\ row.due >= 0
    /\ AllocatedTo(i) + amount + row.due <= invoice[i].total

(* Every row of an invoice is covered. *)
InvoiceCovered(i) ==
    /\ invoice[i] = None => AllocatedTo(i) = 0
    /\ invoice[i] # None => Covered(i, 0, invoice[i])

(* An open transaction is a receipt's, and locks its year. *)
WorkCovered(c) ==
    /\ pc[c] \in {"allocating", "writing"} =>
          req[c].kind = "receipt" /\ lock[req[c].year] = c
    /\ \A i \in DOMAIN writes[c] : Covered(i, made[c][i], writes[c][i])
    /\ pc[c] = "writing" =>
          LET next == Head(req[c].todo) IN
          Covered(next.invoice, Made(c, next.invoice) + next.amount, req[c].row)

(* The inductive invariant of receipts that interleave. *)
ReceiptsInv ==
    /\ IInv
    /\ \A i \in Invoices : InvoiceCovered(i)
    /\ \A c \in Clients : WorkCovered(c)

(* Invoices are paid by receipts only, of one year, and not edited. *)
OnlyReceiptsAllocate ==
    /\ Kinds \cap {"update", "apply", "allocate"} = {}
    /\ \A y, z \in Years : y = z

(* A step of c without a commit of allocations keeps the other handlers    *)
(* covered.                                                                *)
LEMMA CoverStep ==
    ASSUME ReceiptsInv, IInv', NEW c \in Clients, OthersStay(c), alloc' = alloc,
           \A i \in Invoices : invoice[i] # None =>
               invoice'[i] # None /\ invoice'[i].total = invoice[i].total,
           \A i \in Invoices : InvoiceCovered(i)', WorkCovered(c)'
    PROVE  ReceiptsInv'
<1> SUFFICES ASSUME NEW d \in Clients \ {c} PROVE WorkCovered(d)'
  BY DEF ReceiptsInv
<1>1. /\ pc'[d] = pc[d] /\ req'[d] = req[d] /\ writes'[d] = writes[d] /\ made'[d] = made[d]
      /\ \A x \in Lockable : lock[x] = d => lock'[x] = d
  BY DEF OthersStay
<1>2. WorkCovered(d) /\ IInv /\ TypeOK
  BY DEF ReceiptsInv, IInv
<1>3. ASSUME NEW i \in Invoices, NEW amount, NEW row, Covered(i, amount, row)
      PROVE  Covered(i, amount, row)'
  BY <1>3, AllocatedToSame DEF Covered
<1>4. pc[d] \in {"allocating", "writing"} => req[d].kind = "receipt" /\ lock'[req[d].year] = d
  <2> SUFFICES ASSUME pc[d] \in {"allocating", "writing"}
               PROVE  req[d].kind = "receipt" /\ lock'[req[d].year] = d
    OBVIOUS
  <2>1. req[d].kind = "receipt" /\ lock[req[d].year] = d
    BY <1>2 DEF WorkCovered
  <2>2. req[d].year \in Lockable
    BY <1>2, <2>1, RequestTyped DEF ReceiptRequest, Lockable
  <2> QED
    BY <1>1, <2>1, <2>2
<1>5. \A i \in DOMAIN writes[d] : Covered(i, made[d][i], writes[d][i])'
  <2>1. DOMAIN writes[d] \subseteq Invoices
    BY <1>2, RowsTyped
  <2> TAKE i \in DOMAIN writes[d]
  <2>2. PICK amount : amount = made[d][i]
    OBVIOUS
  <2>3. PICK row : row = writes[d][i]
    OBVIOUS
  <2>4. Covered(i, amount, row)
    BY <1>2, <2>2, <2>3 DEF WorkCovered
  <2>5. Covered(i, amount, row)'
    BY <1>3, <2>1, <2>4
  <2> QED
    BY <1>1, <2>2, <2>3, <2>5 DEF Covered
<1>6. pc[d] = "writing" =>
          Covered(Head(req[d].todo).invoice,
                  Made(d, Head(req[d].todo).invoice) + Head(req[d].todo).amount, req[d].row)'
  <2> SUFFICES ASSUME pc[d] = "writing"
               PROVE  Covered(Head(req[d].todo).invoice,
                  Made(d, Head(req[d].todo).invoice) + Head(req[d].todo).amount, req[d].row)'
    OBVIOUS
  <2>1. PICK i : i = Head(req[d].todo).invoice
    OBVIOUS
  <2>2. PICK amount : amount = Made(d, i) + Head(req[d].todo).amount
    OBVIOUS
  <2>3. PICK row : row = req[d].row
    OBVIOUS
  <2>4. Covered(i, amount, row)
    BY <1>2, <2>1, <2>2, <2>3 DEF WorkCovered
  <2>5. i \in Invoices
    <3>1. req[d].todo # <<>>
      BY <1>2 DEF IInv, Fits, RequestFits
    <3> QED
      BY <1>2, <2>1, <3>1, NextAllocation
  <2>6. Covered(i, amount, row)'
    BY <1>3, <2>4, <2>5
  <2>7. Made(d, i)' = Made(d, i)
    BY <1>1 DEF Made
  <2> QED
    BY <1>1, <2>1, <2>2, <2>3, <2>6, <2>7 DEF Covered
<1> QED
  BY <1>1, <1>4, <1>5, <1>6 DEF WorkCovered

(* A step that leaves the allocation rows and the totals alone, and no     *)
(* invoice more to pay, keeps every invoice covered.                       *)
LEMMA StillCovered ==
    ASSUME ReceiptsInv, alloc' = alloc,
           \A i \in Invoices : /\ invoice'[i] # None => invoice'[i] \in Invoice
                               /\ invoice[i] # None =>
                                    /\ invoice'[i] # None /\ invoice'[i].total = invoice[i].total
                                    /\ \/ invoice'[i].due = invoice[i].due
                                       \/ invoice'[i].due = 0
                               /\ invoice[i] = None /\ invoice'[i] # None =>
                                    invoice'[i].due = invoice'[i].total
    PROVE  \A i \in Invoices : InvoiceCovered(i)'
<1> SUFFICES ASSUME NEW i \in Invoices PROVE InvoiceCovered(i)'
  OBVIOUS
<1>1. InvoiceCovered(i) /\ TypeOK
  BY DEF ReceiptsInv, IInv
<1>2. PICK a : a = AllocatedTo(i)
  OBVIOUS
<1>3. AllocatedTo(i)' = a /\ a \in Nat
  BY <1>1, <1>2, AllocatedToSame, AllocatedToType
<1>4. CASE invoice[i] = None
  <2>1. a = 0
    BY <1>1, <1>2, <1>4 DEF InvoiceCovered
  <2>2. ASSUME invoice'[i] # None
        PROVE  invoice'[i].due >= 0 /\ a + 0 + invoice'[i].due <= invoice'[i].total
    <3>1. invoice'[i] \in Invoice /\ invoice'[i].due = invoice'[i].total
      BY <1>4, <2>2
    <3>2. invoice'[i].total \in Nat
      BY <3>1 DEF Invoice
    <3> QED
      BY <2>1, <3>1, <3>2
  <2> QED
    BY <1>3, <2>1, <2>2 DEF InvoiceCovered, Covered
<1>5. CASE invoice[i] # None
  <2>1. invoice[i].due >= 0 /\ a + 0 + invoice[i].due <= invoice[i].total
    BY <1>1, <1>2, <1>5 DEF InvoiceCovered, Covered
  <2>2. invoice'[i] # None /\ invoice'[i].total = invoice[i].total
        /\ (invoice'[i].due = invoice[i].due \/ invoice'[i].due = 0)
    BY <1>5
  <2>3. invoice[i].due \in Int /\ invoice[i].total \in Nat
    BY <1>1, <1>5, RowsTyped DEF Invoice
  <2>4. invoice'[i].due >= 0 /\ a + 0 + invoice'[i].due <= invoice'[i].total
    BY <1>3, <2>1, <2>2, <2>3
  <2> QED
    BY <1>3, <2>2, <2>4 DEF InvoiceCovered, Covered
<1> QED
  BY <1>4, <1>5

(* A handler without an open transaction has nothing to cover. *)
LEMMA NothingToCover ==
    ASSUME IInv, NEW c \in Clients, pc[c] \notin {"allocating", "writing"}
    PROVE  WorkCovered(c)
BY IdleHoldsNothing DEF WorkCovered

(* ... so such a step keeps the invariant. *)
LEMMA QuietStep ==
    ASSUME ReceiptsInv, IInv', NEW c \in Clients, OthersStay(c), alloc' = alloc,
           pc'[c] \notin {"allocating", "writing"},
           \A i \in Invoices : /\ invoice'[i] # None => invoice'[i] \in Invoice
                               /\ invoice[i] # None =>
                                    /\ invoice'[i] # None /\ invoice'[i].total = invoice[i].total
                                    /\ \/ invoice'[i].due = invoice[i].due
                                       \/ invoice'[i].due = 0
                               /\ invoice[i] = None /\ invoice'[i] # None =>
                                    invoice'[i].due = invoice'[i].total
    PROVE  ReceiptsInv'
<1>1. WorkCovered(c)'
  <2>1. DOMAIN writes'[c] = {}
    BY NoRowsType DEF IInv, Fits, RowsAreHeld
  <2> QED
    BY <2>1 DEF WorkCovered
<1>2. \A i \in Invoices : InvoiceCovered(i)'
  BY StillCovered
<1> QED
  BY <1>1, <1>2, CoverStep

(* ... and so does a read. *)
LEMMA QuietRead ==
    ASSUME ReceiptsInv, IInv', NEW c \in Clients, OthersStay(c), UNCHANGED <<invoice, alloc>>,
           pc'[c] \notin {"allocating", "writing"}
    PROVE  ReceiptsInv'
<1>1. TypeOK
  BY DEF ReceiptsInv, IInv
<1>2. \A i \in Invoices : invoice[i] # None => invoice[i] \in Invoice
  BY <1>1, RowsTyped
<1> QED
  BY <1>2, QuietStep

(* The steps of a receipt's transaction *)
LEMMA BeginReceiptCovered ==
    ASSUME ReceiptsInv, IInv', NEW c \in Clients, OthersStay(c), BeginReceipt(c)
    PROVE  ReceiptsInv'
<1>1. IInv /\ TypeOK /\ pc[c] = "checked" /\ req[c].kind = "receipt"
  BY DEF ReceiptsInv, IInv, BeginReceipt, Goto
<1>2. DOMAIN writes[c] = {}
  BY <1>1, IdleHoldsNothing
<1>3. req[c].year \in Lockable
  BY <1>1, RequestTyped DEF ReceiptRequest, Lockable
<1>4. pc'[c] = "allocating" /\ req' = req /\ lock'[req[c].year] = c /\ writes' = writes
      /\ invoice' = invoice /\ alloc' = alloc
  BY <1>1, <1>3 DEF BeginReceipt, Goto, TypeOK, tables
<1>5. WorkCovered(c)'
  BY <1>1, <1>2, <1>4 DEF WorkCovered
<1>6. \A i \in Invoices : invoice[i] # None => invoice[i] \in Invoice
  BY <1>1, RowsTyped
<1>7. \A i \in Invoices : InvoiceCovered(i)'
  BY <1>4, <1>6, StillCovered
<1> QED
  BY <1>4, <1>5, <1>7, CoverStep

(* A row as the transaction sees it is covered, with what the transaction  *)
(* has allocated to it.                                                    *)
LEMMA SeenCovered ==
    ASSUME ReceiptsInv, NEW c \in Clients, NEW i \in Invoices, invoice[i] # None
    PROVE  Covered(i, Made(c, i), Seen(c, i))
<1>1. IInv /\ WorkCovered(c) /\ InvoiceCovered(i)
  BY DEF ReceiptsInv
<1>2. DOMAIN made[c] = DOMAIN writes[c]
  BY <1>1 DEF IInv, Fits, RowsAreHeld
<1>3. CASE i \in DOMAIN writes[c]
  <2>1. Made(c, i) = made[c][i] /\ Seen(c, i).due = writes[c][i].due
    BY <1>1, <1>2, <1>3, SeenTyped DEF Made
  <2> QED
    BY <1>1, <1>3, <2>1 DEF WorkCovered, Covered
<1>4. CASE i \notin DOMAIN writes[c]
  <2>1. Made(c, i) = 0 /\ Seen(c, i) = invoice[i]
    BY <1>1, <1>2, <1>4, SeenTyped DEF Made
  <2> QED
    BY <1>1, <2>1 DEF InvoiceCovered, Covered
<1> QED
  BY <1>3, <1>4

(* What a receipt is about to write is covered. *)
LEMMA ReadForAllocationCovered ==
    ASSUME ReceiptsInv, IInv', NEW c \in Clients, OthersStay(c), ReadForAllocation(c)
    PROVE  ReceiptsInv'
<1>1. IInv /\ TypeOK /\ WorkCovered(c) /\ pc[c] = "allocating" /\ req[c].todo # <<>>
  BY DEF ReceiptsInv, IInv, ReadForAllocation, Goto
<1>2. PICK i : i = Head(req[c].todo).invoice
  OBVIOUS
<1>3. PICK amount : amount = Head(req[c].todo).amount
  OBVIOUS
<1>4. PICK seen : seen = Seen(c, i)
  OBVIOUS
<1>5. i \in Invoices /\ amount \in Nat
  BY <1>1, <1>2, <1>3, NextAllocation
<1>6. invoice[i] # None /\ amount <= seen.due
      /\ pc' = [pc EXCEPT ![c] = "writing"]
      /\ req' = [req EXCEPT ![c].row = Allocated(seen, amount)]
      /\ UNCHANGED <<invoice, alloc, lock, writes, made>>
  BY <1>2, <1>3, <1>4 DEF ReadForAllocation, Goto, tables
<1>7. seen \in Invoice
  BY <1>1, <1>4, <1>5, <1>6, SeenTyped
<1>8. Covered(i, Made(c, i), seen)
  BY <1>4, <1>5, <1>6, SeenCovered
<1>9. PICK row : row = Allocated(seen, amount)
  OBVIOUS
<1>10. row.due = seen.due - amount
  BY <1>9 DEF Allocated
<1>11. Covered(i, Made(c, i) + amount, row)
  <2>1. AllocatedTo(i) \in Nat /\ Made(c, i) \in Nat /\ seen.due \in Int /\ invoice[i].total \in Nat
    BY <1>1, <1>5, <1>6, <1>7, AllocatedToType, RowsTyped DEF Invoice
  <2> QED
    BY <1>5, <1>6, <1>8, <1>10, <2>1 DEF Covered
<1>12. pc'[c] = "writing" /\ req' = [req EXCEPT ![c].row = row]
  BY <1>1, <1>6, <1>9 DEF TypeOK
<1>13. /\ req'[c].kind = req[c].kind /\ req'[c].row = row /\ req'[c].todo = req[c].todo
       /\ req[c].kind = "receipt" => req'[c].year = req[c].year
  <2>1. req[c] \in AllocationRequest \cup ReceiptRequest
    BY <1>1 DEF IInv, Fits, RequestFits
  <2>2. DOMAIN req = Clients
    BY <1>1 DEF TypeOK
  <2> QED
    BY <1>12, <2>1, <2>2 DEF AllocationRequest, ReceiptRequest
<1>14. Covered(i, Made(c, i) + amount, row)'
  <2>1. AllocatedTo(i)' = AllocatedTo(i)
    BY <1>6, AllocatedToSame
  <2>2. \A a, b : Covered(i, a, b) => Covered(i, a, b)'
    BY <1>6, <2>1 DEF Covered
  <2>3. Made(c, i)' = Made(c, i)
    BY <1>6 DEF Made
  <2> QED
    BY <1>11, <2>1, <1>6, <2>3 DEF Covered
<1>15. \A j \in DOMAIN writes[c] : Covered(j, made[c][j], writes[c][j])'
  <2> TAKE j \in DOMAIN writes[c]
  <2>1. AllocatedTo(j)' = AllocatedTo(j)
    BY <1>6, AllocatedToSame
  <2>2. Covered(j, made[c][j], writes[c][j])
    BY <1>1 DEF WorkCovered
  <2> QED
    BY <1>6, <2>1, <2>2 DEF Covered
<1>16. WorkCovered(c)'
  <2>1. req'[c].kind = "receipt" /\ lock'[req'[c].year] = c
    BY <1>1, <1>6, <1>13 DEF WorkCovered
  <2>2. \A j \in DOMAIN writes'[c] : Covered(j, made[c][j], writes[c][j])'
    BY <1>6, <1>15
  <2>3. Head(req'[c].todo).invoice = i /\ Head(req'[c].todo).amount = amount
    BY <1>2, <1>3, <1>13
  <2>4. Covered(Head(req[c].todo).invoice,
                  Made(c, Head(req[c].todo).invoice) + Head(req[c].todo).amount, req[c].row)'
    BY <1>13, <1>14, <2>3 DEF Covered, Made
  <2> QED
    BY <2>1, <2>2, <2>4 DEF WorkCovered
<1>17. \A j \in Invoices : invoice[j] # None => invoice[j] \in Invoice
  BY <1>1, RowsTyped
<1>18. \A j \in Invoices : InvoiceCovered(j)'
  BY <1>6, <1>17, StillCovered
<1> QED
  BY <1>6, <1>16, <1>18, CoverStep

(* What it has written is covered. *)
LEMMA WriteAllocationCovered ==
    ASSUME ReceiptsInv, IInv', NEW c \in Clients, OthersStay(c), WriteAllocation(c)
    PROVE  ReceiptsInv'
<1>1. IInv /\ TypeOK /\ WorkCovered(c) /\ pc[c] = "writing"
  BY DEF ReceiptsInv, IInv, WriteAllocation, Goto
<1>2. PICK i : i = Head(req[c].todo).invoice
  OBVIOUS
<1>3. PICK amount : amount = Head(req[c].todo).amount
  OBVIOUS
<1>4. /\ i \in Invoices /\ amount \in Nat
      /\ DOMAIN writes'[c] = DOMAIN writes[c] \cup {i}
      /\ writes'[c][i] = req[c].row
      /\ \A j \in DOMAIN writes[c] \ {i} : writes'[c][j] = writes[c][j]
      /\ made'[c][i] = amount + Made(c, i)
      /\ \A j \in DOMAIN made[c] \ {i} : made'[c][j] = made[c][j]
  BY <1>1, <1>2, <1>3, WriteEffect
<1>5. DOMAIN made[c] = DOMAIN writes[c]
  BY <1>1 DEF IInv, Fits, RowsAreHeld
<1>6. Made(c, i) \in Nat
  BY <1>1, <1>4, RowsTyped
<1>7. UNCHANGED <<invoice, alloc>> /\ pc'[c] = "allocating"
  BY <1>1 DEF WriteAllocation, Goto, tables, TypeOK
<1>8. \A j \in DOMAIN writes'[c] : Covered(j, made'[c][j], writes'[c][j])
  <2> TAKE j \in DOMAIN writes'[c]
  <2>1. CASE j = i
    <3>1. Covered(i, Made(c, i) + amount, req[c].row)
      BY <1>1, <1>2, <1>3 DEF WorkCovered
    <3> QED
      BY <1>4, <1>6, <2>1, <3>1
  <2>2. CASE j # i
    BY <1>1, <1>4, <1>5, <2>2 DEF WorkCovered
  <2> QED
    BY <2>1, <2>2
<1>9. \A j \in DOMAIN writes'[c] : Covered(j, made[c][j], writes[c][j])'
  <2> TAKE j \in DOMAIN writes'[c]
  <2>1. AllocatedTo(j)' = AllocatedTo(j)
    BY <1>7, AllocatedToSame
  <2>2. Covered(j, made'[c][j], writes'[c][j])
    BY <1>8
  <2> QED
    BY <1>7, <2>1, <2>2 DEF Covered
<1>10. req'[c].kind = "receipt" /\ lock'[req'[c].year] = c
  <2>1. req[c].kind = "receipt" /\ lock[req[c].year] = c
    BY <1>1 DEF WorkCovered
  <2>2. req[c] \in ReceiptRequest
    BY <1>1, <2>1, RequestTyped
  <2>3. req'[c].kind = req[c].kind /\ req'[c].year = req[c].year
    BY <1>1, <2>2 DEF WriteAllocation, TypeOK, ReceiptRequest
  <2>4. lock' = [lock EXCEPT ![i] = c] /\ lock \in [Lockable -> Clients \cup {None}]
    BY <1>1, <1>2 DEF WriteAllocation, TypeOK
  <2>5. req[c].year \in Lockable
    BY <2>2 DEF ReceiptRequest, Lockable
  <2> QED
    BY <2>1, <2>3, <2>4, <2>5
<1>11. WorkCovered(c)'
  BY <1>7, <1>9, <1>10 DEF WorkCovered
<1>12. \A j \in Invoices : invoice[j] # None => invoice[j] \in Invoice
  BY <1>1, RowsTyped
<1>13. \A j \in Invoices : InvoiceCovered(j)'
  BY <1>7, <1>12, StillCovered
<1> QED
  BY <1>7, <1>11, <1>13, CoverStep

(* A receipt's commit keeps the totals covered: no other is open, since it *)
(* locks the year.                                                         *)
LEMMA FinishReceiptCovered ==
    ASSUME ReceiptsInv, IInv', NEW c \in Clients, OthersStay(c), FinishReceipt(c),
           OnlyReceiptsAllocate
    PROVE  ReceiptsInv'
<1>1. IInv /\ TypeOK /\ pc[c] = "allocating" /\ CommitAllocations(c) /\ EndTransaction(c)
      /\ pc' = [pc EXCEPT ![c] = "idle"]
  BY DEF ReceiptsInv, IInv, FinishReceipt, Goto
<1>2. \A d \in Clients \ {c} : pc[d] \notin {"allocating", "writing"}
  <2> SUFFICES ASSUME NEW d \in Clients \ {c}, pc[d] \in {"allocating", "writing"} PROVE FALSE
    OBVIOUS
  <2>1. /\ req[c].kind = "receipt" /\ lock[req[c].year] = c
        /\ req[d].kind = "receipt" /\ lock[req[d].year] = d
    BY <1>1 DEF ReceiptsInv, WorkCovered
  <2>2. req[c].year \in Years /\ req[d].year \in Years
    BY <1>1, <2>1, RequestTyped DEF ReceiptRequest
  <2> QED
    BY <2>1, <2>2 DEF OnlyReceiptsAllocate
<1>3. \A d \in Clients : pc'[d] \notin {"allocating", "writing"}
  BY <1>1, <1>2 DEF TypeOK
<1>4. \A d \in Clients : WorkCovered(d)'
  <2> TAKE d \in Clients
  <2>1. DOMAIN writes'[d] = {}
    BY <1>3, NoRowsType DEF IInv, Fits, RowsAreHeld
  <2> QED
    BY <1>3, <2>1 DEF WorkCovered
<1>5. \A i \in Invoices : InvoiceCovered(i)'
  <2> TAKE i \in Invoices
  <2>1. AllocatedTo(i)' = AllocatedTo(i) + Made(c, i)
    BY <1>1, AllocatedToCommit
  <2>2. /\ invoice[i] = None => invoice'[i] = None
        /\ invoice[i] # None => invoice'[i] = Seen(c, i) /\ invoice'[i] # None
    BY <1>1, CommitEffect
  <2>3. AllocatedTo(i) \in Nat /\ Made(c, i) \in Nat
    BY <1>1, AllocatedToType, RowsTyped
  <2>4. CASE invoice[i] = None
    <3>1. i \notin DOMAIN made[c]
      BY <1>1, <2>4 DEF IInv, Fits, RowsAreHeld, HasEntry
    <3>2. Made(c, i) = 0
      BY <3>1 DEF Made
    <3>3. AllocatedTo(i) = 0
      BY <2>4 DEF ReceiptsInv, InvoiceCovered
    <3> QED
      BY <2>1, <2>2, <2>4, <3>2, <3>3 DEF InvoiceCovered
  <2>5. CASE invoice[i] # None
    <3>1. Covered(i, Made(c, i), Seen(c, i))
      BY <2>5, SeenCovered
    <3>2. PICK seen : seen = Seen(c, i)
      OBVIOUS
    <3>3. invoice'[i] = seen /\ seen.total = invoice[i].total /\ seen \in Invoice
      BY <1>1, <2>2, <2>5, <3>2, SeenTyped
    <3>4. seen.due >= 0 /\ AllocatedTo(i) + Made(c, i) + 0 + seen.due <= seen.total
      <4>1. seen.due \in Int /\ seen.total \in Nat
        BY <3>3 DEF Invoice
      <4> QED
        BY <2>3, <3>1, <3>2, <3>3, <4>1 DEF Covered
    <3>5. PICK a : a = AllocatedTo(i)'
      OBVIOUS
    <3>6. a + 0 + seen.due <= seen.total
      BY <2>1, <2>3, <3>4, <3>5
    <3> QED
      BY <2>2, <2>5, <3>3, <3>4, <3>5, <3>6 DEF InvoiceCovered, Covered
  <2> QED
    BY <2>4, <2>5
<1> QED
  BY <1>4, <1>5 DEF ReceiptsInv

(* What the commits of updateInvoice, issueInvoice and voidInvoice make of  *)
(* the invoice.                                                            *)
LEMMA RowCommitted ==
    ASSUME IInv, NEW c \in Clients, NEW i, i = req[c].doc,
           \/ CommitUpdate(c) \/ CommitIssue(c) \/ CommitVoidDraft(c) \/ CommitVoid(c)
    PROVE  /\ i \in Invoices /\ invoice[i] \in Invoice /\ invoice[i] # None
           /\ invoice'[i] \in Invoice /\ invoice'[i] # None
           /\ \A j \in Invoices \ {i} : invoice'[j] = invoice[j]
           /\ CommitUpdate(c) =>
                 invoice'[i] = [status |-> invoice[i].status, total |-> req[c].total,
                                paid |-> invoice[i].paid, due |-> req[c].total,
                                entry |-> invoice[i].entry]
           /\ CommitIssue(c) =>
                 invoice'[i] = [status |-> "issued", total |-> invoice[i].total,
                                paid |-> invoice[i].paid, due |-> invoice[i].due,
                                entry |-> Len(gl) + 1]
           /\ CommitVoidDraft(c) =>
                 invoice'[i] = [status |-> "void", total |-> invoice[i].total,
                                paid |-> invoice[i].paid, due |-> invoice[i].due,
                                entry |-> invoice[i].entry]
           /\ CommitVoid(c) =>
                 invoice'[i] = [status |-> "void", total |-> invoice[i].total,
                                paid |-> invoice[i].paid, due |-> 0,
                                entry |-> invoice[i].entry]
<1>1. TypeOK /\ pc[c] # "idle" /\ req[c].kind \in {"update", "issue", "void"}
      /\ (req[c].kind # "void" => pc[c] = "checked")
  BY DEF IInv, CommitUpdate, CommitIssue, CommitVoidDraft, CommitVoid, Fits, RequestFits
<1>2. i \in Invoices
  BY <1>1, RequestTyped
<1>3. invoice[i] # None /\ invoice[i] \in Invoice
  BY <1>1, <1>2, RowsTyped DEF IInv, Fits, DocumentExists
<1>4. DOMAIN invoice = Invoices /\ Len(gl) \in Nat
  BY <1>1 DEF TypeOK
<1>5. CommitUpdate(c) => req[c].total \in Nat
  BY <1>1, RequestTyped DEF CommitUpdate
<1>6. \A j \in Invoices \ {i} : invoice'[j] = invoice[j]
  BY <1>4 DEF CommitUpdate, CommitIssue, CommitVoidDraft, CommitVoid
<1>7. CommitUpdate(c) =>
          invoice'[i] = [status |-> invoice[i].status, total |-> req[c].total,
                         paid |-> invoice[i].paid, due |-> req[c].total,
                         entry |-> invoice[i].entry]
  BY <1>2, <1>3, <1>4 DEF CommitUpdate, Invoice
<1>8. CommitIssue(c) =>
          invoice'[i] = [status |-> "issued", total |-> invoice[i].total,
                         paid |-> invoice[i].paid, due |-> invoice[i].due,
                         entry |-> Len(gl) + 1]
  BY <1>2, <1>3, <1>4 DEF CommitIssue, Invoice
<1>9. CommitVoidDraft(c) =>
          invoice'[i] = [status |-> "void", total |-> invoice[i].total,
                         paid |-> invoice[i].paid, due |-> invoice[i].due,
                         entry |-> invoice[i].entry]
  BY <1>2, <1>3, <1>4 DEF CommitVoidDraft, Invoice
<1>10. CommitVoid(c) =>
           invoice'[i] = [status |-> "void", total |-> invoice[i].total,
                          paid |-> invoice[i].paid, due |-> 0,
                          entry |-> invoice[i].entry]
  BY <1>2, <1>3, <1>4 DEF CommitVoid, Invoice
<1>11. invoice'[i] \in Invoice
  <2>1. CASE CommitUpdate(c)
    BY <1>3, <1>5, <1>7, <2>1 DEF Invoice
  <2>2. CASE CommitIssue(c)
    BY <1>3, <1>4, <1>8, <2>2 DEF Invoice, Open
  <2>3. CASE CommitVoidDraft(c)
    BY <1>3, <1>9, <2>3 DEF Invoice
  <2>4. CASE CommitVoid(c)
    BY <1>3, <1>10, <2>4 DEF Invoice
  <2> QED
    BY <2>1, <2>2, <2>3, <2>4
<1>12. invoice'[i] # None
  BY <1>11, NullAssumption DEF NullAssumption
<1> QED
  BY <1>2, <1>3, <1>6, <1>7, <1>8, <1>9, <1>10, <1>11, <1>12

(* Steps that start a request keep invoices covered. *)
LEMMA StartCovered ==
    ASSUME ReceiptsInv, IInv', NEW c \in Clients, OthersStay(c), Start(c), OnlyReceiptsAllocate
    PROVE  ReceiptsInv'
<1>1. IInv /\ TypeOK
  BY DEF ReceiptsInv, IInv
<1>2. pc[c] = "idle" /\ pc'[c] \notin {"allocating", "writing"}
  BY <1>1 DEF Start, Starts, Goto, CreateInvoice, CreateCreditNote, ReadForUpdate, ReadForIssue,
              ReadDraftForVoid, ReadDraft, ReadForVoid, RequestReversal, ReadDraftCredit,
              ReadCredit, ReadReceipt, PrepareReceipt, TypeOK
<1>3. ASSUME NEW i \in Invoices, NEW total \in Totals, CreateInvoice(c, i, total)
      PROVE  ReceiptsInv'
  <2>1. total \in Nat
    BY AmountsAssumption DEF AmountsAssumption
  <2>2. invoice[i] = None /\ invoice' = [invoice EXCEPT ![i] = Draft(total)] /\ alloc' = alloc
    BY <1>3 DEF CreateInvoice
  <2>3. Draft(total).due = total /\ Draft(total).total = total
    BY DEF Draft
  <2>4. \A j \in Invoices : invoice'[j] = IF j = i THEN Draft(total) ELSE invoice[j]
    BY <1>1, <2>2 DEF TypeOK
  <2>5. \A j \in Invoices : invoice'[j] # None => invoice'[j] \in Invoice
    BY DEF IInv, TypeOK
  <2> QED
    BY <1>2, <2>2, <2>3, <2>4, <2>5, QuietStep
<1>4. CASE UNCHANGED <<invoice, alloc>>
  BY <1>2, <1>4, QuietRead
<1>5. ASSUME ~\E i \in Invoices, total \in Totals : CreateInvoice(c, i, total)
      PROVE  UNCHANGED <<invoice, alloc>>
  BY <1>5 DEF Start, CreateCreditNote, ReadForUpdate, ReadForIssue, ReadDraftForVoid, ReadDraft,
              ReadForVoid, RequestReversal, ReadDraftCredit, ReadCredit, ReadReceipt,
              PrepareReceipt, tables
<1> QED
  BY <1>3, <1>4, <1>5

(* Steps that carry it on keep them covered. *)
LEMMA ContinueCovered ==
    ASSUME ReceiptsInv, IInv', NEW c \in Clients, OthersStay(c), Continue(c),
           OnlyReceiptsAllocate
    PROVE  ReceiptsInv'
<1>1. IInv /\ TypeOK
  BY DEF ReceiptsInv, IInv
<1>2. pc[c] # "idle" => req[c].kind \notin {"update", "apply", "allocate"}
  BY <1>1, RequestTyped DEF OnlyReceiptsAllocate
<1>3. ASSUME ReadEntry(c) \/ CommitReversal(c) \/ CommitCredit(c) \/ Fail(c) \/ FailBetween(c)
      PROVE  ReceiptsInv'
  <2>1. UNCHANGED <<invoice, alloc>> /\ pc'[c] \notin {"allocating", "writing"}
    BY <1>1, <1>3 DEF ReadEntry, CommitReversal, CommitCredit, Fail, FailBetween, Goto, Return,
                      tables, TypeOK
  <2> QED
    BY <2>1, QuietRead
<1>4. ASSUME CommitIssue(c) \/ CommitVoidDraft(c) \/ CommitVoid(c)
      PROVE  ReceiptsInv'
  <2>1. PICK i : i = req[c].doc
    OBVIOUS
  <2>2. alloc' = alloc /\ pc'[c] \notin {"allocating", "writing"}
    BY <1>1, <1>4 DEF CommitIssue, CommitVoidDraft, CommitVoid, Return, TypeOK
  <2>3. /\ i \in Invoices /\ invoice[i] # None /\ invoice'[i] \in Invoice /\ invoice'[i] # None
        /\ invoice'[i].total = invoice[i].total
        /\ invoice'[i].due = invoice[i].due \/ invoice'[i].due = 0
        /\ \A j \in Invoices \ {i} : invoice'[j] = invoice[j]
    <3>1. /\ i \in Invoices /\ invoice[i] # None /\ invoice'[i] \in Invoice
          /\ invoice'[i] # None
          /\ \A j \in Invoices \ {i} : invoice'[j] = invoice[j]
      BY <1>1, <1>4, <2>1, RowCommitted
    <3>2. CASE CommitIssue(c)
      <4>1. invoice'[i] = [status |-> "issued", total |-> invoice[i].total,
                           paid |-> invoice[i].paid, due |-> invoice[i].due, entry |-> Len(gl) + 1]
        BY <1>1, <2>1, <3>2, RowCommitted
      <4> QED
        BY <3>1, <4>1
    <3>3. CASE CommitVoidDraft(c)
      <4>1. invoice'[i] = [status |-> "void", total |-> invoice[i].total,
                           paid |-> invoice[i].paid, due |-> invoice[i].due, entry |-> invoice[i].entry]
        BY <1>1, <2>1, <3>3, RowCommitted
      <4> QED
        BY <3>1, <4>1
    <3>4. CASE CommitVoid(c)
      <4>1. invoice'[i] = [status |-> "void", total |-> invoice[i].total,
                           paid |-> invoice[i].paid, due |-> 0, entry |-> invoice[i].entry]
        BY <1>1, <2>1, <3>4, RowCommitted
      <4> QED
        BY <3>1, <4>1
    <3> QED
      BY <1>4, <3>1, <3>2, <3>3, <3>4
  <2>4. \A j \in Invoices : invoice[j] # None => invoice[j] \in Invoice
    BY <1>1, RowsTyped
  <2> QED
    BY <2>2, <2>3, <2>4, QuietStep
<1>5. ASSUME CommitUpdate(c) \/ BeginAllocation(c) \/ FinishApply(c) \/ FinishAllocate(c)
      PROVE  FALSE
  BY <1>2, <1>5 DEF CommitUpdate, BeginAllocation, FinishApply, FinishAllocate, Goto
<1> QED
  BY <1>3, <1>4, <1>5, BeginReceiptCovered, ReadForAllocationCovered, WriteAllocationCovered,
     FinishReceiptCovered DEF Continue

(* No invoice is there at first. *)
LEMMA InitCovered ==
    ASSUME Init
    PROVE  ReceiptsInv
<1>1. IInv /\ TypeOK
  BY InitTyped DEF IInv
<1>2. \A c \in Clients : WorkCovered(c)
  <2> TAKE c \in Clients
  <2>1. pc[c] \notin {"allocating", "writing"}
    BY DEF Init
  <2> QED
    BY <1>1, <2>1, NothingToCover
<1>3. \A i \in Invoices : InvoiceCovered(i)
  <2> TAKE i \in Invoices
  <2>1. PICK f : f = [s \in Sources |-> alloc[s][i]]
    OBVIOUS
  <2>2. \A s \in Sources : f[s] = 0
    BY <2>1 DEF Init
  <2>3. IsFiniteSet(Sources) /\ DOMAIN f = Sources
    BY <2>1, IdentifiersAssumption, FS_Union DEF IdentifiersAssumption, Sources
  <2>4. SumFunctionOnSet(f, Sources) = 0
    BY <2>2, <2>3, SumZero
  <2>5. AllocatedTo(i) = 0
    BY <2>1, <2>3, <2>4 DEF AllocatedTo, SumFunction
  <2> QED
    BY <2>5 DEF InvoiceCovered, Init
<1> QED
  BY <1>1, <1>2, <1>3 DEF ReceiptsInv

(* Every step keeps invoices covered. *)
LEMMA NextCovered ==
    ASSUME ReceiptsInv, [Next]_vars, OnlyReceiptsAllocate
    PROVE  ReceiptsInv'
<1>1. IInv /\ TypeOK /\ IInv'
  BY NextTyped DEF ReceiptsInv, IInv
<1>2. CASE Next
  <2>1. PICK c \in Clients : Start(c) \/ Continue(c)
    BY <1>2 DEF Next
  <2>2. OthersStay(c)
    BY <1>1, <2>1, StepStays
  <2> QED
    BY <1>1, <2>1, <2>2, StartCovered, ContinueCovered
<1>3. CASE UNCHANGED vars
  BY <1>1, <1>3 DEF ReceiptsInv, vars, InvoiceCovered, WorkCovered, Covered, AllocatedTo, Made
<1> QED
  BY <1>2, <1>3

(* Receipts of one year never settle more of an invoice than its total,    *)
(* however their handlers interleave with each other, with issuing, voids  *)
(* and reversals, and fail: the lock of the number sequence makes them     *)
(* wait for each other (ar.ts:484-509).                                    *)
THEOREM ReceiptsNeverOverAllocate ==
    ASSUME OnlyReceiptsAllocate
    PROVE  Spec => []NoOverAllocation
<1>1. ASSUME ReceiptsInv PROVE NoOverAllocation
  <2> SUFFICES ASSUME NEW i \in Invoices, Issued(i)
               PROVE  AllocatedTo(i) <= invoice[i].total
    BY DEF NoOverAllocation
  <2>1. TypeOK /\ invoice[i] # None
    BY <1>1 DEF ReceiptsInv, IInv, Issued
  <2>2. Covered(i, 0, invoice[i])
    BY <1>1, <2>1 DEF ReceiptsInv, InvoiceCovered
  <2>3. invoice[i].due \in Int /\ invoice[i].total \in Nat /\ AllocatedTo(i) \in Nat
    BY <2>1, RowsTyped, AllocatedToType DEF Invoice
  <2> QED
    BY <2>2, <2>3 DEF Covered
<1>2. ReceiptsInv => NoOverAllocation
  BY <1>1
<1>3. Init => ReceiptsInv
  BY InitCovered
<1>4. ReceiptsInv /\ [Next]_vars => ReceiptsInv'
  BY NextCovered
<1> QED
  BY <1>2, <1>3, <1>4, PTL DEF Spec

-----------------------------------------------------------------------------
(* Requests one at a time: what the tables hold and what the handler knows *)

(* Requests are made one at a time, the process does not die in the middle *)
(* of a void, and entries of documents are not reversed behind their back. *)
OneAtATime ==
    /\ \A c, d \in Clients : c = d
    /\ ~Crashes
    /\ "reverse" \notin Kinds

(* A row of invoice i is right once amount more is allocated to it. *)
Conserved(i, amount, row) ==
    /\ row.paid = AllocatedTo(i) + amount
    /\ row.due = invoice[i].total - row.paid
    /\ row.due >= 0
    /\ row.status = "paid" <=> row.due = 0
    /\ row.status = "issued" <=> row.paid = 0

(* The columns of an invoice agree with the allocations to it. *)
InvoiceFits(i) ==
    /\ ~Issued(i) => AllocatedTo(i) = 0
    /\ invoice[i] # None /\ invoice[i].status = "draft" =>
          /\ invoice[i].due = invoice[i].total
          /\ invoice[i].paid = 0
          /\ invoice[i].entry = 0
    /\ Issued(i) => Conserved(i, 0, invoice[i])

(* The columns of a credit note agree with the allocations from it. *)
CreditFits(n) ==
    /\ credit[n] = None => AllocatedFrom(n) = 0
    /\ credit[n] # None => CreditConserved(n)
    /\ credit[n] # None /\ credit[n].status = "draft" =>
          credit[n].remaining = credit[n].total

(* The columns of a receipt agree with the allocations from it. *)
ReceiptFits(r) ==
    /\ receipt[r] = None => AllocatedFrom(r) = 0
    /\ receipt[r] # None => ReceiptConserved(r)

(* All columns agree with the allocation rows. *)
AllocationsFit ==
    /\ \A i \in Invoices : InvoiceFits(i)
    /\ \A n \in CreditNotes : CreditFits(n)
    /\ \A r \in Receipts : ReceiptFits(r)

(* Entry e of source s has not been reversed. *)
Stands(s, e) == e \in 1 .. Len(gl) /\ gl[e].source = s /\ gl[e].status = "posted"

(* Is the entry of invoice i reversed, and the invoice about to be void? *)
BeingVoided(i) == \E c \in Clients : pc[c] = "reversed" /\ req[c].doc = i

(* The entries of an invoice agree with its status and total. *)
InvoiceEntries(i) ==
    /\ invoice[i] = None \/ invoice[i].entry = 0 => \A e : ~Stands(i, e)
    /\ invoice[i] # None /\ invoice[i].status = "void" /\ invoice[i].entry # 0 =>
          gl[invoice[i].entry].status = "reversed"
    /\ Issued(i) =>
          /\ gl[invoice[i].entry].source = i
          /\ gl[invoice[i].entry].amount = invoice[i].total
          /\ ~BeingVoided(i) => gl[invoice[i].entry].status = "posted"

(* A credit note has an entry only once it is issued. *)
CreditEntries(n) ==
    credit[n] = None \/ credit[n].status = "draft" => \A e : ~Stands(n, e)

(* Entries agree with documents, and at most one of a document stands. *)
EntriesMatch ==
    /\ \A i \in Invoices : InvoiceEntries(i)
    /\ \A n \in CreditNotes : CreditEntries(n)
    /\ \A s \in Invoices \cup CreditNotes : \A e, d : Stands(s, e) /\ Stands(s, d) => e = d

(* What invoice i counts for in the sub-ledger. *)
Due(i) == IF Issued(i) THEN invoice[i].due ELSE 0

(* What the open transaction of c has allocated so far. *)
MadeBy(c) == SumFunction([i \in Invoices |-> Made(c, i)])

(* The ledger agrees with the sub-ledger, but for a void under way. *)
BooksAgree ==
    /\ (\A c \in Clients : pc[c] # "reversed") => ListTotal(gl) = SubLedger
    /\ \A c \in Clients : pc[c] = "reversed" =>
          ListTotal(gl) = SubLedger - invoice[req[c].doc].total

(* What a handler read of a draft, or of an invoice to void, is still so. *)
DraftFits(c) ==
    /\ pc[c] = "checked" /\ req[c].kind \in {"update", "issue", "void"} =>
          invoice[req[c].doc].status = "draft"
    /\ pc[c] = "checked" /\ req[c].kind = "issue" =>
          invoice[req[c].doc].total = req[c].total /\ req[c].total # 0
    /\ pc[c] = "checked" /\ req[c].kind = "credit" =>
          credit[req[c].doc].status = "draft" /\ credit[req[c].doc].total = req[c].total
    /\ pc[c] \in {"voiding", "reversing", "reversed"} =>
          invoice[req[c].doc].status = "issued" /\ invoice[req[c].doc].entry = req[c].entry
    /\ pc[c] = "reversed" => gl[req[c].entry].status = "reversed"

(* What is left of the source of an allocation, and what was allocated, is *)
(* what there was.                                                         *)
SourceFits(c) ==
    /\ pc[c] # "idle" /\ req[c].kind = "apply" => credit[req[c].doc].status # "draft"
    /\ pc[c] # "idle" /\ req[c].kind = "receipt" =>
          /\ receipt[req[c].doc] = None
          /\ req[c].allocated <= req[c].amount
          /\ req[c].left = ListTotal(req[c].todo)
          /\ req[c].left + MadeBy(c) = req[c].allocated
    /\ pc[c] \in {"allocating", "writing"} /\ req[c].kind = "apply" =>
          req[c].left >= 0 /\ req[c].left + MadeBy(c) = credit[req[c].doc].remaining
    /\ pc[c] \in {"allocating", "writing"} /\ req[c].kind = "allocate" =>
          req[c].left >= 0 /\ req[c].left + MadeBy(c) = receipt[req[c].doc].unapplied

(* The rows it has written, and is about to write. *)
RowsFit(c) ==
    /\ \A i \in DOMAIN writes[c] :
          invoice[i].status \in Open /\ Conserved(i, made[c][i], writes[c][i])
    /\ pc[c] = "writing" =>
          LET next == Head(req[c].todo) IN
          /\ next.amount <= req[c].left
          /\ invoice[next.invoice].status \in Open
          /\ Conserved(next.invoice, Made(c, next.invoice) + next.amount, req[c].row)

(* What holds of the work of a handler. *)
WorkFits(c) == DraftFits(c) /\ SourceFits(c) /\ RowsFit(c)

(* The inductive invariant of requests made one at a time. *)
SerialInv ==
    /\ IInv
    /\ AllocationsFit
    /\ EntriesMatch
    /\ BooksAgree
    /\ \A c \in Clients : WorkFits(c)

-----------------------------------------------------------------------------
(* Sums of rows *)

(* A sum over a finite set is the sum of the function's values there. *)
LEMMA SumOver ==
    ASSUME NEW f, NEW S, DOMAIN f = S
    PROVE  SumFunction(f) = SumFunctionOnSet(f, S)
BY DEF SumFunction

(* What a transaction made of allocations, to all invoices. *)
LEMMA MadeByType ==
    ASSUME TypeOK, NEW c \in Clients
    PROVE  /\ MadeBy(c) \in Nat
           /\ DOMAIN made[c] = {} => MadeBy(c) = 0
           /\ \A i \in Invoices : Made(c, i) <= MadeBy(c)
<1>1. IsFiniteSet(Invoices)
  BY IdentifiersAssumption DEF IdentifiersAssumption
<1>2. PICK f : f = [i \in Invoices |-> Made(c, i)]
  OBVIOUS
<1>3. DOMAIN f = Invoices /\ \A i \in Invoices : f[i] = Made(c, i) /\ f[i] \in Nat
  BY <1>2, RowsTyped
<1>4. MadeBy(c) = SumFunctionOnSet(f, Invoices)
  BY <1>2, <1>3, SumOver DEF MadeBy
<1>5. SumFunctionOnSet(f, Invoices) \in Nat
  BY <1>1, <1>3, SumNat
<1>6. ASSUME DOMAIN made[c] = {} PROVE SumFunctionOnSet(f, Invoices) = 0
  <2>1. \A i \in Invoices : f[i] = 0
    BY <1>3, <1>6 DEF Made
  <2> QED
    BY <1>1, <2>1, SumZero
<1>7. \A i \in Invoices : f[i] <= SumFunctionOnSet(f, Invoices)
  BY <1>1, <1>3, SumAtLeast
<1> QED
  BY <1>3, <1>4, <1>5, <1>6, <1>7

(* Writing an allocation adds its amount to what was made. *)
LEMMA MadeByWrite ==
    ASSUME IInv, NEW c \in Clients, WriteAllocation(c)
    PROVE  MadeBy(c)' = MadeBy(c) + Head(req[c].todo).amount
<1>1. IsFiniteSet(Invoices)
  BY IdentifiersAssumption DEF IdentifiersAssumption
<1>2. PICK f : f = [i \in Invoices |-> Made(c, i)]
  OBVIOUS
<1>3. PICK e : e = [i \in Invoices |-> Made(c, i)']
  OBVIOUS
<1>4. PICK i : i = Head(req[c].todo).invoice
  OBVIOUS
<1>5. PICK amount : amount = Head(req[c].todo).amount
  OBVIOUS
<1>6. /\ i \in Invoices /\ amount \in Nat
      /\ \A j \in Invoices : Made(c, j)' = IF j = i THEN Made(c, i) + amount ELSE Made(c, j)
  BY <1>4, <1>5, WriteEffect
<1>7. \A j \in Invoices : Made(c, j) \in Nat
  BY RowsTyped DEF IInv
<1>8. \A j \in Invoices : f[j] \in Int /\ e[j] \in Int
  BY <1>2, <1>3, <1>6, <1>7
<1>9. \A j \in Invoices \ {i} : e[j] = f[j]
  BY <1>2, <1>3, <1>6
<1>10. SumFunctionOnSet(e, Invoices) = SumFunctionOnSet(f, Invoices) + (e[i] - f[i])
  BY <1>1, <1>6, <1>8, <1>9, SumChange
<1>11. e[i] - f[i] = amount
  BY <1>2, <1>3, <1>6, <1>7
<1>12. MadeBy(c) = SumFunctionOnSet(f, Invoices)
  BY <1>2, SumOver DEF MadeBy
<1>13. MadeBy(c)' = SumFunctionOnSet(e, Invoices)
  BY <1>3, SumOver DEF MadeBy
<1> QED
  BY <1>5, <1>10, <1>11, <1>12, <1>13

(* Allocations from a source add up to a natural. *)
LEMMA AllocatedFromType ==
    ASSUME TypeOK, NEW s \in Sources
    PROVE  AllocatedFrom(s) \in Nat
<1>1. IsFiniteSet(Invoices)
  BY IdentifiersAssumption DEF IdentifiersAssumption
<1>2. alloc[s] \in [Invoices -> Nat]
  BY DEF TypeOK
<1>3. SumFunctionOnSet(alloc[s], Invoices) \in Nat
  BY <1>1, <1>2, SumNat
<1> QED
  BY <1>2, <1>3, SumOver DEF AllocatedFrom

(* A commit adds to them what the transaction made. *)
LEMMA AllocatedFromCommit ==
    ASSUME IInv, NEW c \in Clients, pc[c] \in {"allocating", "writing"}, CommitAllocations(c),
           NEW s, s = req[c].doc
    PROVE  /\ AllocatedFrom(s)' = AllocatedFrom(s) + MadeBy(c)
           /\ \A t \in Sources \ {s} : AllocatedFrom(t)' = AllocatedFrom(t)
<1>1. IsFiniteSet(Invoices)
  BY IdentifiersAssumption DEF IdentifiersAssumption
<1>2. /\ s \in Sources
      /\ alloc' \in [Sources -> [Invoices -> Nat]]
      /\ \A i \in Invoices : alloc'[s][i] = alloc[s][i] + Made(c, i)
      /\ \A t \in Sources \ {s} : alloc'[t] = alloc[t]
  BY CommitEffect
<1>3. PICK f : f = alloc[s]
  OBVIOUS
<1>4. PICK e : e = [i \in Invoices |-> Made(c, i)]
  OBVIOUS
<1>5. PICK g : g = alloc'[s]
  OBVIOUS
<1>6. f \in [Invoices -> Nat] /\ g \in [Invoices -> Nat] /\ \A i \in Invoices : Made(c, i) \in Nat
  BY <1>2, <1>3, <1>5, RowsTyped DEF IInv, TypeOK
<1>7. \A i \in Invoices : f[i] \in Int /\ e[i] \in Int /\ g[i] = f[i] + e[i]
  BY <1>2, <1>3, <1>4, <1>5, <1>6
<1>8. SumFunctionOnSet(g, Invoices) = SumFunctionOnSet(f, Invoices) + SumFunctionOnSet(e, Invoices)
  BY <1>1, <1>7, SumPlus
<1>9. AllocatedFrom(s) = SumFunctionOnSet(f, Invoices)
  BY <1>3, <1>6, SumOver DEF AllocatedFrom
<1>10. AllocatedFrom(s)' = SumFunctionOnSet(g, Invoices)
  BY <1>5, <1>6, SumOver DEF AllocatedFrom
<1>11. MadeBy(c) = SumFunctionOnSet(e, Invoices)
  BY <1>4, SumOver DEF MadeBy
<1>12. \A t \in Sources \ {s} : AllocatedFrom(t)' = AllocatedFrom(t)
  BY <1>2 DEF AllocatedFrom
<1> QED
  BY <1>8, <1>9, <1>10, <1>11, <1>12

-----------------------------------------------------------------------------
(* The sub-ledger *)

(* Its terms: what an invoice, a credit note and a receipt count for. *)
CreditLeft(n) ==
    IF credit[n] # None /\ credit[n].status # "draft" THEN credit[n].remaining ELSE 0

(* ... and a receipt. *)
ReceiptLeft(r) == IF receipt[r] # None THEN receipt[r].unapplied ELSE 0

(* What the invoices come to. *)
Dues == SumFunction([i \in Invoices |-> Due(i)])

(* What the credit notes come to. *)
CreditsLeft == SumFunction([n \in CreditNotes |-> CreditLeft(n)])

(* What the receipts come to. *)
ReceiptsLeft == SumFunction([r \in Receipts |-> ReceiptLeft(r)])

(* The sub-ledger is made of these, all integers. *)
LEMMA SubLedgerTerms ==
    ASSUME TypeOK
    PROVE  /\ SubLedger = Dues - CreditsLeft - ReceiptsLeft
           /\ Dues \in Int /\ CreditsLeft \in Int /\ ReceiptsLeft \in Int
           /\ \A i \in Invoices : Due(i) \in Int
           /\ \A n \in CreditNotes : CreditLeft(n) \in Int
           /\ \A r \in Receipts : ReceiptLeft(r) \in Int
<1>1. SubLedger = Dues - CreditsLeft - ReceiptsLeft
  BY DEF SubLedger, Dues, CreditsLeft, ReceiptsLeft, Due, CreditLeft, ReceiptLeft
<1>2. /\ \A i \in Invoices : Due(i) \in Int
      /\ \A n \in CreditNotes : CreditLeft(n) \in Int
      /\ \A r \in Receipts : ReceiptLeft(r) \in Int
  BY RowsTyped DEF Due, Issued, CreditLeft, ReceiptLeft, Invoice, CreditNote, Receipt
<1>3. IsFiniteSet(Invoices) /\ IsFiniteSet(CreditNotes) /\ IsFiniteSet(Receipts)
  BY IdentifiersAssumption DEF IdentifiersAssumption
<1>4. ASSUME NEW f, NEW S, IsFiniteSet(S), DOMAIN f = S, \A x \in S : f[x] \in Int
      PROVE  SumFunction(f) \in Int
  <2>1. SumFunctionOnSet(f, S) \in Int
    BY <1>4, SumInt
  <2> QED
    BY <1>4, <2>1, SumOver
<1>5. Dues \in Int
  BY <1>2, <1>3, <1>4 DEF Dues
<1>6. CreditsLeft \in Int
  BY <1>2, <1>3, <1>4 DEF CreditsLeft
<1>7. ReceiptsLeft \in Int
  BY <1>2, <1>3, <1>4 DEF ReceiptsLeft
<1> QED
  BY <1>1, <1>2, <1>5, <1>6, <1>7

(* The sum of a function of which one value changes. *)
LEMMA OneTermChanges ==
    ASSUME NEW S, IsFiniteSet(S), NEW x \in S, NEW f, NEW e, DOMAIN f = S, DOMAIN e = S,
           \A y \in S : f[y] \in Int /\ e[y] \in Int,
           \A y \in S \ {x} : e[y] = f[y]
    PROVE  SumFunction(e) = SumFunction(f) + (e[x] - f[x])
<1>1. SumFunctionOnSet(e, S) = SumFunctionOnSet(f, S) + (e[x] - f[x])
  BY SumChange
<1> QED
  BY <1>1, SumOver

(* One row changes, and the sum by its term. *)
LEMMA DuesChange ==
    ASSUME TypeOK, TypeOK', NEW i \in Invoices,
           \A j \in Invoices \ {i} : invoice'[j] = invoice[j]
    PROVE  Dues' = Dues + (Due(i)' - Due(i))
<1>1. IsFiniteSet(Invoices)
  BY IdentifiersAssumption DEF IdentifiersAssumption
<1>2. PICK f : f = [j \in Invoices |-> Due(j)]
  OBVIOUS
<1>3. PICK e : e = [j \in Invoices |-> Due(j)']
  OBVIOUS
<1>4. \A j \in Invoices : f[j] = Due(j) /\ e[j] = Due(j)'
  BY <1>2, <1>3
<1>5. \A j \in Invoices : Due(j) \in Int
  BY SubLedgerTerms
<1>6. \A j \in Invoices : Due(j)' \in Int
  BY RowsTyped DEF TypeOK, Due, Issued, Invoice
<1>7. \A j \in Invoices \ {i} : Due(j)' = Due(j)
  BY DEF Due, Issued
<1>8. SumFunction(e) = SumFunction(f) + (e[i] - f[i])
  <2>1. DOMAIN f = Invoices /\ DOMAIN e = Invoices
    BY <1>2, <1>3
  <2>2. \A j \in Invoices : f[j] \in Int /\ e[j] \in Int
    BY <1>4, <1>5, <1>6
  <2>3. \A j \in Invoices \ {i} : e[j] = f[j]
    BY <1>4, <1>7
  <2> QED
    BY <1>1, <2>1, <2>2, <2>3, OneTermChanges
<1>9. Dues = SumFunction(f) /\ Dues' = SumFunction(e)
  BY <1>2, <1>3 DEF Dues
<1> QED
  BY <1>4, <1>8, <1>9

(* The same for credit notes. *)
LEMMA CreditsChange ==
    ASSUME TypeOK, TypeOK', NEW n \in CreditNotes,
           \A m \in CreditNotes \ {n} : credit'[m] = credit[m]
    PROVE  CreditsLeft' = CreditsLeft + (CreditLeft(n)' - CreditLeft(n))
<1>1. IsFiniteSet(CreditNotes)
  BY IdentifiersAssumption DEF IdentifiersAssumption
<1>2. PICK f : f = [j \in CreditNotes |-> CreditLeft(j)]
  OBVIOUS
<1>3. PICK e : e = [j \in CreditNotes |-> CreditLeft(j)']
  OBVIOUS
<1>4. \A j \in CreditNotes : f[j] = CreditLeft(j) /\ e[j] = CreditLeft(j)'
  BY <1>2, <1>3
<1>5. \A j \in CreditNotes : CreditLeft(j) \in Int
  BY SubLedgerTerms
<1>6. \A j \in CreditNotes : CreditLeft(j)' \in Int
  BY DEF TypeOK, CreditLeft, CreditNote
<1>7. \A j \in CreditNotes \ {n} : CreditLeft(j)' = CreditLeft(j)
  BY DEF CreditLeft
<1>8. SumFunction(e) = SumFunction(f) + (e[n] - f[n])
  <2>1. DOMAIN f = CreditNotes /\ DOMAIN e = CreditNotes
    BY <1>2, <1>3
  <2>2. \A j \in CreditNotes : f[j] \in Int /\ e[j] \in Int
    BY <1>4, <1>5, <1>6
  <2>3. \A j \in CreditNotes \ {n} : e[j] = f[j]
    BY <1>4, <1>7
  <2> QED
    BY <1>1, <2>1, <2>2, <2>3, OneTermChanges
<1>9. CreditsLeft = SumFunction(f) /\ CreditsLeft' = SumFunction(e)
  BY <1>2, <1>3 DEF CreditsLeft
<1> QED
  BY <1>4, <1>8, <1>9

(* The same for receipts. *)
LEMMA ReceiptsChange ==
    ASSUME TypeOK, TypeOK', NEW r \in Receipts,
           \A m \in Receipts \ {r} : receipt'[m] = receipt[m]
    PROVE  ReceiptsLeft' = ReceiptsLeft + (ReceiptLeft(r)' - ReceiptLeft(r))
<1>1. IsFiniteSet(Receipts)
  BY IdentifiersAssumption DEF IdentifiersAssumption
<1>2. PICK f : f = [j \in Receipts |-> ReceiptLeft(j)]
  OBVIOUS
<1>3. PICK e : e = [j \in Receipts |-> ReceiptLeft(j)']
  OBVIOUS
<1>4. \A j \in Receipts : f[j] = ReceiptLeft(j) /\ e[j] = ReceiptLeft(j)'
  BY <1>2, <1>3
<1>5. \A j \in Receipts : ReceiptLeft(j) \in Int
  BY SubLedgerTerms
<1>6. \A j \in Receipts : ReceiptLeft(j)' \in Int
  BY DEF TypeOK, ReceiptLeft, Receipt
<1>7. \A j \in Receipts \ {r} : ReceiptLeft(j)' = ReceiptLeft(j)
  BY DEF ReceiptLeft
<1>8. SumFunction(e) = SumFunction(f) + (e[r] - f[r])
  <2>1. DOMAIN f = Receipts /\ DOMAIN e = Receipts
    BY <1>2, <1>3
  <2>2. \A j \in Receipts : f[j] \in Int /\ e[j] \in Int
    BY <1>4, <1>5, <1>6
  <2>3. \A j \in Receipts \ {r} : e[j] = f[j]
    BY <1>4, <1>7
  <2> QED
    BY <1>1, <2>1, <2>2, <2>3, OneTermChanges
<1>9. ReceiptsLeft = SumFunction(f) /\ ReceiptsLeft' = SumFunction(e)
  BY <1>2, <1>3 DEF ReceiptsLeft
<1> QED
  BY <1>4, <1>8, <1>9

(* A commit of allocations takes off the dues what it allocated. *)
LEMMA DuesPaid ==
    ASSUME TypeOK, TypeOK', NEW c \in Clients,
           \A i \in Invoices : Due(i) = Due(i)' + Made(c, i)
    PROVE  Dues = Dues' + MadeBy(c) /\ Dues' \in Int
<1>1. IsFiniteSet(Invoices)
  BY IdentifiersAssumption DEF IdentifiersAssumption
<1>2. PICK g : g = [i \in Invoices |-> Due(i)]
  OBVIOUS
<1>3. PICK f : f = [i \in Invoices |-> Due(i)']
  OBVIOUS
<1>4. PICK e : e = [i \in Invoices |-> Made(c, i)]
  OBVIOUS
<1>5. \A i \in Invoices : Made(c, i) \in Int
  BY RowsTyped
<1>6. \A i \in Invoices : Due(i)' \in Int
  BY DEF TypeOK, Due, Issued, Invoice
<1>7. \A i \in Invoices : f[i] \in Int /\ e[i] \in Int /\ g[i] = f[i] + e[i]
  BY <1>2, <1>3, <1>4, <1>5, <1>6
<1>8. SumFunctionOnSet(g, Invoices) = SumFunctionOnSet(f, Invoices) + SumFunctionOnSet(e, Invoices)
  BY <1>1, <1>7, SumPlus
<1>9. Dues = SumFunctionOnSet(g, Invoices)
  BY <1>2, SumOver DEF Dues
<1>10. Dues' = SumFunctionOnSet(f, Invoices)
  BY <1>3, SumOver DEF Dues
<1>11. MadeBy(c) = SumFunctionOnSet(e, Invoices)
  BY <1>4, SumOver DEF MadeBy
<1>12. SumFunctionOnSet(f, Invoices) \in Int
  BY <1>1, <1>7, SumInt
<1> QED
  BY <1>8, <1>9, <1>10, <1>11, <1>12

(* ... and nothing else about the tables matters to the sums. *)
LEMMA TermsSame ==
    /\ invoice' = invoice => Dues' = Dues
    /\ credit' = credit => CreditsLeft' = CreditsLeft
    /\ receipt' = receipt => ReceiptsLeft' = ReceiptsLeft
<1>1. invoice' = invoice => Dues' = Dues
  BY DEF Dues, Due, Issued
<1>2. credit' = credit => CreditsLeft' = CreditsLeft
  BY DEF CreditsLeft, CreditLeft
<1>3. receipt' = receipt => ReceiptsLeft' = ReceiptsLeft
  BY DEF ReceiptsLeft, ReceiptLeft
<1> QED
  BY <1>1, <1>2, <1>3

(* The balance of the receivable account. *)
LEMMA BalanceType ==
    ASSUME TypeOK
    PROVE  ListTotal(gl) \in Int
<1>1. \A x \in GlEntry : x.amount \in Int
  BY DEF GlEntry
<1>2. gl \in Seq(GlEntry)
  BY DEF TypeOK
<1>3. PICK D : D = Int
  OBVIOUS
<1>4. ListTotal(gl) \in D
  <2>1. 0 \in D /\ (\A a \in D : \A b \in D : a + b \in D) /\ \A x \in GlEntry : x.amount \in D
    BY <1>1, <1>3
  <2> QED
    BY <1>2, <2>1, ListTotalType
<1> QED
  BY <1>3, <1>4

(* An entry changes the balance by its amount. *)
LEMMA BalancePosted ==
    ASSUME TypeOK, NEW source \in Invoices \cup Sources, NEW amount \in Int,
           gl' = Append(gl, Posting(source, amount))
    PROVE  ListTotal(gl') = ListTotal(gl) + amount
<1>1. PICK x : x = Posting(source, amount)
  OBVIOUS
<1>2. x \in GlEntry /\ x.amount = amount
  BY <1>1 DEF Posting, GlEntry
<1>3. \A y \in GlEntry : y.amount \in Int
  BY DEF GlEntry
<1>4. gl \in Seq(GlEntry) /\ gl' = Append(gl, x)
  BY <1>1 DEF TypeOK
<1>5. ListTotal(Append(gl, x)) = ListTotal(gl) + x.amount
  BY <1>2, <1>3, <1>4, ListTotalAppend
<1> QED
  BY <1>2, <1>4, <1>5

(* A reversal takes the amount of its entry off the balance. *)
LEMMA BalanceReversed ==
    ASSUME TypeOK, NEW e \in 1 .. Len(gl),
           gl' = Append([gl EXCEPT ![e].status = "reversed"],
                        Posting(gl[e].source, -gl[e].amount))
    PROVE  ListTotal(gl') = ListTotal(gl) - gl[e].amount
<1>1. PICK x : x = Posting(gl[e].source, -gl[e].amount)
  OBVIOUS
<1>2. PICK s : s = [gl EXCEPT ![e].status = "reversed"]
  OBVIOUS
<1>3. gl \in Seq(GlEntry) /\ gl[e] \in GlEntry
  BY DEF TypeOK
<1>4. x \in GlEntry /\ x.amount = -gl[e].amount /\ gl[e].amount \in Int
  BY <1>1, <1>3 DEF Posting, GlEntry
<1>5. [gl[e] EXCEPT !.status = "reversed"] \in GlEntry
  <2>1. [gl[e] EXCEPT !.status = "reversed"] =
            [source |-> gl[e].source, amount |-> gl[e].amount, status |-> "reversed"]
    BY <1>3 DEF GlEntry
  <2> QED
    BY <1>3, <2>1 DEF GlEntry
<1>6. s \in Seq(GlEntry) /\ DOMAIN s = DOMAIN gl
  BY <1>2, <1>3, <1>5
<1>7. \A k \in DOMAIN gl : s[k].amount = gl[k].amount
  BY <1>2, <1>3 DEF GlEntry
<1>8. ListTotal(s) = ListTotal(gl)
  BY <1>6, <1>7, ListTotalSame
<1>9. \A y \in GlEntry : y.amount \in Int
  BY DEF GlEntry
<1>10. ListTotal(Append(s, x)) = ListTotal(s) + x.amount
  BY <1>4, <1>6, <1>9, ListTotalAppend
<1>11. gl' = Append(s, x)
  BY <1>1, <1>2
<1>12. ListTotal(gl) \in Int
  BY BalanceType
<1> QED
  BY <1>4, <1>8, <1>10, <1>11, <1>12

(* A handler that has just returned knows nothing. *)
LEMMA ReturnedFits ==
    ASSUME IInv', NEW c \in Clients, pc'[c] = "idle"
    PROVE  WorkFits(c)'
<1>1. DOMAIN writes'[c] = {}
  BY NoRowsType DEF IInv, Fits, RowsAreHeld
<1> QED
  BY <1>1 DEF WorkFits, DraftFits, SourceFits, RowsFit

(* A step that changes no table. *)
LEMMA TablesKept ==
    ASSUME OneAtATime, SerialInv, IInv', NEW c \in Clients, UNCHANGED tables,
           pc[c] # "reversed", pc'[c] # "reversed", WorkFits(c)'
    PROVE  SerialInv'
<1>1. \A d \in Clients : d = c
  BY DEF OneAtATime
<1>2. AllocationsFit'
  BY DEF SerialInv, AllocationsFit, InvoiceFits, CreditFits, ReceiptFits, Conserved,
         CreditConserved, ReceiptConserved, Issued, AllocatedTo, AllocatedFrom, tables
<1>3. EntriesMatch'
  <2>1. \A s, e : Stands(s, e)' <=> Stands(s, e)
    BY DEF Stands, tables
  <2>2. \A i : ~BeingVoided(i) /\ ~BeingVoided(i)'
    BY <1>1 DEF BeingVoided
  <2> QED
    BY <2>1, <2>2 DEF SerialInv, EntriesMatch, InvoiceEntries, CreditEntries, Issued, tables
<1>4. BooksAgree'
  <2>1. SubLedger' = SubLedger
    BY DEF SubLedger, Issued, tables
  <2> QED
    BY <1>1, <2>1 DEF SerialInv, BooksAgree, tables
<1> QED
  BY <1>1, <1>2, <1>3, <1>4 DEF SerialInv

(* A read before any transaction. *)
LEMMA ReadKeeps ==
    ASSUME OneAtATime, SerialInv, IInv', NEW c \in Clients, UNCHANGED <<tables, lock, writes, made>>,
           pc[c] \notin {"allocating", "writing", "reversed"},
           pc'[c] \notin {"allocating", "writing", "reversed"}, DraftFits(c)', SourceFits(c)'
    PROVE  SerialInv'
<1>1. DOMAIN writes'[c] = {}
  BY NoRowsType DEF IInv, Fits, RowsAreHeld
<1>2. WorkFits(c)'
  BY <1>1 DEF WorkFits, RowsFit
<1> QED
  BY <1>2, TablesKept

(* A handler outside its transaction has allocated nothing. *)
LEMMA NothingMade ==
    ASSUME IInv, NEW c \in Clients, pc[c] \notin {"allocating", "writing"}
    PROVE  MadeBy(c) = 0
BY IdleHoldsNothing, MadeByType DEF IInv

(* A draft is as the handler read it. *)
LEMMA ReadDraftSerial ==
    ASSUME OneAtATime, SerialInv, IInv', NEW c \in Clients, NEW i \in Invoices, NEW total,
           NEW kind \in {"update", "issue", "void"}, ReadDraft(c, i, kind, total),
           kind = "issue" => total = invoice[i].total /\ total # 0
    PROVE  SerialInv'
<1> USE DEF ReadDraft
<1>1. TypeOK
  BY DEF SerialInv, IInv
<1>2. pc[c] = "idle" /\ pc'[c] = "checked"
      /\ req'[c] = [kind |-> kind, doc |-> i, total |-> total]
  BY <1>1 DEF Goto, TypeOK
<1>3. DraftFits(c)'
  BY <1>2 DEF DraftFits, tables
<1>4. SourceFits(c)'
  BY <1>2 DEF SourceFits
<1> QED
  BY <1>2, <1>3, <1>4, ReadKeeps

(* An invoice that is read to be voided has nothing paid. *)
LEMMA ReadForVoidSerial ==
    ASSUME OneAtATime, SerialInv, IInv', NEW c \in Clients, NEW i \in Invoices, ReadForVoid(c, i)
    PROVE  SerialInv'
<1> USE DEF ReadForVoid
<1>1. TypeOK
  BY DEF SerialInv, IInv
<1>2. pc[c] = "idle" /\ pc'[c] = "voiding"
      /\ req'[c] = [kind |-> "void", doc |-> i, entry |-> invoice[i].entry]
  BY <1>1 DEF Goto, TypeOK
<1>3. invoice[i].status = "issued"
  <2>1. Issued(i)
    BY DEF Issued
  <2>2. Conserved(i, 0, invoice[i])
    BY <2>1 DEF SerialInv, AllocationsFit, InvoiceFits
  <2>3. invoice[i] \in Invoice
    BY <1>1, RowsTyped
  <2>4. invoice[i].paid = 0
    BY <2>2, <2>3 DEF Conserved, Invoice
  <2> QED
    BY <2>2, <2>4 DEF Conserved
<1>4. DraftFits(c)'
  BY <1>2, <1>3 DEF DraftFits, tables
<1>5. SourceFits(c)'
  BY <1>2 DEF SourceFits
<1> QED
  BY <1>2, <1>4, <1>5, ReadKeeps

(* Reading the entry to reverse keeps the invariant. *)
LEMMA ReadEntrySerial ==
    ASSUME OneAtATime, SerialInv, IInv', NEW c \in Clients, ReadEntry(c)
    PROVE  SerialInv'
<1> USE DEF ReadEntry
<1>1. TypeOK /\ DraftFits(c)
  BY DEF SerialInv, IInv, WorkFits
<1>2. pc[c] = "voiding" /\ pc'[c] = "reversing" /\ req' = req
  BY <1>1 DEF Goto, TypeOK
<1>3. req[c] \in VoidRequest /\ req[c].kind \in {"void", "reverse"}
  BY <1>2 DEF SerialInv, IInv, Fits, RequestFits, VoidRequest
<1>4. DraftFits(c)'
  BY <1>1, <1>2 DEF DraftFits, tables
<1>5. SourceFits(c)'
  BY <1>2, <1>3 DEF SourceFits
<1> QED
  BY <1>2, <1>4, <1>5, ReadKeeps

(* A draft credit note is as the handler read it. *)
LEMMA ReadDraftCreditSerial ==
    ASSUME OneAtATime, SerialInv, IInv', NEW c \in Clients, NEW n \in CreditNotes,
           ReadDraftCredit(c, n)
    PROVE  SerialInv'
<1> USE DEF ReadDraftCredit
<1>1. TypeOK
  BY DEF SerialInv, IInv
<1>2. pc[c] = "idle" /\ pc'[c] = "checked"
      /\ req'[c] = [kind |-> "credit", doc |-> n, total |-> credit[n].total]
  BY <1>1 DEF Goto, TypeOK
<1>3. DraftFits(c)'
  BY <1>2 DEF DraftFits, tables
<1>4. SourceFits(c)'
  BY <1>2 DEF SourceFits
<1> QED
  BY <1>2, <1>3, <1>4, ReadKeeps

(* Reading the credit note to apply keeps the invariant. *)
LEMMA ReadCreditSerial ==
    ASSUME OneAtATime, SerialInv, IInv', NEW c \in Clients, NEW n \in CreditNotes,
           NEW list \in Lists, ReadCredit(c, n, list)
    PROVE  SerialInv'
<1> USE DEF ReadCredit
<1>1. TypeOK
  BY DEF SerialInv, IInv
<1>2. pc[c] = "idle" /\ pc'[c] = "checked"
      /\ req'[c] = [kind |-> "apply", doc |-> n, todo |-> list]
  BY <1>1 DEF Goto, TypeOK
<1>3. DraftFits(c)'
  BY <1>2 DEF DraftFits
<1>4. SourceFits(c)'
  BY <1>2 DEF SourceFits, tables
<1> QED
  BY <1>2, <1>3, <1>4, ReadKeeps

(* Reading the receipt to allocate keeps the invariant. *)
LEMMA ReadReceiptSerial ==
    ASSUME OneAtATime, SerialInv, IInv', NEW c \in Clients, NEW r \in Receipts,
           NEW list \in Lists, ReadReceipt(c, r, list)
    PROVE  SerialInv'
<1> USE DEF ReadReceipt
<1>1. TypeOK
  BY DEF SerialInv, IInv
<1>2. pc[c] = "idle" /\ pc'[c] = "checked"
      /\ req'[c] = [kind |-> "allocate", doc |-> r, todo |-> list]
  BY <1>1 DEF Goto, TypeOK
<1>3. DraftFits(c)'
  BY <1>2 DEF DraftFits
<1>4. SourceFits(c)'
  BY <1>2 DEF SourceFits
<1> QED
  BY <1>2, <1>3, <1>4, ReadKeeps

(* A receipt is prepared with all of its list to allocate. *)
LEMMA PrepareReceiptSerial ==
    ASSUME OneAtATime, SerialInv, IInv', NEW c \in Clients, NEW r \in Receipts, NEW y \in Years,
           NEW amount \in Totals, NEW list \in Lists \cup {<<>>},
           PrepareReceipt(c, r, y, amount, list)
    PROVE  SerialInv'
<1> USE DEF PrepareReceipt
<1>1. TypeOK /\ IInv
  BY DEF SerialInv, IInv
<1>2. pc[c] = "idle" /\ pc'[c] = "checked"
      /\ req'[c] = [kind |-> "receipt", doc |-> r, todo |-> list, row |-> None,
                    left |-> ListTotal(list), allocated |-> ListTotal(list),
                    year |-> y, amount |-> amount]
  BY <1>1 DEF Goto, TypeOK
<1>3. MadeBy(c)' = 0
  <2>1. MadeBy(c) = 0
    BY <1>1, <1>2, NothingMade
  <2> QED
    BY <2>1 DEF MadeBy, Made
<1>4. ListTotal(list) \in Nat
  <2>1. list \in Seq(Allocation)
    <3>1. <<>> \in Seq(Allocation) /\ Lists \subseteq Seq(Allocation)
      BY AmountsAssumption DEF AmountsAssumption
    <3> QED
      BY <3>1
  <2> QED
    BY <2>1, AllocationsAddUp
<1>5. DraftFits(c)'
  BY <1>2 DEF DraftFits
<1>6. SourceFits(c)'
  <2>1. receipt'[r] = None /\ ListTotal(list) <= amount
    BY DEF tables
  <2>2. ListTotal(list) + MadeBy(c)' = ListTotal(list)
    BY <1>3, <1>4
  <2>3. PICK total : total = ListTotal(list)
    OBVIOUS
  <2>4. req'[c].kind = "receipt" /\ req'[c].doc = r /\ req'[c].allocated = total
        /\ req'[c].amount = amount /\ req'[c].left = total /\ req'[c].todo = list
    BY <1>2, <2>3
  <2> QED
    BY <1>2, <2>1, <2>2, <2>3, <2>4 DEF SourceFits
<1> QED
  BY <1>2, <1>5, <1>6, ReadKeeps

(* A failure that is rolled back leaves everything as it was. *)
LEMMA FailSerial ==
    ASSUME OneAtATime, SerialInv, IInv', NEW c \in Clients, Fail(c)
    PROVE  SerialInv'
<1>1. pc'[c] = "idle" /\ pc[c] # "reversed" /\ UNCHANGED tables
  BY DEF SerialInv, IInv, TypeOK, Fail, Return, Uncommitted
<1>2. WorkFits(c)'
  BY <1>1, ReturnedFits
<1> QED
  BY <1>1, <1>2, TablesKept

(* An allocation begins with what is left of its source. *)
LEMMA BeginAllocationSerial ==
    ASSUME OneAtATime, SerialInv, IInv', NEW c \in Clients, BeginAllocation(c)
    PROVE  SerialInv'
<1> USE DEF BeginAllocation
<1>1. TypeOK /\ IInv /\ SourceFits(c)
  BY DEF SerialInv, IInv, WorkFits
<1>2. PICK doc : doc = req[c].doc
  OBVIOUS
<1>3. PICK left : left = IF req[c].kind = "apply" THEN credit[doc].remaining
                                                  ELSE receipt[doc].unapplied
  OBVIOUS
<1>4. pc[c] = "checked" /\ pc'[c] = "allocating" /\ req[c].kind \in {"apply", "allocate"}
      /\ req'[c] = [kind |-> req[c].kind, doc |-> doc, todo |-> req[c].todo, row |-> None,
                    left |-> left]
  BY <1>1, <1>2, <1>3 DEF Goto, TypeOK
<1>5. req'[c].kind = req[c].kind /\ req'[c].doc = doc /\ req'[c].left = left
  BY <1>4
<1>6. UNCHANGED tables /\ UNCHANGED <<writes, made>> /\ DOMAIN writes[c] = {}
  BY <1>1, <1>4, IdleHoldsNothing
<1>7. MadeBy(c)' = 0
  <2>1. MadeBy(c) = 0
    BY <1>1, <1>4, NothingMade
  <2> QED
    BY <2>1, <1>6 DEF MadeBy, Made
<1>8. left \in Int /\ left >= 0
  <2>1. CASE req[c].kind = "apply"
    <3>1. doc \in CreditNotes /\ credit[doc] # None
      BY <1>1, <1>2, <1>4, <2>1, RequestTyped DEF IInv, Fits, DocumentExists
    <3>2. credit[doc] \in CreditNote /\ CreditConserved(doc)
      BY <1>1, <3>1, RowsTyped DEF SerialInv, AllocationsFit, CreditFits
    <3> QED
      BY <1>3, <2>1, <3>2 DEF CreditConserved, CreditNote
  <2>2. CASE req[c].kind = "allocate"
    <3>1. doc \in Receipts /\ receipt[doc] # None
      BY <1>1, <1>2, <1>4, <2>2, RequestTyped DEF IInv, Fits, DocumentExists
    <3>2. receipt[doc] \in Receipt /\ ReceiptConserved(doc)
      BY <1>1, <3>1, RowsTyped DEF SerialInv, AllocationsFit, ReceiptFits
    <3> QED
      BY <1>3, <2>2, <3>2 DEF ReceiptConserved, Receipt
  <2> QED
    BY <1>4, <2>1, <2>2
<1>9. DraftFits(c)'
  BY <1>4 DEF DraftFits
<1>10. SourceFits(c)'
  <2>1. left + MadeBy(c)' = left
    BY <1>7, <1>8
  <2>2. credit' = credit /\ receipt' = receipt
    BY DEF tables
  <2>3. CASE req[c].kind = "apply"
    <3>1. credit[doc].status # "draft" /\ left = credit[doc].remaining
      BY <1>1, <1>2, <1>3, <1>4, <2>3 DEF SourceFits
    <3> QED
      BY <1>4, <1>5, <1>8, <2>1, <2>2, <2>3, <3>1 DEF SourceFits
  <2>4. CASE req[c].kind = "allocate"
    <3>1. left = receipt[doc].unapplied
      BY <1>3, <2>4
    <3> QED
      BY <1>4, <1>5, <1>8, <2>1, <2>2, <2>4, <3>1 DEF SourceFits
  <2> QED
    BY <1>4, <2>3, <2>4
<1>11. WorkFits(c)'
  BY <1>4, <1>6, <1>9, <1>10 DEF WorkFits, RowsFit
<1> QED
  BY <1>4, <1>6, <1>11, TablesKept

(* Starting a receipt's transaction keeps the invariant. *)
LEMMA BeginReceiptSerial ==
    ASSUME OneAtATime, SerialInv, IInv', NEW c \in Clients, BeginReceipt(c)
    PROVE  SerialInv'
<1> USE DEF BeginReceipt
<1>1. TypeOK /\ IInv /\ SourceFits(c)
  BY DEF SerialInv, IInv, WorkFits
<1>2. pc[c] = "checked" /\ pc'[c] = "allocating" /\ req[c].kind = "receipt"
      /\ UNCHANGED <<tables, req, writes, made>>
  BY <1>1 DEF Goto, TypeOK
<1>3. DOMAIN writes[c] = {}
  BY <1>1, <1>2, IdleHoldsNothing
<1>4. MadeBy(c)' = MadeBy(c)
  BY DEF MadeBy, Made
<1>5. SourceFits(c)'
  BY <1>1, <1>2, <1>4 DEF SourceFits, tables
<1>6. WorkFits(c)'
  BY <1>2, <1>3, <1>5 DEF WorkFits, DraftFits, RowsFit
<1> QED
  BY <1>2, <1>6, TablesKept

(* A row as the transaction sees it is right, with what the transaction    *)
(* has allocated to it.                                                    *)
LEMMA SeenConserved ==
    ASSUME SerialInv, NEW c \in Clients, NEW i \in Invoices, invoice[i] # None,
           Seen(c, i).status \in Open
    PROVE  Conserved(i, Made(c, i), Seen(c, i)) /\ invoice[i].status \in Open
<1>1. IInv /\ TypeOK /\ RowsFit(c) /\ InvoiceFits(i)
  BY DEF SerialInv, IInv, WorkFits, AllocationsFit
<1>2. DOMAIN made[c] = DOMAIN writes[c]
  BY <1>1 DEF IInv, Fits, RowsAreHeld
<1>3. CASE i \in DOMAIN writes[c]
  <2>1. Made(c, i) = made[c][i] /\ Seen(c, i).due = writes[c][i].due
        /\ Seen(c, i).paid = writes[c][i].paid /\ Seen(c, i).status = writes[c][i].status
    BY <1>1, <1>2, <1>3, SeenTyped DEF Made
  <2> QED
    BY <1>1, <1>3, <2>1 DEF RowsFit, Conserved
<1>4. CASE i \notin DOMAIN writes[c]
  <2>1. Made(c, i) = 0 /\ Seen(c, i) = invoice[i]
    BY <1>1, <1>2, <1>4, SeenTyped DEF Made
  <2>2. Issued(i)
    BY <2>1 DEF Issued, Open
  <2> QED
    BY <1>1, <2>1, <2>2 DEF InvoiceFits
<1> QED
  BY <1>3, <1>4

(* Paying a due amount off a row keeps it right. *)
LEMMA PayingConserves ==
    ASSUME TypeOK, NEW i \in Invoices, invoice[i] # None, NEW row \in Invoice, NEW amount \in Nat,
           amount > 0, amount <= row.due, NEW before \in Nat, Conserved(i, before, row)
    PROVE  Conserved(i, before + amount, Allocated(row, amount))
<1>1. row.paid \in Int /\ row.due \in Int
  BY DEF Invoice
<1>2. AllocatedTo(i) \in Nat /\ invoice[i].total \in Nat
  BY AllocatedToType, RowsTyped DEF Invoice
<1>3. PICK new : new = Allocated(row, amount)
  OBVIOUS
<1>4. new.paid = row.paid + amount /\ new.due = row.due - amount
      /\ new.status = (IF row.due = amount THEN "paid" ELSE "partially_paid")
  BY <1>3 DEF Allocated
<1>5. row.paid = AllocatedTo(i) + before /\ row.due = invoice[i].total - row.paid
  BY DEF Conserved
<1>6. new.paid = AllocatedTo(i) + (before + amount) /\ new.due = invoice[i].total - new.paid
      /\ new.due >= 0
  BY <1>1, <1>2, <1>4, <1>5
<1>7. (new.status = "paid" <=> new.due = 0) /\ new.status # "issued" /\ new.paid # 0
  BY <1>1, <1>2, <1>4, <1>5
<1> QED
  BY <1>3, <1>6, <1>7 DEF Conserved

(* The row about to be written is right. *)
LEMMA ReadForAllocationSerial ==
    ASSUME OneAtATime, SerialInv, IInv', NEW c \in Clients, ReadForAllocation(c)
    PROVE  SerialInv'
<1>1. IInv /\ TypeOK /\ pc[c] = "allocating" /\ req[c].todo # <<>>
  BY DEF SerialInv, IInv, ReadForAllocation, Goto
<1>2. PICK i : i = Head(req[c].todo).invoice
  OBVIOUS
<1>3. PICK amount : amount = Head(req[c].todo).amount
  OBVIOUS
<1>4. PICK seen : seen = Seen(c, i)
  OBVIOUS
<1>5. i \in Invoices /\ amount \in Nat /\ amount > 0
  BY <1>1, <1>2, <1>3, NextAllocation
<1>6. invoice[i] # None /\ amount <= seen.due /\ seen.status \in Open /\ amount <= req[c].left
      /\ pc' = [pc EXCEPT ![c] = "writing"]
      /\ req' = [req EXCEPT ![c].row = Allocated(seen, amount)]
      /\ UNCHANGED <<tables, lock, writes, made>>
  BY <1>2, <1>3, <1>4 DEF ReadForAllocation, Goto
<1>7. PICK row : row = Allocated(seen, amount)
  OBVIOUS
<1>8. pc'[c] = "writing"
      /\ req'[c].kind = req[c].kind /\ req'[c].doc = req[c].doc /\ req'[c].row = row
      /\ req'[c].todo = req[c].todo /\ req'[c].left = req[c].left
      /\ (req[c].kind = "receipt" =>
            req'[c].allocated = req[c].allocated /\ req'[c].amount = req[c].amount)
  <2>1. req[c] \in AllocationRequest \cup ReceiptRequest
    BY <1>1 DEF IInv, Fits, RequestFits
  <2>2. DOMAIN req = Clients /\ DOMAIN pc = Clients
    BY <1>1 DEF TypeOK
  <2>3. req' = [req EXCEPT ![c].row = row]
    BY <1>6, <1>7
  <2> QED
    BY <1>6, <2>1, <2>2, <2>3 DEF AllocationRequest, ReceiptRequest
<1>9. Conserved(i, Made(c, i) + amount, row) /\ invoice[i].status \in Open
  <2>1. Conserved(i, Made(c, i), seen) /\ invoice[i].status \in Open
    BY <1>4, <1>5, <1>6, SeenConserved
  <2>2. seen \in Invoice /\ Made(c, i) \in Nat
    BY <1>1, <1>4, <1>5, <1>6, SeenTyped, RowsTyped
  <2> QED
    BY <1>1, <1>5, <1>6, <1>7, <2>1, <2>2, PayingConserves
<1>11. RowsFit(c)'
  <2>1. RowsFit(c)
    BY DEF SerialInv, WorkFits
  <2>2. \A j : AllocatedTo(j)' = AllocatedTo(j) /\ Made(c, j)' = Made(c, j)
    BY <1>6 DEF AllocatedTo, Made, tables
  <2>3. invoice' = invoice /\ writes' = writes /\ made' = made
    BY <1>6 DEF tables
  <2>4. \A j \in DOMAIN writes'[c] :
            invoice'[j].status \in Open /\ Conserved(j, made[c][j], writes[c][j])'
    BY <2>1, <2>2, <2>3 DEF RowsFit, Conserved
  <2>5. Head(req'[c].todo).invoice = i /\ Head(req'[c].todo).amount = amount
    BY <1>2, <1>3, <1>8
  <2>6. Conserved(i, Made(c, i) + amount, req[c].row)'
    BY <1>8, <1>9, <2>2, <2>3 DEF Conserved
  <2> QED
    BY <1>6, <1>8, <1>9, <2>3, <2>4, <2>5, <2>6 DEF RowsFit, Conserved, Made
<1>12. SourceFits(c)'
  <2>1. SourceFits(c)
    BY DEF SerialInv, WorkFits
  <2>2. MadeBy(c)' = MadeBy(c)
    BY <1>6 DEF MadeBy, Made
  <2> QED
    BY <1>1, <1>6, <1>8, <2>1, <2>2 DEF SourceFits, tables
<1>13. DraftFits(c)'
  BY <1>8 DEF DraftFits
<1>14. WorkFits(c)'
  BY <1>11, <1>12, <1>13 DEF WorkFits
<1> QED
  BY <1>1, <1>6, <1>8, <1>14, TablesKept

(* Writing it moves its amount from what is left to what is made. *)
LEMMA WriteAllocationSerial ==
    ASSUME OneAtATime, SerialInv, IInv', NEW c \in Clients, WriteAllocation(c)
    PROVE  SerialInv'
<1>1. IInv /\ TypeOK /\ pc[c] = "writing" /\ RowsFit(c) /\ SourceFits(c)
  BY DEF SerialInv, IInv, WorkFits, WriteAllocation, Goto
<1>2. PICK i : i = Head(req[c].todo).invoice
  OBVIOUS
<1>3. PICK amount : amount = Head(req[c].todo).amount
  OBVIOUS
<1>4. /\ req[c].todo # <<>>
      /\ i \in Invoices /\ amount \in Nat
      /\ DOMAIN writes'[c] = DOMAIN writes[c] \cup {i}
      /\ writes'[c][i] = req[c].row
      /\ \A j \in DOMAIN writes[c] \ {i} : writes'[c][j] = writes[c][j]
      /\ made'[c][i] = amount + Made(c, i)
      /\ \A j \in DOMAIN made[c] \ {i} : made'[c][j] = made[c][j]
  BY <1>1, <1>2, <1>3, WriteEffect
<1>5. DOMAIN made[c] = DOMAIN writes[c] /\ Made(c, i) \in Nat
  BY <1>1, <1>4, RowsTyped DEF IInv, Fits, RowsAreHeld
<1>6. pc'[c] = "allocating" /\ UNCHANGED tables
  BY <1>1 DEF WriteAllocation, Goto, TypeOK
<1>7. /\ req[c].todo \in Seq(Allocation) /\ req[c].left \in Int
      /\ Tail(req[c].todo) \in Seq(Allocation)
  BY <1>1, <1>4, NextAllocation
<1>8. req'[c].kind = req[c].kind /\ req'[c].doc = req[c].doc
      /\ req'[c].todo = Tail(req[c].todo) /\ req'[c].left = req[c].left - amount
      /\ (req[c].kind = "receipt" =>
            req'[c].allocated = req[c].allocated /\ req'[c].amount = req[c].amount)
  <2>1. req[c] \in AllocationRequest \cup ReceiptRequest
    BY <1>1 DEF IInv, Fits, RequestFits
  <2>2. req' = [req EXCEPT ![c].todo = Tail(@), ![c].row = None, ![c].left = @ - amount]
    BY <1>3 DEF WriteAllocation
  <2>3. DOMAIN req = Clients
    BY <1>1 DEF TypeOK
  <2> QED
    BY <2>1, <2>2, <2>3 DEF AllocationRequest, ReceiptRequest
<1>9. amount <= req[c].left /\ invoice[i].status \in Open
      /\ Conserved(i, Made(c, i) + amount, req[c].row)
  BY <1>1, <1>2, <1>3 DEF RowsFit
<1>10. MadeBy(c)' = MadeBy(c) + amount
  BY <1>1, <1>3, MadeByWrite
<1>11. MadeBy(c) \in Nat
  BY <1>1, MadeByType
<1>12. RowsFit(c)'
  <2>1. \A j \in DOMAIN writes'[c] :
            invoice[j].status \in Open /\ Conserved(j, made'[c][j], writes'[c][j])
    <3> TAKE j \in DOMAIN writes'[c]
    <3>1. CASE j = i
      BY <1>4, <1>5, <1>9, <3>1
    <3>2. CASE j # i
      BY <1>1, <1>4, <1>5, <3>2 DEF RowsFit
    <3> QED
      BY <3>1, <3>2
  <2>2. \A j : AllocatedTo(j)' = AllocatedTo(j)
    BY <1>6 DEF AllocatedTo, tables
  <2> QED
    BY <1>6, <2>1, <2>2 DEF RowsFit, Conserved, tables
<1>13. SourceFits(c)'
  <2>1. req[c].left - amount + (MadeBy(c) + amount) = req[c].left + MadeBy(c)
    BY <1>4, <1>7, <1>11
  <2>2. req'[c].left + MadeBy(c)' = req[c].left + MadeBy(c)
    BY <1>8, <1>10, <2>1
  <2>3. req'[c].left >= 0
    BY <1>4, <1>7, <1>8, <1>9
  <2>4. ASSUME req[c].kind = "receipt"
        PROVE  req'[c].left = ListTotal(req'[c].todo)
    <3>1. \A y \in Allocation : y.amount \in Int
      BY DEF Allocation
    <3>2. ListTotal(req[c].todo) = amount + ListTotal(Tail(req[c].todo))
      BY <1>3, <1>4, <1>7, <3>1, ListTotalTail
    <3>3. ListTotal(Tail(req[c].todo)) \in Nat
      BY <1>4, <1>7, AllocationsAddUp
    <3>4. req[c].left = ListTotal(req[c].todo)
      BY <1>1, <2>4 DEF SourceFits
    <3> QED
      BY <1>4, <1>8, <3>2, <3>3, <3>4
  <2> QED
    BY <1>1, <1>6, <1>8, <2>2, <2>3, <2>4 DEF SourceFits, tables
<1>14. DraftFits(c)'
  BY <1>6 DEF DraftFits
<1>15. WorkFits(c)'
  BY <1>12, <1>13, <1>14 DEF WorkFits
<1> QED
  BY <1>1, <1>6, <1>15, TablesKept

-----------------------------------------------------------------------------
(* Commits *)

(* A handler that returns has to leave the tables right. *)
LEMMA CommitKeeps ==
    ASSUME OneAtATime, IInv', NEW c \in Clients, pc'[c] = "idle",
           AllocationsFit', EntriesMatch', ListTotal(gl') = SubLedger'
    PROVE  SerialInv'
<1>1. \A d \in Clients : d = c
  BY DEF OneAtATime
<1>2. WorkFits(c)'
  BY ReturnedFits
<1>3. BooksAgree'
  BY <1>1 DEF BooksAgree
<1> QED
  BY <1>1, <1>2, <1>3 DEF SerialInv

(* One invoice changes, and no allocation. *)
LEMMA InvoiceKeepsAllocations ==
    ASSUME SerialInv, NEW i \in Invoices, UNCHANGED <<credit, receipt, alloc>>,
           \A j \in Invoices \ {i} : invoice'[j] = invoice[j], InvoiceFits(i)'
    PROVE  AllocationsFit'
<1>1. AllocationsFit
  BY DEF SerialInv
<1>2. \A j : AllocatedTo(j)' = AllocatedTo(j) /\ AllocatedFrom(j)' = AllocatedFrom(j)
  BY DEF AllocatedTo, AllocatedFrom
<1>3. \A j \in Invoices \ {i} : InvoiceFits(j)'
  BY <1>1, <1>2 DEF AllocationsFit, InvoiceFits, Conserved, Issued
<1>4. \A n \in CreditNotes : CreditFits(n)'
  BY <1>1, <1>2 DEF AllocationsFit, CreditFits, CreditConserved
<1>5. \A r \in Receipts : ReceiptFits(r)'
  BY <1>1, <1>2 DEF AllocationsFit, ReceiptFits, ReceiptConserved
<1> QED
  BY <1>3, <1>4, <1>5 DEF AllocationsFit

(* One invoice changes, and no entry; no void is under way. *)
LEMMA InvoiceKeepsEntries ==
    ASSUME OneAtATime, SerialInv, NEW c \in Clients, pc'[c] # "reversed", NEW i \in Invoices,
           UNCHANGED <<credit, gl>>, pc[c] # "reversed" \/ req[c].doc = i,
           \A j \in Invoices \ {i} : invoice'[j] = invoice[j], InvoiceEntries(i)'
    PROVE  EntriesMatch'
<1>1. EntriesMatch /\ \A d \in Clients : d = c
  BY DEF SerialInv, OneAtATime
<1>2. \A s, e : Stands(s, e)' <=> Stands(s, e)
  BY DEF Stands
<1>3. \A j : ~BeingVoided(j)'
  BY <1>1 DEF BeingVoided
<1>4. \A j \in Invoices \ {i} : ~BeingVoided(j)
  BY <1>1 DEF BeingVoided
<1>5. \A j \in Invoices \ {i} : InvoiceEntries(j)'
  BY <1>1, <1>2, <1>3, <1>4 DEF EntriesMatch, InvoiceEntries, Issued
<1>6. \A n \in CreditNotes : CreditEntries(n)'
  BY <1>1, <1>2 DEF EntriesMatch, CreditEntries
<1> QED
  BY <1>1, <1>2, <1>5, <1>6 DEF EntriesMatch

(* A draft invoice counts for nothing. *)
LEMMA CreateInvoiceSerial ==
    ASSUME OneAtATime, SerialInv, IInv', NEW c \in Clients, NEW i \in Invoices,
           NEW total \in Totals, CreateInvoice(c, i, total)
    PROVE  SerialInv'
<1>1. IInv /\ TypeOK /\ TypeOK'
  BY DEF SerialInv, IInv
<1>2. pc[c] = "idle" /\ pc'[c] = "idle" /\ invoice[i] = None
      /\ UNCHANGED <<credit, receipt, alloc, gl>>
      /\ (\A j \in Invoices \ {i} : invoice'[j] = invoice[j])
      /\ invoice'[i] = Draft(total)
  BY <1>1 DEF CreateInvoice, Starts, TypeOK
<1>3. PICK row : row = invoice'[i]
  OBVIOUS
<1>4. row.status = "draft" /\ row.total = total /\ row.paid = 0 /\ row.due = total
      /\ row.entry = 0
  BY <1>2, <1>3 DEF Draft
<1>5. ~Issued(i) /\ ~Issued(i)' /\ AllocatedTo(i) = 0 /\ AllocatedTo(i)' = 0
  BY <1>2, <1>3, <1>4 DEF Issued, AllocatedTo, SerialInv, AllocationsFit, InvoiceFits
<1>6. InvoiceFits(i)'
  BY <1>3, <1>4, <1>5 DEF InvoiceFits
<1>7. AllocationsFit'
  BY <1>2, <1>6, InvoiceKeepsAllocations
<1>8. \A e : ~Stands(i, e)'
  BY <1>2 DEF SerialInv, EntriesMatch, InvoiceEntries, Stands
<1>9. InvoiceEntries(i)'
  BY <1>3, <1>4, <1>5, <1>8 DEF InvoiceEntries
<1>10. EntriesMatch'
  BY <1>2, <1>9, InvoiceKeepsEntries
<1>11. SubLedger' = SubLedger
  <2>1. Due(i)' = 0 /\ Due(i) = 0
    BY <1>5 DEF Due
  <2>2. Dues' = Dues
    BY <1>1, <1>2, <2>1, DuesChange, SubLedgerTerms
  <2>3. CreditsLeft' = CreditsLeft /\ ReceiptsLeft' = ReceiptsLeft
    BY <1>2, TermsSame
  <2> QED
    BY <2>2, <2>3 DEF SubLedger, Dues, CreditsLeft, ReceiptsLeft, Due, CreditLeft, ReceiptLeft
<1>12. ListTotal(gl') = SubLedger'
  BY <1>2, <1>11 DEF SerialInv, BooksAgree, OneAtATime
<1> QED
  BY <1>2, <1>7, <1>10, <1>12, CommitKeeps

(* The sub-ledger is the same when its terms are. *)
LEMMA SubLedgerChange ==
    ASSUME TypeOK
    PROVE  SubLedger' = Dues' - CreditsLeft' - ReceiptsLeft'
BY DEF SubLedger, Dues, CreditsLeft, ReceiptsLeft, Due, CreditLeft, ReceiptLeft

(* What a step that changes one invoice leaves to show. *)
LEMMA InvoiceStep ==
    ASSUME OneAtATime, SerialInv, IInv', NEW c \in Clients, pc'[c] = "idle", NEW i \in Invoices,
           UNCHANGED <<credit, receipt, alloc>>,
           \A j \in Invoices \ {i} : invoice'[j] = invoice[j],
           InvoiceFits(i)', EntriesMatch',
           ListTotal(gl') = SubLedger + (Due(i)' - Due(i))
    PROVE  SerialInv'
<1>1. TypeOK /\ TypeOK'
  BY DEF SerialInv, IInv
<1>2. AllocationsFit'
  BY InvoiceKeepsAllocations
<1>3. Dues' = Dues + (Due(i)' - Due(i))
  BY <1>1, DuesChange
<1>4. CreditsLeft' = CreditsLeft /\ ReceiptsLeft' = ReceiptsLeft
  BY TermsSame
<1>5. SubLedger = Dues - CreditsLeft - ReceiptsLeft
      /\ Dues \in Int /\ CreditsLeft \in Int /\ ReceiptsLeft \in Int /\ Due(i) \in Int
  BY <1>1, SubLedgerTerms
<1>6. SubLedger' = Dues' - CreditsLeft' - ReceiptsLeft'
  BY <1>1, SubLedgerChange
<1>7. Due(i)' \in Int
  BY <1>1 DEF TypeOK, Due, Issued, Invoice
<1>8. ListTotal(gl') = SubLedger'
  BY <1>3, <1>4, <1>5, <1>6, <1>7
<1> QED
  BY <1>2, <1>8, CommitKeeps

(* What the one handler says of the books. *)
LEMMA BooksNow ==
    ASSUME OneAtATime, SerialInv, NEW c \in Clients
    PROVE  /\ pc[c] # "reversed" => ListTotal(gl) = SubLedger
           /\ pc[c] = "reversed" => ListTotal(gl) = SubLedger - invoice[req[c].doc].total
           /\ ListTotal(gl) \in Int /\ SubLedger \in Int
<1>1. TypeOK
  BY DEF SerialInv, IInv
<1>2. SubLedger \in Int
  BY <1>1, SubLedgerTerms
<1> QED
  BY <1>1, <1>2, BalanceType DEF SerialInv, BooksAgree, OneAtATime

(* A draft stays a draft when it is edited. *)
LEMMA CommitUpdateSerial ==
    ASSUME OneAtATime, SerialInv, IInv', NEW c \in Clients, CommitUpdate(c)
    PROVE  SerialInv'
<1>1. IInv /\ TypeOK /\ DraftFits(c)
  BY DEF SerialInv, IInv, WorkFits
<1>2. PICK i : i = req[c].doc
  OBVIOUS
<1>3. /\ i \in Invoices /\ invoice[i] \in Invoice /\ invoice[i] # None
      /\ \A j \in Invoices \ {i} : invoice'[j] = invoice[j]
      /\ invoice'[i] = [status |-> invoice[i].status, total |-> req[c].total,
                        paid |-> invoice[i].paid, due |-> req[c].total,
                        entry |-> invoice[i].entry]
  BY <1>1, <1>2, RowCommitted
<1>4. pc[c] = "checked" /\ pc'[c] = "idle" /\ UNCHANGED <<credit, receipt, alloc, gl>>
      /\ invoice[i].status = "draft"
  BY <1>1, <1>2 DEF CommitUpdate, Return, TypeOK, DraftFits
<1>5. PICK row : row = invoice'[i]
  OBVIOUS
<1>6. row.status = "draft" /\ row.due = row.total /\ row.paid = invoice[i].paid
      /\ row.entry = invoice[i].entry
  BY <1>3, <1>4, <1>5
<1>7. InvoiceFits(i) /\ InvoiceEntries(i)
  BY <1>3 DEF SerialInv, AllocationsFit, EntriesMatch
<1>8. ~Issued(i) /\ ~Issued(i)'
  BY <1>4, <1>5, <1>6 DEF Issued
<1>9. AllocatedTo(i)' = AllocatedTo(i)
  BY <1>4, AllocatedToSame
<1>10. InvoiceFits(i)'
  BY <1>3, <1>4, <1>5, <1>6, <1>7, <1>8, <1>9 DEF InvoiceFits
<1>11. \A e : ~Stands(i, e)'
  BY <1>3, <1>4, <1>7 DEF InvoiceFits, InvoiceEntries, Stands
<1>12. InvoiceEntries(i)'
  BY <1>5, <1>6, <1>8, <1>11 DEF InvoiceEntries
<1>13. EntriesMatch'
  BY <1>3, <1>4, <1>12, InvoiceKeepsEntries
<1>14. Due(i)' = 0 /\ Due(i) = 0
  BY <1>8 DEF Due
<1>15. ListTotal(gl') = SubLedger + (Due(i)' - Due(i))
  BY <1>4, <1>14, BooksNow
<1> QED
  BY <1>3, <1>4, <1>10, <1>13, <1>15, InvoiceStep

(* A void draft counts for nothing, as the draft did. *)
LEMMA CommitVoidDraftSerial ==
    ASSUME OneAtATime, SerialInv, IInv', NEW c \in Clients, CommitVoidDraft(c)
    PROVE  SerialInv'
<1>1. IInv /\ TypeOK /\ DraftFits(c)
  BY DEF SerialInv, IInv, WorkFits
<1>2. PICK i : i = req[c].doc
  OBVIOUS
<1>3. /\ i \in Invoices /\ invoice[i] \in Invoice /\ invoice[i] # None
      /\ \A j \in Invoices \ {i} : invoice'[j] = invoice[j]
      /\ invoice'[i] = [status |-> "void", total |-> invoice[i].total,
                        paid |-> invoice[i].paid, due |-> invoice[i].due,
                        entry |-> invoice[i].entry]
  BY <1>1, <1>2, RowCommitted
<1>4. pc[c] = "checked" /\ pc'[c] = "idle" /\ UNCHANGED <<credit, receipt, alloc, gl>>
      /\ invoice[i].status = "draft"
  BY <1>1, <1>2 DEF CommitVoidDraft, Return, TypeOK, DraftFits
<1>5. PICK row : row = invoice'[i]
  OBVIOUS
<1>6. row.status = "void" /\ row.entry = invoice[i].entry
  BY <1>3, <1>4, <1>5
<1>7. InvoiceFits(i) /\ InvoiceEntries(i)
  BY <1>3 DEF SerialInv, AllocationsFit, EntriesMatch
<1>8. ~Issued(i) /\ ~Issued(i)'
  BY <1>4, <1>5, <1>6 DEF Issued
<1>9. AllocatedTo(i)' = AllocatedTo(i)
  BY <1>4, AllocatedToSame
<1>10. InvoiceFits(i)'
  BY <1>5, <1>6, <1>7, <1>8, <1>9 DEF InvoiceFits
<1>11. invoice[i].entry = 0
  BY <1>3, <1>4, <1>7 DEF InvoiceFits
<1>12. \A e : ~Stands(i, e)'
  BY <1>4, <1>7, <1>11 DEF InvoiceEntries, Stands
<1>13. InvoiceEntries(i)'
  BY <1>5, <1>6, <1>8, <1>11, <1>12 DEF InvoiceEntries
<1>14. EntriesMatch'
  BY <1>3, <1>4, <1>13, InvoiceKeepsEntries
<1>15. Due(i)' = 0 /\ Due(i) = 0
  BY <1>8 DEF Due
<1>16. ListTotal(gl') = SubLedger + (Due(i)' - Due(i))
  BY <1>4, <1>15, BooksNow
<1> QED
  BY <1>3, <1>4, <1>10, <1>14, <1>16, InvoiceStep

(* Voiding takes the whole total off what is due, as its reversal did off  *)
(* the account.                                                            *)
LEMMA CommitVoidSerial ==
    ASSUME OneAtATime, SerialInv, IInv', NEW c \in Clients, CommitVoid(c)
    PROVE  SerialInv'
<1>1. IInv /\ TypeOK /\ DraftFits(c)
  BY DEF SerialInv, IInv, WorkFits
<1>2. PICK i : i = req[c].doc
  OBVIOUS
<1>3. /\ i \in Invoices /\ invoice[i] \in Invoice /\ invoice[i] # None
      /\ \A j \in Invoices \ {i} : invoice'[j] = invoice[j]
      /\ invoice'[i] = [status |-> "void", total |-> invoice[i].total,
                        paid |-> invoice[i].paid, due |-> 0,
                        entry |-> invoice[i].entry]
      /\ invoice'[i] # None
  BY <1>1, <1>2, RowCommitted
<1>4. pc[c] = "reversed" /\ pc'[c] = "idle" /\ UNCHANGED <<credit, receipt, alloc, gl>>
  BY <1>1 DEF CommitVoid, Return, TypeOK
<1>5. invoice[i].status = "issued" /\ gl[invoice[i].entry].status = "reversed"
  BY <1>1, <1>2, <1>4 DEF DraftFits
<1>6. PICK row : row = invoice'[i]
  OBVIOUS
<1>7. row.status = "void" /\ row.entry = invoice[i].entry
  BY <1>3, <1>6
<1>8. InvoiceFits(i) /\ invoice[i].entry # 0
  BY <1>1, <1>3, <1>5 DEF SerialInv, AllocationsFit, IInv, EntriesFit
<1>9. Issued(i) /\ ~Issued(i)'
  BY <1>3, <1>5, <1>6, <1>7 DEF Issued
<1>10. invoice[i].paid = 0 /\ AllocatedTo(i) = 0 /\ invoice[i].due = invoice[i].total
  <2>1. Conserved(i, 0, invoice[i])
    BY <1>8, <1>9 DEF InvoiceFits
  <2>2. AllocatedTo(i) \in Nat /\ invoice[i].total \in Nat
    BY <1>1, <1>3, AllocatedToType DEF Invoice
  <2> QED
    BY <1>5, <2>1, <2>2 DEF Conserved
<1>11. AllocatedTo(i)' = AllocatedTo(i)
  BY <1>4, AllocatedToSame
<1>12. InvoiceFits(i)'
  BY <1>6, <1>7, <1>9, <1>10, <1>11 DEF InvoiceFits
<1>13. InvoiceEntries(i)'
  BY <1>3, <1>4, <1>5, <1>6, <1>7, <1>8, <1>9 DEF InvoiceEntries
<1>14. EntriesMatch'
  BY <1>2, <1>3, <1>4, <1>13, InvoiceKeepsEntries
<1>15. Due(i)' = 0 /\ Due(i) = invoice[i].total
  BY <1>9, <1>10 DEF Due
<1>16. ListTotal(gl') = SubLedger + (Due(i)' - Due(i))
  <2>1. ListTotal(gl) = SubLedger - invoice[i].total /\ SubLedger \in Int
    BY <1>2, <1>4, BooksNow
  <2>2. invoice[i].total \in Int
    BY <1>3 DEF Invoice
  <2> QED
    BY <1>4, <1>15, <2>1, <2>2
<1> QED
  BY <1>3, <1>4, <1>12, <1>14, <1>16, InvoiceStep

-----------------------------------------------------------------------------
(* Steps that post an entry *)

(* Posting an entry for source s adds one that stands, and no other. *)
LEMMA StandsAfterPosting ==
    ASSUME TypeOK, NEW source \in Invoices \cup Sources, NEW amount \in Int,
           gl' = Append(gl, Posting(source, amount))
    PROVE  /\ Len(gl') = Len(gl) + 1
           /\ \A k \in 1 .. Len(gl) : gl'[k] = gl[k]
           /\ gl'[Len(gl) + 1] = Posting(source, amount)
           /\ \A s, e : Stands(s, e)' <=> Stands(s, e) \/ (s = source /\ e = Len(gl) + 1)
<1>1. gl \in Seq(GlEntry) /\ Len(gl) \in Nat
  BY DEF TypeOK
<1>2. PICK x : x = Posting(source, amount)
  OBVIOUS
<1>3. /\ Len(gl') = Len(gl) + 1
      /\ \A k \in 1 .. Len(gl) : gl'[k] = gl[k]
      /\ gl'[Len(gl) + 1] = x
  BY <1>1, <1>2
<1>4. x.source = source /\ x.status = "posted"
  BY <1>2 DEF Posting
<1>5. \A s, e : Stands(s, e)' <=> Stands(s, e) \/ (s = source /\ e = Len(gl) + 1)
  <2> TAKE s, e
  <2>1. CASE e \in 1 .. Len(gl)
    BY <1>1, <1>3, <2>1 DEF Stands
  <2>2. CASE e = Len(gl) + 1
    BY <1>1, <1>3, <1>4, <2>2 DEF Stands
  <2>3. CASE e \notin 1 .. Len(gl) + 1
    BY <1>1, <1>3, <2>3 DEF Stands
  <2> QED
    BY <1>1, <2>1, <2>2, <2>3
<1> QED
  BY <1>2, <1>3, <1>5

(* An entry for a document that has none which stands. *)
LEMMA PostingKeepsEntries ==
    ASSUME OneAtATime, SerialInv, IInv', NEW c \in Clients, pc[c] # "reversed", pc'[c] # "reversed",
           NEW source \in Invoices \cup Sources, NEW amount \in Int,
           gl' = Append(gl, Posting(source, amount)),
           source \in Invoices \cup CreditNotes => \A e : ~Stands(source, e),
           \A i \in Invoices : /\ Issued(i)' <=> Issued(i) \/ i = source
                               /\ Issued(i) =>
                                    /\ i # source
                                    /\ invoice'[i].entry = invoice[i].entry
                                    /\ invoice'[i].total = invoice[i].total
                               /\ i # source /\ ~Issued(i) => invoice'[i] = invoice[i]
                               /\ i = source =>
                                    /\ invoice'[i].entry = Len(gl) + 1
                                    /\ invoice'[i].total = amount,
           \A n \in CreditNotes : credit'[n] = None \/ credit'[n].status = "draft" =>
               n # source /\ (credit[n] = None \/ credit[n].status = "draft")
    PROVE  EntriesMatch'
<1>1. TypeOK /\ EntriesMatch /\ \A d \in Clients : d = c
  BY DEF SerialInv, OneAtATime, IInv
<1>2. /\ Len(gl') = Len(gl) + 1
      /\ \A k \in 1 .. Len(gl) : gl'[k] = gl[k]
      /\ gl'[Len(gl) + 1] = Posting(source, amount)
      /\ \A s, e : Stands(s, e)' <=> Stands(s, e) \/ (s = source /\ e = Len(gl) + 1)
  BY <1>1, StandsAfterPosting
<1>3. Len(gl) \in Nat
  BY <1>1 DEF TypeOK
<1>4. \A i : ~BeingVoided(i) /\ ~BeingVoided(i)'
  BY <1>1 DEF BeingVoided
<1>5. \A i \in Invoices : InvoiceEntries(i)'
  <2> TAKE i \in Invoices
  <2>1. InvoiceEntries(i)
    BY <1>1 DEF EntriesMatch
  <2>2. CASE Issued(i)
    <3>1. /\ invoice[i] # None /\ invoice[i].entry \in 1 .. Len(gl)
      BY <1>3, <2>2 DEF SerialInv, IInv, EntriesFit, Issued
    <3>2. PICK k : k = invoice[i].entry
      OBVIOUS
    <3>3. k \in 1 .. Len(gl) /\ k # 0 /\ gl'[k] = gl[k] /\ invoice'[i].entry = k
      BY <1>2, <1>3, <2>2, <3>1, <3>2
    <3>4. gl[k].source = i /\ gl[k].amount = invoice[i].total /\ gl[k].status = "posted"
      BY <1>4, <2>1, <2>2, <3>2 DEF InvoiceEntries
    <3>5. invoice'[i] # None /\ invoice'[i].status # "void"
      BY <2>2 DEF Issued
    <3> QED
      BY <2>2, <3>3, <3>4, <3>5 DEF InvoiceEntries
  <2>3. CASE i = source
    <3>1. gl'[Len(gl) + 1].source = i /\ gl'[Len(gl) + 1].amount = amount
          /\ gl'[Len(gl) + 1].status = "posted"
      BY <1>2, <2>3 DEF Posting
    <3>2. invoice'[i] # None /\ invoice'[i].status # "void" /\ Len(gl) + 1 # 0
      BY <1>3, <2>3 DEF Issued
    <3> QED
      BY <2>3, <3>1, <3>2 DEF InvoiceEntries
  <2>4. CASE i # source /\ ~Issued(i)
    <3>1. invoice'[i] = invoice[i] /\ ~Issued(i)'
      BY <2>4
    <3>2. invoice[i] = None \/ invoice[i].entry = 0 => \A e : ~Stands(i, e)'
      BY <1>2, <2>1, <2>4 DEF InvoiceEntries
    <3>3. invoice[i] # None /\ invoice[i].entry # 0 =>
              invoice[i].entry \in 1 .. Len(gl) /\ gl'[invoice[i].entry] = gl[invoice[i].entry]
      BY <1>2, <1>3 DEF SerialInv, IInv, EntriesFit
    <3> QED
      BY <2>1, <3>1, <3>2, <3>3 DEF InvoiceEntries
  <2> QED
    BY <2>2, <2>3, <2>4
<1>6. \A n \in CreditNotes : CreditEntries(n)'
  BY <1>1, <1>2 DEF EntriesMatch, CreditEntries
<1>7. ASSUME NEW s \in Invoices \cup CreditNotes, NEW e, NEW d, Stands(s, e)', Stands(s, d)'
      PROVE  e = d
  BY <1>1, <1>2, <1>7 DEF EntriesMatch
<1> QED
  BY <1>5, <1>6, <1>7 DEF EntriesMatch

(* Issuing posts what becomes due. *)
LEMMA CommitIssueSerial ==
    ASSUME OneAtATime, SerialInv, IInv', NEW c \in Clients, CommitIssue(c)
    PROVE  SerialInv'
<1>1. IInv /\ TypeOK /\ DraftFits(c)
  BY DEF SerialInv, IInv, WorkFits
<1>2. PICK i : i = req[c].doc
  OBVIOUS
<1>3. /\ i \in Invoices /\ invoice[i] \in Invoice /\ invoice[i] # None /\ invoice'[i] # None
      /\ \A j \in Invoices \ {i} : invoice'[j] = invoice[j]
      /\ invoice'[i] = [status |-> "issued", total |-> invoice[i].total,
                        paid |-> invoice[i].paid, due |-> invoice[i].due,
                        entry |-> Len(gl) + 1]
  BY <1>1, <1>2, RowCommitted
<1>4. PICK total : total = req[c].total
  OBVIOUS
<1>5. pc[c] = "checked" /\ pc'[c] = "idle" /\ UNCHANGED <<credit, receipt, alloc>>
      /\ gl' = Append(gl, Posting(i, total))
      /\ invoice[i].status = "draft" /\ invoice[i].total = total /\ total # 0
  BY <1>1, <1>2, <1>4 DEF CommitIssue, Return, TypeOK, DraftFits
<1>6. PICK row : row = invoice'[i]
  OBVIOUS
<1>7. InvoiceFits(i) /\ InvoiceEntries(i)
  BY <1>3 DEF SerialInv, AllocationsFit, EntriesMatch
<1>8. row.status = "issued" /\ row.total = total /\ row.paid = 0 /\ row.due = total
      /\ row.entry = Len(gl) + 1
  BY <1>3, <1>5, <1>6, <1>7 DEF InvoiceFits
<1>9. ~Issued(i) /\ Issued(i)'
  BY <1>3, <1>5, <1>6, <1>8 DEF Issued
<1>10. AllocatedTo(i)' = 0 /\ total \in Nat
  BY <1>3, <1>5, <1>7, <1>9, AllocatedToSame DEF InvoiceFits, Invoice
<1>11. InvoiceFits(i)'
  <2>1. PICK a : a = AllocatedTo(i)'
    OBVIOUS
  <2>2. a = 0
    BY <1>10, <2>1
  <2>3. row.paid = a + 0 /\ row.due = row.total - row.paid /\ row.due >= 0
        /\ (row.status = "paid" <=> row.due = 0) /\ (row.status = "issued" <=> row.paid = 0)
    BY <1>5, <1>8, <1>10, <2>2
  <2>4. Conserved(i, 0, invoice[i])'
    BY <1>6, <2>1, <2>3 DEF Conserved
  <2> QED
    BY <1>6, <1>8, <1>9, <2>4 DEF InvoiceFits
<1>12. EntriesMatch'
  <2>1. \A e : ~Stands(i, e)
    BY <1>3, <1>5, <1>7 DEF InvoiceFits, InvoiceEntries
  <2>2. \A j \in Invoices : /\ Issued(j)' <=> Issued(j) \/ j = i
                            /\ Issued(j) =>
                                 /\ j # i
                                 /\ invoice'[j].entry = invoice[j].entry
                                 /\ invoice'[j].total = invoice[j].total
                            /\ j # i /\ ~Issued(j) => invoice'[j] = invoice[j]
                            /\ j = i =>
                                 /\ invoice'[j].entry = Len(gl) + 1
                                 /\ invoice'[j].total = total
    BY <1>3, <1>6, <1>8, <1>9 DEF Issued
  <2>3. i \notin CreditNotes
    BY <1>3, IdentifiersAssumption DEF IdentifiersAssumption
  <2>4. \A n \in CreditNotes : credit'[n] = None \/ credit'[n].status = "draft" =>
            n # i /\ (credit[n] = None \/ credit[n].status = "draft")
    BY <1>5, <2>3
  <2>5. i \in Invoices \cup Sources /\ total \in Int /\ pc[c] # "reversed" /\ pc'[c] # "reversed"
    BY <1>3, <1>5, <1>10
  <2> QED
    BY <1>5, <2>1, <2>2, <2>4, <2>5, PostingKeepsEntries
<1>13. ListTotal(gl') = SubLedger + (Due(i)' - Due(i))
  <2>1. Due(i)' = total /\ Due(i) = 0
    BY <1>6, <1>8, <1>9 DEF Due
  <2>2. ListTotal(gl') = ListTotal(gl) + total
    BY <1>1, <1>3, <1>5, <1>10, BalancePosted
  <2>3. ListTotal(gl) = SubLedger
    BY <1>5, BooksNow
  <2> QED
    BY <1>10, <2>1, <2>2, <2>3
<1> QED
  BY <1>3, <1>5, <1>11, <1>12, <1>13, InvoiceStep

(* One credit note changes, and no allocation. *)
LEMMA CreditKeepsAllocations ==
    ASSUME SerialInv, NEW n \in CreditNotes, UNCHANGED <<invoice, receipt, alloc>>,
           \A m \in CreditNotes \ {n} : credit'[m] = credit[m], CreditFits(n)'
    PROVE  AllocationsFit'
<1>1. AllocationsFit
  BY DEF SerialInv
<1>2. \A j : AllocatedTo(j)' = AllocatedTo(j) /\ AllocatedFrom(j)' = AllocatedFrom(j)
  BY DEF AllocatedTo, AllocatedFrom
<1>3. \A j \in Invoices : InvoiceFits(j)'
  BY <1>1, <1>2 DEF AllocationsFit, InvoiceFits, Conserved, Issued
<1>4. \A m \in CreditNotes \ {n} : CreditFits(m)'
  BY <1>1, <1>2 DEF AllocationsFit, CreditFits, CreditConserved
<1>5. \A r \in Receipts : ReceiptFits(r)'
  BY <1>1, <1>2 DEF AllocationsFit, ReceiptFits, ReceiptConserved
<1> QED
  BY <1>3, <1>4, <1>5 DEF AllocationsFit

(* What a step that changes one credit note leaves to show. *)
LEMMA CreditStep ==
    ASSUME OneAtATime, SerialInv, IInv', NEW c \in Clients, pc'[c] = "idle", NEW n \in CreditNotes,
           UNCHANGED <<invoice, receipt, alloc>>,
           \A m \in CreditNotes \ {n} : credit'[m] = credit[m],
           CreditFits(n)', EntriesMatch',
           ListTotal(gl') = SubLedger - (CreditLeft(n)' - CreditLeft(n))
    PROVE  SerialInv'
<1>1. TypeOK /\ TypeOK'
  BY DEF SerialInv, IInv
<1>2. AllocationsFit'
  BY CreditKeepsAllocations
<1>3. CreditsLeft' = CreditsLeft + (CreditLeft(n)' - CreditLeft(n))
  BY <1>1, CreditsChange
<1>4. Dues' = Dues /\ ReceiptsLeft' = ReceiptsLeft
  BY TermsSame
<1>5. SubLedger = Dues - CreditsLeft - ReceiptsLeft
      /\ Dues \in Int /\ CreditsLeft \in Int /\ ReceiptsLeft \in Int /\ CreditLeft(n) \in Int
  BY <1>1, SubLedgerTerms
<1>6. SubLedger' = Dues' - CreditsLeft' - ReceiptsLeft'
  BY <1>1, SubLedgerChange
<1>7. CreditLeft(n)' \in Int
  BY <1>1 DEF TypeOK, CreditLeft, CreditNote
<1>8. ListTotal(gl') = SubLedger'
  BY <1>3, <1>4, <1>5, <1>6, <1>7
<1> QED
  BY <1>2, <1>8, CommitKeeps

(* A draft credit note counts for nothing. *)
LEMMA CreateCreditSerial ==
    ASSUME OneAtATime, SerialInv, IInv', NEW c \in Clients, NEW n \in CreditNotes,
           NEW total \in Totals, CreateCreditNote(c, n, total)
    PROVE  SerialInv'
<1>1. IInv /\ TypeOK /\ EntriesMatch
  BY DEF SerialInv, IInv
<1>2. pc[c] = "idle" /\ pc'[c] = "idle" /\ credit[n] = None
      /\ UNCHANGED <<invoice, receipt, alloc, gl>>
      /\ (\A m \in CreditNotes \ {n} : credit'[m] = credit[m])
      /\ credit'[n] = DraftCredit(total)
  BY <1>1 DEF CreateCreditNote, Starts, TypeOK
<1>3. PICK row : row = credit'[n]
  OBVIOUS
<1>4. row.status = "draft" /\ row.total = total /\ row.applied = 0 /\ row.remaining = total
  BY <1>2, <1>3 DEF DraftCredit
<1>5. AllocatedFrom(n) = 0 /\ total \in Nat
  BY <1>2, AmountsAssumption DEF SerialInv, AllocationsFit, CreditFits, AmountsAssumption
<1>6. CreditFits(n)'
  <2>1. PICK a : a = AllocatedFrom(n)'
    OBVIOUS
  <2>2. a = 0
    BY <1>2, <1>5, <2>1 DEF AllocatedFrom
  <2>3. row.applied = a /\ row.remaining = row.total - a /\ row.remaining >= 0
    BY <1>4, <1>5, <2>2
  <2>4. CreditConserved(n)'
    BY <1>3, <2>1, <2>3 DEF CreditConserved
  <2> QED
    BY <1>3, <1>4, <2>1, <2>2, <2>4 DEF CreditFits
<1>7. EntriesMatch'
  <2>1. \A s, e : Stands(s, e)' <=> Stands(s, e)
    BY <1>2 DEF Stands
  <2>2. \A m \in CreditNotes : CreditEntries(m)'
    BY <1>1, <1>2, <2>1 DEF EntriesMatch, CreditEntries
  <2>3. \A i : ~BeingVoided(i) /\ ~BeingVoided(i)'
    BY <1>2 DEF BeingVoided, OneAtATime
  <2>4. \A i \in Invoices : InvoiceEntries(i)'
    BY <1>1, <1>2, <2>1, <2>3 DEF EntriesMatch, InvoiceEntries, Issued
  <2> QED
    BY <1>1, <2>1, <2>2, <2>4 DEF EntriesMatch
<1>8. ListTotal(gl') = SubLedger - (CreditLeft(n)' - CreditLeft(n))
  <2>1. CreditLeft(n)' = 0 /\ CreditLeft(n) = 0
    BY <1>2, <1>3, <1>4 DEF CreditLeft
  <2> QED
    BY <1>2, <2>1, BooksNow
<1> QED
  BY <1>2, <1>6, <1>7, <1>8, CreditStep

(* Issuing a credit note posts what it can be applied for. *)
LEMMA CommitCreditSerial ==
    ASSUME OneAtATime, SerialInv, IInv', NEW c \in Clients, CommitCredit(c)
    PROVE  SerialInv'
<1>1. IInv /\ TypeOK /\ DraftFits(c) /\ EntriesMatch
  BY DEF SerialInv, IInv, WorkFits
<1>2. PICK n : n = req[c].doc
  OBVIOUS
<1>3. PICK total : total = req[c].total
  OBVIOUS
<1>4. pc[c] = "checked" /\ pc'[c] = "idle" /\ req[c].kind = "credit"
      /\ UNCHANGED <<invoice, receipt, alloc>>
      /\ gl' = Append(gl, Posting(n, -total))
      /\ credit' = [credit EXCEPT ![n].status = "issued"]
      /\ credit[n].status = "draft" /\ credit[n].total = total
  BY <1>1, <1>2, <1>3 DEF CommitCredit, Return, TypeOK, DraftFits
<1>5. n \in CreditNotes /\ total \in Nat
  BY <1>1, <1>2, <1>3, <1>4, RequestTyped
<1>6. credit[n] # None /\ credit[n] \in CreditNote
  BY <1>1, <1>2, <1>4, <1>5, RowsTyped DEF IInv, Fits, DocumentExists
<1>7. PICK row : row = credit'[n]
  OBVIOUS
<1>8. row = [status |-> "issued", total |-> total, applied |-> credit[n].applied,
             remaining |-> credit[n].remaining]
      /\ \A m \in CreditNotes \ {n} : credit'[m] = credit[m]
  BY <1>1, <1>4, <1>5, <1>6, <1>7 DEF TypeOK, CreditNote
<1>9. credit'[n] # None
  <2>1. row \in CreditNote
    BY <1>4, <1>6, <1>8 DEF CreditNote
  <2> QED
    BY <1>7, <2>1, NullAssumption DEF NullAssumption
<1>10. CreditFits(n)
  BY <1>5 DEF SerialInv, AllocationsFit
<1>11. credit[n].remaining = total
  BY <1>4, <1>6, <1>10 DEF CreditFits
<1>12. CreditFits(n)'
  <2>1. AllocatedFrom(n)' = AllocatedFrom(n)
    BY <1>4 DEF AllocatedFrom
  <2>2. CreditConserved(n)
    BY <1>6, <1>10 DEF CreditFits
  <2>3. row.applied = credit[n].applied /\ row.remaining = credit[n].remaining
        /\ row.total = credit[n].total /\ row.status = "issued"
    BY <1>4, <1>8
  <2>4. CreditConserved(n)'
    BY <1>7, <2>1, <2>2, <2>3 DEF CreditConserved
  <2> QED
    BY <1>7, <1>9, <2>3, <2>4 DEF CreditFits
<1>13. EntriesMatch'
  <2>1. \A e : ~Stands(n, e)
    BY <1>1, <1>4, <1>5 DEF EntriesMatch, CreditEntries
  <2>2. n \notin Invoices
    BY <1>5, IdentifiersAssumption DEF IdentifiersAssumption
  <2>3. \A j \in Invoices : /\ Issued(j)' <=> Issued(j) \/ j = n
                            /\ Issued(j) =>
                                 /\ j # n
                                 /\ invoice'[j].entry = invoice[j].entry
                                 /\ invoice'[j].total = invoice[j].total
                            /\ j # n /\ ~Issued(j) => invoice'[j] = invoice[j]
                            /\ j = n =>
                                 /\ invoice'[j].entry = Len(gl) + 1
                                 /\ invoice'[j].total = -total
    BY <1>4, <2>2 DEF Issued
  <2>4. \A m \in CreditNotes : credit'[m] = None \/ credit'[m].status = "draft" =>
            m # n /\ (credit[m] = None \/ credit[m].status = "draft")
    <3>1. credit'[n].status = "issued"
      BY <1>7, <1>8
    <3> QED
      BY <1>8, <1>9, <3>1
  <2>5. n \in Invoices \cup Sources /\ -total \in Int
        /\ pc[c] # "reversed" /\ pc'[c] # "reversed"
    BY <1>4, <1>5 DEF Sources
  <2>6. PICK amount : amount = -total
    OBVIOUS
  <2>7. amount \in Int /\ gl' = Append(gl, Posting(n, amount))
    BY <1>4, <2>5, <2>6
  <2>8. \A j \in Invoices : /\ Issued(j)' <=> Issued(j) \/ j = n
                            /\ Issued(j) =>
                                 /\ j # n
                                 /\ invoice'[j].entry = invoice[j].entry
                                 /\ invoice'[j].total = invoice[j].total
                            /\ j # n /\ ~Issued(j) => invoice'[j] = invoice[j]
                            /\ j = n =>
                                 /\ invoice'[j].entry = Len(gl) + 1
                                 /\ invoice'[j].total = amount
    BY <2>3, <2>6
  <2> QED
    BY <2>1, <2>4, <2>5, <2>7, <2>8, PostingKeepsEntries
<1>14. ListTotal(gl') = SubLedger - (CreditLeft(n)' - CreditLeft(n))
  <2>1. CreditLeft(n)' = total
    <3>1. row.status = "issued" /\ row.remaining = total
      BY <1>8, <1>11
    <3> QED
      BY <1>7, <1>9, <3>1 DEF CreditLeft
  <2>2. CreditLeft(n) = 0
    BY <1>4 DEF CreditLeft
  <2>3. PICK amount : amount = -total
    OBVIOUS
  <2>4. amount \in Int /\ gl' = Append(gl, Posting(n, amount)) /\ n \in Invoices \cup Sources
    BY <1>4, <1>5, <2>3 DEF Sources
  <2>5. ListTotal(gl') = ListTotal(gl) + amount
    BY <1>1, <2>4, BalancePosted
  <2>6. ListTotal(gl) = SubLedger /\ SubLedger \in Int
    BY <1>4, BooksNow
  <2> QED
    BY <1>5, <2>1, <2>2, <2>3, <2>5, <2>6
<1> QED
  BY <1>4, <1>5, <1>8, <1>12, <1>13, <1>14, CreditStep

(* What a reversal does to the entries. *)
LEMMA ReversalEffect ==
    ASSUME TypeOK, NEW e \in 1 .. Len(gl),
           gl' = Append([gl EXCEPT ![e].status = "reversed"],
                        Posting(gl[e].source, -gl[e].amount))
    PROVE  /\ Len(gl) \in Nat /\ Len(gl') = Len(gl) + 1
           /\ \A k \in 1 .. Len(gl) : /\ gl'[k].source = gl[k].source
                                      /\ gl'[k].amount = gl[k].amount
                                      /\ k # e => gl'[k].status = gl[k].status
           /\ gl'[e].status = "reversed"
           /\ gl'[Len(gl) + 1].source = gl[e].source
           /\ \A s, k : Stands(s, k)' =>
                  \/ Stands(s, k) /\ k # e
                  \/ s = gl[e].source /\ k = Len(gl) + 1
<1>1. gl \in Seq(GlEntry) /\ Len(gl) \in Nat /\ gl[e] \in GlEntry
  BY DEF TypeOK
<1>2. PICK x : x = Posting(gl[e].source, -gl[e].amount)
  OBVIOUS
<1>3. PICK t : t = [gl EXCEPT ![e].status = "reversed"]
  OBVIOUS
<1>4. x.source = gl[e].source
  BY <1>2 DEF Posting
<1>5. \A k \in 1 .. Len(gl) : /\ t[k].source = gl[k].source
                              /\ t[k].amount = gl[k].amount
                              /\ k # e => t[k].status = gl[k].status
                              /\ k = e => t[k].status = "reversed"
  <2> TAKE k \in 1 .. Len(gl)
  <2>1. CASE k = e
    BY <1>1, <1>3, <2>1 DEF GlEntry
  <2>2. CASE k # e
    BY <1>1, <1>3, <2>2
  <2> QED
    BY <2>1, <2>2
<1>6. \E n \in Nat : DOMAIN t = 1 .. n /\ Len(t) = n /\ n = Len(gl) /\ t \in Seq(GlEntry)
  <2>1. [gl[e] EXCEPT !.status = "reversed"] =
            [source |-> gl[e].source, amount |-> gl[e].amount, status |-> "reversed"]
    BY <1>1 DEF GlEntry
  <2>2. [gl[e] EXCEPT !.status = "reversed"] \in GlEntry
    BY <1>1, <2>1 DEF GlEntry
  <2> QED
    BY <1>1, <1>3, <2>2
<1>7. x \in GlEntry
  BY <1>1, <1>2 DEF Posting, GlEntry
<1>8. gl' = Append(t, x)
  BY <1>2, <1>3
<1>9. /\ Len(gl') = Len(gl) + 1
      /\ \A k \in 1 .. Len(gl) : gl'[k] = t[k]
      /\ gl'[Len(gl) + 1] = x
  BY <1>1, <1>6, <1>7, <1>8
<1>10. /\ \A k \in 1 .. Len(gl) : /\ gl'[k].source = gl[k].source
                                  /\ gl'[k].amount = gl[k].amount
                                  /\ k # e => gl'[k].status = gl[k].status
       /\ gl'[e].status = "reversed"
       /\ gl'[Len(gl) + 1].source = gl[e].source
  BY <1>4, <1>5, <1>9
<1>11. ASSUME NEW s, NEW k, Stands(s, k)'
       PROVE  \/ Stands(s, k) /\ k # e
              \/ s = gl[e].source /\ k = Len(gl) + 1
  <2>1. CASE k \in 1 .. Len(gl)
    BY <1>10, <1>11, <2>1 DEF Stands
  <2>2. CASE k \notin 1 .. Len(gl)
    <3>1. k = Len(gl) + 1
      BY <1>1, <1>9, <1>11, <2>2 DEF Stands
    <3> QED
      BY <1>10, <1>11, <3>1 DEF Stands
  <2> QED
    BY <2>1, <2>2
<1> QED
  BY <1>1, <1>9, <1>10, <1>11

(* The reversal of a void takes the total off the account, before the      *)
(* update does.                                                            *)
LEMMA CommitReversalSerial ==
    ASSUME OneAtATime, SerialInv, IInv', NEW c \in Clients, CommitReversal(c)
    PROVE  SerialInv'
<1>1. IInv /\ TypeOK /\ DraftFits(c) /\ EntriesMatch /\ \A d \in Clients : d = c
  BY DEF SerialInv, IInv, WorkFits, OneAtATime
<1>2. PICK i : i = req[c].doc
  OBVIOUS
<1>3. PICK e : e = req[c].entry
  OBVIOUS
<1>4. pc[c] = "reversing" /\ req[c].kind = "void"
  <2>1. pc[c] = "reversing" /\ req[c] \in VoidRequest /\ req[c].kind \in Kinds
    BY <1>1 DEF CommitReversal, IInv, Fits, RequestFits
  <2>2. req[c].kind \in {"void", "reverse"}
    BY <2>1 DEF VoidRequest
  <2> QED
    BY <2>1, <2>2 DEF OneAtATime
<1>5. pc'[c] = "reversed" /\ UNCHANGED <<invoice, credit, receipt, alloc, lock, req, writes, made>>
      /\ gl' = Append([gl EXCEPT ![e].status = "reversed"], Posting(gl[e].source, -gl[e].amount))
  BY <1>1, <1>3, <1>4 DEF CommitReversal, Goto, TypeOK
<1>6. i \in Invoices /\ invoice[i] # None /\ e \in 1 .. Len(gl)
      /\ invoice[i].status = "issued" /\ invoice[i].entry = e
  <2>1. i \in Invoices
    BY <1>1, <1>2, <1>4, RequestTyped
  <2> QED
    BY <1>1, <1>2, <1>3, <1>4, <2>1 DEF DraftFits, IInv, Fits, RequestFits, DocumentExists
<1>7. Issued(i) /\ \A j : ~BeingVoided(j)
  BY <1>1, <1>4, <1>6 DEF Issued, BeingVoided
<1>8. gl[e].source = i /\ gl[e].amount = invoice[i].total /\ gl[e].status = "posted"
  BY <1>1, <1>6, <1>7 DEF EntriesMatch, InvoiceEntries
<1>9. /\ Len(gl) \in Nat /\ Len(gl') = Len(gl) + 1
      /\ \A k \in 1 .. Len(gl) : /\ gl'[k].source = gl[k].source
                                 /\ gl'[k].amount = gl[k].amount
                                 /\ k # e => gl'[k].status = gl[k].status
      /\ gl'[e].status = "reversed"
      /\ \A s, k : Stands(s, k)' =>
             \/ Stands(s, k) /\ k # e
             \/ s = i /\ k = Len(gl) + 1
  BY <1>1, <1>5, <1>6, <1>8, ReversalEffect
<1>10. Stands(i, e)
  BY <1>6, <1>8 DEF Stands
<1>11. \A j \in Invoices : InvoiceEntries(j)'
  <2> TAKE j \in Invoices
  <2>1. InvoiceEntries(j)
    BY <1>1 DEF EntriesMatch
  <2>2. invoice'[j] = invoice[j] /\ (Issued(j)' <=> Issued(j))
    BY <1>5 DEF Issued
  <2>3. BeingVoided(i)'
    BY <1>2, <1>5 DEF BeingVoided
  <2>4. CASE j = i
    <3>1. invoice[i].entry # 0 /\ invoice[i].status # "void"
      BY <1>6, <1>9
    <3> QED
      BY <1>6, <1>8, <1>9, <2>2, <2>3, <2>4, <3>1 DEF InvoiceEntries
  <2>5. CASE j # i
    <3>1. invoice[j] = None \/ invoice[j].entry = 0 => \A k : ~Stands(j, k)'
      BY <1>9, <2>1, <2>5 DEF InvoiceEntries
    <3>2. invoice[j] # None /\ invoice[j].entry # 0 => invoice[j].entry \in 1 .. Len(gl)
      BY <1>1, <1>9 DEF IInv, EntriesFit
    <3>3. invoice[j] # None /\ invoice[j].status = "void" /\ invoice[j].entry # 0 =>
              gl'[invoice[j].entry].status = "reversed"
      BY <1>9, <2>1, <3>2 DEF InvoiceEntries
    <3>4. ASSUME Issued(j)
          PROVE  /\ gl'[invoice[j].entry].source = j
                 /\ gl'[invoice[j].entry].amount = invoice[j].total
                 /\ gl'[invoice[j].entry].status = "posted"
      <4>1. invoice[j] # None /\ invoice[j].entry # 0
        BY <1>1, <3>4 DEF Issued, IInv, EntriesFit
      <4>2. gl[invoice[j].entry].source = j /\ gl[invoice[j].entry].amount = invoice[j].total
            /\ gl[invoice[j].entry].status = "posted"
        BY <1>7, <2>1, <3>4 DEF InvoiceEntries
      <4>3. invoice[j].entry # e
        BY <1>8, <2>5, <4>2
      <4> QED
        BY <1>9, <3>2, <4>1, <4>2, <4>3
    <3> QED
      BY <2>2, <3>1, <3>3, <3>4 DEF InvoiceEntries
  <2> QED
    BY <2>4, <2>5
<1>12. \A n \in CreditNotes : CreditEntries(n)'
  <2>1. i \notin CreditNotes
    BY <1>6, IdentifiersAssumption DEF IdentifiersAssumption
  <2> QED
    BY <1>1, <1>5, <1>9, <2>1 DEF EntriesMatch, CreditEntries
<1>13. ASSUME NEW s \in Invoices \cup CreditNotes, NEW k, NEW d, Stands(s, k)', Stands(s, d)'
       PROVE  k = d
  <2>1. \A a, b : Stands(s, a) /\ Stands(s, b) => a = b
    BY <1>1 DEF EntriesMatch
  <2>2. (Stands(s, k) /\ k # e) \/ (s = i /\ k = Len(gl) + 1)
    BY <1>9, <1>13
  <2>3. (Stands(s, d) /\ d # e) \/ (s = i /\ d = Len(gl) + 1)
    BY <1>9, <1>13
  <2> QED
    BY <1>10, <2>1, <2>2, <2>3
<1>14. EntriesMatch'
  BY <1>11, <1>12, <1>13 DEF EntriesMatch
<1>15. AllocationsFit'
  BY <1>5 DEF SerialInv, AllocationsFit, InvoiceFits, CreditFits, ReceiptFits, Conserved,
              CreditConserved, ReceiptConserved, Issued, AllocatedTo, AllocatedFrom
<1>16. BooksAgree'
  <2>1. ListTotal(gl') = ListTotal(gl) - gl[e].amount
    BY <1>1, <1>5, <1>6, BalanceReversed
  <2>2. ListTotal(gl) = SubLedger
    BY <1>4, BooksNow
  <2>3. SubLedger' = SubLedger
    BY <1>5 DEF SubLedger, Issued
  <2> QED
    BY <1>1, <1>2, <1>5, <1>8, <2>1, <2>2, <2>3 DEF BooksAgree
<1>17. WorkFits(c)'
  <2>1. DraftFits(c)'
    BY <1>2, <1>3, <1>5, <1>6, <1>9 DEF DraftFits
  <2>2. SourceFits(c)'
    BY <1>4, <1>5 DEF SourceFits
  <2>3. DOMAIN writes'[c] = {}
    BY <1>1, <1>4, <1>5, IdleHoldsNothing
  <2> QED
    BY <1>5, <2>1, <2>2, <2>3 DEF WorkFits, RowsFit
<1> QED
  BY <1>1, <1>14, <1>15, <1>16, <1>17 DEF SerialInv

(* What the commit of a transaction makes of an invoice. *)
LEMMA InvoiceCommitted ==
    ASSUME SerialInv, IInv', NEW c \in Clients, pc[c] = "allocating", CommitAllocations(c),
           NEW i \in Invoices
    PROVE  /\ InvoiceFits(i)'
           /\ Issued(i)' <=> Issued(i)
           /\ Issued(i) => invoice'[i].entry = invoice[i].entry /\ invoice'[i].total = invoice[i].total
           /\ ~Issued(i) => invoice'[i] = invoice[i]
           /\ Due(i) = Due(i)' + Made(c, i)
<1>1. IInv /\ TypeOK /\ RowsFit(c) /\ InvoiceFits(i)
  BY DEF SerialInv, IInv, WorkFits, AllocationsFit
<1>2. AllocatedTo(i)' = AllocatedTo(i) + Made(c, i)
  BY <1>1, AllocatedToCommit
<1>3. /\ invoice[i] = None => invoice'[i] = None
      /\ invoice[i] # None => invoice'[i] = Seen(c, i) /\ invoice'[i] # None
  BY <1>1, CommitEffect
<1>4. AllocatedTo(i) \in Nat /\ Made(c, i) \in Nat /\ DOMAIN made[c] = DOMAIN writes[c]
      /\ writes[c] \in [DOMAIN writes[c] -> Pending]
  BY <1>1, AllocatedToType, RowsTyped DEF IInv, Fits, RowsAreHeld
<1>5. CASE i \notin DOMAIN writes[c]
  <2>1. Made(c, i) = 0
    BY <1>4, <1>5 DEF Made
  <2>2. invoice'[i] = invoice[i]
    BY <1>1, <1>3, <1>5, SeenTyped
  <2>3. AllocatedTo(i)' = AllocatedTo(i)
    BY <1>2, <1>4, <2>1
  <2>4. InvoiceFits(i)'
    BY <1>1, <2>2, <2>3 DEF InvoiceFits, Conserved, Issued
  <2>5. Issued(i)' <=> Issued(i)
    BY <2>2 DEF Issued
  <2>6. Due(i) = Due(i)' + Made(c, i)
    <3>1. Due(i)' = Due(i) /\ Due(i) \in Int
      BY <1>1, <2>2, SubLedgerTerms DEF Due, Issued
    <3> QED
      BY <2>1, <3>1
  <2> QED
    BY <2>2, <2>4, <2>5, <2>6
<1>6. CASE i \in DOMAIN writes[c]
  <2>1. PICK w : w = writes[c][i]
    OBVIOUS
  <2>2. w \in Pending /\ Made(c, i) = made[c][i]
    BY <1>4, <1>6, <2>1 DEF Made
  <2>3. invoice[i].status \in Open /\ Conserved(i, Made(c, i), w)
    BY <1>1, <1>6, <2>1, <2>2 DEF RowsFit
  <2>4. invoice[i] # None
    BY <1>1, <1>6 DEF IInv, Fits, RowsAreHeld, HasEntry
  <2>5. PICK row : row = invoice'[i]
    OBVIOUS
  <2>6. row.status = w.status /\ row.paid = w.paid /\ row.due = w.due
        /\ row.total = invoice[i].total /\ row.entry = invoice[i].entry
    BY <1>1, <1>3, <1>6, <2>1, <2>4, <2>5, SeenTyped
  <2>7. Issued(i) /\ Issued(i)'
    BY <1>3, <2>2, <2>3, <2>4, <2>5, <2>6 DEF Issued, Open, Pending
  <2>8. PICK a : a = AllocatedTo(i)'
    OBVIOUS
  <2>9. a = AllocatedTo(i) + Made(c, i)
    BY <1>2, <2>8
  <2>10. row.paid = a + 0 /\ row.due = row.total - row.paid /\ row.due >= 0
         /\ (row.status = "paid" <=> row.due = 0) /\ (row.status = "issued" <=> row.paid = 0)
    BY <1>4, <2>3, <2>6, <2>9 DEF Conserved
  <2>11. Conserved(i, 0, invoice[i])'
    BY <2>5, <2>8, <2>10 DEF Conserved
  <2>12. InvoiceFits(i)'
    BY <2>2, <2>5, <2>6, <2>7, <2>11 DEF InvoiceFits, Pending
  <2>13. Due(i) = Due(i)' + Made(c, i)
    <3>1. Conserved(i, 0, invoice[i]) /\ invoice[i].total \in Nat
      BY <1>1, <2>4, <2>7, RowsTyped DEF InvoiceFits, Invoice
    <3>2. Due(i) = invoice[i].due /\ Due(i)' = row.due
      BY <2>5, <2>7 DEF Due
    <3> QED
      BY <1>4, <2>6, <2>9, <2>10, <3>1, <3>2 DEF Conserved
  <2> QED
    BY <2>5, <2>6, <2>7, <2>12, <2>13
<1> QED
  BY <1>5, <1>6

(* ... which leaves entries matched when it posts none. *)
LEMMA CommitKeepsEntries ==
    ASSUME OneAtATime, SerialInv, IInv', NEW c \in Clients, pc[c] = "allocating", pc'[c] = "idle",
           CommitAllocations(c), gl' = gl,
           \A n \in CreditNotes : credit'[n] = None \/ credit'[n].status = "draft" =>
               credit[n] = None \/ credit[n].status = "draft"
    PROVE  EntriesMatch'
<1>1. EntriesMatch
  BY DEF SerialInv
<1>2. \A s, e : Stands(s, e)' <=> Stands(s, e)
  BY DEF Stands
<1>3. \A i : ~BeingVoided(i) /\ ~BeingVoided(i)'
  BY DEF BeingVoided, OneAtATime
<1>4. \A n \in CreditNotes : CreditEntries(n)'
  BY <1>1, <1>2 DEF EntriesMatch, CreditEntries
<1>5. \A i \in Invoices : InvoiceEntries(i)'
  <2> TAKE i \in Invoices
  <2>1. InvoiceEntries(i)
    BY <1>1 DEF EntriesMatch
  <2>2. /\ Issued(i)' <=> Issued(i)
        /\ Issued(i) => invoice'[i].entry = invoice[i].entry /\ invoice'[i].total = invoice[i].total
        /\ ~Issued(i) => invoice'[i] = invoice[i]
    BY InvoiceCommitted
  <2>3. CASE Issued(i)
    <3>1. invoice'[i] # None /\ invoice'[i].status # "void" /\ invoice'[i].entry # 0
      BY <2>2, <2>3 DEF Issued, SerialInv, IInv, EntriesFit
    <3> QED
      BY <1>3, <2>1, <2>2, <2>3, <3>1 DEF InvoiceEntries
  <2>4. CASE ~Issued(i)
    BY <1>2, <2>1, <2>2, <2>4 DEF InvoiceEntries
  <2> QED
    BY <2>3, <2>4
<1> QED
  BY <1>1, <1>2, <1>4, <1>5 DEF EntriesMatch

(* Credit notes and receipts other than the source keep their columns. *)
LEMMA OtherSources ==
    ASSUME SerialInv, NEW c \in Clients, pc[c] = "allocating", CommitAllocations(c)
    PROVE  /\ \A n \in CreditNotes : n # req[c].doc /\ credit'[n] = credit[n] => CreditFits(n)'
           /\ \A r \in Receipts : r # req[c].doc /\ receipt'[r] = receipt[r] => ReceiptFits(r)'
<1>1. IInv /\ AllocationsFit
  BY DEF SerialInv
<1>2. PICK s : s = req[c].doc
  OBVIOUS
<1>3. \A t \in Sources \ {s} : AllocatedFrom(t)' = AllocatedFrom(t)
  BY <1>1, <1>2, AllocatedFromCommit
<1>4. ASSUME NEW n \in CreditNotes, n # s, credit'[n] = credit[n] PROVE CreditFits(n)'
  <2>1. AllocatedFrom(n)' = AllocatedFrom(n) /\ CreditFits(n)
    BY <1>1, <1>3, <1>4 DEF AllocationsFit, Sources
  <2> QED
    BY <1>4, <2>1 DEF CreditFits, CreditConserved
<1>5. ASSUME NEW r \in Receipts, r # s, receipt'[r] = receipt[r] PROVE ReceiptFits(r)'
  <2>1. AllocatedFrom(r)' = AllocatedFrom(r) /\ ReceiptFits(r)
    BY <1>1, <1>3, <1>5 DEF AllocationsFit, Sources
  <2> QED
    BY <1>5, <2>1 DEF ReceiptFits, ReceiptConserved
<1> QED
  BY <1>2, <1>4, <1>5

(* Applying a credit note moves what was made from dues to the note. *)
LEMMA FinishApplySerial ==
    ASSUME OneAtATime, SerialInv, IInv', NEW c \in Clients, FinishApply(c)
    PROVE  SerialInv'
<1>1. IInv /\ TypeOK /\ TypeOK' /\ SourceFits(c)
  BY DEF SerialInv, IInv, WorkFits
<1>2. PICK n : n = req[c].doc
  OBVIOUS
<1>3. PICK left : left = req[c].left
  OBVIOUS
<1>4. pc[c] = "allocating" /\ pc'[c] = "idle" /\ req[c].kind = "apply" /\ req[c].todo = <<>>
      /\ CommitAllocations(c) /\ UNCHANGED <<receipt, gl>>
      /\ credit' = [credit EXCEPT ![n].applied = credit[n].total - left,
                                  ![n].remaining = left,
                                  ![n].status = IF left = 0 THEN "applied" ELSE "issued"]
  BY <1>1, <1>2, <1>3 DEF FinishApply, Goto, TypeOK
<1>5. n \in CreditNotes /\ n \notin Receipts
  BY <1>1, <1>2, <1>4, RequestTyped, IdentifiersAssumption DEF IdentifiersAssumption
<1>6. credit[n] # None /\ credit[n] \in CreditNote
  BY <1>1, <1>2, <1>4, <1>5, RowsTyped DEF IInv, Fits, DocumentExists
<1>7. credit[n].status # "draft" /\ left >= 0 /\ left + MadeBy(c) = credit[n].remaining
  BY <1>1, <1>2, <1>3, <1>4 DEF SourceFits
<1>8. left \in Int
  BY <1>1, <1>3, <1>4, RequestTyped
<1>9. PICK row : row = credit'[n]
  OBVIOUS
<1>10. row = [status |-> IF left = 0 THEN "applied" ELSE "issued", total |-> credit[n].total,
              applied |-> credit[n].total - left, remaining |-> left]
       /\ \A m \in CreditNotes \ {n} : credit'[m] = credit[m]
  BY <1>1, <1>4, <1>5, <1>6, <1>9 DEF TypeOK, CreditNote
<1>11. row.status # "draft" /\ row.total = credit[n].total
       /\ row.applied = credit[n].total - left /\ row.remaining = left
  BY <1>10
<1>12. credit'[n] # None
  <2>1. row \in CreditNote
    BY <1>6, <1>8, <1>10 DEF CreditNote
  <2> QED
    BY <1>9, <2>1, NullAssumption DEF NullAssumption
<1>13. CreditFits(n)'
  <2>1. AllocatedFrom(n)' = AllocatedFrom(n) + MadeBy(c)
    BY <1>1, <1>2, <1>4, AllocatedFromCommit
  <2>2. AllocatedFrom(n) \in Nat /\ MadeBy(c) \in Nat
    BY <1>1, <1>5, AllocatedFromType, MadeByType DEF Sources
  <2>3. CreditConserved(n)
    BY <1>5, <1>6 DEF SerialInv, AllocationsFit, CreditFits
  <2>4. credit[n].total \in Int
    BY <1>6 DEF CreditNote
  <2>5. PICK a : a = AllocatedFrom(n)'
    OBVIOUS
  <2>6. row.applied = a /\ row.remaining = row.total - a /\ row.remaining >= 0
    BY <1>7, <1>8, <1>11, <2>1, <2>2, <2>3, <2>4, <2>5 DEF CreditConserved
  <2>7. CreditConserved(n)'
    BY <1>9, <2>5, <2>6 DEF CreditConserved
  <2> QED
    BY <1>9, <1>11, <1>12, <2>7 DEF CreditFits
<1>14. AllocationsFit'
  <2>1. \A i \in Invoices : InvoiceFits(i)'
    BY <1>4, InvoiceCommitted
  <2>2. \A m \in CreditNotes : CreditFits(m)'
    BY <1>2, <1>4, <1>10, <1>13, OtherSources
  <2>3. \A r \in Receipts : ReceiptFits(r)'
    BY <1>2, <1>4, <1>5, OtherSources
  <2> QED
    BY <2>1, <2>2, <2>3 DEF AllocationsFit
<1>15. EntriesMatch'
  <2>1. \A m \in CreditNotes : credit'[m] = None \/ credit'[m].status = "draft" =>
            credit[m] = None \/ credit[m].status = "draft"
    BY <1>9, <1>10, <1>11, <1>12
  <2> QED
    BY <1>4, <2>1, CommitKeepsEntries
<1>16. ListTotal(gl') = SubLedger'
  <2>1. Dues = Dues' + MadeBy(c) /\ Dues' \in Int
    <3>1. \A i \in Invoices : Due(i) = Due(i)' + Made(c, i)
      BY <1>4, InvoiceCommitted
    <3> QED
      BY <1>1, <3>1, DuesPaid
  <2>2. CreditsLeft' = CreditsLeft + (CreditLeft(n)' - CreditLeft(n))
    BY <1>1, <1>5, <1>10, CreditsChange
  <2>3. CreditLeft(n)' = left /\ CreditLeft(n) = credit[n].remaining
    BY <1>6, <1>7, <1>9, <1>11, <1>12 DEF CreditLeft
  <2>4. ReceiptsLeft' = ReceiptsLeft
    BY <1>4, TermsSame
  <2>5. SubLedger = Dues - CreditsLeft - ReceiptsLeft
        /\ Dues \in Int /\ CreditsLeft \in Int /\ ReceiptsLeft \in Int
    BY <1>1, SubLedgerTerms
  <2>6. SubLedger' = Dues' - CreditsLeft' - ReceiptsLeft'
    BY <1>1, SubLedgerChange
  <2>7. MadeBy(c) \in Nat
    BY <1>1, MadeByType
  <2>8. ListTotal(gl) = SubLedger
    BY <1>4, BooksNow
  <2> QED
    BY <1>4, <1>7, <1>8, <2>1, <2>2, <2>3, <2>4, <2>5, <2>6, <2>7, <2>8
<1> QED
  BY <1>4, <1>14, <1>15, <1>16, CommitKeeps

(* Allocating a receipt moves what was made from dues to the receipt. *)
LEMMA FinishAllocateSerial ==
    ASSUME OneAtATime, SerialInv, IInv', NEW c \in Clients, FinishAllocate(c)
    PROVE  SerialInv'
<1>1. IInv /\ TypeOK /\ TypeOK' /\ SourceFits(c)
  BY DEF SerialInv, IInv, WorkFits
<1>2. PICK r : r = req[c].doc
  OBVIOUS
<1>3. PICK left : left = req[c].left
  OBVIOUS
<1>4. pc[c] = "allocating" /\ pc'[c] = "idle" /\ req[c].kind = "allocate" /\ req[c].todo = <<>>
      /\ CommitAllocations(c) /\ UNCHANGED <<credit, gl>>
      /\ receipt' = [receipt EXCEPT ![r].allocated = receipt[r].amount - left,
                                    ![r].unapplied = left]
  BY <1>1, <1>2, <1>3 DEF FinishAllocate, Goto, TypeOK
<1>5. r \in Receipts /\ r \notin CreditNotes
  BY <1>1, <1>2, <1>4, RequestTyped, IdentifiersAssumption DEF IdentifiersAssumption
<1>6. receipt[r] # None /\ receipt[r] \in Receipt
  BY <1>1, <1>2, <1>4, <1>5, RowsTyped DEF IInv, Fits, DocumentExists
<1>7. left >= 0 /\ left + MadeBy(c) = receipt[r].unapplied
  BY <1>1, <1>2, <1>3, <1>4 DEF SourceFits
<1>8. left \in Int
  BY <1>1, <1>3, <1>4, RequestTyped
<1>9. PICK row : row = receipt'[r]
  OBVIOUS
<1>10. row = [amount |-> receipt[r].amount, allocated |-> receipt[r].amount - left,
              unapplied |-> left]
       /\ \A m \in Receipts \ {r} : receipt'[m] = receipt[m]
  BY <1>1, <1>4, <1>5, <1>6, <1>9 DEF TypeOK, Receipt
<1>11. row.amount = receipt[r].amount
       /\ row.allocated = receipt[r].amount - left /\ row.unapplied = left
  BY <1>10
<1>12. receipt'[r] # None
  <2>1. row \in Receipt
    BY <1>6, <1>8, <1>10 DEF Receipt
  <2> QED
    BY <1>9, <2>1, NullAssumption DEF NullAssumption
<1>13. ReceiptFits(r)'
  <2>1. AllocatedFrom(r)' = AllocatedFrom(r) + MadeBy(c)
    BY <1>1, <1>2, <1>4, AllocatedFromCommit
  <2>2. AllocatedFrom(r) \in Nat /\ MadeBy(c) \in Nat
    BY <1>1, <1>5, AllocatedFromType, MadeByType DEF Sources
  <2>3. ReceiptConserved(r)
    BY <1>5, <1>6 DEF SerialInv, AllocationsFit, ReceiptFits
  <2>4. receipt[r].amount \in Int
    BY <1>6 DEF Receipt
  <2>5. PICK a : a = AllocatedFrom(r)'
    OBVIOUS
  <2>6. row.allocated = a /\ row.unapplied = row.amount - a /\ row.unapplied >= 0
    BY <1>7, <1>8, <1>11, <2>1, <2>2, <2>3, <2>4, <2>5 DEF ReceiptConserved
  <2>7. ReceiptConserved(r)'
    BY <1>9, <2>5, <2>6 DEF ReceiptConserved
  <2> QED
    BY <1>12, <2>7 DEF ReceiptFits
<1>14. AllocationsFit'
  <2>1. \A i \in Invoices : InvoiceFits(i)'
    BY <1>4, InvoiceCommitted
  <2>2. \A m \in CreditNotes : CreditFits(m)'
    BY <1>2, <1>4, <1>5, OtherSources
  <2>3. \A m \in Receipts : ReceiptFits(m)'
    BY <1>2, <1>4, <1>10, <1>13, OtherSources
  <2> QED
    BY <2>1, <2>2, <2>3 DEF AllocationsFit
<1>15. EntriesMatch'
  <2>1. \A m \in CreditNotes : credit'[m] = None \/ credit'[m].status = "draft" =>
            credit[m] = None \/ credit[m].status = "draft"
    BY <1>4
  <2> QED
    BY <1>4, <2>1, CommitKeepsEntries
<1>16. ListTotal(gl') = SubLedger'
  <2>1. Dues = Dues' + MadeBy(c) /\ Dues' \in Int
    <3>1. \A i \in Invoices : Due(i) = Due(i)' + Made(c, i)
      BY <1>4, InvoiceCommitted
    <3> QED
      BY <1>1, <3>1, DuesPaid
  <2>2. ReceiptsLeft' = ReceiptsLeft + (ReceiptLeft(r)' - ReceiptLeft(r))
    BY <1>1, <1>5, <1>10, ReceiptsChange
  <2>3. ReceiptLeft(r)' = left /\ ReceiptLeft(r) = receipt[r].unapplied
    BY <1>6, <1>9, <1>11, <1>12 DEF ReceiptLeft
  <2>4. CreditsLeft' = CreditsLeft
    BY <1>4, TermsSame
  <2>5. SubLedger = Dues - CreditsLeft - ReceiptsLeft
        /\ Dues \in Int /\ CreditsLeft \in Int /\ ReceiptsLeft \in Int
    BY <1>1, SubLedgerTerms
  <2>6. SubLedger' = Dues' - CreditsLeft' - ReceiptsLeft'
    BY <1>1, SubLedgerChange
  <2>7. MadeBy(c) \in Nat
    BY <1>1, MadeByType
  <2>8. ListTotal(gl) = SubLedger
    BY <1>4, BooksNow
  <2> QED
    BY <1>4, <1>7, <1>8, <2>1, <2>2, <2>3, <2>4, <2>5, <2>6, <2>7, <2>8
<1> QED
  BY <1>4, <1>14, <1>15, <1>16, CommitKeeps

(* A receipt pays dues, and keeps the rest unapplied; its entry is for both. *)
LEMMA FinishReceiptSerial ==
    ASSUME OneAtATime, SerialInv, IInv', NEW c \in Clients, FinishReceipt(c)
    PROVE  SerialInv'
<1>1. IInv /\ TypeOK /\ TypeOK' /\ SourceFits(c)
  BY DEF SerialInv, IInv, WorkFits
<1>2. PICK r : r = req[c].doc
  OBVIOUS
<1>3. PICK amount : amount = req[c].amount
  OBVIOUS
<1>4. PICK allocated : allocated = req[c].allocated
  OBVIOUS
<1>5. pc[c] = "allocating" /\ pc'[c] = "idle" /\ req[c].kind = "receipt" /\ req[c].todo = <<>>
      /\ CommitAllocations(c) /\ credit' = credit
      /\ gl' = Append(gl, Posting(r, -amount))
      /\ receipt' = [receipt EXCEPT ![r] = [amount |-> amount, allocated |-> allocated,
                                            unapplied |-> amount - allocated]]
  BY <1>1, <1>2, <1>3, <1>4 DEF FinishReceipt, Goto, TypeOK
<1>6. r \in Receipts /\ amount \in Nat /\ allocated \in Nat
  BY <1>1, <1>2, <1>3, <1>4, <1>5, RequestTyped DEF ReceiptRequest
<1>7. r \notin CreditNotes /\ r \notin Invoices
  BY <1>6, IdentifiersAssumption DEF IdentifiersAssumption
<1>8. MadeBy(c) \in Nat
  BY <1>1, MadeByType
<1>9. receipt[r] = None /\ allocated <= amount /\ MadeBy(c) = allocated
  <2>1. receipt[r] = None /\ allocated <= amount /\ req[c].left = ListTotal(<<>>)
        /\ req[c].left + MadeBy(c) = allocated
    BY <1>1, <1>2, <1>3, <1>4, <1>5 DEF SourceFits
  <2>2. req[c].left = 0
    BY <2>1, ListTotalEmpty
  <2> QED
    BY <1>8, <2>1, <2>2
<1>10. PICK row : row = receipt'[r]
  OBVIOUS
<1>11. row = [amount |-> amount, allocated |-> allocated, unapplied |-> amount - allocated]
       /\ \A m \in Receipts \ {r} : receipt'[m] = receipt[m]
  BY <1>1, <1>5, <1>6, <1>10 DEF TypeOK
<1>12. row.amount = amount /\ row.allocated = allocated /\ row.unapplied = amount - allocated
  BY <1>11
<1>13. receipt'[r] # None
  <2>1. row \in Receipt
    BY <1>6, <1>11 DEF Receipt
  <2> QED
    BY <1>10, <2>1, NullAssumption DEF NullAssumption
<1>14. ReceiptFits(r)'
  <2>1. AllocatedFrom(r)' = AllocatedFrom(r) + MadeBy(c)
    BY <1>1, <1>2, <1>5, AllocatedFromCommit
  <2>2. AllocatedFrom(r) = 0
    BY <1>6, <1>9 DEF SerialInv, AllocationsFit, ReceiptFits
  <2>3. PICK a : a = AllocatedFrom(r)'
    OBVIOUS
  <2>4. row.allocated = a /\ row.unapplied = row.amount - a /\ row.unapplied >= 0
    BY <1>6, <1>9, <1>12, <2>1, <2>2, <2>3
  <2>5. ReceiptConserved(r)'
    BY <1>10, <2>3, <2>4 DEF ReceiptConserved
  <2> QED
    BY <1>13, <2>5 DEF ReceiptFits
<1>15. AllocationsFit'
  <2>1. \A i \in Invoices : InvoiceFits(i)'
    BY <1>5, InvoiceCommitted
  <2>2. \A m \in CreditNotes : CreditFits(m)'
    BY <1>2, <1>5, <1>7, OtherSources
  <2>3. \A m \in Receipts : ReceiptFits(m)'
    BY <1>2, <1>5, <1>11, <1>14, OtherSources
  <2> QED
    BY <2>1, <2>2, <2>3 DEF AllocationsFit
<1>16. PICK sum : sum = -amount
  OBVIOUS
<1>17. sum \in Int /\ gl' = Append(gl, Posting(r, sum)) /\ r \in Invoices \cup Sources
  BY <1>5, <1>6, <1>16 DEF Sources
<1>18. EntriesMatch'
  <2>1. \A i \in Invoices : /\ Issued(i)' <=> Issued(i) \/ i = r
                            /\ Issued(i) =>
                                 /\ i # r
                                 /\ invoice'[i].entry = invoice[i].entry
                                 /\ invoice'[i].total = invoice[i].total
                            /\ i # r /\ ~Issued(i) => invoice'[i] = invoice[i]
                            /\ i = r =>
                                 /\ invoice'[i].entry = Len(gl) + 1
                                 /\ invoice'[i].total = sum
    BY <1>5, <1>7, InvoiceCommitted
  <2>2. \A m \in CreditNotes : credit'[m] = None \/ credit'[m].status = "draft" =>
            m # r /\ (credit[m] = None \/ credit[m].status = "draft")
    BY <1>5, <1>7
  <2>3. pc[c] # "reversed" /\ pc'[c] # "reversed" /\ r \notin Invoices \cup CreditNotes
    BY <1>5, <1>7
  <2> QED
    BY <1>17, <2>1, <2>2, <2>3, PostingKeepsEntries
<1>19. ListTotal(gl') = SubLedger'
  <2>1. Dues = Dues' + MadeBy(c) /\ Dues' \in Int
    <3>1. \A i \in Invoices : Due(i) = Due(i)' + Made(c, i)
      BY <1>5, InvoiceCommitted
    <3> QED
      BY <1>1, <3>1, DuesPaid
  <2>2. ReceiptsLeft' = ReceiptsLeft + (ReceiptLeft(r)' - ReceiptLeft(r))
    BY <1>1, <1>6, <1>11, ReceiptsChange
  <2>3. ReceiptLeft(r)' = amount - allocated /\ ReceiptLeft(r) = 0
    BY <1>9, <1>10, <1>12, <1>13 DEF ReceiptLeft
  <2>4. CreditsLeft' = CreditsLeft
    BY <1>5, TermsSame
  <2>5. SubLedger = Dues - CreditsLeft - ReceiptsLeft
        /\ Dues \in Int /\ CreditsLeft \in Int /\ ReceiptsLeft \in Int
    BY <1>1, SubLedgerTerms
  <2>6. SubLedger' = Dues' - CreditsLeft' - ReceiptsLeft'
    BY <1>1, SubLedgerChange
  <2>7. ListTotal(gl') = ListTotal(gl) + sum
    BY <1>1, <1>17, BalancePosted
  <2>8. ListTotal(gl) = SubLedger
    BY <1>5, BooksNow
  <2> QED
    BY <1>6, <1>9, <1>16, <2>1, <2>2, <2>3, <2>4, <2>5, <2>6, <2>7, <2>8
<1> QED
  BY <1>5, <1>15, <1>18, <1>19, CommitKeeps

(* Nothing is there at first, and every sum is 0. *)
LEMMA InitSerial ==
    ASSUME Init
    PROVE  SerialInv
<1>1. IInv /\ TypeOK
  BY InitTyped DEF IInv
<1>2. IsFiniteSet(Invoices) /\ IsFiniteSet(CreditNotes) /\ IsFiniteSet(Receipts)
      /\ IsFiniteSet(Sources)
  BY IdentifiersAssumption, FS_Union DEF IdentifiersAssumption, Sources
<1>3. ASSUME NEW f, NEW S, IsFiniteSet(S), DOMAIN f = S, \A x \in S : f[x] = 0
      PROVE  SumFunction(f) = 0
  BY <1>3, SumZero, SumOver
<1>4. \A i \in Invoices : AllocatedTo(i) = 0
  <2> TAKE i \in Invoices
  <2>1. PICK f : f = [s \in Sources |-> alloc[s][i]]
    OBVIOUS
  <2>2. DOMAIN f = Sources /\ \A s \in Sources : f[s] = 0
    BY <2>1 DEF Init
  <2>3. SumFunction(f) = 0
    BY <1>2, <1>3, <2>2
  <2> QED
    BY <2>1, <2>3 DEF AllocatedTo
<1>5. \A s \in Sources : AllocatedFrom(s) = 0
  <2> TAKE s \in Sources
  <2>1. PICK f : f = alloc[s]
    OBVIOUS
  <2>2. DOMAIN f = Invoices /\ \A i \in Invoices : f[i] = 0
    BY <2>1 DEF Init
  <2>3. SumFunction(f) = 0
    BY <1>2, <1>3, <2>2
  <2> QED
    BY <2>1, <2>3 DEF AllocatedFrom
<1>6. AllocationsFit
  BY <1>4, <1>5 DEF Init, AllocationsFit, InvoiceFits, CreditFits, ReceiptFits, Issued, Sources
<1>7. EntriesMatch
  <2>1. \A s, e : ~Stands(s, e)
    BY DEF Init, Stands
  <2> QED
    BY <2>1 DEF EntriesMatch, InvoiceEntries, CreditEntries, Init, Issued
<1>8. \A c \in Clients : WorkFits(c)
  <2> TAKE c \in Clients
  <2>1. pc[c] = "idle" /\ DOMAIN writes[c] = {}
    BY DEF Init, NoRows
  <2> QED
    BY <2>1 DEF WorkFits, DraftFits, SourceFits, RowsFit
<1>9. BooksAgree
  <2>1. Dues = 0
    <3>1. PICK f : f = [i \in Invoices |-> Due(i)]
      OBVIOUS
    <3>2. DOMAIN f = Invoices /\ \A i \in Invoices : f[i] = 0
      BY <3>1 DEF Init, Due, Issued
    <3>3. SumFunction(f) = 0
      BY <1>2, <1>3, <3>2
    <3> QED
      BY <3>1, <3>3 DEF Dues
  <2>2. CreditsLeft = 0
    <3>1. PICK f : f = [n \in CreditNotes |-> CreditLeft(n)]
      OBVIOUS
    <3>2. DOMAIN f = CreditNotes /\ \A n \in CreditNotes : f[n] = 0
      BY <3>1 DEF Init, CreditLeft
    <3>3. SumFunction(f) = 0
      BY <1>2, <1>3, <3>2
    <3> QED
      BY <3>1, <3>3 DEF CreditsLeft
  <2>3. ReceiptsLeft = 0
    <3>1. PICK f : f = [r \in Receipts |-> ReceiptLeft(r)]
      OBVIOUS
    <3>2. DOMAIN f = Receipts /\ \A r \in Receipts : f[r] = 0
      BY <3>1 DEF Init, ReceiptLeft
    <3>3. SumFunction(f) = 0
      BY <1>2, <1>3, <3>2
    <3> QED
      BY <3>1, <3>3 DEF ReceiptsLeft
  <2>4. SubLedger = 0
    BY <1>1, <2>1, <2>2, <2>3, SubLedgerTerms
  <2>5. ListTotal(gl) = 0
    BY ListTotalEmpty DEF Init
  <2>6. \A c \in Clients : pc[c] # "reversed"
    BY DEF Init
  <2> QED
    BY <2>4, <2>5, <2>6 DEF BooksAgree
<1> QED
  BY <1>1, <1>6, <1>7, <1>8, <1>9 DEF SerialInv

(* Every step keeps the invariant. *)
LEMMA NextSerial ==
    ASSUME OneAtATime, SerialInv, [Next]_vars
    PROVE  SerialInv'
<1>1. IInv /\ TypeOK /\ IInv'
  BY NextTyped DEF SerialInv, IInv
<1>2. ASSUME NEW c \in Clients, Start(c) PROVE SerialInv'
  <2>1. CASE \E i \in Invoices, total \in Totals : CreateInvoice(c, i, total)
    BY <1>1, <2>1, CreateInvoiceSerial
  <2>2. CASE \E n \in CreditNotes, total \in Totals : CreateCreditNote(c, n, total)
    BY <1>1, <2>2, CreateCreditSerial
  <2>3. CASE \E i \in Invoices, total \in Totals : ReadForUpdate(c, i, total)
    BY <1>1, <2>3, ReadDraftSerial DEF ReadForUpdate
  <2>4. CASE \E i \in Invoices : ReadForIssue(c, i)
    BY <1>1, <2>4, ReadDraftSerial DEF ReadForIssue
  <2>5. CASE \E i \in Invoices : ReadDraftForVoid(c, i)
    BY <1>1, <2>5, ReadDraftSerial DEF ReadDraftForVoid
  <2>6. CASE \E i \in Invoices : ReadForVoid(c, i)
    BY <1>1, <2>6, ReadForVoidSerial
  <2>7. CASE \E e \in DOMAIN gl : RequestReversal(c, e)
    BY <2>7 DEF RequestReversal, Starts, OneAtATime
  <2>8. CASE \E n \in CreditNotes : ReadDraftCredit(c, n)
    BY <1>1, <2>8, ReadDraftCreditSerial
  <2>9. CASE \E n \in CreditNotes, list \in Lists : ReadCredit(c, n, list)
    BY <1>1, <2>9, ReadCreditSerial
  <2>10. CASE \E r \in Receipts, list \in Lists : ReadReceipt(c, r, list)
    BY <1>1, <2>10, ReadReceiptSerial
  <2>11. CASE \E r \in Receipts, y \in Years, amount \in Totals, list \in Lists \cup {<<>>} :
                 PrepareReceipt(c, r, y, amount, list)
    BY <1>1, <2>11, PrepareReceiptSerial
  <2> QED
    BY <1>2, <2>1, <2>2, <2>3, <2>4, <2>5, <2>6, <2>7, <2>8, <2>9, <2>10, <2>11 DEF Start
<1>3. ASSUME NEW c \in Clients, Continue(c) PROVE SerialInv'
  <2>1. ~FailBetween(c)
    BY DEF FailBetween, OneAtATime
  <2> QED
    BY <1>1, <1>3, <2>1, CommitUpdateSerial, CommitIssueSerial, CommitVoidDraftSerial,
       ReadEntrySerial, CommitReversalSerial, CommitVoidSerial, CommitCreditSerial,
       BeginAllocationSerial, BeginReceiptSerial, ReadForAllocationSerial,
       WriteAllocationSerial, FinishApplySerial, FinishAllocateSerial, FinishReceiptSerial,
       FailSerial DEF Continue
<1>4. CASE UNCHANGED vars
  <2>1. AllocationsFit'
    BY <1>4 DEF SerialInv, AllocationsFit, InvoiceFits, CreditFits, ReceiptFits, Conserved,
                CreditConserved, ReceiptConserved, Issued, AllocatedTo, AllocatedFrom, vars
  <2>2. EntriesMatch'
    BY <1>4 DEF SerialInv, EntriesMatch, InvoiceEntries, CreditEntries, Stands, BeingVoided,
                Issued, vars
  <2>3. BooksAgree'
    <3>1. SubLedger' = SubLedger
      BY <1>4 DEF SubLedger, Issued, vars
    <3> QED
      BY <1>4, <3>1 DEF SerialInv, BooksAgree, vars
  <2>4. ASSUME NEW c \in Clients PROVE WorkFits(c)'
    <3>1. DraftFits(c) /\ SourceFits(c) /\ RowsFit(c)
      BY DEF SerialInv, WorkFits
    <3>2. DraftFits(c)'
      BY <1>4, <3>1 DEF DraftFits, vars
    <3>3. SourceFits(c)'
      <4>1. MadeBy(c)' = MadeBy(c)
        BY <1>4 DEF MadeBy, Made, vars
      <4> QED
        BY <1>4, <3>1, <4>1 DEF SourceFits, vars
    <3>4. RowsFit(c)'
      <4>1. \A i : AllocatedTo(i)' = AllocatedTo(i) /\ Made(c, i)' = Made(c, i)
        BY <1>4 DEF AllocatedTo, Made, vars
      <4> QED
        BY <1>4, <3>1, <4>1 DEF RowsFit, Conserved, vars
    <3> QED
      BY <3>2, <3>3, <3>4 DEF WorkFits
  <2> QED
    BY <1>1, <2>1, <2>2, <2>3, <2>4 DEF SerialInv
<1> QED
  BY <1>2, <1>3, <1>4 DEF Next

(* The properties follow from the invariant. *)
LEMMA SerialTiesOut ==
    ASSUME SerialInv
    PROVE  TieOut
<1>1. ColumnsAgree
  <2>1. \A i \in Invoices : Issued(i) => InvoiceConserved(i)
    <3> TAKE i \in Invoices
    <3>1. ASSUME Issued(i) PROVE InvoiceConserved(i)
      <4>1. Conserved(i, 0, invoice[i])
        BY <3>1 DEF SerialInv, AllocationsFit, InvoiceFits
      <4>2. AllocatedTo(i) \in Nat
        BY AllocatedToType DEF SerialInv, IInv
      <4> QED
        BY <4>1, <4>2 DEF Conserved, InvoiceConserved
    <3> QED
      BY <3>1
  <2> QED
    BY <2>1 DEF ColumnsAgree, SerialInv, AllocationsFit, CreditFits, ReceiptFits
<1> QED
  BY <1>1 DEF TieOut, SerialInv, IInv, BooksAgree, ListTotal

(* ... and so does the match of documents and entries, *)
LEMMA SerialDocumentsMatch ==
    ASSUME SerialInv
    PROVE  DocumentsMatchEntries
<1>1. TypeOK /\ EntriesMatch /\ AllocationsFit
  BY DEF SerialInv, IInv
<1>2. ASSUME NEW i \in Invoices, invoice[i] # None, invoice[i].status = "void"
      PROVE  /\ AllocatedTo(i) = 0
             /\ invoice[i].entry # 0 => gl[invoice[i].entry].status = "reversed"
  BY <1>1, <1>2 DEF AllocationsFit, InvoiceFits, EntriesMatch, InvoiceEntries, Issued
<1>3. ASSUME NEW s \in Invoices \cup CreditNotes
      PROVE  Cardinality({e \in DOMAIN gl : gl[e].source = s /\ gl[e].status = "posted"}) <= 1
  <2>1. PICK S : S = {e \in DOMAIN gl : gl[e].source = s /\ gl[e].status = "posted"}
    OBVIOUS
  <2>2. \A e, d \in S : e = d
    BY <1>1, <2>1, RowsTyped DEF EntriesMatch, Stands
  <2>3. CASE S = {}
    BY <2>1, <2>3, FS_EmptySet
  <2>4. CASE S # {}
    <3>1. PICK e : S = {e}
      BY <2>2, <2>4
    <3>2. Cardinality(S) = 1
      BY <3>1, FS_Singleton
    <3> QED
      BY <2>1, <3>2
  <2> QED
    BY <2>3, <2>4
<1>4. \A i \in Invoices : Issued(i) => gl[invoice[i].entry].amount = invoice[i].total
  BY <1>1 DEF EntriesMatch, InvoiceEntries
<1> QED
  BY <1>2, <1>3, <1>4 DEF DocumentsMatchEntries

(* ... and that no invoice is paid beyond its total. *)
LEMMA SerialNoOverAllocation ==
    ASSUME SerialInv
    PROVE  NoOverAllocation
<1> SUFFICES ASSUME NEW i \in Invoices, Issued(i)
             PROVE  AllocatedTo(i) <= invoice[i].total
  BY DEF NoOverAllocation
<1>1. TypeOK /\ Conserved(i, 0, invoice[i])
  BY DEF SerialInv, IInv, AllocationsFit, InvoiceFits
<1>2. AllocatedTo(i) \in Nat /\ invoice[i].total \in Nat
  BY <1>1, AllocatedToType, RowsTyped DEF Issued, Invoice
<1> QED
  BY <1>1, <1>2 DEF Conserved

(* No step changes the status of a void or fully paid invoice. *)
LEMMA SerialSettled ==
    ASSUME SerialInv, [Next]_vars, NEW i \in Invoices, invoice[i] # None,
           invoice[i].status \in {"void", "paid"}
    PROVE  invoice'[i].status = invoice[i].status
<1>1. IInv /\ TypeOK /\ IInv'
  BY NextTyped DEF SerialInv, IInv
<1>2. CASE invoice' = invoice
  BY <1>2
<1>3. ASSUME NEW c \in Clients, NEW j \in Invoices, NEW total, CreateInvoice(c, j, total)
      PROVE  invoice'[i].status = invoice[i].status
  BY <1>1, <1>3 DEF CreateInvoice, TypeOK
<1>4. ASSUME NEW c \in Clients,
             \/ CommitUpdate(c) \/ CommitIssue(c) \/ CommitVoidDraft(c) \/ CommitVoid(c)
      PROVE  invoice'[i].status = invoice[i].status
  <2>1. PICK j : j = req[c].doc
    OBVIOUS
  <2>2. invoice[j].status \in {"draft", "issued"}
    BY <1>4, <2>1 DEF SerialInv, WorkFits, DraftFits, CommitUpdate, CommitIssue,
                      CommitVoidDraft, CommitVoid
  <2>3. \A k \in Invoices \ {j} : invoice'[k] = invoice[k]
    BY <1>1, <1>4, <2>1, RowCommitted
  <2> QED
    BY <2>2, <2>3
<1>5. ASSUME NEW c \in Clients, FinishApply(c) \/ FinishAllocate(c) \/ FinishReceipt(c)
      PROVE  invoice'[i].status = invoice[i].status
  <2>1. pc[c] = "allocating" /\ CommitAllocations(c)
    BY <1>5 DEF FinishApply, FinishAllocate, FinishReceipt, Goto
  <2>2. invoice'[i] = Seen(c, i)
    BY <1>1, <2>1, CommitEffect
  <2>3. i \notin DOMAIN writes[c]
    BY DEF SerialInv, WorkFits, RowsFit, Open
  <2> QED
    BY <1>1, <2>2, <2>3, SeenTyped
<1>6. ASSUME NEW c \in Clients, Start(c),
             ~\E j \in Invoices, total \in Totals : CreateInvoice(c, j, total)
      PROVE  invoice' = invoice
  BY <1>6 DEF Start, CreateCreditNote, ReadForUpdate, ReadForIssue, ReadDraftForVoid, ReadDraft,
              ReadForVoid, RequestReversal, ReadDraftCredit, ReadCredit, ReadReceipt,
              PrepareReceipt, tables
<1>7. ASSUME NEW c \in Clients,
             \/ ReadEntry(c) \/ CommitReversal(c) \/ CommitCredit(c) \/ BeginAllocation(c)
             \/ BeginReceipt(c) \/ ReadForAllocation(c) \/ WriteAllocation(c) \/ Fail(c)
             \/ FailBetween(c)
      PROVE  invoice' = invoice
  BY <1>7 DEF ReadEntry, CommitReversal, CommitCredit, BeginAllocation, BeginReceipt,
              ReadForAllocation, WriteAllocation, Fail, FailBetween, tables
<1>8. ASSUME NEW c \in Clients, Start(c) PROVE invoice'[i].status = invoice[i].status
  BY <1>2, <1>3, <1>6, <1>8
<1>9. ASSUME NEW c \in Clients, Continue(c) PROVE invoice'[i].status = invoice[i].status
  BY <1>2, <1>4, <1>5, <1>7, <1>9 DEF Continue
<1>10. CASE UNCHANGED vars
  BY <1>10 DEF vars
<1> QED
  BY <1>8, <1>9, <1>10 DEF Next

(* The invariant is one of the specification. *)
LEMMA SerialInvariant ==
    ASSUME OneAtATime
    PROVE  Spec => []SerialInv
<1>1. Init => SerialInv
  BY InitSerial
<1>2. SerialInv /\ [Next]_vars => SerialInv'
  BY NextSerial
<1> QED
  BY <1>1, <1>2, PTL DEF Spec

(* With requests made one at a time, the columns of invoices, credit notes *)
(* and receipts agree with the allocation rows, and the balance of the     *)
(* receivable account with the sub-ledger, whatever failed in a            *)
(* transaction and was rolled back.                                        *)
THEOREM TiesOut ==
    ASSUME OneAtATime
    PROVE  Spec => []TieOut
<1>1. SerialInv => TieOut
  BY SerialTiesOut
<1> QED
  BY <1>1, SerialInvariant, PTL

(* ... documents match their entries: a void one has nothing applied and   *)
(* its entry reversed, and no document has two entries that stand.         *)
THEOREM DocumentsMatch ==
    ASSUME OneAtATime
    PROVE  Spec => []DocumentsMatchEntries
<1>1. SerialInv => DocumentsMatchEntries
  BY SerialDocumentsMatch
<1> QED
  BY <1>1, SerialInvariant, PTL

(* ... credit notes, receipts and later allocations together never settle  *)
(* more of an invoice than its total.                                      *)
THEOREM SerialNeverOverAllocates ==
    ASSUME OneAtATime
    PROVE  Spec => []NoOverAllocation
<1>1. SerialInv => NoOverAllocation
  BY SerialNoOverAllocation
<1> QED
  BY <1>1, SerialInvariant, PTL

(* ... and a void or fully paid invoice keeps that status.                 *)
THEOREM SettledStaysSettled ==
    ASSUME OneAtATime
    PROVE  Spec => SettledIsFinal
<1>1. SerialInv /\ [Next]_vars =>
          [\A i \in Invoices :
              invoice[i] # None /\ invoice[i].status \in {"void", "paid"} =>
                  invoice'[i].status = invoice[i].status]_vars
  BY SerialSettled
<1> QED
  BY <1>1, SerialInvariant, PTL DEF Spec, SettledIsFinal

=============================================================================
