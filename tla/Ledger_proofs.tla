---------------------------- MODULE Ledger_proofs ---------------------------
(***************************************************************************)
(* Proofs about Ledger for any number of clients, entries, journals,       *)
(* periods and dates, and about the Books for any rows, lists and amounts: *)
(* the reconciliation of a bank account, what is owed to suppliers, and    *)
(* what becomes of the lines of an invoice in its entry.                   *)
(*                                                                         *)
(* The Books speak of sums.  SumFunctionOnSet is a recursion over the      *)
(* subsets of a set, so their part begins with an induction over the       *)
(* naturals that is stated with a set, and with what those sums add up to. *)
(***************************************************************************)
EXTENDS Ledger, Books, Functions, FiniteSetTheorems, WellFoundedInduction, TLAPS

(* The row lock: a sequence is held by a client exactly while that         *)
(* client's transaction is open on it, and the number the transaction was  *)
(* given is still the next one.                                            *)
LockInv ==
    \A c \in Clients, k \in SeqKeys :
        /\ holder[k] = c <=> pc[c] = "numbered" /\ Key(req[c]) = k
        /\ holder[k] = c => num[c] = nextValue[k]

(* Committed numbers lie below the next one. *)
NumbersBelow ==
    \A e \in EntryIds : Exists(e) =>
        entries[e].number \in 1 .. nextValue[entries[e].key] - 1

(* Every number below the next one is in use. *)
NumbersUsed ==
    \A k \in SeqKeys : \A n \in 1 .. nextValue[k] - 1 :
        \E e \in EntryIds : Exists(e) /\ entries[e].key = k /\ entries[e].number = n

(* What a request carries agrees with the books it was read from. *)
RequestInv ==
    \A c \in Clients : pc[c] \in Posting =>
        /\ Balanced(req[c].lines)
        /\ req[c].kind = "reverse" =>
              /\ req[c].original \in EntryIds
              /\ Exists(req[c].original)
              /\ req[c].lines = Contra(entries[req[c].original].lines)

(* The reversal a reversed entry names carries the contra of its lines. *)
ContraLinked ==
    \A e \in EntryIds : Exists(e) /\ entries[e].status = "reversed" =>
        LET r == entries[e].reversedBy IN
        /\ r \in EntryIds /\ Exists(r)
        /\ entries[r].reversalOf = e
        /\ entries[r].lines = Contra(entries[e].lines)

(* An audit record on its way tells of what was committed. *)
AuditPending ==
    \A c \in Clients : pc[c] = "audit" =>
        /\ req[c].action = "journal.posted" =>
              req[c].entity \in EntryIds /\ Exists(req[c].entity)
        /\ req[c].action = "journal.reversed" =>
              /\ req[c].entity \in EntryIds
              /\ Exists(req[c].entity)
              /\ entries[req[c].entity].status = "reversed"

-----------------------------------------------------------------------------
(* Lemmas about the data *)

(* Swapping the sides of a line list swaps its totals, so the contra of a  *)
(* balanced entry is balanced.                                             *)
LEMMA ContraBalanced ==
  ASSUME NEW lines, Balanced(lines)
  PROVE  Balanced(Contra(lines))
<1>1. DOMAIN Contra(lines) = DOMAIN lines
  BY DEF Contra
<1>2. [i \in DOMAIN Contra(lines) |-> Contra(lines)[i].debit]
        = [i \in DOMAIN lines |-> lines[i].credit]
  BY <1>1 DEF Contra
<1>3. [i \in DOMAIN Contra(lines) |-> Contra(lines)[i].credit]
        = [i \in DOMAIN lines |-> lines[i].debit]
  BY <1>1 DEF Contra
<1>4. /\ DebitTotal(Contra(lines)) = CreditTotal(lines)
      /\ CreditTotal(Contra(lines)) = DebitTotal(lines)
  BY <1>2, <1>3 DEF DebitTotal, CreditTotal
<1>. QED  BY <1>4 DEF Balanced

(* A line list and its contra net out. *)
LEMMA ContraNets ==
  ASSUME NEW lines
  PROVE  Nets(lines, Contra(lines))
<1>1. DOMAIN Contra(lines) = DOMAIN lines
  BY DEF Contra
<1>2. ASSUME NEW i \in DOMAIN lines
      PROVE  /\ lines[i].account = Contra(lines)[i].account
             /\ lines[i].debit = Contra(lines)[i].credit
             /\ lines[i].credit = Contra(lines)[i].debit
  BY DEF Contra
<1>. QED  BY <1>1, <1>2 DEF Nets

(* The contra of a line list is a line list. *)
LEMMA ContraType ==
  ASSUME NEW lines \in Seq(Line)
  PROVE  Contra(lines) \in Seq(Line)
<1>1. DOMAIN lines = 1 .. Len(lines) /\ Len(lines) \in Nat
  OBVIOUS
<1>2. \A i \in DOMAIN lines : lines[i] \in Line
  OBVIOUS
<1>3. \A i \in DOMAIN lines :
        [account |-> lines[i].account, debit |-> lines[i].credit,
         credit |-> lines[i].debit] \in Line
  BY <1>2 DEF Line
<1>4. Contra(lines) \in [1 .. Len(lines) -> Line]
  BY <1>1, <1>3 DEF Contra
<1>. QED  BY <1>1, <1>4

(* An amount stays a natural number when it is converted. *)
LEMMA ToBaseType ==
  ASSUME NEW x \in Nat, NEW r \in Nat
  PROVE  ToBase(x, r) \in Nat
<1>1. PICK p \in Nat : p = x * r
  OBVIOUS
<1>2. (2 * p + 10) \div 20 \in Nat
  OBVIOUS
<1>. QED  BY <1>1, <1>2 DEF ToBase

(* What prepare makes of a journal is a line list. *)
LEMMA PreparedType ==
  ASSUME NEW j \in Journals, NEW lines \in Prepared(j)
  PROVE  lines \in Seq(Line)
<1>1. j.lines \in Seq(Line) /\ j.rate \in Nat
  BY JournalsAssumption DEF JournalsAssumption
<1>2. Converted(j) \in Seq(Line)
  <2>1. ASSUME NEW i \in 1 .. Len(j.lines) PROVE Converted(j)[i] \in Line
    <3>1. j.lines[i] \in Line
      BY <1>1
    <3>2. /\ ToBase(j.lines[i].debit, j.rate) \in Nat
          /\ ToBase(j.lines[i].credit, j.rate) \in Nat
      BY <1>1, <3>1, ToBaseType DEF Line
    <3>. QED  BY <1>1, <3>1, <3>2 DEF Converted, Line
  <2>2. DOMAIN Converted(j) = 1 .. Len(j.lines)
    BY <1>1 DEF Converted
  <2>3. Converted(j) \in [1 .. Len(j.lines) -> Line]
    BY <2>1, <2>2 DEF Converted
  <2>. QED  BY <1>1, <2>3
<1>3. Len(Converted(j)) + 1 \in Nat
  BY <1>2
<1>. DEFINE residual == DebitTotal(Converted(j)) - CreditTotal(Converted(j))
            drift == Len(Converted(j)) + 1
<1>4. ASSUME NEW l \in RoundingLines(residual, drift) PROVE l \in Line
  <2>. HIDE DEF residual, drift
  <2>1. drift \in Nat
    BY <1>3 DEF drift
  <2>2. residual \in Int
    BY <1>4, <2>1 DEF RoundingLines
  <2>. QED  BY <1>4, <2>2 DEF RoundingLines, Line
<1>. QED  BY <1>2, <1>4 DEF Prepared

(* The key a request draws its number from is a sequence. *)
LEMMA KeyType ==
  ASSUME NEW r \in PostRequest
  PROVE  Key(r) \in SeqKeys
  BY DEF PostRequest, Key, SeqKeys, Years

(* The row a posting transaction creates is a row, and there is one. *)
LEMMA NewEntryType ==
  ASSUME NEW r \in PostRequest, NEW n \in Nat
  PROVE  NewEntry(r, n) \in Entry /\ NewEntry(r, n) # None
<1>1. Key(r) \in SeqKeys
  BY KeyType
<1>2. NewEntry(r, n) \in Entry
  BY <1>1 DEF NewEntry, Entry, PostRequest
<1>. QED  BY <1>2, NoEntryAssumption DEF NoEntryAssumption

-----------------------------------------------------------------------------
(* Type correctness *)

(* A step that starts a request or changes a control keeps the types. *)
LEMMA StartType ==
  ASSUME TypeOK, NEW c \in Clients, Start(c)
  PROVE  TypeOK'
<1>. USE DEF TypeOK, Goto, stores, Posting
<1>1. ASSUME NEW x \in Prefixes, NEW l \in Journals, NEW d \in Dates,
             NEW v \in BOOLEAN, PrepareJournal(c, x, l, d, v)
      PROVE  TypeOK'
  <2>1. PICK lines \in Prepared(l) :
          req' = [req EXCEPT ![c] =
                    [kind |-> "post", original |-> None, prefix |-> x,
                     lines |-> lines, date |-> d, period |-> None,
                     elevated |-> v]]
    BY <1>1 DEF PrepareJournal
  <2>2. req'[c] \in PostRequest
    BY <2>1, PreparedType DEF PostRequest
  <2>. QED  BY <1>1, <2>2 DEF PrepareJournal
<1>2. ASSUME NEW e \in EntryIds, NEW d \in Dates, NEW v \in BOOLEAN,
             ReadOriginal(c, e, d, v)
      PROVE  TypeOK'
  <2>1. entries[e].lines \in Seq(Line)
    BY <1>2 DEF ReadOriginal, Exists, Entry
  <2>2. Contra(entries[e].lines) \in Seq(Line)
    BY <2>1, ContraType
  <2>3. req'[c] \in PostRequest
    BY <1>2, <2>2 DEF ReadOriginal, PostRequest, ReversalPrefix
  <2>. QED  BY <1>2, <2>3 DEF ReadOriginal
<1>3. ASSUME NEW p \in Periods, NEW to \in PeriodStatuses, NEW v \in BOOLEAN,
             ReadPeriod(c, p, to, v)
      PROVE  TypeOK'
  <2>1. req'[c] \in PeriodRequest
    BY <1>3 DEF ReadPeriod, PeriodRequest
  <2>. QED  BY <1>3, <2>1 DEF ReadPeriod
<1>4. ASSUME NEW d \in Dates \cup {0}, SetLockDate(c, d)
      PROVE  TypeOK'
  <2>1. req'[c] \in AuditRequest
    BY <1>4 DEF SetLockDate, AuditOf, AuditRequest
  <2>. QED  BY <1>4, <2>1 DEF SetLockDate
<1>5. ASSUME NEW a \in Accounts, NEW v \in BOOLEAN, SetAccountActive(c, a, v)
      PROVE  TypeOK'
  <2>1. req'[c] \in AuditRequest
    BY <1>5 DEF SetAccountActive, AuditOf, AuditRequest
  <2>. QED  BY <1>5, <2>1 DEF SetAccountActive
<1>. QED  BY <1>1, <1>2, <1>3, <1>4, <1>5 DEF Start

(* What a commit does to the sequence row keeps the types. *)
LEMMA ReleaseType ==
  ASSUME TypeOK, NEW c \in Clients, req[c] \in PostRequest, ReleaseNumber(c)
  PROVE  /\ nextValue' \in [SeqKeys -> Nat \ {0}]
         /\ holder' \in [SeqKeys -> Clients \cup {None}]
         /\ num' \in [Clients -> Nat]
<1>1. Key(req[c]) \in SeqKeys
  BY KeyType
<1>. QED  BY <1>1 DEF TypeOK, ReleaseNumber

(* A step that carries a request on, or ends it, keeps the types, given    *)
(* that a reversal's original exists.                                      *)
LEMMA ContinueType ==
  ASSUME TypeOK, RequestInv, NEW c \in Clients, Continue(c)
  PROVE  TypeOK'
<1>. USE DEF TypeOK, Goto, stores, Posting
<1>1. CASE CheckPeriod(c)
  <2>1. req[c] \in PostRequest
    BY <1>1 DEF CheckPeriod
  <2>2. PeriodOf[req[c].date] \in Periods \cup {None}
    BY <2>1, CalendarAssumption DEF PostRequest, CalendarAssumption
  <2>3. req'[c] \in PostRequest
    BY <1>1, <2>1, <2>2 DEF CheckPeriod, PostRequest
  <2>. QED  BY <1>1, <2>3 DEF CheckPeriod
<1>2. CASE RefusePeriod(c)
  BY <1>2 DEF RefusePeriod
<1>3. CASE AllocateNumber(c)
  <2>1. req[c] \in PostRequest
    BY <1>3 DEF AllocateNumber
  <2>2. Key(req[c]) \in SeqKeys
    BY <2>1, KeyType
  <2>. QED  BY <1>3, <2>1, <2>2 DEF AllocateNumber
<1>4. ASSUME NEW e \in EntryIds, CommitPost(c, e)
      PROVE  TypeOK'
  <2>1. req[c] \in PostRequest
    BY <1>4 DEF CommitPost
  <2>2. NewEntry(req[c], num[c]) \in Entry
    BY <2>1, NewEntryType
  <2>3. req'[c] \in AuditRequest
    BY <1>4 DEF CommitPost, AuditOf, AuditRequest
  <2>4. /\ nextValue' \in [SeqKeys -> Nat \ {0}]
        /\ holder' \in [SeqKeys -> Clients \cup {None}]
        /\ num' \in [Clients -> Nat]
    BY <1>4, <2>1, ReleaseType DEF CommitPost
  <2>. QED  BY <1>4, <2>2, <2>3, <2>4 DEF CommitPost
<1>5. ASSUME NEW e \in EntryIds, CommitReversal(c, e)
      PROVE  TypeOK'
  <2>. DEFINE o == req[c].original
  <2>1. req[c] \in PostRequest
    BY <1>5 DEF CommitReversal
  <2>2. NewEntry(req[c], num[c]) \in Entry
    BY <2>1, NewEntryType
  <2>3. o \in EntryIds /\ entries[o] \in Entry
    BY <1>5 DEF CommitReversal, RequestInv, Exists
  <2>4. [entries[o] EXCEPT !.status = "reversed", !.reversedBy = e] \in Entry
    BY <2>3 DEF Entry
  <2>5. req'[c] \in AuditRequest
    BY <1>5, <2>3 DEF CommitReversal, AuditOf, AuditRequest
  <2>6. /\ nextValue' \in [SeqKeys -> Nat \ {0}]
        /\ holder' \in [SeqKeys -> Clients \cup {None}]
        /\ num' \in [Clients -> Nat]
    BY <1>5, <2>1, ReleaseType DEF CommitReversal
  <2>7. entries' \in [EntryIds -> Entry \cup {None}]
    BY <1>5, <2>2, <2>3, <2>4 DEF CommitReversal
  <2>. QED  BY <1>5, <2>5, <2>6, <2>7 DEF CommitReversal
<1>6. CASE WritePeriod(c)
  <2>1. req[c] \in PeriodRequest
    BY <1>6 DEF WritePeriod
  <2>2. req'[c] \in AuditRequest
    BY <1>6 DEF WritePeriod, AuditOf, AuditRequest
  <2>. QED  BY <1>6, <2>1, <2>2 DEF WritePeriod, PeriodRequest
<1>7. CASE WriteAudit(c)
  BY <1>7 DEF WriteAudit
<1>8. CASE LoseAudit(c)
  BY <1>8 DEF LoseAudit
<1>9. CASE Fail(c)
  BY <1>9 DEF Fail
<1>. QED  BY <1>1, <1>2, <1>3, <1>4, <1>5, <1>6, <1>7, <1>8, <1>9 DEF Continue

-----------------------------------------------------------------------------
(* The inductive invariant *)

IInv ==
    /\ TypeOK
    /\ RequestInv
    /\ LockInv
    /\ NumbersBelow
    /\ NumbersUsed
    /\ NumbersUnique
    /\ LedgerBalances
    /\ ContraLinked
    /\ AuditPending
    /\ AuditIsTruthful

(* The rows that exist before a step, after it: only the status and the    *)
(* reversal of a row may differ, and reversed stays reversed.              *)
Keeps ==
    \A e \in EntryIds : Exists(e) =>
        LET old == entries[e]
            new == entries'[e]
        IN /\ new # None
           /\ new = [old EXCEPT !.status = new.status, !.reversedBy = new.reversedBy]
           /\ old.status = "reversed" => new.status = "reversed"

(* Every step keeps what is on the books. *)
LEMMA StepKeeps ==
  ASSUME TypeOK, RequestInv, [Next]_vars
  PROVE  Keeps
<1>1. ASSUME entries' = entries PROVE Keeps
  <2>1. \A e \in EntryIds : Exists(e) => entries[e] \in Entry
    BY DEF TypeOK, Exists
  <2>. QED  BY <1>1, <2>1 DEF Keeps, Exists, Entry
<1>2. ASSUME NEW c \in Clients, NEW e \in EntryIds, CommitPost(c, e)
      PROVE  Keeps
  <2>1. \A f \in EntryIds : Exists(f) => entries'[f] = entries[f] /\ entries[f] \in Entry
    BY <1>2 DEF CommitPost, TypeOK, Exists
  <2>. QED  BY <2>1 DEF Keeps, Exists, Entry
<1>3. ASSUME NEW c \in Clients, NEW e \in EntryIds, CommitReversal(c, e)
      PROVE  Keeps
  <2>. DEFINE o == req[c].original
  <2>1. o \in EntryIds /\ Exists(o) /\ entries[o] \in Entry /\ o # e
    BY <1>3 DEF CommitReversal, RequestInv, Exists, TypeOK, Goto, Posting
  <2>2. entries'[o] = [entries[o] EXCEPT !.status = "reversed", !.reversedBy = e]
    BY <1>3, <2>1 DEF CommitReversal, TypeOK
  <2>3. entries'[o] \in Entry /\ entries'[o] # None
    <3>1. entries'[o] \in Entry
      BY <2>1, <2>2 DEF Entry
    <3>. QED  BY <3>1, NoEntryAssumption DEF NoEntryAssumption
  <2>4. \A f \in EntryIds \ {o} : Exists(f) =>
            entries'[f] = entries[f] /\ entries[f] \in Entry
    BY <1>3, <2>1 DEF CommitReversal, TypeOK, Exists
  <2>. QED  BY <2>1, <2>2, <2>3, <2>4 DEF Keeps, Exists, Entry
<1>. QED
  BY <1>1, <1>2, <1>3
  DEF Next, Start, Continue, PrepareJournal, ReadOriginal, ReadPeriod,
      SetLockDate, SetAccountActive, CheckPeriod, RefusePeriod, AllocateNumber,
      WritePeriod, WriteAudit, LoseAudit, Fail, vars, stores

(* The same, field by field. *)
LEMMA StepKeepsFields ==
  ASSUME TypeOK, RequestInv, [Next]_vars
  PROVE  \A e \in EntryIds : Exists(e) =>
            /\ Exists(e)'
            /\ entries'[e].key = entries[e].key
            /\ entries'[e].number = entries[e].number
            /\ entries'[e].lines = entries[e].lines
            /\ entries'[e].reversalOf = entries[e].reversalOf
            /\ entries[e].status = "reversed" => entries'[e].status = "reversed"
<1>1. Keeps
  BY StepKeeps
<1>2. ASSUME NEW e \in EntryIds, Exists(e)
      PROVE  /\ Exists(e)'
             /\ entries'[e].key = entries[e].key
             /\ entries'[e].number = entries[e].number
             /\ entries'[e].lines = entries[e].lines
             /\ entries'[e].reversalOf = entries[e].reversalOf
             /\ entries[e].status = "reversed" => entries'[e].status = "reversed"
  <2>1. entries[e] \in Entry
    BY <1>2 DEF TypeOK, Exists
  <2>2. /\ entries'[e] # None
        /\ entries'[e] = [entries[e] EXCEPT !.status = entries'[e].status,
                                            !.reversedBy = entries'[e].reversedBy]
        /\ entries[e].status = "reversed" => entries'[e].status = "reversed"
    BY <1>1, <1>2 DEF Keeps
  <2>. QED  BY <2>1, <2>2 DEF Exists, Entry
<1>. QED  BY <1>2

(* What a request carries stays true of the books. *)
LEMMA RequestStep ==
  ASSUME IInv, [Next]_vars
  PROVE  RequestInv'
<1>. USE DEF IInv
<1>1. \A e \in EntryIds : Exists(e) =>
          Exists(e)' /\ entries'[e].lines = entries[e].lines
  BY StepKeepsFields
<1>2. ASSUME NEW d \in Clients, pc'[d] \in Posting,
             pc[d] \in Posting, req'[d].lines = req[d].lines,
             req'[d].kind = req[d].kind, req'[d].original = req[d].original
      PROVE  /\ Balanced(req'[d].lines)
             /\ req'[d].kind = "reverse" =>
                   /\ req'[d].original \in EntryIds
                   /\ entries'[req'[d].original] # None
                   /\ req'[d].lines = Contra(entries'[req'[d].original].lines)
  BY <1>1, <1>2 DEF RequestInv, Exists
<1>3. ASSUME NEW d \in Clients, pc'[d] \in Posting,
             ~(pc[d] \in Posting /\ req'[d].lines = req[d].lines
               /\ req'[d].kind = req[d].kind /\ req'[d].original = req[d].original)
      PROVE  /\ Balanced(req'[d].lines)
             /\ req'[d].kind = "reverse" =>
                   /\ req'[d].original \in EntryIds
                   /\ entries'[req'[d].original] # None
                   /\ req'[d].lines = Contra(entries'[req'[d].original].lines)
  <2>1. ASSUME NEW x \in Prefixes, NEW l \in Journals, NEW dt \in Dates,
               NEW v \in BOOLEAN, NEW c \in Clients, PrepareJournal(c, x, l, dt, v)
        PROVE  c = d => Balanced(req'[d].lines) /\ req'[d].kind = "post"
    BY <2>1 DEF PrepareJournal, TypeOK, Prepared
  <2>2. ASSUME NEW e \in EntryIds, NEW dt \in Dates, NEW v \in BOOLEAN,
               NEW c \in Clients, ReadOriginal(c, e, dt, v)
        PROVE  c = d =>
                 /\ Balanced(req'[d].lines)
                 /\ req'[d].original = e
                 /\ Exists(e)'
                 /\ req'[d].lines = Contra(entries'[e].lines)
    <3>1. Balanced(Contra(entries[e].lines))
      BY <2>2, ContraBalanced DEF ReadOriginal, LedgerBalances
    <3>. QED  BY <2>2, <3>1, <1>1 DEF ReadOriginal, TypeOK
  <2>3. ASSUME NEW c \in Clients, CheckPeriod(c)
        PROVE  FALSE
    <3>1. req[c] \in PostRequest
      BY <2>3 DEF CheckPeriod, Goto, TypeOK, Posting
    <3>2. /\ req'[c].lines = req[c].lines
          /\ req'[c].kind = req[c].kind
          /\ req'[c].original = req[c].original
      BY <2>3, <3>1 DEF CheckPeriod, TypeOK, PostRequest
    <3>3. d # c => pc'[d] = pc[d] /\ req'[d] = req[d]
      BY <2>3 DEF CheckPeriod, Goto, TypeOK
    <3>. QED  BY <1>3, <2>3, <3>2, <3>3 DEF CheckPeriod, Goto, Posting
  <2>4. ASSUME NEW c \in Clients,
               \/ RefusePeriod(c) \/ AllocateNumber(c) \/ WritePeriod(c)
               \/ WriteAudit(c) \/ LoseAudit(c) \/ Fail(c)
               \/ \E e \in EntryIds : CommitPost(c, e) \/ CommitReversal(c, e)
               \/ \E p \in Periods, to \in PeriodStatuses, v \in BOOLEAN : ReadPeriod(c, p, to, v)
               \/ \E dt \in Dates \cup {0} : SetLockDate(c, dt)
               \/ \E a \in Accounts, v \in BOOLEAN : SetAccountActive(c, a, v)
        PROVE  FALSE
    BY <1>3, <2>4
    DEF RefusePeriod, AllocateNumber, WritePeriod, WriteAudit, LoseAudit, Fail,
        CommitPost, CommitReversal, ReadPeriod, SetLockDate, SetAccountActive,
        Goto, TypeOK, Posting
  <2>5. ASSUME NEW c \in Clients, c # d,
               \/ \E x \in Prefixes, l \in Journals, dt \in Dates, v \in BOOLEAN :
                     PrepareJournal(c, x, l, dt, v)
               \/ \E e \in EntryIds, dt \in Dates, v \in BOOLEAN : ReadOriginal(c, e, dt, v)
        PROVE  FALSE
    BY <1>3, <2>5 DEF PrepareJournal, ReadOriginal, Goto, TypeOK
  <2>6. ~UNCHANGED vars
    BY <1>3 DEF vars
  <2>. QED  BY <2>1, <2>2, <2>3, <2>4, <2>5, <2>6 DEF Next, Start, Continue, Exists
<1>. QED  BY <1>2, <1>3 DEF RequestInv, Exists

(* The handlers of a step: the step belongs to one client, and the others  *)
(* stay where they are.                                                    *)
LEMMA OthersStay ==
  ASSUME TypeOK, NEW c \in Clients, Start(c) \/ Continue(c),
         NEW d \in Clients, d # c
  PROVE  pc'[d] = pc[d] /\ req'[d] = req[d] /\ num'[d] = num[d]
  BY DEF TypeOK, Start, Continue, PrepareJournal, ReadOriginal, ReadPeriod,
         SetLockDate, SetAccountActive, CheckPeriod, RefusePeriod, AllocateNumber,
         CommitPost, CommitReversal, ReleaseNumber, WritePeriod, WriteAudit,
         LoseAudit, Fail, Goto

(* A step outside the transaction touches neither locks nor numbers. *)
OutsideTransaction(c) ==
    /\ UNCHANGED <<holder, nextValue, num, entries>>
    /\ pc[c] # "numbered" /\ pc'[c] # "numbered"

(* Every step is outside the transaction, or one of the four that are in it. *)
LEMMA StepKinds ==
  ASSUME TypeOK, NEW c \in Clients, Start(c) \/ Continue(c)
  PROVE  \/ OutsideTransaction(c)
         \/ AllocateNumber(c)
         \/ \E e \in EntryIds : CommitPost(c, e) \/ CommitReversal(c, e)
         \/ Fail(c)
  BY DEF OutsideTransaction, TypeOK, Start, Continue, PrepareJournal,
         ReadOriginal, ReadPeriod, SetLockDate, SetAccountActive, CheckPeriod,
         RefusePeriod, WritePeriod, WriteAudit, LoseAudit, Goto, stores

(* The row lock is kept: a step takes a free lock, or gives up the locks   *)
(* of its own transaction.                                                 *)
LEMMA LockStep ==
  ASSUME TypeOK, LockInv, NEW c \in Clients, Start(c) \/ Continue(c)
  PROVE  LockInv'
<1>. DEFINE Kept(d, k) ==
              /\ holder'[k] = d <=> pc'[d] = "numbered" /\ Key(req'[d]) = k
              /\ holder'[k] = d => num'[d] = nextValue'[k]
<1>0. SUFFICES \A d \in Clients, k \in SeqKeys : Kept(d, k)
  BY DEF LockInv
<1>a. \A d \in Clients \ {c} : pc'[d] = pc[d] /\ req'[d] = req[d] /\ num'[d] = num[d]
  BY OthersStay
<1>b. \A d \in Clients : d # None
  BY NoneAssumption DEF NoneAssumption
<1>1. CASE OutsideTransaction(c)
  BY <1>1, <1>a DEF OutsideTransaction, LockInv
<1>2. CASE AllocateNumber(c)
  <2>. DEFINE kc == Key(req[c])
  <2>1. kc \in SeqKeys
    BY <1>2, KeyType DEF AllocateNumber, TypeOK, Goto, Posting
  <2>2. /\ holder[kc] = None /\ holder' = [holder EXCEPT ![kc] = c]
        /\ num'[c] = nextValue[kc] /\ nextValue' = nextValue /\ req' = req
        /\ pc[c] # "numbered" /\ pc'[c] = "numbered"
    BY <1>2 DEF AllocateNumber, TypeOK, Goto
  <2>3. ASSUME NEW k \in SeqKeys PROVE Kept(c, k)
    BY <2>1, <2>2 DEF LockInv, TypeOK
  <2>4. ASSUME NEW d \in Clients \ {c}, NEW k \in SeqKeys PROVE Kept(d, k)
    BY <2>1, <2>2, <1>a, <1>b DEF LockInv, TypeOK
  <2>. QED  BY <2>3, <2>4
<1>3. ASSUME NEW e \in EntryIds, CommitPost(c, e) \/ CommitReversal(c, e)
      PROVE  \A d \in Clients, k \in SeqKeys : Kept(d, k)
  <2>. DEFINE kc == Key(req[c])
  <2>1. kc \in SeqKeys
    BY <1>3, KeyType DEF CommitPost, CommitReversal, TypeOK, Goto, Posting
  <2>2. /\ holder' = [holder EXCEPT ![kc] = None]
        /\ nextValue' = [nextValue EXCEPT ![kc] = num[c] + 1]
        /\ pc[c] = "numbered" /\ pc'[c] # "numbered"
    BY <1>3 DEF CommitPost, CommitReversal, ReleaseNumber, TypeOK, Goto
  <2>3. ASSUME NEW k \in SeqKeys PROVE Kept(c, k)
    BY <2>1, <2>2, <1>b DEF LockInv, TypeOK
  <2>4. ASSUME NEW d \in Clients \ {c}, NEW k \in SeqKeys PROVE Kept(d, k)
    <3>1. holder[kc] = c
      BY <2>1, <2>2 DEF LockInv
    <3>. QED  BY <3>1, <2>1, <2>2, <1>a, <1>b DEF LockInv, TypeOK
  <2>. QED  BY <2>3, <2>4
<1>4. CASE Fail(c)
  <2>1. /\ holder' = [k \in SeqKeys |-> IF holder[k] = c THEN None ELSE holder[k]]
        /\ nextValue' = nextValue /\ pc'[c] # "numbered"
    BY <1>4 DEF Fail, TypeOK
  <2>. QED  BY <2>1, <1>a, <1>b DEF LockInv, TypeOK
<1>. QED  BY <1>1, <1>2, <1>3, <1>4, StepKinds

-----------------------------------------------------------------------------
(* Numbers *)

(* A commit adds one row, under the next number of its sequence. *)
LEMMA CommitEffect ==
  ASSUME IInv, NEW c \in Clients, NEW e \in EntryIds,
         CommitPost(c, e) \/ CommitReversal(c, e)
  PROVE  LET k == Key(req[c]) IN
         /\ k \in SeqKeys
         /\ ~Exists(e) /\ entries'[e] = NewEntry(req[c], nextValue[k])
         /\ entries'[e] # None
         /\ nextValue' = [nextValue EXCEPT ![k] = nextValue[k] + 1]
         /\ \A f \in EntryIds \ {e} : Exists(f)' <=> Exists(f)
<1>. DEFINE k == Key(req[c])
<1>1. pc[c] = "numbered" /\ req[c] \in PostRequest
  BY DEF CommitPost, CommitReversal, IInv, TypeOK, Goto, Posting
<1>2. k \in SeqKeys
  BY <1>1, KeyType
<1>3. num[c] = nextValue[k] /\ num[c] \in Nat
  BY <1>1, <1>2 DEF IInv, LockInv, TypeOK
<1>4. ~Exists(e) /\ nextValue' = [nextValue EXCEPT ![k] = nextValue[k] + 1]
  BY <1>3 DEF CommitPost, CommitReversal, ReleaseNumber
<1>5. NewEntry(req[c], num[c]) # None
  BY <1>1, <1>3, NewEntryType
<1>6. entries'[e] = NewEntry(req[c], num[c])
  BY DEF CommitPost, CommitReversal, IInv, TypeOK
<1>7. \A f \in EntryIds \ {e} : Exists(f) => Exists(f)'
  <2>1. [Next]_vars
    BY DEF Next, Continue
  <2>. QED  BY <2>1, StepKeepsFields DEF IInv
<1>8. \A f \in EntryIds \ {e} : Exists(f)' => Exists(f)
  <2>1. CASE CommitPost(c, e)
    BY <2>1 DEF CommitPost, IInv, TypeOK, Exists
  <2>2. CASE CommitReversal(c, e)
    <3>1. Exists(req[c].original)
      BY <2>2, <1>1 DEF CommitReversal, IInv, RequestInv, Posting
    <3>. QED  BY <2>2, <3>1 DEF CommitReversal, IInv, TypeOK, Exists
  <2>. QED  BY <2>1, <2>2
<1>. QED  BY <1>2, <1>3, <1>4, <1>5, <1>6, <1>7, <1>8

(* Every other step leaves the rows and the sequences as they are. *)
LEMMA NoCommit ==
  ASSUME TypeOK, [Next]_vars,
         ~\E c \in Clients, e \in EntryIds : CommitPost(c, e) \/ CommitReversal(c, e)
  PROVE  entries' = entries /\ nextValue' = nextValue
<1>1. ASSUME NEW c \in Clients, Start(c) \/ Continue(c)
      PROVE  entries' = entries /\ nextValue' = nextValue
  BY <1>1, StepKinds DEF OutsideTransaction, AllocateNumber, Fail
<1>. QED  BY <1>1 DEF Next, vars

(* The numbers in use stay distinct, below the next one, and complete. *)
LEMMA NumbersStep ==
  ASSUME IInv, [Next]_vars
  PROVE  NumbersBelow' /\ NumbersUsed' /\ NumbersUnique'
<1>1. ASSUME NEW c \in Clients, NEW e \in EntryIds,
             CommitPost(c, e) \/ CommitReversal(c, e)
      PROVE  NumbersBelow' /\ NumbersUsed' /\ NumbersUnique'
  <2>. DEFINE k == Key(req[c])
  <2>1. /\ k \in SeqKeys
        /\ ~Exists(e) /\ entries'[e] = NewEntry(req[c], nextValue[k])
        /\ entries'[e] # None
        /\ nextValue' = [nextValue EXCEPT ![k] = nextValue[k] + 1]
        /\ \A f \in EntryIds \ {e} : Exists(f)' <=> Exists(f)
    BY <1>1, CommitEffect
  <2>2. entries'[e].key = k /\ entries'[e].number = nextValue[k] /\ Exists(e)'
    BY <2>1 DEF NewEntry, Exists
  <2>3. \A f \in EntryIds : Exists(f) =>
          /\ Exists(f)' /\ entries'[f].key = entries[f].key
          /\ entries'[f].number = entries[f].number
    BY StepKeepsFields DEF IInv
  <2>4. \A f \in EntryIds : Exists(f) => entries[f].key \in SeqKeys
    BY DEF IInv, TypeOK, Exists, Entry
  <2>5. nextValue \in [SeqKeys -> Nat \ {0}]
    BY DEF IInv, TypeOK
  <2>6. NumbersBelow'
    BY <2>1, <2>2, <2>3, <2>4, <2>5 DEF IInv, NumbersBelow
  <2>7. NumbersUnique'
    BY <2>1, <2>2, <2>3, <2>5 DEF IInv, NumbersUnique, NumbersBelow
  <2>8. NumbersUsed'
    <3>1. SUFFICES ASSUME NEW j \in SeqKeys, NEW n \in 1 .. nextValue'[j] - 1
                   PROVE  \E f \in EntryIds :
                            Exists(f)' /\ entries'[f].key = j /\ entries'[f].number = n
      BY DEF NumbersUsed
    <3>2. CASE j = k /\ n = nextValue[k]
      BY <3>2, <2>2
    <3>3. CASE ~(j = k /\ n = nextValue[k])
      <4>1. n \in 1 .. nextValue[j] - 1
        BY <3>3, <2>1, <2>5
      <4>2. PICK f \in EntryIds : Exists(f) /\ entries[f].key = j /\ entries[f].number = n
        BY <4>1 DEF IInv, NumbersUsed
      <4>. QED  BY <4>2, <2>3
    <3>. QED  BY <3>2, <3>3
  <2>. QED  BY <2>6, <2>7, <2>8
<1>2. ASSUME entries' = entries, nextValue' = nextValue
      PROVE  NumbersBelow' /\ NumbersUsed' /\ NumbersUnique'
  BY <1>2 DEF IInv, NumbersBelow, NumbersUsed, NumbersUnique, Exists
<1>. QED  BY <1>1, <1>2, NoCommit DEF IInv

(* Numbers that are below the next one and complete are gapless. *)
LEMMA GaplessFromBounds ==
  ASSUME TypeOK, NumbersBelow, NumbersUsed
  PROVE  NumbersGapless
<1>1. SUFFICES ASSUME NEW k \in SeqKeys
               PROVE  {entries[e].number : e \in {f \in EntryIds : Exists(f) /\ entries[f].key = k}}
                        = 1 .. nextValue[k] - 1
  BY DEF NumbersGapless
<1>2. ASSUME NEW e \in EntryIds, Exists(e), entries[e].key = k
      PROVE  entries[e].number \in 1 .. nextValue[k] - 1
  BY <1>2 DEF NumbersBelow
<1>3. ASSUME NEW n \in 1 .. nextValue[k] - 1
      PROVE  \E e \in EntryIds : Exists(e) /\ entries[e].key = k /\ entries[e].number = n
  BY DEF NumbersUsed
<1>. QED  BY <1>2, <1>3

-----------------------------------------------------------------------------
(* Balances and reversals *)

(* The new row balances because the request's lines do. *)
LEMMA BalancesStep ==
  ASSUME IInv, [Next]_vars
  PROVE  LedgerBalances'
<1>1. \A f \in EntryIds : Exists(f) => entries'[f].lines = entries[f].lines
  BY StepKeepsFields DEF IInv
<1>2. ASSUME NEW c \in Clients, NEW e \in EntryIds,
             CommitPost(c, e) \/ CommitReversal(c, e)
      PROVE  LedgerBalances'
  <2>1. pc[c] \in Posting
    BY <1>2 DEF CommitPost, CommitReversal, Goto, Posting
  <2>2. Balanced(req[c].lines)
    BY <2>1 DEF IInv, RequestInv
  <2>3. entries'[e].lines = req[c].lines
    <3>1. entries'[e] = NewEntry(req[c], nextValue[Key(req[c])])
      BY <1>2, CommitEffect
    <3>. QED  BY <3>1 DEF NewEntry
  <2>4. \A f \in EntryIds \ {e} : Exists(f)' => Exists(f)
    BY <1>2, CommitEffect
  <2>5. ASSUME NEW f \in EntryIds, Exists(f)' PROVE Balanced(entries'[f].lines)
    BY <2>2, <2>3, <2>4, <2>5, <1>1 DEF IInv, LedgerBalances
  <2>. QED  BY <2>5 DEF LedgerBalances, Exists
<1>3. ASSUME entries' = entries PROVE LedgerBalances'
  BY <1>3 DEF IInv, LedgerBalances, Exists
<1>. QED  BY <1>2, <1>3, NoCommit DEF IInv

(* The row a reversal creates nets the original; earlier reversals keep    *)
(* netting theirs.                                                         *)
LEMMA NettedStep ==
  ASSUME IInv, [Next]_vars
  PROVE  ContraLinked'
<1>1. \A f \in EntryIds : Exists(f) =>
        /\ Exists(f)' /\ entries'[f].lines = entries[f].lines
        /\ entries'[f].reversalOf = entries[f].reversalOf
  BY StepKeepsFields DEF IInv
<1>. DEFINE Netted(f) ==
              LET r == entries'[f].reversedBy IN
              /\ r \in EntryIds /\ entries'[r] # None
              /\ entries'[r].reversalOf = f
              /\ entries'[r].lines = Contra(entries'[f].lines)
<1>2. ASSUME NEW f \in EntryIds, Exists(f), entries[f].status = "reversed",
             entries'[f].reversedBy = entries[f].reversedBy
      PROVE  Netted(f)
  BY <1>1, <1>2 DEF IInv, ContraLinked, Exists
<1>3. ASSUME NEW c \in Clients, NEW e \in EntryIds, CommitPost(c, e),
             NEW f \in EntryIds, Exists(f)', entries'[f].status = "reversed"
      PROVE  Netted(f)
  <2>1. f # e /\ entries'[f] = entries[f]
    BY <1>3 DEF CommitPost, IInv, TypeOK, NewEntry
  <2>. QED  BY <1>2, <1>3, <2>1 DEF Exists
<1>4. ASSUME NEW c \in Clients, NEW e \in EntryIds, CommitReversal(c, e),
             NEW f \in EntryIds, Exists(f)', entries'[f].status = "reversed"
      PROVE  Netted(f)
  <2>. DEFINE o == req[c].original
  <2>1. pc[c] \in Posting /\ req[c].kind = "reverse" /\ ~Exists(e)
    BY <1>4 DEF CommitReversal, Goto, Posting
  <2>2. /\ o \in EntryIds /\ Exists(o) /\ o # e
        /\ req[c].lines = Contra(entries[o].lines)
    BY <2>1 DEF IInv, RequestInv
  <2>3. /\ entries'[e] = NewEntry(req[c], num[c])
        /\ entries'[o] = [entries[o] EXCEPT !.status = "reversed", !.reversedBy = e]
        /\ \A g \in EntryIds \ {e, o} : entries'[g] = entries[g]
    BY <1>4, <2>2 DEF CommitReversal, IInv, TypeOK
  <2>4. Exists(e)'
    BY <1>4, CommitEffect DEF Exists
  <2>5. f # e
    BY <1>4, <2>3 DEF NewEntry
  <2>6. CASE f = o
    <3>1. entries[o] \in Entry
      BY <2>2 DEF IInv, TypeOK, Exists
    <3>2. entries'[o].reversedBy = e
      BY <2>3, <3>1 DEF Entry
    <3>3. entries'[e].reversalOf = o /\ entries'[e].lines = req[c].lines
      BY <2>3 DEF NewEntry
    <3>4. entries'[o].lines = entries[o].lines
      BY <1>1, <2>2
    <3>. QED  BY <2>6, <3>2, <3>3, <3>4, <2>2, <2>4 DEF Exists
  <2>7. CASE f # o
    <3>1. entries'[f] = entries[f]
      BY <2>3, <2>5, <2>7
    <3>. QED  BY <1>2, <1>4, <3>1 DEF Exists
  <2>. QED  BY <2>6, <2>7
<1>5. ASSUME entries' = entries, NEW f \in EntryIds, Exists(f)',
             entries'[f].status = "reversed"
      PROVE  Netted(f)
  BY <1>2, <1>5 DEF Exists
<1>. QED  BY <1>3, <1>4, <1>5, NoCommit DEF IInv, ContraLinked, Exists

-----------------------------------------------------------------------------
(* The audit log *)

(* The record of a commit is on its way only after the commit. *)
LEMMA AuditStep ==
  ASSUME IInv, [Next]_vars
  PROVE  AuditPending' /\ AuditIsTruthful'
<1>. USE DEF IInv
<1>1. \A f \in EntryIds : Exists(f) =>
        Exists(f)' /\ (entries[f].status = "reversed" => entries'[f].status = "reversed")
  BY StepKeepsFields
<1>2. ASSUME NEW c \in Clients, Start(c) \/ Continue(c)
      PROVE  AuditPending' /\ AuditIsTruthful'
  <2>. DEFINE Pending(d) ==
                /\ req'[d].action = "journal.posted" =>
                     req'[d].entity \in EntryIds /\ entries'[req'[d].entity] # None
                /\ req'[d].action = "journal.reversed" =>
                     /\ req'[d].entity \in EntryIds
                     /\ entries'[req'[d].entity] # None
                     /\ entries'[req'[d].entity].status = "reversed"
  <2>1. ASSUME NEW d \in Clients, d # c, pc'[d] = "audit" PROVE Pending(d)
    <3>1. pc'[d] = pc[d] /\ req'[d] = req[d]
      BY <1>2, <2>1, OthersStay
    <3>. QED  BY <2>1, <3>1, <1>1 DEF AuditPending, Exists
  <2>2. ASSUME pc'[c] = "audit" PROVE Pending(c)
    <3>1. ASSUME NEW e \in EntryIds, CommitPost(c, e) PROVE Pending(c)
      <4>1. req'[c].action = "journal.posted" /\ req'[c].entity = e
        BY <3>1 DEF CommitPost, AuditOf, TypeOK
      <4>. QED  BY <3>1, <4>1, CommitEffect
    <3>2. ASSUME NEW e \in EntryIds, CommitReversal(c, e) PROVE Pending(c)
      <4>. DEFINE o == req[c].original
      <4>1. req'[c].action = "journal.reversed" /\ req'[c].entity = o
        BY <3>2 DEF CommitReversal, AuditOf, TypeOK
      <4>2. o \in EntryIds /\ Exists(o) /\ o # e
        BY <3>2 DEF CommitReversal, Goto, Posting, RequestInv
      <4>3. entries'[o].status = "reversed"
        BY <3>2, <4>2 DEF CommitReversal, TypeOK, Exists, Entry
      <4>. QED  BY <4>1, <4>2, <4>3, <1>1 DEF Exists
    <3>3. CASE \/ WritePeriod(c)
               \/ \E d \in Dates \cup {0} : SetLockDate(c, d)
               \/ \E a \in Accounts, v \in BOOLEAN : SetAccountActive(c, a, v)
      BY <3>3 DEF WritePeriod, SetLockDate, SetAccountActive, AuditOf, TypeOK
    <3>. QED
      BY <1>2, <2>2, <3>1, <3>2, <3>3
      DEF Start, Continue, PrepareJournal, ReadOriginal, ReadPeriod, CheckPeriod,
          RefusePeriod, AllocateNumber, WriteAudit, LoseAudit, Fail, Goto, TypeOK
  <2>3. AuditIsTruthful'
    <3>1. CASE WriteAudit(c)
      <4>1. /\ auditLog' = auditLog \cup {<<req[c].action, req[c].entity>>}
            /\ pc[c] = "audit" /\ entries' = entries
        BY <3>1 DEF WriteAudit, Goto, stores
      <4>. QED  BY <4>1 DEF AuditPending, AuditIsTruthful, Exists
    <3>2. CASE ~WriteAudit(c)
      <4>1. auditLog' = auditLog
        BY <1>2, <3>2
        DEF Start, Continue, PrepareJournal, ReadOriginal, ReadPeriod,
            SetLockDate, SetAccountActive, CheckPeriod, RefusePeriod,
            AllocateNumber, CommitPost, CommitReversal, WritePeriod, LoseAudit,
            Fail
      <4>. QED  BY <4>1, <1>1 DEF AuditIsTruthful
    <3>. QED  BY <3>1, <3>2
  <2>. QED  BY <2>1, <2>2, <2>3 DEF AuditPending, Exists
<1>3. ASSUME UNCHANGED vars PROVE AuditPending' /\ AuditIsTruthful'
  BY <1>3 DEF vars, AuditPending, AuditIsTruthful, Exists
<1>. QED  BY <1>2, <1>3 DEF Next

-----------------------------------------------------------------------------
(* Theorems *)

(* The inductive invariant holds in every state the ledger reaches. *)
THEOREM Invariance == Spec => []IInv
<1>1. Init => IInv
  <2>. SUFFICES ASSUME Init PROVE IInv
    OBVIOUS
  <2>1. TypeOK
    BY DEF Init, TypeOK, Posting, PeriodStatuses
  <2>2. /\ RequestInv /\ NumbersBelow /\ NumbersUnique /\ LedgerBalances
        /\ ContraLinked /\ AuditPending /\ AuditIsTruthful
    BY DEF Init, Posting, RequestInv, NumbersBelow, NumbersUnique, LedgerBalances,
           ContraLinked, AuditPending, AuditIsTruthful, Exists
  <2>3. LockInv
    BY NoneAssumption DEF Init, LockInv, NoneAssumption
  <2>4. NumbersUsed
    BY DEF Init, NumbersUsed
  <2>. QED  BY <2>1, <2>2, <2>3, <2>4 DEF IInv
<1>2. IInv /\ [Next]_vars => IInv'
  <2>. SUFFICES ASSUME IInv, [Next]_vars PROVE IInv'
    OBVIOUS
  <2>1. TypeOK' /\ LockInv'
    <3>1. ASSUME NEW c \in Clients, Start(c) \/ Continue(c)
          PROVE  TypeOK' /\ LockInv'
      BY <3>1, StartType, ContinueType, LockStep DEF IInv
    <3>2. CASE UNCHANGED vars
      BY <3>2 DEF IInv, TypeOK, LockInv, vars
    <3>. QED  BY <3>1, <3>2 DEF Next
  <2>2. RequestInv'
    BY RequestStep
  <2>3. NumbersBelow' /\ NumbersUsed' /\ NumbersUnique'
    BY NumbersStep
  <2>4. LedgerBalances' /\ ContraLinked'
    BY BalancesStep, NettedStep
  <2>5. AuditPending' /\ AuditIsTruthful'
    BY AuditStep
  <2>. QED  BY <2>1, <2>2, <2>3, <2>4, <2>5 DEF IInv
<1>. QED  BY <1>1, <1>2, PTL DEF Spec

(* The stores, locks and handlers of the ledger always hold values of      *)
(* their types.                                                            *)
THEOREM TypeCorrect == Spec => []TypeOK
<1>1. IInv => TypeOK
  BY DEF IInv
<1>. QED  BY <1>1, Invariance, PTL

(* Numbering: however many posts and reversals run at once, fail or crash, *)
(* no journal number is given out twice and none is skipped.               *)
THEOREM NumberingCorrect == Spec => [](NumbersUnique /\ NumbersGapless)
<1>1. IInv => NumbersUnique /\ NumbersGapless
  BY GaplessFromBounds DEF IInv
<1>. QED  BY <1>1, Invariance, PTL

(* The books balance: every entry on the ledger has equal debits and       *)
(* credits, contra entries included.                                       *)
THEOREM TrialBalance == Spec => []LedgerBalances
<1>1. IInv => LedgerBalances
  BY DEF IInv
<1>. QED  BY <1>1, Invariance, PTL

(* A reversed entry is always netted by the reversal it names, even when   *)
(* reversals race.                                                         *)
THEOREM ReversalsNet == Spec => []ReversedIsNetted
<1>1. IInv => ReversedIsNetted
  BY ContraNets DEF IInv, ContraLinked, ReversedIsNetted
<1>. QED  BY <1>1, Invariance, PTL

(* The audit log only tells of postings and reversals that are on the      *)
(* books.                                                                  *)
THEOREM AuditTruth == Spec => []AuditIsTruthful
<1>1. IInv => AuditIsTruthful
  BY DEF IInv
<1>. QED  BY <1>1, Invariance, PTL

(* Nothing rewrites posted history: no step removes an entry, changes its  *)
(* number, date, period, lines or origin, or revives a reversed one.       *)
THEOREM HistoryImmutable == Spec => PostedIsImmutable
<1>1. IInv /\ [Next]_vars => Keeps
  BY StepKeeps DEF IInv
<1>2. Keeps => \A e \in EntryIds : Exists(e) =>
                LET old == entries[e]
                    new == entries'[e]
                IN /\ new # None
                   /\ new = [old EXCEPT !.status = new.status, !.reversedBy = new.reversedBy]
                   /\ old.status = "reversed" => new.status = "reversed"
  BY DEF Keeps
<1>. QED  BY <1>1, <1>2, Invariance, PTL DEF Spec, PostedIsImmutable

-----------------------------------------------------------------------------
(* What holds while handlers keep out of each other's way *)

(* No two handlers are reversing the same entry.  reverseEntry checks the  *)
(* original before its transaction (posting.ts:228-229) and nothing in the     *)
(* code ensures it.                                                        *)
ReversedAlone ==
    \A c, d \in Clients :
        /\ pc[c] \in Posting /\ req[c].kind = "reverse"
        /\ pc[d] \in Posting /\ req[d].kind = "reverse"
        /\ req[c].original = req[d].original
        => c = d

(* Every reversal is the one its original names; the original of a         *)
(* reversal on its way names none, and a posting reverses nothing.         *)
LinkedBack ==
    /\ \A r \in EntryIds : Exists(r) /\ entries[r].reversalOf # None =>
          /\ entries[r].reversalOf \in EntryIds
          /\ Exists(entries[r].reversalOf)
          /\ entries[entries[r].reversalOf].reversedBy = r
    /\ \A c \in Clients : pc[c] \in Posting =>
          /\ req[c].kind = "reverse" => entries[req[c].original].reversedBy = None
          /\ req[c].kind = "post" => req[c].original = None

(* A request on its way to the books was on its way before a step, or was  *)
(* read in it.                                                             *)
LEMMA RequestOrigin ==
  ASSUME IInv, [Next]_vars, NEW d \in Clients, pc'[d] \in Posting
  PROVE  \/ /\ pc[d] \in Posting
            /\ req'[d].kind = req[d].kind
            /\ req'[d].original = req[d].original
         \/ /\ entries' = entries
            /\ req'[d].kind = "post"
            /\ req'[d].original = None
         \/ /\ entries' = entries
            /\ req'[d].kind = "reverse"
            /\ entries[req'[d].original].reversedBy = None
<1>. USE DEF IInv
<1>0. CASE UNCHANGED vars
  BY <1>0 DEF vars
<1>a. SUFFICES ASSUME NEW c \in Clients, Start(c) \/ Continue(c),
                      ~(/\ pc[d] \in Posting
                        /\ req'[d].kind = req[d].kind
                        /\ req'[d].original = req[d].original)
               PROVE  /\ entries' = entries
                      /\ \/ req'[d].kind = "post" /\ req'[d].original = None
                         \/ /\ req'[d].kind = "reverse"
                            /\ entries[req'[d].original].reversedBy = None
  BY <1>0 DEF Next
<1>2. c = d
  BY <1>a, OthersStay
<1>3. ASSUME NEW x \in Prefixes, NEW j \in Journals, NEW dt \in Dates, NEW v \in BOOLEAN,
             PrepareJournal(c, x, j, dt, v)
      PROVE  entries' = entries /\ req'[c].kind = "post" /\ req'[c].original = None
  BY <1>3 DEF PrepareJournal, TypeOK, stores
<1>4. ASSUME NEW e \in EntryIds, NEW dt \in Dates, NEW v \in BOOLEAN,
             ReadOriginal(c, e, dt, v)
      PROVE  /\ entries' = entries /\ req'[c].kind = "reverse"
             /\ entries[req'[c].original].reversedBy = None
  BY <1>4 DEF ReadOriginal, TypeOK, stores
<1>5. ~CheckPeriod(c)
  <2>1. ASSUME CheckPeriod(c) PROVE FALSE
    <3>1. pc[c] \in Posting /\ req[c] \in PostRequest
      BY <2>1 DEF CheckPeriod, Goto, TypeOK, Posting
    <3>2. req'[c].kind = req[c].kind /\ req'[c].original = req[c].original
      BY <2>1, <3>1 DEF CheckPeriod, TypeOK, PostRequest
    <3>. QED  BY <1>a, <1>2, <3>1, <3>2
  <2>. QED  BY <2>1
<1>6. ~AllocateNumber(c)
  BY <1>a, <1>2 DEF AllocateNumber, Goto, Posting
<1>7. \/ \E x \in Prefixes, j \in Journals, dt \in Dates, v \in BOOLEAN :
             PrepareJournal(c, x, j, dt, v)
      \/ \E e \in EntryIds, dt \in Dates, v \in BOOLEAN : ReadOriginal(c, e, dt, v)
  BY <1>a, <1>2, <1>5, <1>6
  DEF Start, Continue, ReadPeriod, SetLockDate, SetAccountActive, RefusePeriod,
      CommitPost, CommitReversal, WritePeriod, WriteAudit, LoseAudit, Fail, Goto,
      TypeOK, Posting
<1>. QED  BY <1>2, <1>3, <1>4, <1>7

(* A reversal that commits alone is linked both ways, and disturbs no      *)
(* other pair.                                                             *)
LEMMA ReversalLinks ==
  ASSUME IInv, LinkedBack, ReversedAlone, [Next]_vars,
         NEW c \in Clients, NEW e \in EntryIds, CommitReversal(c, e)
  PROVE  LinkedBack'
<1>. USE DEF IInv
<1>. DEFINE o == req[c].original
<1>1. pc[c] \in Posting /\ req[c].kind = "reverse" /\ ~Exists(e) /\ pc'[c] = "audit"
  BY DEF CommitReversal, Goto, Posting, TypeOK
<1>2. /\ o \in EntryIds /\ Exists(o) /\ o # e /\ entries[o] \in Entry
      /\ entries[o].reversedBy = None
  BY <1>1 DEF RequestInv, LinkedBack, TypeOK, Exists
<1>3. /\ entries'[e] = NewEntry(req[c], num[c])
      /\ entries'[o] = [entries[o] EXCEPT !.status = "reversed", !.reversedBy = e]
      /\ \A g \in EntryIds \ {e, o} : entries'[g] = entries[g]
  BY <1>2 DEF CommitReversal, TypeOK
<1>4. /\ entries'[e].reversalOf = o /\ entries'[o].reversedBy = e
      /\ entries'[o].reversalOf = entries[o].reversalOf
  BY <1>2, <1>3 DEF NewEntry, Entry
<1>5. \A f \in EntryIds : Exists(f) => Exists(f)'
  BY StepKeepsFields
<1>6. ASSUME NEW r \in EntryIds, Exists(r)', entries'[r].reversalOf # None
      PROVE  LET p == entries'[r].reversalOf IN
             p \in EntryIds /\ entries'[p] # None /\ entries'[p].reversedBy = r
  <2>1. CASE r = e
    BY <1>2, <1>4, <1>5, <2>1 DEF Exists
  <2>2. CASE r # e
    <3>. DEFINE p == entries[r].reversalOf
    <3>1. Exists(r) /\ entries'[r].reversalOf = p /\ p # None
      BY <1>2, <1>3, <1>4, <1>6, <2>2 DEF Exists
    <3>2. p \in EntryIds /\ Exists(p) /\ entries[p].reversedBy = r
      BY <3>1 DEF LinkedBack
    <3>3. p # e /\ p # o
      BY <1>1, <1>2, <3>2, NoneAssumption DEF NoneAssumption
    <3>. QED  BY <1>3, <1>5, <3>1, <3>2, <3>3 DEF Exists
  <2>. QED  BY <2>1, <2>2
<1>7. ASSUME NEW d \in Clients, pc'[d] \in Posting
      PROVE  /\ req'[d].kind = "reverse" => entries'[req'[d].original].reversedBy = None
             /\ req'[d].kind = "post" => req'[d].original = None
  <2>1. d # c /\ pc'[d] = pc[d] /\ req'[d] = req[d]
    BY <1>1, <1>7, OthersStay DEF Continue, Posting
  <2>2. ASSUME req[d].kind = "reverse"
        PROVE  entries'[req[d].original].reversedBy = None
    <3>1. req[d].original \in EntryIds /\ Exists(req[d].original)
      BY <1>7, <2>1, <2>2 DEF RequestInv
    <3>2. req[d].original # o /\ req[d].original # e
      BY <1>1, <1>7, <2>1, <2>2, <3>1 DEF ReversedAlone
    <3>. QED  BY <1>3, <1>7, <2>1, <2>2, <3>1, <3>2 DEF LinkedBack
  <2>. QED  BY <1>7, <2>1, <2>2 DEF LinkedBack
<1>. QED  BY <1>6, <1>7 DEF LinkedBack, Exists

(* A posting, and a step without a commit, keep the links. *)
LEMMA LinksStep ==
  ASSUME IInv, LinkedBack, ReversedAlone, [Next]_vars
  PROVE  LinkedBack'
<1>. USE DEF IInv
<1>1. ASSUME \A f \in EntryIds : Exists(f) => entries'[f] = entries[f],
             \A f \in EntryIds : Exists(f)' /\ ~Exists(f) => entries'[f].reversalOf = None
      PROVE  LinkedBack'
  <2>1. ASSUME NEW r \in EntryIds, Exists(r)', entries'[r].reversalOf # None
        PROVE  LET p == entries'[r].reversalOf IN
               p \in EntryIds /\ entries'[p] # None /\ entries'[p].reversedBy = r
    BY <1>1, <2>1 DEF LinkedBack, Exists
  <2>2. ASSUME NEW d \in Clients, pc'[d] \in Posting
        PROVE  /\ req'[d].kind = "reverse" => entries'[req'[d].original].reversedBy = None
               /\ req'[d].kind = "post" => req'[d].original = None
    <3>1. CASE /\ pc[d] \in Posting
               /\ req'[d].kind = req[d].kind
               /\ req'[d].original = req[d].original
      <4>1. req[d].kind = "reverse" =>
                req[d].original \in EntryIds /\ Exists(req[d].original)
        BY <3>1 DEF RequestInv
      <4>. QED  BY <1>1, <3>1, <4>1 DEF LinkedBack
    <3>2. CASE entries' = entries /\ req'[d].kind = "post" /\ req'[d].original = None
      BY <3>2
    <3>3. CASE /\ entries' = entries /\ req'[d].kind = "reverse"
               /\ entries[req'[d].original].reversedBy = None
      BY <3>3
    <3>. QED  BY <2>2, <3>1, <3>2, <3>3, RequestOrigin
  <2>. QED  BY <2>1, <2>2 DEF LinkedBack, Exists
<1>2. ASSUME NEW c \in Clients, NEW e \in EntryIds, CommitPost(c, e)
      PROVE  LinkedBack'
  <2>1. req[c].original = None
    BY <1>2 DEF CommitPost, Goto, Posting, LinkedBack
  <2>2. /\ ~Exists(e) /\ entries'[e] = NewEntry(req[c], num[c])
        /\ \A f \in EntryIds \ {e} : entries'[f] = entries[f]
    BY <1>2 DEF CommitPost, TypeOK
  <2>. QED  BY <1>1, <2>1, <2>2 DEF NewEntry, Exists
<1>. QED  BY <1>1, <1>2, ReversalLinks, NoCommit DEF Exists

(* Where no two handlers reverse one entry at a time, reversals pair up:   *)
(* every reversal is the one its original names, so none is reversed       *)
(* twice, whatever else overlaps, fails and crashes.                       *)
THEOREM ReversalsPairUp == Spec /\ []ReversedAlone => []ReversalIsReciprocal
<1>1. Init => LinkedBack
  BY DEF Init, LinkedBack, Exists, Posting
<1>2. IInv /\ LinkedBack /\ ReversedAlone /\ [Next]_vars => LinkedBack'
  BY LinksStep
<1>3. LinkedBack => ReversalIsReciprocal
  BY DEF LinkedBack, ReversalIsReciprocal
<1>. QED  BY <1>1, <1>2, <1>3, Invariance, PTL DEF Spec

(* A period or the lock date is changed while no other handler is between  *)
(* its check of the period and its commit (posting.ts:172 and 233 check    *)
(* before the transaction and nothing checks again), and the record of the *)
(* change is made, or lost, before another gets there.                     *)
ControlsAlone ==
    \A c, d \in Clients :
        pc[c] \in {"ready", "numbered"} =>
            ~(pc[d] = "audit" /\ req[d].action = "control.changed")

(* What a handler found open is open still. *)
CheckedOpen ==
    \A c \in Clients : pc[c] \in {"ready", "numbered"} =>
        /\ OpenForPosting(req[c].date, req[c].elevated)
        /\ req[c].period = PeriodOf[req[c].date]

(* A step of c keeps what the others found, if it changes no control, and  *)
(* what it found itself.                                                   *)
LEMMA OpenStep ==
  ASSUME IInv, CheckedOpen, ControlsAlone', [Next]_vars
  PROVE  CheckedOpen'
<1>. USE DEF IInv
<1>. DEFINE Found(d) ==
              /\ OpenForPosting(req[d].date, req[d].elevated)
              /\ req[d].period = PeriodOf[req[d].date]
<1>1. CASE UNCHANGED vars
  BY <1>1 DEF vars, CheckedOpen, OpenForPosting
<1>2. ASSUME NEW c \in Clients, Start(c) \/ Continue(c) PROVE CheckedOpen'
  <2>1. CASE /\ periodStatus' = periodStatus /\ lockDate' = lockDate
    <3>1. ASSUME NEW d \in Clients, pc'[d] \in {"ready", "numbered"} PROVE Found(d)'
      <4>1. CASE d # c
        <5>1. pc'[d] = pc[d] /\ req'[d] = req[d]
          BY <1>2, <4>1, OthersStay
        <5>. QED  BY <2>1, <3>1, <5>1 DEF CheckedOpen, OpenForPosting
      <4>2. CASE d = c /\ CheckPeriod(c)
        <5>1. req[c] \in PostRequest /\ OpenForPosting(req[c].date, req[c].elevated)
          BY <4>2 DEF CheckPeriod, Goto, TypeOK, Posting
        <5>2. /\ req'[c].date = req[c].date /\ req'[c].elevated = req[c].elevated
              /\ req'[c].period = PeriodOf[req[c].date]
          BY <4>2, <5>1 DEF CheckPeriod, TypeOK, PostRequest
        <5>. QED  BY <2>1, <4>2, <5>1, <5>2 DEF OpenForPosting
      <4>3. CASE d = c /\ AllocateNumber(c)
        <5>1. req' = req /\ pc[c] = "ready"
          BY <4>3 DEF AllocateNumber, Goto
        <5>. QED  BY <2>1, <4>3, <5>1 DEF CheckedOpen, OpenForPosting
      <4>4. CASE d = c /\ ~CheckPeriod(c) /\ ~AllocateNumber(c)
        BY <1>2, <3>1, <4>4
        DEF Start, Continue, PrepareJournal, ReadOriginal, ReadPeriod, SetLockDate,
            SetAccountActive, RefusePeriod, CommitPost, CommitReversal, WritePeriod,
            WriteAudit, LoseAudit, Fail, Goto, TypeOK
      <4>. QED  BY <4>1, <4>2, <4>3, <4>4
    <3>. QED  BY <3>1 DEF CheckedOpen
  <2>2. CASE WritePeriod(c) \/ \E d \in Dates \cup {0} : SetLockDate(c, d)
    <3>1. pc'[c] = "audit" /\ req'[c].action = "control.changed"
      BY <2>2 DEF WritePeriod, SetLockDate, Goto, AuditOf, TypeOK
    <3>. QED  BY <3>1 DEF ControlsAlone, CheckedOpen
  <2>. QED
    BY <1>2, <2>1, <2>2
    DEF Start, Continue, PrepareJournal, ReadOriginal, ReadPeriod, SetAccountActive,
        CheckPeriod, RefusePeriod, AllocateNumber, CommitPost, CommitReversal,
        WriteAudit, LoseAudit, Fail, stores
<1>. QED  BY <1>1, <1>2 DEF Next

(* Where no control changes between the check and the commit of a posting, *)
(* no entry is committed into a period that is closed or locked, nor on or *)
(* before the lock date.                                                   *)
THEOREM ClosedStaysClosed == Spec /\ []ControlsAlone => NoPostIntoClosed
<1>1. Init => CheckedOpen
  BY DEF Init, CheckedOpen
<1>2. IInv /\ CheckedOpen /\ ControlsAlone' /\ [Next]_vars => CheckedOpen'
  BY OpenStep
<1>. DEFINE Kept == \A e \in EntryIds : ~Exists(e) /\ entries'[e] # None =>
                LET new == entries'[e]
                IN /\ new.date > lockDate
                   /\ new.period # None =>
                         periodStatus[new.period] \in {"open", "soft_closed"}
<1>3. IInv /\ CheckedOpen /\ [Next]_vars => Kept
  <2>. SUFFICES ASSUME IInv, CheckedOpen, [Next]_vars,
                       NEW e \in EntryIds, ~Exists(e), entries'[e] # None
                PROVE  LET new == entries'[e]
                       IN /\ new.date > lockDate
                          /\ new.period # None =>
                                periodStatus[new.period] \in {"open", "soft_closed"}
    OBVIOUS
  <2>1. PICK c \in Clients, f \in EntryIds : CommitPost(c, f) \/ CommitReversal(c, f)
    BY NoCommit DEF IInv, Exists
  <2>2. pc[c] = "numbered"
    BY <2>1 DEF CommitPost, CommitReversal, Goto
  <2>3. e = f /\ entries'[e] = NewEntry(req[c], nextValue[Key(req[c])])
    BY <2>1, CommitEffect DEF Exists
  <2>4. entries'[e].date = req[c].date /\ entries'[e].period = req[c].period
    BY <2>3 DEF NewEntry
  <2>5. /\ OpenForPosting(req[c].date, req[c].elevated)
        /\ req[c].period = PeriodOf[req[c].date]
    BY <2>2 DEF CheckedOpen
  <2>. QED  BY <2>4, <2>5 DEF OpenForPosting
<1>. QED  BY <1>1, <1>2, <1>3, Invariance, PTL DEF Spec, NoPostIntoClosed

(* The case of one handler at a time: neither hypothesis is needed.        *)
THEOREM OneHandler ==
    ASSUME \A c, d \in Clients : c = d
    PROVE  Spec => []ReversalIsReciprocal /\ NoPostIntoClosed
<1>1. ReversedAlone
  BY DEF ReversedAlone
<1>2. ControlsAlone
  BY DEF ControlsAlone
<1>. QED  BY <1>1, <1>2, ReversalsPairUp, ClosedStaysClosed, PTL

-----------------------------------------------------------------------------
(* Refinement *)

(* What a row is in the book. *)
LEMMA BookRows ==
  /\ DOMAIN Book = {e \in EntryIds : Exists(e)}
  /\ \A e \in EntryIds : Exists(e) =>
        Book[e] = [key |-> entries[e].key, number |-> entries[e].number,
                   lines |-> entries[e].lines,
                   reversed |-> entries[e].status = "reversed"]
  BY DEF Book

(* A commit writes the new row as the abstract ledger writes an entry:     *)
(* under the number that its sequence has come to, balanced.               *)
LEMMA CommitWrites ==
  ASSUME IInv, NEW c \in Clients, NEW e \in EntryIds,
         CommitPost(c, e) \/ CommitReversal(c, e)
  PROVE  Promise!Write(e) /\ Book'[e].lines = req[c].lines
<1>. DEFINE k == Key(req[c])
            rows == {f \in EntryIds : Exists(f) /\ entries[f].key = k}
<1>1. /\ k \in SeqKeys
      /\ ~Exists(e) /\ entries'[e] = NewEntry(req[c], nextValue[k])
      /\ entries'[e] # None
      /\ \A f \in EntryIds \ {e} : Exists(f)' <=> Exists(f)
  BY CommitEffect
<1>2. pc[c] \in Posting /\ req[c] \in PostRequest /\ nextValue[k] \in Nat \ {0}
  BY <1>1 DEF CommitPost, CommitReversal, IInv, TypeOK, Goto, Posting
<1>3. DOMAIN Book' = DOMAIN Book \cup {e} /\ e \notin DOMAIN Book
  BY <1>1, BookRows DEF Book, Exists
<1>4. Book'[e] = [key |-> k, number |-> nextValue[k], lines |-> req[c].lines,
                  reversed |-> FALSE]
  <2>1. /\ entries'[e].key = k /\ entries'[e].number = nextValue[k]
        /\ entries'[e].lines = req[c].lines /\ entries'[e].status = "posted"
    BY <1>1 DEF NewEntry
  <2>2. Book'[e] = [key |-> entries'[e].key, number |-> entries'[e].number,
                    lines |-> entries'[e].lines,
                    reversed |-> entries'[e].status = "reversed"]
    BY <1>1 DEF Book, Exists
  <2>. QED  BY <2>1, <2>2
<1>5. Book'[e] \in Promise!Entry
  BY <1>1, <1>2, <1>4 DEF Promise!Entry, Promise!Line, Line, PostRequest
<1>6. Promise!NumbersOf(k) = 1 .. nextValue[k] - 1
  <2>1. {entries[f].number : f \in rows} = 1 .. nextValue[k] - 1
    BY <1>1, GaplessFromBounds DEF IInv, NumbersGapless
  <2>2. rows = {f \in DOMAIN Book : Book[f].key = k}
    BY BookRows
  <2>3. \A f \in rows : Book[f].number = entries[f].number
    BY BookRows
  <2>4. Promise!NumbersOf(k) = {Book[f].number : f \in rows}
    BY <2>2 DEF Promise!NumbersOf
  <2>. QED  BY <2>1, <2>3, <2>4
<1>7. Promise!Balanced(req[c].lines)
  <2>1. Balanced(req[c].lines)
    BY <1>2 DEF IInv, RequestInv
  <2>. QED
    BY <2>1
    DEF Balanced, DebitTotal, CreditTotal, SumFunction, SumFunctionOnSet,
        FoldFunctionOnSet, MapThenFoldSet, Promise!Balanced, Promise!SumFunction,
        Promise!SumFunctionOnSet, Promise!FoldFunctionOnSet, Promise!MapThenFoldSet
<1>. QED  BY <1>3, <1>4, <1>5, <1>6, <1>7 DEF Promise!Write

(* Posting records an entry and changes no other. *)
LEMMA PostRecords ==
  ASSUME IInv, NEW c \in Clients, NEW e \in EntryIds, CommitPost(c, e)
  PROVE  Promise!Record(e)
<1>1. \A f \in EntryIds : Exists(f) => f # e /\ entries'[f] = entries[f]
  BY DEF CommitPost, IInv, TypeOK
<1>2. \A f \in DOMAIN Book : Book'[f] = Book[f]
  BY <1>1 DEF Book, Exists
<1>. QED  BY <1>2, CommitWrites DEF Promise!Record, Promise!Keep

(* A reversal undoes the entry it was read from and marks it reversed, and *)
(* changes no other.                                                       *)
LEMMA ReversalReverses ==
  ASSUME IInv, NEW c \in Clients, NEW e \in EntryIds, CommitReversal(c, e)
  PROVE  Promise!Reverse(e, req[c].original)
<1>. DEFINE o == req[c].original
<1>1. pc[c] \in Posting /\ req[c].kind = "reverse" /\ ~Exists(e)
  BY DEF CommitReversal, Goto, Posting
<1>2. /\ o \in EntryIds /\ Exists(o) /\ o # e
      /\ req[c].lines = Contra(entries[o].lines)
  BY <1>1 DEF IInv, RequestInv
<1>3. /\ entries'[o] = [entries[o] EXCEPT !.status = "reversed", !.reversedBy = e]
      /\ \A f \in EntryIds \ {e, o} : entries'[f] = entries[f]
  BY <1>2 DEF CommitReversal, IInv, TypeOK
<1>4. entries[o] \in Entry
  BY <1>2 DEF IInv, TypeOK, Exists
<1>5. /\ entries'[o].key = entries[o].key
      /\ entries'[o].number = entries[o].number
      /\ entries'[o].lines = entries[o].lines
      /\ entries'[o].status = "reversed"
  BY <1>3, <1>4 DEF Entry
<1>6. entries'[o] # None
  <2>1. entries'[o] \in Entry
    BY <1>2, <1>3, <1>4 DEF Entry
  <2>. QED  BY <2>1, NoEntryAssumption DEF NoEntryAssumption
<1>7. Book'[o] = Promise!MarkedReversed(Book[o])
  <2>1. Book[o] = [key |-> entries[o].key, number |-> entries[o].number,
                   lines |-> entries[o].lines,
                   reversed |-> entries[o].status = "reversed"]
    BY <1>2, BookRows
  <2>2. Book'[o] = [key |-> entries'[o].key, number |-> entries'[o].number,
                    lines |-> entries'[o].lines,
                    reversed |-> entries'[o].status = "reversed"]
    BY <1>2, <1>6 DEF Book, Exists
  <2>3. Book'[o] = [key |-> entries[o].key, number |-> entries[o].number,
                    lines |-> entries[o].lines, reversed |-> TRUE]
    BY <2>2, <1>5
  <2>. QED  BY <2>1, <2>3 DEF Promise!MarkedReversed
<1>8. \A f \in DOMAIN Book \ {o} : Book'[f] = Book[f]
  BY <1>1, <1>3 DEF Book, Exists
<1>9. Book'[e].lines = Promise!Undo(Book[o].lines)
  <2>1. Book[o].lines = entries[o].lines
    BY <1>2, BookRows
  <2>2. Contra(entries[o].lines) = Promise!Undo(entries[o].lines)
    BY DEF Contra, Promise!Undo
  <2>. QED  BY <1>2, <2>1, <2>2, CommitWrites
<1>10. o \in DOMAIN Book
  BY <1>2, BookRows
<1>. QED  BY <1>7, <1>8, <1>9, <1>10, CommitWrites DEF Promise!Reverse, Promise!Keep

(* The detailed ledger implements the abstract one: however many handlers  *)
(* overlap, fail and crash, each step of theirs is a step of a book that   *)
(* only grows, or leaves the book as it is.                                *)
THEOREM Refinement == Spec => KeepsPromise
<1>1. Init => Promise!Init
  <2>. SUFFICES ASSUME Init PROVE Book = [e \in {} |-> {}]
    BY DEF Promise!Init
  <2>1. {e \in EntryIds : Exists(e)} = {}
    BY DEF Init, Exists
  <2>. QED  BY <2>1 DEF Book
<1>2. IInv /\ [Next]_vars => [Promise!Next]_Book
  <2>. SUFFICES ASSUME IInv, [Next]_vars PROVE Promise!Next \/ Book' = Book
    OBVIOUS
  <2>1. ASSUME NEW c \in Clients, NEW e \in EntryIds, CommitPost(c, e)
        PROVE  Promise!Next
    BY <2>1, PostRecords DEF Promise!Next
  <2>2. ASSUME NEW c \in Clients, NEW e \in EntryIds, CommitReversal(c, e)
        PROVE  Promise!Next
    <3>1. req[c].original \in EntryIds
      BY <2>2 DEF CommitReversal, Goto, Posting, IInv, RequestInv
    <3>. QED  BY <2>2, <3>1, ReversalReverses DEF Promise!Next
  <2>3. ASSUME entries' = entries PROVE Book' = Book
    BY <2>3 DEF Book, Exists
  <2>. QED  BY <2>1, <2>2, <2>3, NoCommit DEF IInv
<1>. QED  BY <1>1, <1>2, Invariance, PTL DEF Spec, KeepsPromise, Promise!Spec

-----------------------------------------------------------------------------
(* Naturals *)

(* A set of naturals that is not empty has a least element. *)
LEMMA LeastNatural ==
    ASSUME NEW S, S \subseteq Nat, S # {}
    PROVE  \E n \in S : \A m \in S : n <= m
<1>1. PICK R : R = OpToRel(<, Nat)
  OBVIOUS
<1>2. IsWellFoundedOn(R, Nat)
  BY <1>1, NatLessThanWellFounded
<1>3. PICK n \in S : \A m \in S : <<m, n>> \notin R
  BY <1>2, WFMin
<1>4. \A m \in S : ~(m < n)
  BY <1>1, <1>3 DEF OpToRel
<1> QED
  BY <1>4

(* A set of naturals that holds 0 and the successors of its elements holds *)
(* all of them.                                                            *)
LEMMA AllNaturals ==
    ASSUME NEW S, 0 \in S, \A n \in Nat : n \in S => n + 1 \in S
    PROVE  \A n \in Nat : n \in S
<1> SUFFICES ASSUME NEW n \in Nat, n \notin S PROVE FALSE
  OBVIOUS
<1>1. PICK least \in Nat \ S : \A m \in Nat \ S : least <= m
  BY LeastNatural
<1>2. least - 1 \in Nat
  BY <1>1
<1>3. least - 1 \in S
  BY <1>1, <1>2
<1> QED
  BY <1>1, <1>2, <1>3

-----------------------------------------------------------------------------
(* The recursion *)

(* The element that the recursion takes away first. *)
First(s) == CHOOSE x \in s : TRUE

(* The sums over the subsets of S, as the recursion has them. *)
SumsOver(f, S, g) ==
    g = [s \in SUBSET S |-> IF s = {} THEN 0 ELSE f[First(s)] + g[s \ {First(s)}]]

(* ... over those with up to n elements. *)
UpTo(S, n) == {s \in SUBSET S : Cardinality(s) <= n}

(* ... and the recursion over these. *)
SumsUpTo(f, S, n, g) ==
    g = [s \in UpTo(S, n) |-> IF s = {} THEN 0 ELSE f[First(s)] + g[s \ {First(s)}]]

(* What is left of a finite set has one element less. *)
LEMMA Rest ==
    ASSUME NEW S, IsFiniteSet(S), NEW s \in SUBSET S, s # {}
    PROVE  /\ First(s) \in s /\ s \ {First(s)} \in SUBSET S
           /\ IsFiniteSet(s) /\ Cardinality(s) \in Nat
           /\ Cardinality(s \ {First(s)}) = Cardinality(s) - 1
           /\ Cardinality(s) # 0
<1>1. First(s) \in s
  BY DEF First
<1>2. IsFiniteSet(s) /\ Cardinality(s) \in Nat
  BY FS_Subset, FS_CardinalityType
<1>3. Cardinality(s \ {First(s)}) = Cardinality(s) - 1
  BY <1>1, <1>2, FS_RemoveElement
<1>4. Cardinality(s) # 0
  BY <1>2, FS_EmptySet
<1> QED
  BY <1>1, <1>2, <1>3, <1>4

(* The recursion is well defined. *)
LEMMA SumsExist ==
    ASSUME NEW f, NEW S, IsFiniteSet(S)
    PROVE  \E g : SumsOver(f, S, g)
<1> DEFINE Fine == {n \in Nat : \E g : SumsUpTo(f, S, n, g)}
<1>a. \A s \in SUBSET S : Cardinality(s) \in Nat /\ (Cardinality(s) = 0 <=> s = {})
  BY FS_Subset, FS_CardinalityType, FS_EmptySet
<1>1. 0 \in Fine
  <2>1. PICK g : g = [s \in UpTo(S, 0) |-> 0]
    OBVIOUS
  <2>2. \A s \in UpTo(S, 0) : s = {}
    BY <1>a DEF UpTo
  <2>3. g = [s \in UpTo(S, 0) |-> IF s = {} THEN 0 ELSE f[First(s)] + g[s \ {First(s)}]]
    BY <2>1, <2>2
  <2> QED
    BY <2>3 DEF SumsUpTo
<1>2. ASSUME NEW n \in Nat, n \in Fine PROVE n + 1 \in Fine
  <2>1. PICK g : SumsUpTo(f, S, n, g)
    BY <1>2
  <2>2. PICK h : h = [s \in UpTo(S, n + 1) |->
                         IF s = {} THEN 0 ELSE f[First(s)] + g[s \ {First(s)}]]
    OBVIOUS
  <2>3. \A s \in UpTo(S, n) : s \in UpTo(S, n + 1) /\ h[s] = g[s]
    <3>1. \A s \in UpTo(S, n) : s \in UpTo(S, n + 1)
      BY <1>a DEF UpTo
    <3>2. \A s \in UpTo(S, n) :
             g[s] = IF s = {} THEN 0 ELSE f[First(s)] + g[s \ {First(s)}]
      BY <2>1 DEF SumsUpTo
    <3> QED
      BY <2>2, <3>1, <3>2
  <2>4. \A s \in UpTo(S, n + 1) : s # {} => s \ {First(s)} \in UpTo(S, n)
    BY <1>a, Rest DEF UpTo
  <2>5. h = [s \in UpTo(S, n + 1) |->
                IF s = {} THEN 0 ELSE f[First(s)] + h[s \ {First(s)}]]
    BY <2>2, <2>3, <2>4
  <2>6. SumsUpTo(f, S, n + 1, h)
    BY <2>5 DEF SumsUpTo
  <2>7. \E k : SumsUpTo(f, S, n + 1, k)
    BY <2>6
  <2> QED
    BY <2>7
<1>3. Cardinality(S) \in Fine
  <2> HIDE DEF Fine
  <2> QED
    BY <1>1, <1>2, AllNaturals, FS_CardinalityType
<1>4. UpTo(S, Cardinality(S)) = SUBSET S
  BY FS_Subset DEF UpTo
<1> QED
  BY <1>3, <1>4 DEF SumsUpTo, SumsOver

(* The recursion adds up the same whatever set it is started from, and     *)
(* whatever else the functions hold.                                       *)
LEMMA SumsAgree ==
    ASSUME NEW f, NEW e, NEW S, IsFiniteSet(S), NEW T \in SUBSET S,
           NEW g, SumsOver(f, S, g), NEW h, SumsOver(e, T, h),
           \A x \in T : f[x] = e[x]
    PROVE  \A s \in SUBSET T : g[s] = h[s]
<1> DEFINE Same == {n \in Nat : \A s \in SUBSET T : Cardinality(s) = n => g[s] = h[s]}
<1>a. \A s \in SUBSET T : Cardinality(s) \in Nat /\ (Cardinality(s) = 0 <=> s = {})
  BY FS_Subset, FS_CardinalityType, FS_EmptySet
<1>b. \A s \in SUBSET T :
         /\ g[s] = IF s = {} THEN 0 ELSE f[First(s)] + g[s \ {First(s)}]
         /\ h[s] = IF s = {} THEN 0 ELSE e[First(s)] + h[s \ {First(s)}]
  BY DEF SumsOver
<1>1. 0 \in Same
  BY <1>a, <1>b
<1>2. ASSUME NEW n \in Nat, n \in Same PROVE n + 1 \in Same
  <2> SUFFICES ASSUME NEW s \in SUBSET T, Cardinality(s) = n + 1 PROVE g[s] = h[s]
    OBVIOUS
  <2>1. s # {}
    BY <1>a
  <2>2. IsFiniteSet(T)
    BY FS_Subset
  <2>3. First(s) \in T /\ s \ {First(s)} \in SUBSET T
        /\ Cardinality(s \ {First(s)}) = n
    BY <2>1, <2>2, Rest
  <2>4. g[s \ {First(s)}] = h[s \ {First(s)}]
    BY <1>2, <2>3
  <2> QED
    BY <1>b, <2>1, <2>3, <2>4
<1>3. \A n \in Nat : n \in Same
  <2> HIDE DEF Same
  <2> QED
    BY <1>1, <1>2, AllNaturals
<1> QED
  BY <1>a, <1>3

(* What the operator returns is what the recursion has. *)
LEMMA SumIsOver ==
    ASSUME NEW f, NEW S, IsFiniteSet(S)
    PROVE  \E g : SumsOver(f, S, g) /\ SumFunctionOnSet(f, S) = g[S]
<1>1. SumFunctionOnSet(f, S) =
        (CHOOSE g : g = [s \in SUBSET S |->
             IF s = {} THEN 0
             ELSE f[CHOOSE x \in s : TRUE] + g[s \ {CHOOSE x \in s : TRUE}]])[S]
  BY DEF SumFunctionOnSet, FoldFunctionOnSet, MapThenFoldSet
<1>2. PICK h : SumsOver(f, S, h)
  BY SumsExist
<1>3. h = [s \in SUBSET S |->
             IF s = {} THEN 0
             ELSE f[CHOOSE x \in s : TRUE] + h[s \ {CHOOSE x \in s : TRUE}]]
  BY <1>2 DEF SumsOver, First
<1>4. PICK r : r = CHOOSE g : g = [s \in SUBSET S |->
             IF s = {} THEN 0
             ELSE f[CHOOSE x \in s : TRUE] + g[s \ {CHOOSE x \in s : TRUE}]]
  OBVIOUS
<1>5. r = [s \in SUBSET S |->
             IF s = {} THEN 0
             ELSE f[CHOOSE x \in s : TRUE] + r[s \ {CHOOSE x \in s : TRUE}]]
  <2>1. \E k : k = [s \in SUBSET S |->
             IF s = {} THEN 0
             ELSE f[CHOOSE x \in s : TRUE] + k[s \ {CHOOSE x \in s : TRUE}]]
    BY <1>3
  <2> QED
    BY <1>4, <2>1
<1>6. SumsOver(f, S, r)
  BY <1>5 DEF SumsOver, First
<1> QED
  BY <1>1, <1>4, <1>6

-----------------------------------------------------------------------------
(* Sums *)

(* The sum over no elements is 0; over some, it is the value of the first  *)
(* element and the sum over the others.                                    *)
LEMMA SumFirst ==
    ASSUME NEW f, NEW S, IsFiniteSet(S)
    PROVE  SumFunctionOnSet(f, S) =
              IF S = {} THEN 0
              ELSE f[First(S)] + SumFunctionOnSet(f, S \ {First(S)})
<1>1. PICK g : SumsOver(f, S, g) /\ SumFunctionOnSet(f, S) = g[S]
  BY SumIsOver
<1>2. g[S] = IF S = {} THEN 0 ELSE f[First(S)] + g[S \ {First(S)}]
  BY <1>1 DEF SumsOver
<1>3. PICK T : T = S \ {First(S)}
  OBVIOUS
<1>4. T \in SUBSET S /\ IsFiniteSet(T)
  BY <1>3, FS_Subset
<1>5. PICK h : SumsOver(f, T, h) /\ SumFunctionOnSet(f, T) = h[T]
  BY <1>4, SumIsOver
<1>6. \A s \in SUBSET T : g[s] = h[s]
  BY <1>1, <1>4, <1>5, SumsAgree
<1>7. g[T] = h[T]
  BY <1>6
<1> QED
  BY <1>1, <1>2, <1>3, <1>5, <1>7

(* Functions that agree on a set have the same sum over it. *)
LEMMA SumSame ==
    ASSUME NEW f, NEW e, NEW S, IsFiniteSet(S), \A x \in S : f[x] = e[x]
    PROVE  SumFunctionOnSet(f, S) = SumFunctionOnSet(e, S)
<1>1. PICK g : SumsOver(f, S, g) /\ SumFunctionOnSet(f, S) = g[S]
  BY SumIsOver
<1>2. PICK h : SumsOver(e, S, h) /\ SumFunctionOnSet(e, S) = h[S]
  BY SumIsOver
<1>3. PICK T : T = S
  OBVIOUS
<1>4. \A s \in SUBSET S : g[s] = h[s]
  <2>1. T \in SUBSET S /\ SumsOver(e, T, h) /\ \A x \in T : f[x] = e[x]
    BY <1>2, <1>3
  <2>2. \A s \in SUBSET T : g[s] = h[s]
    BY <1>1, <2>1, SumsAgree
  <2> QED
    BY <1>3, <2>2
<1>5. g[S] = h[S]
  BY <1>4
<1> QED
  BY <1>1, <1>2, <1>5

(* A set that holds 0 and is closed under addition holds the sums of its   *)
(* elements.                                                               *)
LEMMA SumType ==
    ASSUME NEW D, 0 \in D, \A a \in D : \A b \in D : a + b \in D,
           NEW f, NEW S, IsFiniteSet(S), \A x \in S : f[x] \in D
    PROVE  SumFunctionOnSet(f, S) \in D
<1> DEFINE Fine == {n \in Nat : \A s \in SUBSET S :
                       Cardinality(s) = n => SumFunctionOnSet(f, s) \in D}
<1>a. \A s \in SUBSET S : /\ IsFiniteSet(s) /\ Cardinality(s) \in Nat
                           /\ (Cardinality(s) = 0 <=> s = {})
  BY FS_Subset, FS_CardinalityType, FS_EmptySet
<1>1. 0 \in Fine
  <2>1. SumFunctionOnSet(f, {}) = 0
    BY SumFirst, FS_EmptySet
  <2> QED
    BY <1>a, <2>1
<1>2. ASSUME NEW n \in Nat, n \in Fine PROVE n + 1 \in Fine
  <2> SUFFICES ASSUME NEW s \in SUBSET S, Cardinality(s) = n + 1
               PROVE  SumFunctionOnSet(f, s) \in D
    OBVIOUS
  <2>1. s # {} /\ IsFiniteSet(s)
    BY <1>a
  <2>2. SumFunctionOnSet(f, s) = f[First(s)] + SumFunctionOnSet(f, s \ {First(s)})
    BY <2>1, SumFirst
  <2>3. First(s) \in S /\ s \ {First(s)} \in SUBSET S
        /\ Cardinality(s \ {First(s)}) = n
    BY <2>1, Rest
  <2>4. SumFunctionOnSet(f, s \ {First(s)}) \in D
    BY <1>2, <2>3
  <2> QED
    BY <2>2, <2>3, <2>4
<1>3. Cardinality(S) \in Fine
  <2> HIDE DEF Fine
  <2> QED
    BY <1>1, <1>2, AllNaturals, FS_CardinalityType
<1> QED
  BY <1>3

(* The sum over any other order: each element may be taken away first. *)
LEMMA SumRemove ==
    ASSUME NEW f, NEW S, IsFiniteSet(S), \A x \in S : f[x] \in Int
    PROVE  /\ SumFunctionOnSet(f, S) \in Int
           /\ \A x \in S : SumFunctionOnSet(f, S) = f[x] + SumFunctionOnSet(f, S \ {x})
<1> DEFINE Good(s) == /\ SumFunctionOnSet(f, s) \in Int
                      /\ \A x \in s : SumFunctionOnSet(f, s) =
                                          f[x] + SumFunctionOnSet(f, s \ {x})
           Fine == {n \in Nat : \A s \in SUBSET S : Cardinality(s) = n => Good(s)}
<1>a. \A s \in SUBSET S : /\ IsFiniteSet(s) /\ Cardinality(s) \in Nat
                           /\ (Cardinality(s) = 0 <=> s = {})
  BY FS_Subset, FS_CardinalityType, FS_EmptySet
<1>b. \A s \in SUBSET S : \A x \in s :
         s \ {x} \in SUBSET S /\ Cardinality(s \ {x}) = Cardinality(s) - 1
  <2> TAKE s \in SUBSET S
  <2> TAKE x \in s
  <2>1. IsFiniteSet(s)
    BY <1>a
  <2> QED
    BY <2>1, FS_RemoveElement
<1>1. 0 \in Fine
  <2>1. SumFunctionOnSet(f, {}) = 0
    BY SumFirst, FS_EmptySet
  <2>2. Good({})
    BY <2>1
  <2> QED
    BY <1>a, <2>2
<1>2. ASSUME NEW n \in Nat, n \in Fine PROVE n + 1 \in Fine
  <2> SUFFICES ASSUME NEW s \in SUBSET S, Cardinality(s) = n + 1 PROVE Good(s)
    OBVIOUS
  <2>1. PICK a : a = First(s)
    OBVIOUS
  <2>2. s # {} /\ a \in s
    BY <1>a, <2>1 DEF First
  <2>3. PICK t : t = s \ {a}
    OBVIOUS
  <2>4. SumFunctionOnSet(f, s) = f[a] + SumFunctionOnSet(f, t)
    BY <1>a, <2>1, <2>2, <2>3, SumFirst
  <2>5. t \in SUBSET S /\ Cardinality(t) = n
    BY <1>b, <2>2, <2>3
  <2>6. Good(t)
    BY <1>2, <2>5
  <2>7. ASSUME NEW x \in s
        PROVE  SumFunctionOnSet(f, s) = f[x] + SumFunctionOnSet(f, s \ {x})
    <3>1. CASE x = a
      BY <2>3, <2>4, <3>1
    <3>2. CASE x # a
      <4>1. PICK u : u = s \ {x}
        OBVIOUS
      <4>2. u \in SUBSET S /\ Cardinality(u) = n /\ a \in u
        BY <1>b, <2>2, <3>2, <4>1
      <4>3. Good(u)
        BY <1>2, <4>2
      <4>4. SumFunctionOnSet(f, u) = f[a] + SumFunctionOnSet(f, u \ {a})
        BY <4>2, <4>3
      <4>5. x \in t /\ t \ {x} = u \ {a}
        BY <2>3, <3>2, <4>1
      <4>6. SumFunctionOnSet(f, t) = f[x] + SumFunctionOnSet(f, t \ {x})
        BY <2>6, <4>5
      <4>7. u \ {a} \in SUBSET S /\ Cardinality(u \ {a}) = n - 1 /\ n - 1 \in Nat
        BY <1>a, <1>b, <4>2
      <4>8. SumFunctionOnSet(f, u) \in Int /\ f[a] \in Int /\ f[x] \in Int
        BY <2>2, <4>3
      <4>9. SumFunctionOnSet(f, u \ {a}) \in Int
        <5>1. \A y \in u \ {a} : f[y] \in Int
          BY <4>7
        <5>2. IsFiniteSet(u \ {a})
          BY <1>a, <4>7
        <5> QED
          BY <5>1, <5>2, SumType
      <4>10. PICK w : w = SumFunctionOnSet(f, u \ {a})
        OBVIOUS
      <4>11. SumFunctionOnSet(f, t) = f[x] + w
        BY <4>5, <4>6, <4>10
      <4>12. SumFunctionOnSet(f, u) = f[a] + w
        BY <4>4, <4>10
      <4>13. f[a] + (f[x] + w) = f[x] + (f[a] + w)
        BY <4>8, <4>9, <4>10
      <4>14. SumFunctionOnSet(f, s) = f[x] + SumFunctionOnSet(f, u)
        BY <2>4, <4>11, <4>12, <4>13
      <4> QED
        BY <4>1, <4>14
    <3> QED
      BY <3>1, <3>2
  <2> QED
    BY <2>2, <2>4, <2>6, <2>7
<1>3. Cardinality(S) \in Fine
  <2> HIDE DEF Fine
  <2> QED
    BY <1>1, <1>2, AllNaturals, FS_CardinalityType
<1> QED
  BY <1>3

(* Sums of integers, and of naturals. *)
LEMMA SumInt ==
    ASSUME NEW f, NEW S, IsFiniteSet(S), \A x \in S : f[x] \in Int
    PROVE  SumFunctionOnSet(f, S) \in Int
  BY SumRemove

(* Naturals add up to a natural. *)
LEMMA SumNat ==
    ASSUME NEW f, NEW S, IsFiniteSet(S), \A x \in S : f[x] \in Nat
    PROVE  SumFunctionOnSet(f, S) \in Nat
<1>1. 0 \in Nat /\ \A a \in Nat : \A b \in Nat : a + b \in Nat
  OBVIOUS
<1> QED
  BY <1>1, SumType

(* Zeros add up to zero. *)
LEMMA SumZero ==
    ASSUME NEW f, NEW S, IsFiniteSet(S), \A x \in S : f[x] = 0
    PROVE  SumFunctionOnSet(f, S) = 0
<1>1. PICK D : D = {0}
  OBVIOUS
<1>2. SumFunctionOnSet(f, S) \in D
  BY <1>1, SumType
<1> QED
  BY <1>1, <1>2

(* Changing the value at one element changes the sum by as much. *)
LEMMA SumChange ==
    ASSUME NEW f, NEW e, NEW S, IsFiniteSet(S), NEW x \in S,
           \A y \in S : f[y] \in Int /\ e[y] \in Int,
           \A y \in S \ {x} : e[y] = f[y]
    PROVE  SumFunctionOnSet(e, S) = SumFunctionOnSet(f, S) + (e[x] - f[x])
<1>1. IsFiniteSet(S \ {x})
  BY FS_Subset
<1>2. SumFunctionOnSet(e, S \ {x}) = SumFunctionOnSet(f, S \ {x})
  BY <1>1, SumSame
<1>3. SumFunctionOnSet(f, S \ {x}) \in Int
  BY <1>1, SumInt
<1>4. SumFunctionOnSet(f, S) = f[x] + SumFunctionOnSet(f, S \ {x})
  BY SumRemove
<1>5. SumFunctionOnSet(e, S) = e[x] + SumFunctionOnSet(e, S \ {x})
  BY SumRemove
<1> QED
  BY <1>2, <1>3, <1>4, <1>5

(* A sum over one more element. *)
LEMMA SumAdd ==
    ASSUME NEW f, NEW S, IsFiniteSet(S), NEW x, x \notin S,
           f[x] \in Int, \A y \in S : f[y] \in Int
    PROVE  SumFunctionOnSet(f, S \cup {x}) = SumFunctionOnSet(f, S) + f[x]
<1>1. PICK T : T = S \cup {x}
  OBVIOUS
<1>2. IsFiniteSet(T)
  BY <1>1, FS_AddElement
<1>3. T \ {x} = S /\ x \in T /\ \A y \in T : f[y] \in Int
  BY <1>1
<1>4. SumFunctionOnSet(f, T) = f[x] + SumFunctionOnSet(f, T \ {x})
  BY <1>2, <1>3, SumRemove
<1>5. SumFunctionOnSet(f, S) \in Int
  BY SumInt
<1>6. SumFunctionOnSet(f, T) = f[x] + SumFunctionOnSet(f, S)
  BY <1>3, <1>4
<1>7. f[x] + SumFunctionOnSet(f, S) = SumFunctionOnSet(f, S) + f[x]
  BY <1>5
<1> QED
  BY <1>1, <1>6, <1>7

(* Sums add up element by element. *)
LEMMA SumPlus ==
    ASSUME NEW f, NEW e, NEW g, NEW S, IsFiniteSet(S),
           \A x \in S : f[x] \in Int /\ e[x] \in Int /\ g[x] = f[x] + e[x]
    PROVE  SumFunctionOnSet(g, S) = SumFunctionOnSet(f, S) + SumFunctionOnSet(e, S)
<1> DEFINE Fine == {n \in Nat : \A s \in SUBSET S : Cardinality(s) = n =>
                       SumFunctionOnSet(g, s) =
                           SumFunctionOnSet(f, s) + SumFunctionOnSet(e, s)}
<1>a. \A s \in SUBSET S : /\ IsFiniteSet(s) /\ Cardinality(s) \in Nat
                           /\ (Cardinality(s) = 0 <=> s = {})
  BY FS_Subset, FS_CardinalityType, FS_EmptySet
<1>1. 0 \in Fine
  <2>1. /\ SumFunctionOnSet(f, {}) = 0 /\ SumFunctionOnSet(e, {}) = 0
        /\ SumFunctionOnSet(g, {}) = 0
    BY SumFirst, FS_EmptySet
  <2>2. \A s \in SUBSET S : Cardinality(s) = 0 => s = {}
    BY <1>a
  <2>3. SumFunctionOnSet(g, {}) = SumFunctionOnSet(f, {}) + SumFunctionOnSet(e, {})
    BY <2>1
  <2> QED
    BY <2>2, <2>3
<1>2. ASSUME NEW n \in Nat, n \in Fine PROVE n + 1 \in Fine
  <2> SUFFICES ASSUME NEW s \in SUBSET S, Cardinality(s) = n + 1
               PROVE  SumFunctionOnSet(g, s) =
                          SumFunctionOnSet(f, s) + SumFunctionOnSet(e, s)
    OBVIOUS
  <2>1. s # {} /\ IsFiniteSet(s)
    BY <1>a
  <2>2. PICK a : a = First(s)
    OBVIOUS
  <2>3. PICK t : t = s \ {a}
    OBVIOUS
  <2>4. a \in S /\ t \in SUBSET S /\ Cardinality(t) = n /\ IsFiniteSet(t)
    <3>1. /\ First(s) \in s /\ s \ {First(s)} \in SUBSET S
          /\ Cardinality(s \ {First(s)}) = Cardinality(s) - 1
      BY <2>1, Rest
    <3> QED
      BY <1>a, <2>2, <2>3, <3>1
  <2>5. SumFunctionOnSet(f, s) = f[a] + SumFunctionOnSet(f, t)
    BY <2>1, <2>2, <2>3, SumFirst
  <2>6. SumFunctionOnSet(e, s) = e[a] + SumFunctionOnSet(e, t)
    BY <2>1, <2>2, <2>3, SumFirst
  <2>7. SumFunctionOnSet(g, s) = g[a] + SumFunctionOnSet(g, t)
    BY <2>1, <2>2, <2>3, SumFirst
  <2>8. SumFunctionOnSet(g, t) = SumFunctionOnSet(f, t) + SumFunctionOnSet(e, t)
    BY <1>2, <2>4
  <2>9. SumFunctionOnSet(f, t) \in Int /\ SumFunctionOnSet(e, t) \in Int
    BY <2>4, SumInt
  <2> QED
    BY <2>4, <2>5, <2>6, <2>7, <2>8, <2>9
<1>3. Cardinality(S) \in Fine
  <2> HIDE DEF Fine
  <2> QED
    BY <1>1, <1>2, AllNaturals, FS_CardinalityType
<1> QED
  BY <1>3

(* A sum in which others count nothing is that over some of the elements.  *)
LEMMA SumFiltered ==
    ASSUME NEW f, NEW g, NEW S, IsFiniteSet(S), NEW T \in SUBSET S,
           \A x \in T : f[x] \in Int /\ g[x] = f[x],
           \A x \in S \ T : g[x] = 0
    PROVE  SumFunctionOnSet(g, S) = SumFunctionOnSet(f, T)
<1> DEFINE Fine == {n \in Nat : \A s \in SUBSET S : Cardinality(s) = n =>
                       SumFunctionOnSet(g, s) = SumFunctionOnSet(f, s \cap T)}
<1>a. \A s \in SUBSET S : /\ IsFiniteSet(s) /\ Cardinality(s) \in Nat
                           /\ (Cardinality(s) = 0 <=> s = {})
  BY FS_Subset, FS_CardinalityType, FS_EmptySet
<1>b. ASSUME NEW s \in SUBSET S PROVE IsFiniteSet(s \cap T)
  <2>1. s \cap T \in SUBSET S
    OBVIOUS
  <2> QED
    BY <2>1, FS_Subset
<1>1. 0 \in Fine
  <2>1. SumFunctionOnSet(g, {}) = 0 /\ SumFunctionOnSet(f, {}) = 0
    BY SumFirst, FS_EmptySet
  <2>2. ASSUME NEW s \in SUBSET S, Cardinality(s) = 0 PROVE s = {} /\ s \cap T = {}
    BY <1>a, <2>2
  <2>3. ASSUME NEW s \in SUBSET S, Cardinality(s) = 0
        PROVE  SumFunctionOnSet(g, s) = SumFunctionOnSet(f, s \cap T)
    BY <2>1, <2>2, <2>3
  <2> QED
    BY <2>3
<1>2. ASSUME NEW n \in Nat, n \in Fine PROVE n + 1 \in Fine
  <2> SUFFICES ASSUME NEW s \in SUBSET S, Cardinality(s) = n + 1
               PROVE  SumFunctionOnSet(g, s) = SumFunctionOnSet(f, s \cap T)
    OBVIOUS
  <2>1. s # {} /\ IsFiniteSet(s)
    BY <1>a
  <2>2. PICK a : a = First(s)
    OBVIOUS
  <2>3. PICK t : t = s \ {a}
    OBVIOUS
  <2>4. /\ a \in s /\ a \in S /\ t \in SUBSET S /\ Cardinality(t) = n
        /\ IsFiniteSet(s \cap T) /\ IsFiniteSet(t \cap T)
    <3>1. /\ First(s) \in s /\ s \ {First(s)} \in SUBSET S
          /\ Cardinality(s \ {First(s)}) = Cardinality(s) - 1
      BY <2>1, Rest
    <3> QED
      BY <1>a, <1>b, <2>2, <2>3, <3>1
  <2>5. SumFunctionOnSet(g, s) = g[a] + SumFunctionOnSet(g, t)
    BY <2>1, <2>2, <2>3, SumFirst
  <2>6. SumFunctionOnSet(g, t) = SumFunctionOnSet(f, t \cap T)
    BY <1>2, <2>4
  <2>7. PICK u : u = t \cap T
    OBVIOUS
  <2>8. PICK v : v = s \cap T
    OBVIOUS
  <2>9. \A x \in v : f[x] \in Int
    BY <2>8
  <2>10. SumFunctionOnSet(f, u) \in Int
    BY <2>4, <2>7, SumInt
  <2>11. CASE a \in T
    <3>1. a \in v /\ v \ {a} = u /\ IsFiniteSet(v)
      BY <2>3, <2>4, <2>7, <2>8, <2>11
    <3>2. SumFunctionOnSet(f, v) = f[a] + SumFunctionOnSet(f, u)
      BY <2>9, <3>1, SumRemove
    <3> QED
      BY <2>5, <2>6, <2>7, <2>8, <2>11, <3>2
  <2>12. CASE a \notin T
    <3>1. v = u /\ g[a] = 0
      BY <2>3, <2>4, <2>7, <2>8, <2>12
    <3> QED
      BY <2>5, <2>6, <2>7, <2>8, <2>10, <3>1
  <2> QED
    BY <2>11, <2>12
<1>3. Cardinality(S) \in Fine
  <2> HIDE DEF Fine
  <2> QED
    BY <1>1, <1>2, AllNaturals, FS_CardinalityType
<1>4. S \cap T = T
  OBVIOUS
<1> QED
  BY <1>3, <1>4

(* Sums over a list *)

(* A sum over one more index. *)
LEMMA SumNext ==
    ASSUME NEW n \in Nat, NEW f, \A k \in 1 .. n + 1 : f[k] \in Int
    PROVE  SumFunctionOnSet(f, 1 .. n + 1) = SumFunctionOnSet(f, 1 .. n) + f[n + 1]
<1>1. PICK S : S = 1 .. n
  OBVIOUS
<1>2. PICK T : T = 1 .. n + 1
  OBVIOUS
<1>3. PICK x : x = n + 1
  OBVIOUS
<1>4. IsFiniteSet(S)
  BY <1>1, FS_Interval
<1>5. T = S \cup {x} /\ x \notin S /\ f[x] \in Int /\ \A y \in S : f[y] \in Int
  BY <1>1, <1>2, <1>3
<1>6. SumFunctionOnSet(f, S \cup {x}) = SumFunctionOnSet(f, S) + f[x]
  BY <1>4, <1>5, SumAdd
<1> QED
  BY <1>1, <1>2, <1>3, <1>5, <1>6

-----------------------------------------------------------------------------
(* The reconciliation of a bank account *)

(* Rows, lines and calls. *)
ClearType ==
    /\ reconciliation \in [Reconciliations -> ReconciliationRow \cup {NoRow}]
    /\ bankLine \in [BankLines -> [rec : Reconciliations \cup {NoRow}, posted : BOOLEAN]]
    /\ clearing \in [Clerks -> TickCall \cup MatchCall \cup CompleteCall \cup {NoRow}]
    /\ checked = [r \in Reconciliations |-> checked[r]]
    /\ closing = [r \in Reconciliations |-> closing[r]]

(* Calls work on reconciliations that exist, and lines are cleared in them. *)
StartedOnes ==
    /\ \A c \in Clerks : clearing[c] # NoRow => reconciliation[clearing[c].rec] # NoRow
    /\ \A l \in BankLines : bankLine[l].rec # NoRow => reconciliation[bankLine[l].rec] # NoRow

(* What has been found in balance exists. *)
CheckedExist ==
    \A r \in Reconciliations : checked[r] # NoRow => reconciliation[r] # NoRow

(* A call that is alone on its reconciliation is. *)
AloneAreAlone ==
    \A c, d \in Clerks :
        /\ clearing[c] # NoRow /\ clearing[c].alone
        /\ clearing[d] # NoRow /\ clearing[d].rec = clearing[c].rec
        => d = c

(* A line is ticked on the reconciliation that the call works on. *)
TicksFit ==
    \A c \in Clerks : clearing[c] # NoRow /\ clearing[c].step = "tick" =>
        clearing[c].to \in {NoRow, clearing[c].rec}

(* What a call that is alone has read is still so. *)
ClearingFits(c) ==
    LET call == clearing[c]
        r == call.rec
    IN
    call # NoRow /\ call.alone =>
        /\ call.step = "write" => call.sum = Clear!Sum(Clear!LinesOf(r))
        /\ call.step = "matched" => call.sum = Clear!Sum(Clear!LinesOf(r) \cup {call.line})
        /\ call.step = "weigh" => call.row = reconciliation[r]
        /\ call.step = "complete" /\ r \notin astray /\ ~call.force =>
              call.total = reconciliation[r].statement

(* Nobody has ticked a line of it and not yet written the sum. *)
NothingTicked(r) ==
    \A c \in Clerks : clearing[c] # NoRow /\ clearing[c].rec = r =>
        clearing[c].step \notin {"sum", "write"}

ClearedFits(r) ==
    reconciliation[r] # NoRow /\ r \notin astray /\ NothingTicked(r) =>
        reconciliation[r].cleared = Clear!Sum(Clear!LinesOf(r))

(* Whoever works on a reconciliation that is completed is not alone, and   *)
(* it is astray.                                                           *)
ClosedFits(r) ==
    reconciliation[r] # NoRow /\ reconciliation[r].status = "completed" =>
        /\ \A c \in Clerks : clearing[c] # NoRow /\ clearing[c].rec = r => ~clearing[c].alone
        /\ r \notin astray =>
              /\ \A c \in Clerks : clearing[c] # NoRow => clearing[c].rec # r
              /\ Clear!LinesOf(r) = closing[r]

ClearInv ==
    /\ ClearType
    /\ StartedOnes
    /\ CheckedExist
    /\ TicksFit
    /\ AloneAreAlone
    /\ \A c \in Clerks : ClearingFits(c)
    /\ \A r \in Reconciliations : ClearedFits(r) /\ ClosedFits(r)
    /\ Clear!BalancedWhenCompleted

(* Calls that clear lines or complete reconciliations. *)
ClearCall == TickCall \cup MatchCall \cup CompleteCall

(* What becomes of a call in a step of another one: nothing, or it is no   *)
(* longer alone.                                                           *)
Left(x, y) == y = x \/ (x # NoRow /\ y = [x EXCEPT !.alone = FALSE])

(* The fields of a call. *)
LEMMA CallFields ==
    ASSUME NEW x \in ClearCall
    PROVE  /\ x.rec \in Reconciliations /\ x.alone \in BOOLEAN
           /\ x.step \in {"tick", "sum", "write"} => x \in TickCall
           /\ x.step \in {"match", "matched"} => x \in MatchCall
           /\ x.step \in {"weigh", "complete"} => x \in CompleteCall
           /\ x # NoRow
<1>1. CASE x \in TickCall
  BY <1>1, NoRowAssumption DEF TickCall
<1>2. CASE x \in MatchCall
  BY <1>2, NoRowAssumption DEF MatchCall
<1>3. CASE x \in CompleteCall
  BY <1>3, NoRowAssumption DEF CompleteCall
<1> QED
  BY <1>1, <1>2, <1>3 DEF ClearCall

(* A call that is no longer alone is a call, and otherwise as it was. *)
LEMMA LeftFields ==
    ASSUME NEW x \in ClearCall \cup {NoRow}, NEW y, Left(x, y)
    PROVE  /\ y \in ClearCall \cup {NoRow}
           /\ x = NoRow <=> y = NoRow
           /\ x # NoRow => y.rec = x.rec /\ y.step = x.step /\ (y.alone => y = x)
           /\ x \in TickCall => y.to = x.to
<1>1. CASE y = x
  BY <1>1
<1>2. CASE x # NoRow /\ y = [x EXCEPT !.alone = FALSE]
  <2>1. CASE x \in TickCall
    <3>1. y \in TickCall /\ y.rec = x.rec /\ y.step = x.step /\ ~y.alone /\ y.to = x.to
      BY <1>2, <2>1 DEF TickCall
    <3> QED
      BY <1>2, <3>1, NoRowAssumption DEF ClearCall
  <2>2. CASE x \in MatchCall
    <3>2. x \notin TickCall
      BY <2>2 DEF TickCall, MatchCall
    <3>1. y \in MatchCall /\ y.rec = x.rec /\ y.step = x.step /\ ~y.alone
      BY <1>2, <2>2 DEF MatchCall
    <3> QED
      BY <1>2, <3>1, <3>2, NoRowAssumption DEF ClearCall
  <2>3. CASE x \in CompleteCall
    <3>2. x \notin TickCall
      BY <2>3 DEF TickCall, CompleteCall
    <3>1. y \in CompleteCall /\ y.rec = x.rec /\ y.step = x.step /\ ~y.alone
      BY <1>2, <2>3 DEF CompleteCall
    <3> QED
      BY <1>2, <3>1, <3>2, NoRowAssumption DEF ClearCall
  <2> QED
    BY <1>2, <2>1, <2>2, <2>3 DEF ClearCall
<1> QED
  BY <1>1, <1>2 DEF Left

(* What others see of a step of c that works on r. *)
ActsOn(c, r) ==
    /\ \A d \in Clerks \ {c} : Left(clearing[d], clearing'[d])
    /\ clearing[c] # NoRow => clearing[c].rec = r
    /\ clearing'[c] # NoRow => clearing'[c].rec = r
    /\ \A q \in Reconciliations \ {r} :
          /\ reconciliation'[q] = reconciliation[q]
          /\ checked'[q] = checked[q] /\ closing'[q] = closing[q]
          /\ q \in astray => q \in astray'
          /\ \/ Clear!LinesOf(q)' = Clear!LinesOf(q)
             \/ /\ q \in astray'
                /\ \A d \in Clerks : clearing[d] # NoRow /\ clearing[d].rec = q =>
                       ~clearing'[d].alone

(* What has to be shown of the call and of its reconciliation. *)
FitsHere(c, r) ==
    /\ clearing[c] # NoRow \/ \A d \in Clerks \ {c} :
                                 clearing'[d] # NoRow /\ clearing'[d].rec = r => ~clearing'[d].alone
    /\ clearing'[c] # NoRow /\ clearing'[c].alone =>
          \A d \in Clerks \ {c} : clearing[d] # NoRow => clearing[d].rec # r
    /\ reconciliation'[r] # NoRow
    /\ clearing'[c] # NoRow /\ clearing'[c].step = "tick" => clearing'[c].to \in {NoRow, r}
    /\ ClearingFits(c)'
    /\ ClearedFits(r)' /\ ClosedFits(r)'
    /\ checked'[r] # NoRow => checked'[r] = reconciliation'[r].statement
    /\ \A l \in BankLines : bankLine'[l].rec # NoRow => reconciliation'[bankLine'[l].rec] # NoRow

(* Then the invariant holds everywhere. *)
LEMMA ClearStepFits ==
    ASSUME ClearInv, ClearType', NEW c \in Clerks, NEW r \in Reconciliations,
           ActsOn(c, r), FitsHere(c, r)
    PROVE  ClearInv'
<1>1. \A d \in Clerks : clearing[d] \in ClearCall \cup {NoRow}
  BY DEF ClearInv, ClearType, ClearCall
<1>2. ASSUME NEW d \in Clerks \ {c}
      PROVE  /\ clearing[d] = NoRow <=> clearing'[d] = NoRow
             /\ clearing[d] # NoRow => /\ clearing'[d].rec = clearing[d].rec
                                       /\ clearing'[d].step = clearing[d].step
                                       /\ clearing'[d].alone => clearing'[d] = clearing[d]
  BY <1>1, LeftFields DEF ActsOn
<1>3. StartedOnes'
  <2>1. ASSUME NEW d \in Clerks, clearing'[d] # NoRow
        PROVE  reconciliation'[clearing'[d].rec] # NoRow
    <3>1. CASE d = c
      BY <2>1, <3>1 DEF ActsOn, FitsHere
    <3>2. CASE d # c
      <4>1. clearing[d] # NoRow /\ clearing'[d].rec = clearing[d].rec
        BY <1>2, <2>1, <3>2
      <4>2. reconciliation[clearing[d].rec] # NoRow /\ clearing[d].rec \in Reconciliations
        BY <1>1, <4>1, CallFields DEF ClearInv, StartedOnes
      <4> QED
        BY <4>1, <4>2 DEF ActsOn, FitsHere
    <3> QED
      BY <3>1, <3>2
  <2> QED
    BY <2>1 DEF StartedOnes, FitsHere
<1>4. AloneAreAlone'
  <2> SUFFICES ASSUME NEW d \in Clerks, NEW e \in Clerks,
                      clearing'[d] # NoRow, clearing'[d].alone,
                      clearing'[e] # NoRow, clearing'[e].rec = clearing'[d].rec, e # d
               PROVE  FALSE
    BY DEF AloneAreAlone
  <2>1. CASE d = c
    BY <1>2, <2>1 DEF ActsOn, FitsHere
  <2>2. CASE d # c /\ e = c
    <3>1. clearing'[d].rec = r
      BY <2>2 DEF ActsOn
    <3>2. clearing[c] # NoRow
      BY <2>2, <3>1 DEF FitsHere
    <3>3. clearing[c].rec = r /\ clearing[d] # NoRow /\ clearing[d].rec = r /\ clearing[d].alone
      BY <1>2, <2>2, <3>1, <3>2 DEF ActsOn
    <3> QED
      BY <2>2, <3>2, <3>3 DEF ClearInv, AloneAreAlone
  <2>3. CASE d # c /\ e # c
    <3>1. /\ clearing[d] # NoRow /\ clearing[d].alone /\ clearing[e] # NoRow
          /\ clearing[e].rec = clearing[d].rec
      BY <1>2, <2>3
    <3> QED
      BY <3>1 DEF ClearInv, AloneAreAlone
  <2> QED
    BY <2>1, <2>2, <2>3
<1>5. ASSUME NEW d \in Clerks \ {c} PROVE ClearingFits(d)'
  <2>1. CASE clearing'[d] # NoRow /\ clearing'[d].alone
    <3>1. PICK q : q = clearing[d].rec
      OBVIOUS
    <3>2. /\ clearing[d] # NoRow /\ clearing'[d] = clearing[d] /\ q \in Reconciliations
          /\ clearing[d].alone
      BY <1>1, <1>2, <2>1, <3>1, CallFields
    <3>3. q # r
      <4>1. CASE clearing[c] = NoRow
        BY <2>1, <3>1, <3>2, <4>1 DEF FitsHere
      <4>2. CASE clearing[c] # NoRow
        BY <3>1, <3>2, <4>2 DEF ActsOn, ClearInv, AloneAreAlone
      <4> QED
        BY <4>1, <4>2
    <3>4. /\ reconciliation'[q] = reconciliation[q]
          /\ q \in astray => q \in astray'
          /\ Clear!LinesOf(q)' = Clear!LinesOf(q)
      BY <2>1, <3>1, <3>2, <3>3 DEF ActsOn
    <3>5. ClearingFits(d)
      BY DEF ClearInv
    <3> QED
      BY <3>1, <3>2, <3>4, <3>5 DEF ClearingFits
  <2> QED
    BY <2>1 DEF ClearingFits
<1>6. ASSUME NEW q \in Reconciliations \ {r} PROVE ClearedFits(q)' /\ ClosedFits(q)'
  <2>1. /\ reconciliation'[q] = reconciliation[q] /\ closing'[q] = closing[q]
        /\ q \in astray => q \in astray'
        /\ q \in astray' \/ Clear!LinesOf(q)' = Clear!LinesOf(q)
    BY <1>6 DEF ActsOn
  <2>2. ClearedFits(q) /\ ClosedFits(q)
    BY DEF ClearInv
  <2>3. \A d \in Clerks :
           /\ clearing'[d] # NoRow /\ clearing'[d].rec = q <=>
                  clearing[d] # NoRow /\ clearing[d].rec = q
           /\ clearing[d] # NoRow /\ clearing[d].rec = q =>
                  /\ clearing'[d].step = clearing[d].step
                  /\ clearing'[d].alone => clearing[d].alone
    BY <1>2, <1>6 DEF ActsOn
  <2>4. ClearedFits(q)'
    BY <2>1, <2>2, <2>3 DEF ClearedFits, NothingTicked
  <2>5. ClosedFits(q)'
    BY <2>1, <2>2, <2>3 DEF ClosedFits
  <2> QED
    BY <2>4, <2>5
<1>7. Clear!BalancedWhenCompleted'
  <2> SUFFICES ASSUME NEW q \in Reconciliations, checked'[q] # NoRow
               PROVE  checked'[q] = reconciliation'[q].statement
    BY DEF Clear!BalancedWhenCompleted
  <2>1. CASE q = r
    BY <2>1 DEF FitsHere
  <2>2. CASE q # r
    BY <2>2 DEF ActsOn, ClearInv, Clear!BalancedWhenCompleted
  <2> QED
    BY <2>1, <2>2
<1>10. TicksFit'
  <2>1. ASSUME NEW d \in Clerks, clearing'[d] # NoRow, clearing'[d].step = "tick"
        PROVE  clearing'[d].to \in {NoRow, clearing'[d].rec}
    <3>1. CASE d = c
      BY <2>1, <3>1 DEF FitsHere, ActsOn
    <3>2. CASE d # c
      <4>1. /\ clearing[d] \in ClearCall \cup {NoRow} /\ clearing[d] # NoRow
            /\ clearing[d].step = "tick" /\ clearing'[d].rec = clearing[d].rec
        BY <1>1, <1>2, <2>1, <3>2
      <4>2. clearing[d] \in TickCall
        BY <4>1, CallFields
      <4>3. clearing'[d].to = clearing[d].to
        BY <3>2, <4>1, <4>2, LeftFields DEF ActsOn
      <4> QED
        BY <4>1, <4>3 DEF ClearInv, TicksFit
    <3> QED
      BY <3>1, <3>2
  <2> QED
    BY <2>1 DEF TicksFit
<1>11. CheckedExist'
  <2> SUFFICES ASSUME NEW q \in Reconciliations, checked'[q] # NoRow
               PROVE  reconciliation'[q] # NoRow
    BY DEF CheckedExist
  <2>1. CASE q = r
    BY <2>1 DEF FitsHere
  <2>2. CASE q # r
    BY <2>2 DEF ActsOn, ClearInv, CheckedExist
  <2> QED
    BY <2>1, <2>2
<1>8. \A d \in Clerks : ClearingFits(d)'
  BY <1>5 DEF FitsHere
<1>9. \A q \in Reconciliations : ClearedFits(q)' /\ ClosedFits(q)'
  BY <1>6 DEF FitsHere
<1> QED
  BY <1>3, <1>4, <1>7, <1>8, <1>9, <1>10, <1>11 DEF ClearInv

(* What the lines of a reconciliation add up to is a number. *)
LEMMA ClearedSum ==
    ASSUME NEW S \in SUBSET BankLines
    PROVE  Clear!Sum(S) \in Int
<1>1. IsFiniteSet(S)
  BY BookIdentifiersAssumption, FS_Subset
<1>2. \A l \in S : LineAmount[l] \in Int
  BY BookAmountsAssumption
<1>3. Clear!Sum(S) = SumFunctionOnSet(LineAmount, S)
  BY DEF Clear!Sum, Clear!MapThenSumSet, Clear!MapThenFoldSet, SumFunctionOnSet,
         FoldFunctionOnSet, MapThenFoldSet
<1> QED
  BY <1>1, <1>2, <1>3, SumInt

(* No lines add up to nothing. *)
LEMMA NothingCleared == Clear!Sum({}) = 0
<1>1. Clear!Sum({}) = SumFunctionOnSet(LineAmount, {})
  BY DEF Clear!Sum, Clear!MapThenSumSet, Clear!MapThenFoldSet, SumFunctionOnSet,
         FoldFunctionOnSet, MapThenFoldSet
<1> QED
  BY <1>1, FS_EmptySet, SumFirst

(* A call, in the invariant, and its reconciliation. *)
LEMMA ClearingNow ==
    ASSUME ClearInv, NEW c \in Clerks, clearing[c] # NoRow
    PROVE  /\ clearing[c] \in ClearCall /\ clearing[c].rec \in Reconciliations
           /\ reconciliation[clearing[c].rec] # NoRow
           /\ reconciliation[clearing[c].rec] \in ReconciliationRow
           /\ reconciliation[clearing[c].rec].status = "completed" =>
                 clearing[c].rec \in astray /\ ~clearing[c].alone
<1>1. clearing[c] \in ClearCall
  BY DEF ClearInv, ClearType, ClearCall
<1>2. clearing[c].rec \in Reconciliations
  BY <1>1, CallFields
<1>3. /\ reconciliation[clearing[c].rec] # NoRow
      /\ reconciliation[clearing[c].rec] \in ReconciliationRow
  BY <1>2 DEF ClearInv, ClearType, StartedOnes
<1> QED
  BY <1>1, <1>2, <1>3 DEF ClearInv, ClosedFits

(* One call goes on, and others who work on r are no longer alone. *)
LEMMA MeetEffect ==
    ASSUME ClearType, NEW c \in Clerks, NEW r \in Reconciliations,
           NEW call \in ClearCall \cup {NoRow}, clearing' = Clear!Meet(c, call, r)
    PROVE  /\ clearing' \in [Clerks -> ClearCall \cup {NoRow}]
           /\ clearing'[c] = call
           /\ \A d \in Clerks \ {c} : Left(clearing[d], clearing'[d])
           /\ \A d \in Clerks \ {c} :
                 clearing[d] # NoRow /\ clearing[d].rec = r => ~clearing'[d].alone
<1>1. \A d \in Clerks : clearing[d] \in ClearCall \cup {NoRow}
  BY DEF ClearType, ClearCall
<1>2. \A d \in Clerks : clearing'[d] =
         IF d = c THEN call
         ELSE IF clearing[d] # NoRow /\ clearing[d].rec = r THEN [clearing[d] EXCEPT !.alone = FALSE]
         ELSE clearing[d]
  BY DEF Clear!Meet, Clear!On
<1>3. ASSUME NEW d \in Clerks \ {c} PROVE Left(clearing[d], clearing'[d])
  BY <1>2 DEF Left
<1>4. \A d \in Clerks : clearing'[d] \in ClearCall \cup {NoRow}
  <2>1. ASSUME NEW d \in Clerks \ {c} PROVE clearing'[d] \in ClearCall \cup {NoRow}
    BY <1>1, <1>3, LeftFields
  <2> QED
    BY <1>2, <2>1
<1>5. clearing' \in [Clerks -> ClearCall \cup {NoRow}]
  BY <1>4 DEF Clear!Meet
<1>6. ASSUME NEW d \in Clerks \ {c}, clearing[d] # NoRow, clearing[d].rec = r
      PROVE  ~clearing'[d].alone
  <2>1. clearing'[d] = [clearing[d] EXCEPT !.alone = FALSE]
    BY <1>2, <1>6
  <2>2. clearing[d] \in ClearCall
    BY <1>1, <1>6
  <2> QED
    BY <2>1, <2>2 DEF ClearCall, TickCall, MatchCall, CompleteCall
<1> QED
  BY <1>2, <1>3, <1>5, <1>6

(* One call goes on or ends; the others are as they were. *)
LEMMA GoOnEffect ==
    ASSUME ClearType, NEW c \in Clerks, NEW call \in ClearCall \cup {NoRow},
           clearing' = [clearing EXCEPT ![c] = call]
    PROVE  /\ clearing' \in [Clerks -> ClearCall \cup {NoRow}]
           /\ clearing'[c] = call
           /\ \A d \in Clerks \ {c} : Left(clearing[d], clearing'[d]) /\ clearing'[d] = clearing[d]
BY DEF ClearType, ClearCall, Left

(* While a reconciliation is completed, its calls find it astray. *)
LEMMA ClosedStays ==
    ASSUME ClearInv, NEW c \in Clerks, NEW r \in Reconciliations, ActsOn(c, r),
           clearing[c] # NoRow,
           reconciliation'[r].status = reconciliation[r].status,
           r \in astray => r \in astray' \/ clearing[c].alone,
           clearing'[c] # NoRow /\ clearing'[c].alone => clearing[c].alone
    PROVE  ClosedFits(r)'
<1> SUFFICES ASSUME reconciliation'[r].status = "completed"
             PROVE  /\ \A d \in Clerks : clearing'[d] # NoRow /\ clearing'[d].rec = r =>
                           ~clearing'[d].alone
                    /\ r \in astray'
  BY DEF ClosedFits
<1>1. clearing[c].rec = r
  BY DEF ActsOn
<1>2. r \in astray /\ ~clearing[c].alone
  BY <1>1, ClearingNow
<1>3. ASSUME NEW d \in Clerks \ {c}, clearing'[d] # NoRow, clearing'[d].rec = r, clearing'[d].alone
      PROVE  FALSE
  <2>1. clearing[d] \in ClearCall \cup {NoRow} /\ Left(clearing[d], clearing'[d])
    BY DEF ClearInv, ClearType, ClearCall, ActsOn
  <2>2. clearing[d] # NoRow /\ clearing'[d] = clearing[d]
    BY <1>3, <2>1, LeftFields
  <2> QED
    BY <1>3, <1>1, <2>2 DEF ClearInv, AloneAreAlone
<1> QED
  BY <1>2, <1>3

(* A call begins. *)
LEMMA BeginFits ==
    ASSUME ClearInv, NEW c \in Clerks, NEW call \in ClearCall,
           Clear!Begin(c, call), call.step \in {"tick", "match", "weigh"},
           call.alone <=> Clear!On(call.rec) = {},
           call.step = "tick" => call.to \in {NoRow, call.rec},
           call.step = "weigh" => call.row = reconciliation[call.rec],
           UNCHANGED <<reconciliation, bankLine, astray, checked, closing>>
    PROVE  ClearInv'
<1>1. PICK r : r = call.rec
  OBVIOUS
<1>2. r \in Reconciliations /\ reconciliation[r] # NoRow /\ reconciliation[r].status = "open"
  BY <1>1, CallFields DEF Clear!Begin, Clear!Open
<1>3. /\ clearing' \in [Clerks -> ClearCall \cup {NoRow}]
      /\ clearing'[c] = call
      /\ \A d \in Clerks \ {c} : Left(clearing[d], clearing'[d])
      /\ \A d \in Clerks \ {c} :
            clearing[d] # NoRow /\ clearing[d].rec = r => ~clearing'[d].alone
  BY <1>1, <1>2, MeetEffect DEF ClearInv, Clear!Begin
<1>4. clearing[c] = NoRow
  BY DEF Clear!Begin
<1>5. \A q : Clear!LinesOf(q)' = Clear!LinesOf(q)
  BY DEF Clear!LinesOf
<1>6. ClearType'
  BY <1>3 DEF ClearInv, ClearType, ClearCall
<1>7. ActsOn(c, r)
  BY <1>1, <1>3, <1>4, <1>5 DEF ActsOn
<1>8. \A d \in Clerks \ {c} :
         /\ clearing'[d] # NoRow <=> clearing[d] # NoRow
         /\ clearing[d] # NoRow =>
               clearing'[d].rec = clearing[d].rec /\ clearing'[d].step = clearing[d].step
  <2> TAKE d \in Clerks \ {c}
  <2>1. clearing[d] \in ClearCall \cup {NoRow}
    BY DEF ClearInv, ClearType, ClearCall
  <2> QED
    BY <1>3, <2>1, LeftFields
<1>9. ClearedFits(r)'
  <2>1. NothingTicked(r)' => NothingTicked(r)
    BY <1>4, <1>8 DEF NothingTicked
  <2>2. Clear!LinesOf(r)' = Clear!LinesOf(r) /\ ClearedFits(r)
    BY <1>2, <1>5 DEF ClearInv
  <2>3. reconciliation' = reconciliation /\ astray' = astray
    OBVIOUS
  <2> QED
    BY <2>1, <2>2, <2>3 DEF ClearedFits
<1>10. ClosedFits(r)'
  BY <1>2 DEF ClosedFits
<1>11. ClearingFits(c)'
  BY <1>1, <1>3 DEF ClearingFits
<1>12. FitsHere(c, r)
  <2>1. call.alone => \A d \in Clerks \ {c} : clearing[d] # NoRow => clearing[d].rec # r
    BY <1>1 DEF Clear!On
  <2> QED
    BY <1>1, <1>2, <1>3, <1>8, <1>9, <1>10, <1>11, <2>1
    DEF FitsHere, ClearInv, StartedOnes, Clear!BalancedWhenCompleted
<1> QED
  BY <1>2, <1>6, <1>7, <1>12, ClearStepFits

(* ... for one of the three reasons. *)
LEMMA ReadForTickFits ==
    ASSUME ClearInv, NEW c \in Clerks, NEW r \in Reconciliations, NEW l \in Tickable,
           NEW cleared \in BOOLEAN, Clear!ReadForTick(c, r, l, cleared)
    PROVE  ClearInv'
<1>1. PICK call : call = [step |-> "tick", rec |-> r, alone |-> Clear!On(r) = {}, line |-> l,
                          to |-> IF cleared THEN r ELSE NoRow, sum |-> 0]
  OBVIOUS
<1>2. call \in TickCall
  BY <1>1, BookIdentifiersAssumption DEF TickCall
<1>3. Clear!Begin(c, call) /\ UNCHANGED <<reconciliation, bankLine, astray, checked, closing>>
  BY <1>1 DEF Clear!ReadForTick
<1>4. call \in ClearCall
  BY <1>2 DEF ClearCall
<1>5. /\ call.step = "tick" /\ (call.alone <=> Clear!On(call.rec) = {})
      /\ call.to \in {NoRow, call.rec}
  BY <1>1
<1> QED
  BY <1>3, <1>4, <1>5, BeginFits

LEMMA ReadForMatchFits ==
    ASSUME ClearInv, NEW c \in Clerks, NEW r \in Reconciliations, NEW s \in StatementLines,
           NEW l \in BankLines, Clear!ReadForMatch(c, r, s, l)
    PROVE  ClearInv'
<1>1. PICK call : call = [step |-> "match", rec |-> r, alone |-> Clear!On(r) = {}, line |-> l,
                          statement |-> s, sum |-> 0]
  OBVIOUS
<1>2. call \in MatchCall
  BY <1>1 DEF MatchCall
<1>3. Clear!Begin(c, call) /\ UNCHANGED <<reconciliation, bankLine, astray, checked, closing>>
  BY <1>1 DEF Clear!ReadForMatch
<1>4. call \in ClearCall
  BY <1>2 DEF ClearCall
<1>5. call.step = "match" /\ (call.alone <=> Clear!On(call.rec) = {})
  BY <1>1
<1> QED
  BY <1>3, <1>4, <1>5, BeginFits

LEMMA ReadForCompleteFits ==
    ASSUME ClearInv, NEW c \in Clerks, NEW r \in Reconciliations, NEW force \in BOOLEAN,
           Clear!ReadForComplete(c, r, force)
    PROVE  ClearInv'
<1>1. PICK call : call = [step |-> "weigh", rec |-> r, alone |-> Clear!On(r) = {},
                          row |-> reconciliation[r], force |-> force, total |-> 0]
  OBVIOUS
<1>2. call \in CompleteCall
  BY <1>1 DEF CompleteCall, ClearInv, ClearType
<1>3. Clear!Begin(c, call) /\ UNCHANGED <<reconciliation, bankLine, astray, checked, closing>>
  BY <1>1 DEF Clear!ReadForComplete
<1>4. call \in ClearCall
  BY <1>2 DEF ClearCall
<1>5. /\ call.step = "weigh" /\ (call.alone <=> Clear!On(call.rec) = {})
      /\ call.row = reconciliation[call.rec]
  BY <1>1
<1> QED
  BY <1>3, <1>4, <1>5, BeginFits

(* A line is ticked or unticked. *)
LEMMA TickFits ==
    ASSUME ClearInv, NEW c \in Clerks, Clear!Tick(c)
    PROVE  ClearInv'
<1>1. PICK r : r = clearing[c].rec
  OBVIOUS
<1>2. PICK l : l = clearing[c].line
  OBVIOUS
<1>3. PICK b : b = bankLine[l].rec
  OBVIOUS
<1>4. clearing[c] # NoRow /\ clearing[c].step = "tick"
  BY DEF Clear!Tick, Clear!At
<1>5. /\ clearing[c] \in TickCall /\ r \in Reconciliations /\ reconciliation[r] # NoRow
      /\ l \in BankLines /\ clearing[c].to \in {NoRow, r} \cup Reconciliations
  BY <1>1, <1>2, <1>4, ClearingNow, CallFields DEF TickCall
<1>6. bankLine[l] \in [rec : Reconciliations \cup {NoRow}, posted : BOOLEAN]
      /\ b \in Reconciliations \cup {NoRow}
  BY <1>3, <1>5 DEF ClearInv, ClearType
<1>7. PICK call : call = [clearing[c] EXCEPT !.step = "sum"]
  OBVIOUS
<1>8. /\ call \in TickCall /\ call.rec = r /\ call.step = "sum"
      /\ call.alone = clearing[c].alone
  BY <1>1, <1>5, <1>7 DEF TickCall
<1>9. call \in ClearCall /\ call # NoRow
  BY <1>8, NoRowAssumption DEF ClearCall
<1>10. /\ clearing' \in [Clerks -> ClearCall \cup {NoRow}]
       /\ clearing'[c] = call
       /\ \A d \in Clerks \ {c} : Left(clearing[d], clearing'[d])
       /\ b \notin {NoRow, r} => /\ b \in astray'
                                 /\ \A d \in Clerks \ {c} :
                                       clearing[d] # NoRow /\ clearing[d].rec = b =>
                                           ~clearing'[d].alone
       /\ astray \subseteq astray'
  <2>1. Clear!Robbed(c) = {b} \ {NoRow, r}
    BY <1>1, <1>2, <1>3 DEF Clear!Robbed
  <2>2. CASE b \in {NoRow, r}
    <3>1. clearing' = [clearing EXCEPT ![c] = call] /\ astray' = astray
      BY <1>7, <2>1, <2>2 DEF Clear!Tick
    <3>2. /\ clearing' \in [Clerks -> ClearCall \cup {NoRow}]
          /\ clearing'[c] = call
          /\ \A d \in Clerks \ {c} : Left(clearing[d], clearing'[d])
      BY <1>9, <3>1, GoOnEffect DEF ClearInv
    <3> QED
      BY <2>2, <3>1, <3>2
  <2>3. CASE b \notin {NoRow, r}
    <3>1. clearing' = Clear!Meet(c, call, b) /\ astray' = astray \cup {b}
      BY <1>2, <1>3, <1>7, <2>1, <2>3 DEF Clear!Tick
    <3>2. b \in Reconciliations
      BY <1>6, <2>3
    <3>3. /\ clearing' \in [Clerks -> ClearCall \cup {NoRow}]
          /\ clearing'[c] = call
          /\ \A d \in Clerks \ {c} : Left(clearing[d], clearing'[d])
          /\ \A d \in Clerks \ {c} :
                clearing[d] # NoRow /\ clearing[d].rec = b => ~clearing'[d].alone
      BY <1>9, <3>1, <3>2, MeetEffect DEF ClearInv
    <3> QED
      BY <3>1, <3>3
  <2> QED
    BY <2>2, <2>3
<1>11. bankLine' = [bankLine EXCEPT ![l].rec = clearing[c].to]
       /\ UNCHANGED <<reconciliation, checked, closing>>
  BY <1>2 DEF Clear!Tick
<1>12. clearing[c].to \in {NoRow, r}
  BY <1>1, <1>4 DEF ClearInv, TicksFit
<1>13. /\ \A k \in BankLines : k # l => bankLine'[k] = bankLine[k]
       /\ bankLine'[l].rec = clearing[c].to
       /\ bankLine' \in [BankLines -> [rec : Reconciliations \cup {NoRow}, posted : BOOLEAN]]
  BY <1>5, <1>6, <1>11, <1>12 DEF ClearInv, ClearType
<1>14. ASSUME NEW q \in Reconciliations \ {r}, q # b
       PROVE  Clear!LinesOf(q)' = Clear!LinesOf(q)
  <2>1. q # NoRow
    BY NoRowAssumption
  <2>2. \A k \in BankLines : bankLine'[k].rec = q <=> bankLine[k].rec = q
    BY <1>3, <1>12, <1>13, <1>14, <2>1
  <2> QED
    BY <2>2 DEF Clear!LinesOf
<1>15. ClearType'
  BY <1>10, <1>11, <1>13 DEF ClearInv, ClearType, ClearCall
<1>16. ActsOn(c, r)
  <2>1. ASSUME NEW q \in Reconciliations \ {r}
        PROVE  \/ Clear!LinesOf(q)' = Clear!LinesOf(q)
               \/ /\ q \in astray'
                  /\ \A d \in Clerks : clearing[d] # NoRow /\ clearing[d].rec = q =>
                         ~clearing'[d].alone
    <3>1. CASE q # b
      BY <1>14, <3>1
    <3>2. CASE q = b
      BY <1>1, <1>10, <3>2, NoRowAssumption
    <3> QED
      BY <3>1, <3>2
  <2> QED
    BY <1>1, <1>8, <1>10, <1>11, <2>1 DEF ActsOn
<1>17. ClosedFits(r)'
  BY <1>4, <1>5, <1>8, <1>10, <1>11, <1>16, ClosedStays
<1>18. ClearedFits(r)'
  <2>1. clearing'[c] # NoRow /\ clearing'[c].rec = r /\ clearing'[c].step = "sum"
    BY <1>8, <1>9, <1>10
  <2> QED
    BY <2>1 DEF ClearedFits, NothingTicked
<1>19. ClearingFits(c)'
  BY <1>8, <1>10 DEF ClearingFits
<1>20. FitsHere(c, r)
  <2>1. \A k \in BankLines : bankLine'[k].rec # NoRow => reconciliation'[bankLine'[k].rec] # NoRow
    BY <1>5, <1>11, <1>12, <1>13 DEF ClearInv, StartedOnes
  <2>2. clearing'[c].alone => \A d \in Clerks \ {c} : clearing[d] # NoRow => clearing[d].rec # r
    BY <1>1, <1>4, <1>8, <1>10 DEF ClearInv, AloneAreAlone
  <2> QED
    BY <1>4, <1>5, <1>8, <1>10, <1>11, <1>17, <1>18, <1>19, <2>1, <2>2
    DEF FitsHere, ClearInv, Clear!BalancedWhenCompleted
<1> QED
  BY <1>5, <1>15, <1>16, <1>20, ClearStepFits

(* The lines of a reconciliation are summed. *)
LEMMA SumUpFits ==
    ASSUME ClearInv, NEW c \in Clerks, Clear!SumUp(c)
    PROVE  ClearInv'
<1>1. PICK r : r = clearing[c].rec
  OBVIOUS
<1>2. clearing[c] # NoRow /\ clearing[c].step = "sum"
  BY DEF Clear!SumUp, Clear!At
<1>3. /\ clearing[c] \in TickCall /\ r \in Reconciliations /\ reconciliation[r] # NoRow
  BY <1>1, <1>2, ClearingNow, CallFields
<1>4. PICK sum : sum = Clear!Sum(Clear!LinesOf(r))
  OBVIOUS
<1>5. PICK call : call = [clearing[c] EXCEPT !.step = "write", !.sum = sum]
  OBVIOUS
<1>6. sum \in Int
  BY <1>4, ClearedSum DEF Clear!LinesOf
<1>7. /\ call \in TickCall /\ call.rec = r /\ call.step = "write"
      /\ call.alone = clearing[c].alone /\ call.sum = sum
  BY <1>1, <1>3, <1>5, <1>6 DEF TickCall
<1>8. call \in ClearCall /\ call # NoRow
  BY <1>7, NoRowAssumption DEF ClearCall
<1>9. clearing' = [clearing EXCEPT ![c] = call]
  BY <1>1, <1>4, <1>5 DEF Clear!SumUp, ClearInv, ClearType
<1>10. UNCHANGED <<reconciliation, bankLine, astray, checked, closing>>
  BY DEF Clear!SumUp
<1>11. /\ clearing' \in [Clerks -> ClearCall \cup {NoRow}]
       /\ clearing'[c] = call
       /\ \A d \in Clerks \ {c} : Left(clearing[d], clearing'[d]) /\ clearing'[d] = clearing[d]
  BY <1>8, <1>9, GoOnEffect DEF ClearInv
<1>12. \A q : Clear!LinesOf(q)' = Clear!LinesOf(q)
  BY <1>10 DEF Clear!LinesOf
<1>13. ClearType'
  BY <1>10, <1>11 DEF ClearInv, ClearType, ClearCall
<1>14. ActsOn(c, r)
  BY <1>1, <1>7, <1>10, <1>11, <1>12 DEF ActsOn
<1>15. ClosedFits(r)'
  BY <1>2, <1>3, <1>7, <1>10, <1>11, <1>14, ClosedStays
<1>16. ClearedFits(r)'
  BY <1>7, <1>8, <1>11 DEF ClearedFits, NothingTicked
<1>17. ClearingFits(c)'
  <2>1. Clear!LinesOf(r)' = Clear!LinesOf(r)
    BY <1>12
  <2>2. clearing'[c].rec = r /\ clearing'[c].step = "write" /\ clearing'[c].sum = sum
    BY <1>7, <1>11
  <2> QED
    BY <1>4, <2>1, <2>2 DEF ClearingFits
<1>18. FitsHere(c, r)
  <2>1. clearing'[c].alone => \A d \in Clerks \ {c} : clearing[d] # NoRow => clearing[d].rec # r
    BY <1>1, <1>2, <1>7, <1>11 DEF ClearInv, AloneAreAlone
  <2> QED
    BY <1>2, <1>3, <1>7, <1>10, <1>11, <1>15, <1>16, <1>17, <2>1
    DEF FitsHere, ClearInv, Clear!BalancedWhenCompleted, StartedOnes
<1> QED
  BY <1>3, <1>13, <1>14, <1>18, ClearStepFits

(* What the end of a call leaves: the call is over, and its reconciliation *)
(* astray unless it was alone.                                             *)
LEMMA EndEffect ==
    ASSUME ClearInv, NEW c \in Clerks, clearing[c] # NoRow, NEW alone, Clear!End(c, alone)
    PROVE  /\ clearing' \in [Clerks -> ClearCall \cup {NoRow}]
           /\ clearing'[c] = NoRow
           /\ \A d \in Clerks \ {c} : Left(clearing[d], clearing'[d]) /\ clearing'[d] = clearing[d]
           /\ \A q : q # clearing[c].rec => (q \in astray <=> q \in astray')
           /\ clearing[c].rec \in astray' <=> ~alone
<1>1. clearing' = [clearing EXCEPT ![c] = NoRow]
  BY DEF Clear!End
<1>2. /\ clearing' \in [Clerks -> ClearCall \cup {NoRow}]
      /\ clearing'[c] = NoRow
      /\ \A d \in Clerks \ {c} : Left(clearing[d], clearing'[d]) /\ clearing'[d] = clearing[d]
  BY <1>1, GoOnEffect DEF ClearInv
<1> QED
  BY <1>2 DEF Clear!End

(* The call leaves nobody else alone. *)
LEMMA AloneOnly ==
    ASSUME ClearInv, NEW c \in Clerks, clearing[c] # NoRow, clearing[c].alone
    PROVE  \A d \in Clerks \ {c} : clearing[d] # NoRow => clearing[d].rec # clearing[c].rec
BY DEF ClearInv, AloneAreAlone

(* The sum is written. *)
LEMMA WriteClearedFits ==
    ASSUME ClearInv, NEW c \in Clerks, Clear!WriteCleared(c)
    PROVE  ClearInv'
<1>1. PICK r : r = clearing[c].rec
  OBVIOUS
<1>2. clearing[c] # NoRow /\ clearing[c].step = "write"
  BY DEF Clear!WriteCleared, Clear!At
<1>3. /\ clearing[c] \in TickCall /\ r \in Reconciliations /\ reconciliation[r] # NoRow
      /\ reconciliation[r] \in ReconciliationRow
  BY <1>1, <1>2, ClearingNow, CallFields
<1>4. /\ clearing' \in [Clerks -> ClearCall \cup {NoRow}]
      /\ clearing'[c] = NoRow
      /\ \A d \in Clerks \ {c} : Left(clearing[d], clearing'[d]) /\ clearing'[d] = clearing[d]
      /\ \A q : q # r => (q \in astray <=> q \in astray')
      /\ r \in astray' <=> ~clearing[c].alone
  <2>1. Clear!End(c, clearing[c].alone)
    BY DEF Clear!WriteCleared
  <2> QED
    BY <1>1, <1>2, <2>1, EndEffect
<1>5. /\ reconciliation' = [reconciliation EXCEPT ![r].cleared = clearing[c].sum]
      /\ UNCHANGED <<bankLine, checked, closing>>
  BY <1>1 DEF Clear!WriteCleared
<1>6. clearing[c].sum \in Int
  BY <1>3 DEF TickCall
<1>7. /\ reconciliation' \in [Reconciliations -> ReconciliationRow \cup {NoRow}]
      /\ \A q \in Reconciliations \ {r} : reconciliation'[q] = reconciliation[q]
      /\ reconciliation'[r] = [reconciliation[r] EXCEPT !.cleared = clearing[c].sum]
      /\ reconciliation'[r] \in ReconciliationRow
  BY <1>3, <1>5, <1>6 DEF ClearInv, ClearType, ReconciliationRow
<1>8. /\ reconciliation'[r].cleared = clearing[c].sum /\ reconciliation'[r] # NoRow
      /\ reconciliation'[r].status = reconciliation[r].status
      /\ reconciliation'[r].statement = reconciliation[r].statement
  BY <1>3, <1>7, NoRowAssumption DEF ReconciliationRow
<1>9. \A q : Clear!LinesOf(q)' = Clear!LinesOf(q)
  BY <1>5 DEF Clear!LinesOf
<1>10. ClearType'
  BY <1>4, <1>5, <1>7 DEF ClearInv, ClearType, ClearCall
<1>11. ActsOn(c, r)
  BY <1>1, <1>4, <1>5, <1>7, <1>9 DEF ActsOn
<1>12. ClosedFits(r)'
  BY <1>2, <1>3, <1>4, <1>8, <1>11, ClosedStays
<1>13. ClearedFits(r)'
  <2>1. CASE clearing[c].alone
    <3>1. clearing[c].sum = Clear!Sum(Clear!LinesOf(r))
      BY <1>1, <1>2, <2>1 DEF ClearInv, ClearingFits
    <3>2. Clear!LinesOf(r)' = Clear!LinesOf(r)
      BY <1>9
    <3> QED
      BY <1>8, <3>1, <3>2 DEF ClearedFits
  <2>2. CASE ~clearing[c].alone
    BY <1>4, <2>2 DEF ClearedFits
  <2> QED
    BY <2>1, <2>2
<1>14. FitsHere(c, r)
  <2>1. \A l \in BankLines : bankLine'[l].rec # NoRow => reconciliation'[bankLine'[l].rec] # NoRow
    BY <1>5, <1>7, <1>8 DEF ClearInv, StartedOnes, ClearType
  <2>2. ClearingFits(c)'
    BY <1>4 DEF ClearingFits
  <2>3. checked'[r] # NoRow => checked'[r] = reconciliation'[r].statement
    BY <1>3, <1>5, <1>8 DEF ClearInv, Clear!BalancedWhenCompleted
  <2> QED
    BY <1>2, <1>4, <1>8, <1>12, <1>13, <2>1, <2>2, <2>3 DEF FitsHere
<1> QED
  BY <1>3, <1>10, <1>11, <1>14, ClearStepFits

(* A call is left halfway. *)
LEMMA LeaveHalfwayFits ==
    ASSUME ClearInv, NEW c \in Clerks, Clear!LeaveHalfway(c)
    PROVE  ClearInv'
<1>1. PICK r : r = clearing[c].rec
  OBVIOUS
<1>2. clearing[c] # NoRow
  BY DEF Clear!LeaveHalfway, Clear!At
<1>3. r \in Reconciliations /\ reconciliation[r] # NoRow
  BY <1>1, <1>2, ClearingNow
<1>4. /\ clearing' \in [Clerks -> ClearCall \cup {NoRow}]
      /\ clearing'[c] = NoRow
      /\ \A d \in Clerks \ {c} : Left(clearing[d], clearing'[d]) /\ clearing'[d] = clearing[d]
      /\ \A q : q # r => (q \in astray <=> q \in astray')
      /\ r \in astray'
  <2>1. Clear!End(c, FALSE)
    BY DEF Clear!LeaveHalfway
  <2> QED
    BY <1>1, <1>2, <2>1, EndEffect
<1>5. UNCHANGED <<reconciliation, bankLine, checked, closing>>
  BY DEF Clear!LeaveHalfway
<1>6. \A q : Clear!LinesOf(q)' = Clear!LinesOf(q)
  BY <1>5 DEF Clear!LinesOf
<1>7. ClearType'
  BY <1>4, <1>5 DEF ClearInv, ClearType, ClearCall
<1>8. ActsOn(c, r)
  BY <1>1, <1>4, <1>5, <1>6 DEF ActsOn
<1>9. ClosedFits(r)'
  BY <1>2, <1>3, <1>4, <1>5, <1>8, ClosedStays
<1>10. ClearedFits(r)'
  BY <1>4 DEF ClearedFits
<1>11. FitsHere(c, r)
  BY <1>2, <1>3, <1>4, <1>5, <1>9, <1>10
  DEF FitsHere, ClearInv, Clear!BalancedWhenCompleted, ClearingFits, StartedOnes
<1> QED
  BY <1>3, <1>7, <1>8, <1>11, ClearStepFits

(* A transaction that matches a line has written, and sums.               *)
LEMMA MatchFits ==
    ASSUME ClearInv, NEW c \in Clerks, Clear!Match(c)
    PROVE  ClearInv'
<1>1. PICK r : r = clearing[c].rec
  OBVIOUS
<1>2. clearing[c] # NoRow /\ clearing[c].step = "match"
  BY DEF Clear!Match, Clear!At
<1>3. /\ clearing[c] \in MatchCall /\ r \in Reconciliations /\ reconciliation[r] # NoRow
  BY <1>1, <1>2, ClearingNow, CallFields
<1>4. PICK sum : sum = Clear!Sum(Clear!LinesOf(r) \cup {clearing[c].line})
  OBVIOUS
<1>5. PICK call : call = [clearing[c] EXCEPT !.step = "matched", !.sum = sum]
  OBVIOUS
<1>6. sum \in Int
  <2>1. clearing[c].line \in BankLines
    BY <1>3 DEF MatchCall
  <2>2. Clear!LinesOf(r) \cup {clearing[c].line} \in SUBSET BankLines
    BY <2>1 DEF Clear!LinesOf
  <2> QED
    BY <1>4, <2>2, ClearedSum
<1>7. /\ call \in MatchCall /\ call.rec = r /\ call.step = "matched"
      /\ call.alone = clearing[c].alone /\ call.sum = sum /\ call.line = clearing[c].line
  BY <1>1, <1>3, <1>5, <1>6 DEF MatchCall
<1>8. call \in ClearCall /\ call # NoRow
  BY <1>7, NoRowAssumption DEF ClearCall
<1>9. clearing' = [clearing EXCEPT ![c] = call]
  BY <1>1, <1>4, <1>5 DEF Clear!Match, ClearInv, ClearType
<1>10. UNCHANGED <<reconciliation, bankLine, astray, checked, closing>>
  BY DEF Clear!Match
<1>11. /\ clearing' \in [Clerks -> ClearCall \cup {NoRow}]
       /\ clearing'[c] = call
       /\ \A d \in Clerks \ {c} : Left(clearing[d], clearing'[d]) /\ clearing'[d] = clearing[d]
  BY <1>8, <1>9, GoOnEffect DEF ClearInv
<1>12. \A q : Clear!LinesOf(q)' = Clear!LinesOf(q)
  BY <1>10 DEF Clear!LinesOf
<1>13. ClearType'
  BY <1>10, <1>11 DEF ClearInv, ClearType, ClearCall
<1>14. ActsOn(c, r)
  BY <1>1, <1>7, <1>10, <1>11, <1>12 DEF ActsOn
<1>15. ClosedFits(r)'
  BY <1>2, <1>3, <1>7, <1>10, <1>11, <1>14, ClosedStays
<1>16. ClearedFits(r)'
  <2>1. NothingTicked(r)' => NothingTicked(r)
    BY <1>2, <1>11 DEF NothingTicked
  <2>2. Clear!LinesOf(r)' = Clear!LinesOf(r) /\ ClearedFits(r)
    BY <1>3, <1>12 DEF ClearInv
  <2>3. reconciliation' = reconciliation /\ astray' = astray
    BY <1>10
  <2> QED
    BY <2>1, <2>2, <2>3 DEF ClearedFits
<1>17. ClearingFits(c)'
  <2>1. Clear!LinesOf(r)' = Clear!LinesOf(r)
    BY <1>12
  <2>2. /\ clearing'[c].rec = r /\ clearing'[c].step = "matched" /\ clearing'[c].sum = sum
        /\ clearing'[c].line = clearing[c].line
    BY <1>7, <1>11
  <2> QED
    BY <1>4, <2>1, <2>2 DEF ClearingFits
<1>18. FitsHere(c, r)
  <2>1. clearing'[c].alone => \A d \in Clerks \ {c} : clearing[d] # NoRow => clearing[d].rec # r
    BY <1>1, <1>2, <1>7, <1>11 DEF ClearInv, AloneAreAlone
  <2> QED
    BY <1>2, <1>3, <1>7, <1>10, <1>11, <1>15, <1>16, <1>17, <2>1
    DEF FitsHere, ClearInv, Clear!BalancedWhenCompleted, StartedOnes
<1> QED
  BY <1>3, <1>13, <1>14, <1>18, ClearStepFits

(* A match commits: the line is cleared, and the sum is written.           *)
LEMMA CommitMatchFits ==
    ASSUME ClearInv, NEW c \in Clerks, Clear!CommitMatch(c)
    PROVE  ClearInv'
<1>1. PICK r : r = clearing[c].rec
  OBVIOUS
<1>2. PICK l : l = clearing[c].line
  OBVIOUS
<1>3. PICK b : b = bankLine[l].rec
  OBVIOUS
<1>4. clearing[c] # NoRow /\ clearing[c].step = "matched"
  BY DEF Clear!CommitMatch, Clear!At
<1>5. /\ clearing[c] \in MatchCall /\ r \in Reconciliations /\ reconciliation[r] # NoRow
      /\ reconciliation[r] \in ReconciliationRow
      /\ l \in BankLines /\ clearing[c].sum \in Int
  BY <1>1, <1>2, <1>4, ClearingNow, CallFields DEF MatchCall
<1>6. bankLine[l] \in [rec : Reconciliations \cup {NoRow}, posted : BOOLEAN]
      /\ b \in Reconciliations \cup {NoRow}
  BY <1>3, <1>5 DEF ClearInv, ClearType
<1>7. Clear!Robbed(c) = {b} \ {NoRow, r}
  BY <1>1, <1>2, <1>3 DEF Clear!Robbed
<1>8. /\ clearing' \in [Clerks -> ClearCall \cup {NoRow}]
      /\ clearing'[c] = NoRow
      /\ \A d \in Clerks \ {c} : Left(clearing[d], clearing'[d])
      /\ b \notin {NoRow, r} => \A d \in Clerks \ {c} :
                                   clearing[d] # NoRow /\ clearing[d].rec = b =>
                                       ~clearing'[d].alone
  <2>1. CASE b \in {NoRow, r}
    <3>1. clearing' = [clearing EXCEPT ![c] = NoRow]
      BY <1>7, <2>1 DEF Clear!CommitMatch
    <3> QED
      BY <2>1, <3>1, GoOnEffect DEF ClearInv
  <2>2. CASE b \notin {NoRow, r}
    <3>1. clearing' = Clear!Meet(c, NoRow, b)
      BY <1>2, <1>3, <1>7, <2>2 DEF Clear!CommitMatch
    <3> QED
      BY <1>6, <2>2, <3>1, MeetEffect DEF ClearInv
  <2> QED
    BY <2>1, <2>2
<1>9. /\ astray' = (IF clearing[c].alone THEN astray \ {r} ELSE astray \cup {r})
                      \cup ({b} \ {NoRow, r})
      /\ UNCHANGED <<checked, closing>>
  BY <1>1, <1>7 DEF Clear!CommitMatch
<1>10. bankLine' = [bankLine EXCEPT ![l].rec = r]
  BY <1>1, <1>2 DEF Clear!CommitMatch
<1>11. reconciliation' = [reconciliation EXCEPT ![r].cleared = clearing[c].sum]
  BY <1>1 DEF Clear!CommitMatch
<1>12. /\ \A k \in BankLines : k # l => bankLine'[k] = bankLine[k]
       /\ bankLine'[l].rec = r
       /\ bankLine' \in [BankLines -> [rec : Reconciliations \cup {NoRow}, posted : BOOLEAN]]
  BY <1>5, <1>6, <1>10 DEF ClearInv, ClearType
<1>13. /\ reconciliation' \in [Reconciliations -> ReconciliationRow \cup {NoRow}]
       /\ \A q \in Reconciliations \ {r} : reconciliation'[q] = reconciliation[q]
       /\ reconciliation'[r] = [reconciliation[r] EXCEPT !.cleared = clearing[c].sum]
       /\ reconciliation'[r] \in ReconciliationRow
  BY <1>5, <1>11 DEF ClearInv, ClearType, ReconciliationRow
<1>14. /\ reconciliation'[r].cleared = clearing[c].sum /\ reconciliation'[r] # NoRow
       /\ reconciliation'[r].status = reconciliation[r].status
       /\ reconciliation'[r].statement = reconciliation[r].statement
  BY <1>5, <1>13, NoRowAssumption DEF ReconciliationRow
<1>15. ASSUME NEW q \in Reconciliations \ {r}, q # b
       PROVE  Clear!LinesOf(q)' = Clear!LinesOf(q)
  <2>1. \A k \in BankLines : bankLine'[k].rec = q <=> bankLine[k].rec = q
    BY <1>3, <1>12, <1>15
  <2> QED
    BY <2>1 DEF Clear!LinesOf
<1>16. Clear!LinesOf(r)' = Clear!LinesOf(r) \cup {l}
  BY <1>5, <1>12 DEF Clear!LinesOf
<1>17. ClearType'
  BY <1>8, <1>9, <1>12, <1>13 DEF ClearInv, ClearType, ClearCall
<1>18. ActsOn(c, r)
  <2>1. ASSUME NEW q \in Reconciliations \ {r}
        PROVE  \/ Clear!LinesOf(q)' = Clear!LinesOf(q)
               \/ /\ q \in astray'
                  /\ \A d \in Clerks : clearing[d] # NoRow /\ clearing[d].rec = q =>
                         ~clearing'[d].alone
    <3>1. CASE q # b
      BY <1>15, <3>1
    <3>2. CASE q = b
      BY <1>1, <1>8, <1>9, <3>2, NoRowAssumption
    <3> QED
      BY <3>1, <3>2
  <2> QED
    BY <1>1, <1>8, <1>9, <1>13, <2>1 DEF ActsOn
<1>19. ClosedFits(r)'
  BY <1>4, <1>5, <1>8, <1>9, <1>14, <1>18, ClosedStays
<1>20. ClearedFits(r)'
  <2>1. CASE clearing[c].alone
    <3>1. clearing[c].sum = Clear!Sum(Clear!LinesOf(r) \cup {l})
      BY <1>1, <1>2, <1>4, <2>1 DEF ClearInv, ClearingFits
    <3> QED
      BY <1>14, <1>16, <3>1 DEF ClearedFits
  <2>2. CASE ~clearing[c].alone
    BY <1>9, <2>2 DEF ClearedFits
  <2> QED
    BY <2>1, <2>2
<1>21. FitsHere(c, r)
  <2>1. \A k \in BankLines : bankLine'[k].rec # NoRow => reconciliation'[bankLine'[k].rec] # NoRow
    BY <1>5, <1>12, <1>13, <1>14 DEF ClearInv, StartedOnes, ClearType
  <2>2. ClearingFits(c)'
    BY <1>8 DEF ClearingFits
  <2>3. checked'[r] # NoRow => checked'[r] = reconciliation'[r].statement
    BY <1>5, <1>9, <1>14 DEF ClearInv, Clear!BalancedWhenCompleted
  <2> QED
    BY <1>4, <1>8, <1>14, <1>19, <1>20, <2>1, <2>2, <2>3 DEF FitsHere
<1> QED
  BY <1>5, <1>17, <1>18, <1>21, ClearStepFits

(* The balance is weighed: the call goes on to complete, or ends.          *)
LEMMA WeighFits ==
    ASSUME ClearInv, NEW c \in Clerks, Clear!Weigh(c)
    PROVE  ClearInv'
<1>1. PICK r : r = clearing[c].rec
  OBVIOUS
<1>2. clearing[c] # NoRow /\ clearing[c].step = "weigh"
  BY DEF Clear!Weigh, Clear!At
<1>3. /\ clearing[c] \in CompleteCall /\ r \in Reconciliations /\ reconciliation[r] # NoRow
  BY <1>1, <1>2, ClearingNow, CallFields
<1>4. PICK total : total = Clear!Opening(r) + Clear!Sum(Clear!LinesOf(r))
  OBVIOUS
<1>5. PICK going : going = [clearing[c] EXCEPT !.step = "complete", !.row = NoRow, !.total = total]
  OBVIOUS
<1>6. PICK call : call = IF Clear!InBalance(c) \/ clearing[c].force THEN going ELSE NoRow
  OBVIOUS
<1>7. total \in Int
  <2>1. /\ Clear!LinesOf(r) \in SUBSET BankLines
        /\ {l \in BankLines : bankLine[l].rec \notin {NoRow, r} /\ bankLine[l].posted}
              \in SUBSET BankLines
    BY DEF Clear!LinesOf
  <2> QED
    BY <1>4, <2>1, ClearedSum DEF Clear!Opening
<1>8. /\ going \in CompleteCall /\ going.rec = r /\ going.step = "complete"
      /\ going.alone = clearing[c].alone /\ going.total = total
      /\ going.force = clearing[c].force
  BY <1>1, <1>3, <1>5, <1>7 DEF CompleteCall
<1>9. going \in ClearCall /\ going # NoRow
  BY <1>8, NoRowAssumption DEF ClearCall
<1>10. clearing' = [clearing EXCEPT ![c] = call]
  BY <1>1, <1>4, <1>5, <1>6 DEF Clear!Weigh, ClearInv, ClearType
<1>11. UNCHANGED <<reconciliation, bankLine, astray, checked, closing>>
  BY DEF Clear!Weigh
<1>12. /\ clearing' \in [Clerks -> ClearCall \cup {NoRow}]
       /\ clearing'[c] = call
       /\ \A d \in Clerks \ {c} : Left(clearing[d], clearing'[d]) /\ clearing'[d] = clearing[d]
  BY <1>6, <1>9, <1>10, GoOnEffect DEF ClearInv
<1>13. \A q : Clear!LinesOf(q)' = Clear!LinesOf(q)
  BY <1>11 DEF Clear!LinesOf
<1>14. ClearType'
  BY <1>11, <1>12 DEF ClearInv, ClearType, ClearCall
<1>15. clearing'[c] # NoRow => clearing'[c] = going
  BY <1>6, <1>12
<1>16. ActsOn(c, r)
  BY <1>1, <1>8, <1>11, <1>12, <1>13, <1>15 DEF ActsOn
<1>17. ClosedFits(r)'
  BY <1>2, <1>3, <1>8, <1>11, <1>15, <1>16, ClosedStays
<1>18. ClearedFits(r)'
  <2>1. NothingTicked(r)' => NothingTicked(r)
    BY <1>2, <1>12 DEF NothingTicked
  <2>2. Clear!LinesOf(r)' = Clear!LinesOf(r) /\ ClearedFits(r)
    BY <1>3, <1>13 DEF ClearInv
  <2>3. reconciliation' = reconciliation /\ astray' = astray
    BY <1>11
  <2> QED
    BY <2>1, <2>2, <2>3 DEF ClearedFits
<1>19. ClearingFits(c)'
  <2> SUFFICES ASSUME clearing'[c] # NoRow, clearing'[c].alone, r \notin astray, ~clearing[c].force
               PROVE  total = reconciliation[r].statement
    BY <1>8, <1>11, <1>15 DEF ClearingFits
  <2>1. clearing[c].alone /\ Clear!InBalance(c)
    BY <1>6, <1>8, <1>12, <1>15
  <2>2. clearing[c].row = reconciliation[r]
    BY <1>1, <1>2, <2>1 DEF ClearInv, ClearingFits
  <2>3. NothingTicked(r)
    BY <1>1, <1>2, <2>1 DEF NothingTicked, ClearInv, AloneAreAlone
  <2>4. reconciliation[r].cleared = Clear!Sum(Clear!LinesOf(r))
    BY <1>3, <2>3 DEF ClearInv, ClearedFits
  <2>5. clearing[c].row.statement = Clear!Opening(r) + clearing[c].row.cleared
    BY <1>1, <2>1 DEF Clear!InBalance
  <2> QED
    BY <1>4, <2>2, <2>4, <2>5
<1>20. FitsHere(c, r)
  <2>1. clearing'[c] # NoRow /\ clearing'[c].alone =>
            \A d \in Clerks \ {c} : clearing[d] # NoRow => clearing[d].rec # r
    BY <1>1, <1>2, <1>8, <1>15 DEF ClearInv, AloneAreAlone
  <2> QED
    BY <1>2, <1>3, <1>8, <1>11, <1>15, <1>17, <1>18, <1>19, <2>1
    DEF FitsHere, ClearInv, Clear!BalancedWhenCompleted, StartedOnes
<1> QED
  BY <1>3, <1>14, <1>16, <1>20, ClearStepFits

(* A reconciliation is completed. *)
LEMMA CompleteFits ==
    ASSUME ClearInv, NEW c \in Clerks, Clear!Complete(c)
    PROVE  ClearInv'
<1>1. PICK r : r = clearing[c].rec
  OBVIOUS
<1>2. PICK alone \in BOOLEAN : alone <=> clearing[c].alone /\ r \notin astray
  OBVIOUS
<1>3. clearing[c] # NoRow /\ clearing[c].step = "complete"
  BY DEF Clear!Complete, Clear!At
<1>4. /\ clearing[c] \in CompleteCall /\ r \in Reconciliations /\ reconciliation[r] # NoRow
      /\ reconciliation[r] \in ReconciliationRow
  BY <1>1, <1>3, ClearingNow, CallFields
<1>5. /\ clearing' \in [Clerks -> ClearCall \cup {NoRow}]
      /\ clearing'[c] = NoRow
      /\ \A d \in Clerks \ {c} : Left(clearing[d], clearing'[d]) /\ clearing'[d] = clearing[d]
      /\ \A q : q # r => (q \in astray <=> q \in astray')
      /\ r \in astray' <=> ~alone
  <2>1. Clear!End(c, clearing[c].alone /\ r \notin astray)
    BY <1>1 DEF Clear!Complete
  <2> QED
    BY <1>1, <1>2, <1>3, <2>1, EndEffect
<1>6. /\ reconciliation' = [reconciliation EXCEPT ![r].status = "completed"]
      /\ checked' = [checked EXCEPT ![r] =
                        IF clearing[c].alone /\ r \notin astray /\ ~clearing[c].force
                        THEN clearing[c].total ELSE NoRow]
      /\ closing' = [closing EXCEPT ![r] = Clear!LinesOf(r)]
      /\ UNCHANGED bankLine
  BY <1>1 DEF Clear!Complete
<1>7. /\ reconciliation' \in [Reconciliations -> ReconciliationRow \cup {NoRow}]
      /\ \A q \in Reconciliations \ {r} : reconciliation'[q] = reconciliation[q]
      /\ reconciliation'[r] = [reconciliation[r] EXCEPT !.status = "completed"]
      /\ reconciliation'[r] \in ReconciliationRow
  BY <1>4, <1>6 DEF ClearInv, ClearType, ReconciliationRow
<1>8. /\ reconciliation'[r].cleared = reconciliation[r].cleared /\ reconciliation'[r] # NoRow
      /\ reconciliation'[r].statement = reconciliation[r].statement
  BY <1>4, <1>7, NoRowAssumption DEF ReconciliationRow
<1>9. /\ \A q \in Reconciliations \ {r} : checked'[q] = checked[q] /\ closing'[q] = closing[q]
      /\ checked' = [q \in Reconciliations |-> checked'[q]]
      /\ closing' = [q \in Reconciliations |-> closing'[q]]
      /\ closing'[r] = Clear!LinesOf(r)
      /\ checked'[r] = IF clearing[c].alone /\ r \notin astray /\ ~clearing[c].force
                       THEN clearing[c].total ELSE NoRow
  BY <1>4, <1>6 DEF ClearInv, ClearType
<1>10. \A q : Clear!LinesOf(q)' = Clear!LinesOf(q)
  BY <1>6 DEF Clear!LinesOf
<1>11. ClearType'
  BY <1>5, <1>6, <1>7, <1>9 DEF ClearInv, ClearType, ClearCall
<1>12. ActsOn(c, r)
  BY <1>1, <1>5, <1>7, <1>9, <1>10 DEF ActsOn
<1>13. clearing[c].alone => \A d \in Clerks \ {c} : clearing[d] # NoRow => clearing[d].rec # r
  BY <1>1, <1>3, AloneOnly
<1>14. ClosedFits(r)'
  <2>1. ASSUME NEW d \in Clerks, clearing'[d] # NoRow, clearing'[d].rec = r
        PROVE  ~clearing'[d].alone
    <3>1. d # c /\ clearing'[d] = clearing[d]
      BY <1>5, <2>1
    <3> QED
      BY <1>1, <1>3, <2>1, <3>1 DEF ClearInv, AloneAreAlone
  <2>2. CASE r \in astray'
    BY <2>1, <2>2 DEF ClosedFits
  <2>3. CASE r \notin astray'
    <3>1. \A d \in Clerks : clearing'[d] # NoRow => clearing'[d].rec # r
      BY <1>2, <1>5, <1>13, <2>3
    <3>2. Clear!LinesOf(r)' = closing'[r]
      BY <1>9, <1>10
    <3> QED
      BY <2>1, <3>1, <3>2 DEF ClosedFits
  <2> QED
    BY <2>2, <2>3
<1>15. ClearedFits(r)'
  <2>1. CASE r \in astray'
    BY <2>1 DEF ClearedFits
  <2>2. CASE r \notin astray'
    <3>1. NothingTicked(r)
      BY <1>2, <1>3, <1>5, <1>13, <2>2 DEF NothingTicked
    <3>2. ClearedFits(r) /\ Clear!LinesOf(r)' = Clear!LinesOf(r)
      BY <1>4, <1>10 DEF ClearInv
    <3>3. r \notin astray
      BY <1>2, <1>5, <2>2
    <3> QED
      BY <1>4, <1>8, <3>1, <3>2, <3>3 DEF ClearedFits
  <2> QED
    BY <2>1, <2>2
<1>16. FitsHere(c, r)
  <2>1. \A l \in BankLines : bankLine'[l].rec # NoRow => reconciliation'[bankLine'[l].rec] # NoRow
    BY <1>6, <1>7, <1>8 DEF ClearInv, StartedOnes, ClearType
  <2>2. ClearingFits(c)'
    BY <1>5 DEF ClearingFits
  <2>3. checked'[r] # NoRow => checked'[r] = reconciliation'[r].statement
    BY <1>1, <1>3, <1>8, <1>9 DEF ClearInv, ClearingFits
  <2> QED
    BY <1>3, <1>5, <1>8, <1>14, <1>15, <2>1, <2>2, <2>3 DEF FitsHere
<1> QED
  BY <1>4, <1>11, <1>12, <1>16, ClearStepFits

(* A reconciliation is created, without lines or calls. *)
LEMMA CreateReconciliationFits ==
    ASSUME ClearInv, NEW r \in Reconciliations, NEW balance \in Balances,
           Clear!CreateReconciliation(r, balance)
    PROVE  ClearInv'
<1>1. PICK row : row = [statement |-> balance, cleared |-> 0, status |-> "open"]
  OBVIOUS
<1>2. row \in ReconciliationRow /\ row # NoRow
  BY <1>1, NoRowAssumption DEF ReconciliationRow
<1>3. /\ reconciliation[r] = NoRow /\ reconciliation' = [reconciliation EXCEPT ![r] = row]
      /\ UNCHANGED <<bankLine, clearing, astray, checked, closing>>
  BY <1>1 DEF Clear!CreateReconciliation
<1>4. /\ reconciliation' \in [Reconciliations -> ReconciliationRow \cup {NoRow}]
      /\ reconciliation'[r] = row
      /\ \A q \in Reconciliations \ {r} : reconciliation'[q] = reconciliation[q]
  BY <1>2, <1>3 DEF ClearInv, ClearType
<1>5. \A c \in Clerks : clearing[c] # NoRow => clearing[c].rec # r
  BY <1>3 DEF ClearInv, StartedOnes
<1>6. Clear!LinesOf(r)' = {}
  BY <1>3, NoRowAssumption DEF ClearInv, StartedOnes, Clear!LinesOf
<1>7. \A q \in Reconciliations : Clear!LinesOf(q)' = Clear!LinesOf(q)
  BY <1>3 DEF Clear!LinesOf
<1>8. ClearType'
  BY <1>3, <1>4 DEF ClearInv, ClearType
<1>9. StartedOnes' /\ CheckedExist' /\ TicksFit' /\ AloneAreAlone'
  <2>1. ASSUME NEW c \in Clerks, clearing[c] # NoRow
        PROVE  reconciliation'[clearing[c].rec] # NoRow
    BY <1>2, <1>4, <1>5, <2>1, ClearingNow
  <2>2. ASSUME NEW l \in BankLines, bankLine[l].rec # NoRow
        PROVE  reconciliation'[bankLine[l].rec] # NoRow
    BY <1>2, <1>4, <2>2 DEF ClearInv, StartedOnes, ClearType
  <2>3. CheckedExist'
    BY <1>2, <1>3, <1>4 DEF ClearInv, CheckedExist
  <2> QED
    BY <1>3, <2>1, <2>2, <2>3 DEF ClearInv, StartedOnes, TicksFit, AloneAreAlone
<1>10. ASSUME NEW c \in Clerks PROVE ClearingFits(c)'
  <2>1. CASE clearing[c] # NoRow
    <3>1. PICK q : q = clearing[c].rec
      OBVIOUS
    <3>2. q \in Reconciliations /\ reconciliation'[q] = reconciliation[q]
          /\ Clear!LinesOf(q)' = Clear!LinesOf(q)
      BY <1>4, <1>5, <1>7, <2>1, <3>1, ClearingNow
    <3>3. ClearingFits(c) /\ clearing'[c] = clearing[c] /\ astray' = astray
      BY <1>3 DEF ClearInv
    <3> QED
      BY <3>1, <3>2, <3>3 DEF ClearingFits
  <2>2. CASE clearing[c] = NoRow
    BY <1>3, <2>2 DEF ClearingFits
  <2> QED
    BY <2>1, <2>2
<1>11. ASSUME NEW q \in Reconciliations PROVE ClearedFits(q)' /\ ClosedFits(q)'
  <2>1. CASE q = r
    <3>1. reconciliation'[q].cleared = 0 /\ reconciliation'[q].status = "open"
      BY <1>1, <1>4, <2>1
    <3>2. Clear!Sum(Clear!LinesOf(q)') = 0
      BY <1>6, <2>1, NothingCleared
    <3> QED
      BY <3>1, <3>2 DEF ClearedFits, ClosedFits
  <2>2. CASE q # r
    <3>1. /\ reconciliation'[q] = reconciliation[q] /\ Clear!LinesOf(q)' = Clear!LinesOf(q)
          /\ UNCHANGED <<clearing, astray, closing>> /\ ClearedFits(q) /\ ClosedFits(q)
      BY <1>3, <1>4, <1>7, <2>2 DEF ClearInv
    <3>2. ClearedFits(q)'
      BY <3>1 DEF ClearedFits, NothingTicked
    <3>3. ClosedFits(q)'
      BY <3>1 DEF ClosedFits
    <3> QED
      BY <3>2, <3>3
  <2> QED
    BY <2>1, <2>2
<1>12. Clear!BalancedWhenCompleted'
  <2> SUFFICES ASSUME NEW q \in Reconciliations, checked[q] # NoRow
               PROVE  checked[q] = reconciliation'[q].statement
    BY <1>3 DEF Clear!BalancedWhenCompleted
  <2>1. q # r
    BY <1>3 DEF ClearInv, CheckedExist
  <2> QED
    BY <1>4, <2>1 DEF ClearInv, Clear!BalancedWhenCompleted
<1> QED
  BY <1>8, <1>9, <1>10, <1>11, <1>12 DEF ClearInv

(* An entry of the bank is reversed. *)
LEMMA ReverseLineFits ==
    ASSUME ClearInv, NEW l \in Tickable, Clear!ReverseLine(l)
    PROVE  ClearInv'
<1>1. /\ bankLine' = [bankLine EXCEPT ![l].posted = FALSE]
      /\ UNCHANGED <<reconciliation, clearing, astray, checked, closing>>
  BY DEF Clear!ReverseLine
<1>2. /\ bankLine' \in [BankLines -> [rec : Reconciliations \cup {NoRow}, posted : BOOLEAN]]
      /\ \A k \in BankLines : bankLine'[k].rec = bankLine[k].rec
  BY <1>1, BookIdentifiersAssumption DEF ClearInv, ClearType
<1>3. \A q : Clear!LinesOf(q)' = Clear!LinesOf(q)
  BY <1>2 DEF Clear!LinesOf
<1>4. ClearType' /\ StartedOnes' /\ CheckedExist' /\ TicksFit' /\ AloneAreAlone'
  BY <1>1, <1>2 DEF ClearInv, ClearType, StartedOnes, CheckedExist, TicksFit, AloneAreAlone
<1>5. ASSUME NEW c \in Clerks PROVE ClearingFits(c)'
  <2>1. PICK q : q = clearing[c].rec
    OBVIOUS
  <2>2. Clear!LinesOf(q)' = Clear!LinesOf(q) /\ ClearingFits(c)
    BY <1>3 DEF ClearInv
  <2> QED
    BY <1>1, <2>1, <2>2 DEF ClearingFits
<1>6. ASSUME NEW q \in Reconciliations PROVE ClearedFits(q)' /\ ClosedFits(q)'
  <2>1. Clear!LinesOf(q)' = Clear!LinesOf(q) /\ ClearedFits(q) /\ ClosedFits(q)
    BY <1>3 DEF ClearInv
  <2> QED
    BY <1>1, <2>1 DEF ClearedFits, ClosedFits, NothingTicked
<1>7. Clear!BalancedWhenCompleted'
  BY <1>1 DEF ClearInv, Clear!BalancedWhenCompleted
<1> QED
  BY <1>4, <1>5, <1>6, <1>7 DEF ClearInv

(* Nothing happens to the reconciliations. *)
LEMMA ClearRest ==
    ASSUME ClearInv, UNCHANGED clearvars
    PROVE  ClearInv'
<1>1. UNCHANGED <<reconciliation, bankLine, clearing, astray, checked, closing>>
  BY DEF clearvars
<1>2. ClearType' /\ StartedOnes' /\ CheckedExist' /\ TicksFit' /\ AloneAreAlone'
  BY <1>1 DEF ClearInv, ClearType, StartedOnes, CheckedExist, TicksFit, AloneAreAlone
<1>3. \A q : Clear!LinesOf(q)' = Clear!LinesOf(q)
  BY <1>1 DEF Clear!LinesOf
<1>4. ASSUME NEW c \in Clerks PROVE ClearingFits(c)'
  <2>1. PICK q : q = clearing[c].rec
    OBVIOUS
  <2>2. Clear!LinesOf(q)' = Clear!LinesOf(q) /\ ClearingFits(c)
    BY <1>3 DEF ClearInv
  <2> QED
    BY <1>1, <2>1, <2>2 DEF ClearingFits
<1>5. ASSUME NEW q \in Reconciliations PROVE ClearedFits(q)' /\ ClosedFits(q)'
  <2>1. Clear!LinesOf(q)' = Clear!LinesOf(q) /\ ClearedFits(q) /\ ClosedFits(q)
    BY <1>3 DEF ClearInv
  <2> QED
    BY <1>1, <2>1 DEF ClearedFits, ClosedFits, NothingTicked
<1>6. Clear!BalancedWhenCompleted'
  BY <1>1 DEF ClearInv, Clear!BalancedWhenCompleted
<1> QED
  BY <1>2, <1>4, <1>5, <1>6 DEF ClearInv

(* The invariant of the reconciliations holds at first ... *)
LEMMA ClearInit ==
    ASSUME Clear!Init
    PROVE  ClearInv
BY DEF Clear!Init, ClearInv, ClearType, StartedOnes, CheckedExist, TicksFit, AloneAreAlone,
       ClearingFits, ClearedFits, ClosedFits, Clear!BalancedWhenCompleted

(* ... after each step ... *)
LEMMA ClearStep ==
    ASSUME ClearInv, Clear!Next
    PROVE  ClearInv'
<1>1. ASSUME NEW r \in Reconciliations, NEW b \in Balances, Clear!CreateReconciliation(r, b)
      PROVE  ClearInv'
  BY <1>1, CreateReconciliationFits
<1>2. ASSUME NEW l \in Tickable, Clear!ReverseLine(l) PROVE ClearInv'
  BY <1>2, ReverseLineFits
<1>3. ASSUME NEW c \in Clerks, NEW r \in Reconciliations, NEW l \in Tickable,
             NEW cleared \in BOOLEAN, Clear!ReadForTick(c, r, l, cleared)
      PROVE  ClearInv'
  BY <1>3, ReadForTickFits
<1>4. ASSUME NEW c \in Clerks, NEW r \in Reconciliations, NEW s \in StatementLines,
             NEW l \in BankLines, Clear!ReadForMatch(c, r, s, l)
      PROVE  ClearInv'
  BY <1>4, ReadForMatchFits
<1>5. ASSUME NEW c \in Clerks, NEW r \in Reconciliations, NEW force \in BOOLEAN,
             Clear!ReadForComplete(c, r, force)
      PROVE  ClearInv'
  BY <1>5, ReadForCompleteFits
<1>6. ASSUME NEW c \in Clerks,
             \/ Clear!Tick(c) \/ Clear!SumUp(c) \/ Clear!WriteCleared(c)
             \/ Clear!LeaveHalfway(c)
      PROVE  ClearInv'
  BY <1>6, TickFits, SumUpFits, WriteClearedFits, LeaveHalfwayFits
<1>7. ASSUME NEW c \in Clerks,
             \/ Clear!Match(c) \/ Clear!CommitMatch(c) \/ Clear!Weigh(c) \/ Clear!Complete(c)
      PROVE  ClearInv'
  BY <1>7, MatchFits, CommitMatchFits, WeighFits, CompleteFits
<1> QED
  BY <1>1, <1>2, <1>3, <1>4, <1>5, <1>6, <1>7 DEF Clear!Next

(* ... and says that reconciliations balance. *)
LEMMA ClearSafe ==
    ASSUME ClearInv
    PROVE  Clear!ReconciliationsBalance
<1>1. Clear!ClearedIsTheSum
  <2> SUFFICES ASSUME NEW r \in Clear!InOrder, Clear!On(r) = {}
               PROVE  reconciliation[r].cleared = Clear!Sum(Clear!LinesOf(r))
    BY DEF Clear!ClearedIsTheSum
  <2>1. r \in Reconciliations /\ reconciliation[r] # NoRow /\ r \notin astray
    BY DEF Clear!InOrder
  <2>2. NothingTicked(r)
    BY DEF NothingTicked, Clear!On
  <2> QED
    BY <2>1, <2>2 DEF ClearInv, ClearedFits
<1>2. Clear!CompletedStaysClosed
  BY DEF ClearInv, ClosedFits, Clear!CompletedStaysClosed, Clear!InOrder
<1> QED
  BY <1>1, <1>2 DEF ClearInv, Clear!ReconciliationsBalance

(* The parts of bookkeeping take their steps, or rest. *)
LEMMA EachBookSteps ==
    ASSUME [BooksNext]_books
    PROVE  /\ UNCHANGED book
           /\ (book = "payables" /\ Pay!Next) \/ UNCHANGED payvars
           /\ (book = "clearing" /\ Clear!Next) \/ UNCHANGED clearvars
           /\ (book = "amounts" /\ Sums!Next) \/ UNCHANGED amountvars
BY DEF BooksNext, books

(* ReconciliationsBalance holds in every reachable state: a reconciliation *)
(* that nobody works on has cleared the sum of its lines, balanced when it *)
(* was completed and keeps its lines, unless it is astray                  *)
(* (domain/accounting/bank.ts:210-290, statement-import.ts:222-242).       *)
THEOREM ReconciliationsBalanceAlways == BooksSpec => []ReconciliationsBalance
<1>1. BooksInit => ClearInv
  BY ClearInit DEF BooksInit
<1>2. ClearInv /\ [BooksNext]_books => ClearInv'
  BY EachBookSteps, ClearStep, ClearRest
<1>3. ClearInv => ReconciliationsBalance
  BY ClearSafe DEF ReconciliationsBalance
<1> QED
  BY <1>1, <1>2, <1>3, PTL DEF BooksSpec

-----------------------------------------------------------------------------
(* What is owed to suppliers *)

(* The entries of the payable account. *)
AccountEntry ==
    [source : Bills \cup SupplierCredits \cup Payments, amount : Int,
     status : {"posted", "reversed"}]

VoidCall == [op : {"void", "voided"}, doc : Bills, row : BillRow]

(* Rows, allocations, entries and calls. *)
PayType ==
    /\ bill \in [Bills -> BillRow \cup {NoRow}]
    /\ supplierCredit \in [SupplierCredits -> SupplierCreditRow \cup {NoRow}]
    /\ payment \in [Payments -> PaymentRow \cup {NoRow}]
    /\ applied \in [Pay!Settlers -> [Bills -> Nat]]
    /\ account \in Seq(AccountEntry)
    /\ paying = [c \in Clerks |-> paying[c]]

(* A bill adds up, and its entry, if it has one, is of its total. *)
BillFits(b) ==
    LET row == bill[b] IN
    row # NoRow =>
        /\ row.total > 0
        /\ row.status # "void" => row.paid + row.due = row.total
        /\ row.status = "paid" <=> row.due = 0 /\ row.status # "void"
        /\ row.status = "draft" => row.entry = 0 /\ row.paid = 0
        /\ row.status = "void" => row.paid = 0 /\ ~Pay!Standing(b)
        /\ row.status \notin {"draft", "void"} => row.entry # 0
        /\ row.entry # 0 =>
              /\ row.entry \in DOMAIN account
              /\ account[row.entry].source = b /\ account[row.entry].amount = row.total

(* What is paid of it is what is applied to it. *)
PaidOf(b) == IF bill[b] = NoRow THEN 0 ELSE bill[b].paid

(* What is left of a credit, and of a payment, is what is not applied. *)
AppliedFrom(s) == Pay!Total(applied[s])

CreditFits(n) ==
    LET row == supplierCredit[n] IN
    /\ row = NoRow => AppliedFrom(n) = 0
    /\ row # NoRow =>
          /\ row.left + AppliedFrom(n) = row.total
          /\ row.status = "draft" => row.left = row.total

PaymentFits(p) ==
    LET row == payment[p] IN
    IF row = NoRow THEN AppliedFrom(p) = 0 ELSE row.unapplied + AppliedFrom(p) = row.amount

(* An allocation list that was read with the bills it names. *)
ListFits(call, available) ==
    /\ call.list \in AllocationLists
    /\ Pay!Total(call.list) <= available
    /\ \A b \in DOMAIN call.list :
          /\ call.bills[b] # NoRow /\ call.bills[b].status \in Pay!OpenBill
          /\ call.list[b] <= call.bills[b].due

(* What a call has read. *)
PayCallFits(call) ==
    /\ call.op \in {"update", "post", "voidDraft", "void", "voided", "postCredit", "apply",
                    "pay", "allocate"}
    /\ call.op \in {"update", "post", "voidDraft"} =>
          call.doc \in Bills /\ call.row \in BillRow /\ call.row.status = "draft"
    /\ call.op = "update" => call.total \in BillAmounts
    /\ call.op \in {"void", "voided"} =>
          /\ call \in VoidCall
          /\ call.row.status \notin {"draft", "void"} /\ call.row.due = call.row.total
          /\ call.row.entry \in DOMAIN account
    /\ call.op = "voided" => account[call.row.entry].status = "reversed"
    /\ call.op = "postCredit" =>
          /\ call.doc \in SupplierCredits /\ call.row \in SupplierCreditRow
          /\ call.row.status = "draft"
    /\ call.op = "apply" =>
          /\ call.doc \in SupplierCredits /\ call.row \in SupplierCreditRow
          /\ call.row.status # "draft" /\ ListFits(call, call.row.left)
    /\ call.op = "pay" =>
          /\ call.doc \in Payments /\ call.amount \in BillAmounts
          /\ ListFits(call, call.amount)
          /\ payment[call.doc] = NoRow
    /\ call.op = "allocate" =>
          /\ call.doc \in Payments /\ call.row \in PaymentRow
          /\ ListFits(call, call.row.unapplied)

(* A payment is posted by one call. *)
PaidOnce ==
    \A c, d \in Clerks :
        Pay!Calls(c, "pay") /\ Pay!Calls(d, "pay") /\ paying[c].doc = paying[d].doc => c = d

PayGood ==
    /\ PayType
    /\ \A b \in Bills : BillFits(b) /\ PaidOf(b) = Pay!AppliedTo(b)
    /\ \A n \in SupplierCredits : CreditFits(n)
    /\ \A p \in Payments : PaymentFits(p)
    /\ Pay!SubLedger = Pay!AccountBalance
    /\ \A c \in Clerks : paying[c] # NoRow => PayCallFits(paying[c])
    /\ PaidOnce

PayInv == ~overwritten => PayGood


-----------------------------------------------------------------------------
(* Sums of rows *)

(* The sum of a function is that over its domain. *)
LEMMA PaySum ==
    ASSUME NEW f
    PROVE  Pay!SumFunction(f) = SumFunctionOnSet(f, DOMAIN f)
  BY DEF Pay!SumFunction, Pay!SumFunctionOnSet, Pay!FoldFunctionOnSet, Pay!MapThenFoldSet,
         SumFunctionOnSet, FoldFunctionOnSet, MapThenFoldSet

(* If one row changes, the sum changes with it. *)
LEMMA PaySumChange ==
    ASSUME NEW f, NEW e, NEW S, IsFiniteSet(S), DOMAIN f = S, DOMAIN e = S, NEW x \in S,
           \A y \in S : f[y] \in Int /\ e[y] \in Int,
           \A y \in S \ {x} : e[y] = f[y]
    PROVE  /\ Pay!SumFunction(f) \in Int
           /\ Pay!SumFunction(e) = Pay!SumFunction(f) + (e[x] - f[x])
<1>1. SumFunctionOnSet(e, S) = SumFunctionOnSet(f, S) + (e[x] - f[x])
  BY SumChange
<1>2. SumFunctionOnSet(f, S) \in Int
  BY SumInt
<1> QED
  BY <1>1, <1>2, PaySum

(* What a list of allocations takes from each bill. *)
Taken(list) == [b \in Bills |-> IF b \in DOMAIN list THEN list[b] ELSE 0]

LEMMA TakenTogether ==
    ASSUME NEW list \in AllocationLists
    PROVE  /\ Pay!Total(list) \in Nat
           /\ SumFunctionOnSet(Taken(list), Bills) = Pay!Total(list)
           /\ \A b \in Bills : Taken(list)[b] \in Nat
           /\ \A b \in DOMAIN list : b \in Bills /\ list[b] \in Nat \ {0}
<1>1. DOMAIN list \in SUBSET Bills /\ \A b \in DOMAIN list : list[b] \in Nat \ {0}
  BY BookAmountsAssumption
<1>2. IsFiniteSet(Bills) /\ IsFiniteSet(DOMAIN list)
  BY <1>1, BookIdentifiersAssumption, FS_Subset
<1>3. PICK T : T = DOMAIN list
  OBVIOUS
<1>4. PICK g : g = Taken(list)
  OBVIOUS
<1>5. /\ \A b \in T : list[b] \in Int /\ g[b] = list[b]
      /\ \A b \in Bills \ T : g[b] = 0
      /\ \A b \in Bills : g[b] \in Nat
  BY <1>1, <1>3, <1>4 DEF Taken
<1>6. SumFunctionOnSet(g, Bills) = SumFunctionOnSet(list, T)
  BY <1>1, <1>2, <1>3, <1>5, SumFiltered
<1>7. SumFunctionOnSet(list, T) \in Nat
  BY <1>1, <1>2, <1>3, SumNat
<1>8. Pay!Total(list) = SumFunctionOnSet(list, T)
  BY <1>3, PaySum DEF Pay!Total
<1> QED
  BY <1>1, <1>4, <1>5, <1>6, <1>7, <1>8

(* The sums of the sub-ledger, of the account and of allocations. *)
LEMMA PaySums ==
    ASSUME PayType
    PROVE  /\ \A b \in Bills : Pay!Dues[b] \in Nat
           /\ \A n \in SupplierCredits : Pay!Lefts[n] \in Nat
           /\ \A p \in Payments : Pay!Remainders[p] \in Nat
           /\ DOMAIN Pay!Dues = Bills /\ DOMAIN Pay!Lefts = SupplierCredits
           /\ DOMAIN Pay!Remainders = Payments
           /\ Pay!SumFunction(Pay!Dues) \in Int /\ Pay!SumFunction(Pay!Lefts) \in Int
           /\ Pay!SumFunction(Pay!Remainders) \in Int /\ Pay!AccountBalance \in Int
           /\ IsFiniteSet(Pay!Settlers)
           /\ \A b \in Bills : Pay!AppliedTo(b) \in Int
           /\ \A s \in Pay!Settlers : AppliedFrom(s) \in Int
<1>1. \A b \in Bills : Pay!Dues[b] \in Nat
  BY DEF PayType, Pay!Dues, Pay!Drawn, BillRow
<1>2. \A n \in SupplierCredits : Pay!Lefts[n] \in Nat
  BY DEF PayType, Pay!Lefts, Pay!Credited, SupplierCreditRow
<1>3. \A p \in Payments : Pay!Remainders[p] \in Nat
  BY DEF PayType, Pay!Remainders, Pay!Paid, PaymentRow
<1>4. /\ DOMAIN Pay!Dues = Bills /\ DOMAIN Pay!Lefts = SupplierCredits
      /\ DOMAIN Pay!Remainders = Payments
  BY DEF Pay!Dues, Pay!Lefts, Pay!Remainders
<1>5. IsFiniteSet(Bills) /\ IsFiniteSet(SupplierCredits) /\ IsFiniteSet(Payments)
  BY BookIdentifiersAssumption
<1>6. SumFunctionOnSet(Pay!Dues, Bills) \in Int
  BY <1>1, <1>5, SumInt
<1>7. SumFunctionOnSet(Pay!Lefts, SupplierCredits) \in Int
  BY <1>2, <1>5, SumInt
<1>8. SumFunctionOnSet(Pay!Remainders, Payments) \in Int
  BY <1>3, <1>5, SumInt
<1>9. Pay!AccountBalance \in Int
  <2>1. PICK f : f = [k \in DOMAIN account |-> account[k].amount]
    OBVIOUS
  <2>2. DOMAIN f = 1 .. Len(account) /\ \A k \in DOMAIN f : f[k] \in Int
    <3>1. DOMAIN account = 1 .. Len(account) /\ \A k \in DOMAIN account : account[k] \in AccountEntry
      BY DEF PayType
    <3>2. \A k \in DOMAIN account : account[k].amount \in Int
      BY <3>1 DEF AccountEntry
    <3> QED
      BY <2>1, <3>1, <3>2
  <2>3. IsFiniteSet(DOMAIN f)
    <3>1. Len(account) \in Nat
      BY DEF PayType
    <3> QED
      BY <2>2, <3>1, FS_Interval
  <2>4. SumFunctionOnSet(f, DOMAIN f) \in Int
    BY <2>2, <2>3, SumInt
  <2> QED
    BY <2>1, <2>4, PaySum DEF Pay!AccountBalance
<1>10. IsFiniteSet(Pay!Settlers)
  BY <1>5, FS_Union DEF Pay!Settlers
<1>11. ASSUME NEW b \in Bills PROVE Pay!AppliedTo(b) \in Int
  <2>1. PICK f : f = [s \in Pay!Settlers |-> applied[s][b]]
    OBVIOUS
  <2>2. DOMAIN f = Pay!Settlers /\ \A s \in Pay!Settlers : f[s] \in Int
    BY <2>1 DEF PayType
  <2>3. SumFunctionOnSet(f, Pay!Settlers) \in Int
    BY <1>10, <2>2, SumInt
  <2> QED
    BY <2>1, <2>2, <2>3, PaySum DEF Pay!AppliedTo
<1>12. ASSUME NEW s \in Pay!Settlers PROVE AppliedFrom(s) \in Int
  <2>1. PICK f : f = applied[s]
    OBVIOUS
  <2>2. DOMAIN f = Bills /\ \A b \in Bills : f[b] \in Int
    BY <2>1 DEF PayType
  <2>3. SumFunctionOnSet(f, Bills) \in Int
    BY <1>5, <2>2, SumInt
  <2> QED
    BY <2>1, <2>2, <2>3, PaySum DEF AppliedFrom, Pay!Total
<1> QED
  BY <1>1, <1>2, <1>3, <1>4, <1>6, <1>7, <1>8, <1>9, <1>10, <1>11, <1>12, PaySum

-----------------------------------------------------------------------------
(* Entries *)

(* Entries stay, but for being reversed. *)
AccountKept ==
    \A k \in DOMAIN account :
        /\ k \in DOMAIN account'
        /\ account'[k].source = account[k].source /\ account'[k].amount = account[k].amount
        /\ account[k].status = "reversed" => account'[k].status = "reversed"

(* One more entry. *)
LEMMA AccountAppended ==
    ASSUME PayType, NEW entry \in AccountEntry, account' = Append(account, entry)
    PROVE  /\ account' \in Seq(AccountEntry) /\ AccountKept
           /\ Len(account) \in Nat /\ DOMAIN account = 1 .. Len(account)
           /\ Len(account) + 1 \in DOMAIN account' /\ account'[Len(account) + 1] = entry
           /\ \A k \in DOMAIN account : account'[k] = account[k]
           /\ Pay!AccountBalance' = Pay!AccountBalance + entry.amount
<1>1. /\ account \in Seq(AccountEntry) /\ account' \in Seq(AccountEntry)
      /\ Len(account) \in Nat /\ DOMAIN account = 1 .. Len(account)
      /\ DOMAIN account' = 1 .. Len(account) + 1
      /\ account'[Len(account) + 1] = entry
      /\ \A k \in DOMAIN account : account'[k] = account[k]
  BY DEF PayType
<1>2. PICK n : n = Len(account)
  OBVIOUS
<1>3. PICK f : f = [k \in DOMAIN account |-> account[k].amount]
  OBVIOUS
<1>4. PICK e : e = [k \in DOMAIN account' |-> account'[k].amount]
  OBVIOUS
<1>5. \A k \in DOMAIN account' : account'[k] \in AccountEntry
  BY <1>1
<1>6. n \in Nat /\ \A k \in 1 .. n + 1 : e[k] \in Int
  BY <1>1, <1>2, <1>4, <1>5 DEF AccountEntry
<1>7. SumFunctionOnSet(e, 1 .. n + 1) = SumFunctionOnSet(e, 1 .. n) + e[n + 1]
  BY <1>6, SumNext
<1>8. SumFunctionOnSet(e, 1 .. n) = SumFunctionOnSet(f, 1 .. n)
  <2>1. PICK S : S = 1 .. n
    OBVIOUS
  <2>2. IsFiniteSet(S)
    BY <1>6, <2>1, FS_Interval
  <2>3. \A k \in S : e[k] = f[k]
    BY <1>1, <1>2, <1>3, <1>4, <2>1
  <2> QED
    BY <2>1, <2>2, <2>3, SumSame
<1>9. e[n + 1] = entry.amount
  BY <1>1, <1>2, <1>4
<1>10. DOMAIN f = 1 .. n /\ DOMAIN e = 1 .. n + 1
  BY <1>1, <1>2, <1>3, <1>4
<1>11. Pay!AccountBalance = SumFunctionOnSet(f, 1 .. n)
  BY <1>3, <1>10, PaySum DEF Pay!AccountBalance
<1>12. Pay!AccountBalance' = SumFunctionOnSet(e, 1 .. n + 1)
  BY <1>4, <1>10, PaySum DEF Pay!AccountBalance
<1>13. AccountKept
  BY <1>1 DEF AccountKept
<1> QED
  BY <1>1, <1>7, <1>8, <1>9, <1>11, <1>12, <1>13

(* An entry is reversed by another. *)
LEMMA AccountReversed ==
    ASSUME PayType, NEW e \in DOMAIN account,
           account' = Append([account EXCEPT ![e].status = "reversed"],
                             Pay!Entry(account[e].source, -account[e].amount))
    PROVE  /\ account' \in Seq(AccountEntry) /\ AccountKept
           /\ e \in DOMAIN account' /\ account'[e].status = "reversed"
           /\ \A k \in DOMAIN account \ {e} : account'[k] = account[k]
           /\ Pay!AccountBalance' = Pay!AccountBalance - account[e].amount
<1>1. /\ account \in Seq(AccountEntry) /\ Len(account) \in Nat
      /\ DOMAIN account = 1 .. Len(account)
  BY DEF PayType
<1>2. account[e] \in AccountEntry
  BY <1>1
<1>3. PICK row : row = [account[e] EXCEPT !.status = "reversed"]
  OBVIOUS
<1>4. /\ row \in AccountEntry /\ row.status = "reversed"
      /\ row.source = account[e].source /\ row.amount = account[e].amount
  BY <1>2, <1>3 DEF AccountEntry
<1>5. PICK back : back = Pay!Entry(account[e].source, -account[e].amount)
  OBVIOUS
<1>6. back \in AccountEntry /\ back.amount = -account[e].amount
  BY <1>2, <1>5 DEF AccountEntry, Pay!Entry
<1>7. PICK kept : kept = [account EXCEPT ![e] = row]
  OBVIOUS
<1>8. /\ kept \in Seq(AccountEntry) /\ Len(kept) = Len(account) /\ DOMAIN kept = DOMAIN account
      /\ kept[e] = row /\ \A k \in DOMAIN account \ {e} : kept[k] = account[k]
  BY <1>1, <1>4, <1>7
<1>9. account' = Append(kept, back)
  BY <1>3, <1>5, <1>7
<1>10. /\ account' \in Seq(AccountEntry) /\ DOMAIN account' = 1 .. Len(account) + 1
       /\ account'[Len(account) + 1] = back /\ account'[e] = row
       /\ \A k \in DOMAIN account \ {e} : account'[k] = account[k]
  <2>1. /\ account' \in Seq(AccountEntry) /\ DOMAIN account' = 1 .. Len(kept) + 1
        /\ account'[Len(kept) + 1] = back
        /\ \A k \in 1 .. Len(kept) : account'[k] = kept[k]
    <3>1. kept \in Seq(AccountEntry) /\ back \in AccountEntry
      BY <1>6, <1>8
    <3>2. \A q \in Seq(AccountEntry) : \A x \in AccountEntry :
             /\ Append(q, x) \in Seq(AccountEntry) /\ DOMAIN Append(q, x) = 1 .. Len(q) + 1
             /\ Append(q, x)[Len(q) + 1] = x
             /\ \A k \in 1 .. Len(q) : Append(q, x)[k] = q[k]
      OBVIOUS
    <3>3. PICK q : q = kept
      OBVIOUS
    <3>4. PICK x : x = back
      OBVIOUS
    <3>5. account' = Append(q, x)
      BY <1>9, <3>3, <3>4
    <3>6. /\ Append(q, x) \in Seq(AccountEntry) /\ DOMAIN Append(q, x) = 1 .. Len(q) + 1
          /\ Append(q, x)[Len(q) + 1] = x
          /\ \A k \in 1 .. Len(q) : Append(q, x)[k] = q[k]
      BY <3>1, <3>2, <3>3, <3>4
    <3> QED
      BY <3>3, <3>4, <3>5, <3>6
  <2> QED
    BY <1>1, <1>8, <2>1
<1>11. PICK n : n = Len(account)
  OBVIOUS
<1>12. PICK S : S = 1 .. n
  OBVIOUS
<1>13. PICK f : f = [k \in DOMAIN account |-> account[k].amount]
  OBVIOUS
<1>14. PICK g : g = [k \in DOMAIN account' |-> account'[k].amount]
  OBVIOUS
<1>15. /\ n \in Nat /\ IsFiniteSet(S) /\ e \in S
       /\ DOMAIN f = S /\ DOMAIN g = 1 .. n + 1
  BY <1>1, <1>10, <1>11, <1>12, <1>13, <1>14, FS_Interval
<1>16. \A k \in DOMAIN account' : account'[k] \in AccountEntry
  BY <1>10
<1>17. \A k \in 1 .. n + 1 : g[k] \in Int
  BY <1>10, <1>11, <1>14, <1>16 DEF AccountEntry
<1>18. SumFunctionOnSet(g, 1 .. n + 1) = SumFunctionOnSet(g, 1 .. n) + g[n + 1]
  BY <1>15, <1>17, SumNext
<1>19. \A k \in S : g[k] = f[k]
  <2>1. ASSUME NEW k \in S PROVE account'[k].amount = account[k].amount
    BY <1>1, <1>4, <1>10, <1>11, <1>12
  <2>2. \A k \in S : k \in DOMAIN account /\ k \in DOMAIN account'
    BY <1>1, <1>10, <1>11, <1>12
  <2> QED
    BY <1>13, <1>14, <2>1, <2>2
<1>20. SumFunctionOnSet(g, S) = SumFunctionOnSet(f, S)
  BY <1>15, <1>19, SumSame
<1>21. g[n + 1] = -account[e].amount
  BY <1>1, <1>6, <1>10, <1>11, <1>14
<1>22. Pay!AccountBalance = SumFunctionOnSet(f, S)
  BY <1>13, <1>15, PaySum DEF Pay!AccountBalance
<1>23. Pay!AccountBalance' = SumFunctionOnSet(g, 1 .. n + 1)
  BY <1>14, <1>15, PaySum DEF Pay!AccountBalance
<1>24. AccountKept
  BY <1>1, <1>4, <1>10 DEF AccountKept
<1>25. Pay!AccountBalance \in Int /\ account[e].amount \in Int
  BY <1>2, PaySums DEF AccountEntry
<1> QED
  BY <1>1, <1>4, <1>10, <1>12, <1>18, <1>20, <1>21, <1>22, <1>23, <1>24, <1>25

-----------------------------------------------------------------------------
(* What a step leaves alone *)

(* A bill that is as before adds up as before. *)
LEMMA BillKept ==
    ASSUME PayType, NEW b \in Bills, BillFits(b), bill'[b] = bill[b], AccountKept
    PROVE  BillFits(b)'
<1> SUFFICES ASSUME bill[b] # NoRow PROVE BillFits(b)'
  BY DEF BillFits
<1>1. PICK row : row = bill[b]
  OBVIOUS
<1>2. row \in BillRow /\ row # NoRow
  BY <1>1 DEF PayType
<1>3. /\ row.status = "void" => row.entry = 0 \/ account[row.entry].status # "posted"
      /\ row.entry # 0 => /\ row.entry \in DOMAIN account
                          /\ account[row.entry].source = b
                          /\ account[row.entry].amount = row.total
  BY <1>1, <1>2 DEF BillFits, Pay!Standing
<1>4. row.entry # 0 => /\ row.entry \in DOMAIN account'
                       /\ account'[row.entry].source = b
                       /\ account'[row.entry].amount = row.total
  BY <1>3 DEF AccountKept
<1>5. row.status = "void" => row.entry = 0 \/ account'[row.entry].status # "posted"
  <2> SUFFICES ASSUME row.status = "void", row.entry # 0
               PROVE  account'[row.entry].status # "posted"
    OBVIOUS
  <2>1. row.entry \in DOMAIN account /\ account[row.entry].status # "posted"
    BY <1>3
  <2>2. account[row.entry] \in AccountEntry
    BY <2>1 DEF PayType
  <2>3. account[row.entry].status = "reversed"
    BY <2>1, <2>2 DEF AccountEntry
  <2> QED
    BY <2>1, <2>3 DEF AccountKept
<1> QED
  BY <1>1, <1>2, <1>4, <1>5 DEF BillFits, Pay!Standing

(* ... and counts for as much, unless its entry is reversed. *)
LEMMA DueKept ==
    ASSUME NEW b \in Bills, BillFits(b), bill'[b] = bill[b],
           \A k \in DOMAIN account :
              account'[k].status = account[k].status \/ account[k].source # b
    PROVE  Pay!Dues'[b] = Pay!Dues[b]
<1>1. Pay!Dues[b] = IF bill[b] # NoRow /\ Pay!Standing(b) THEN bill[b].due ELSE 0
  BY DEF Pay!Dues, Pay!Drawn
<1>2. Pay!Dues'[b] = IF bill'[b] # NoRow /\ Pay!Standing(b)' THEN bill'[b].due ELSE 0
  BY DEF Pay!Dues, Pay!Drawn
<1>3. CASE bill[b] = NoRow
  BY <1>1, <1>2, <1>3
<1>4. CASE bill[b] # NoRow /\ bill[b].entry = 0
  BY <1>1, <1>2, <1>4 DEF Pay!Standing
<1>5. CASE bill[b] # NoRow /\ bill[b].entry # 0
  <2>1. bill[b].entry \in DOMAIN account /\ account[bill[b].entry].source = b
    BY <1>5 DEF BillFits
  <2>2. account'[bill[b].entry].status = account[bill[b].entry].status
    BY <2>1
  <2> QED
    BY <1>1, <1>2, <2>2 DEF Pay!Standing
<1> QED
  BY <1>3, <1>4, <1>5

(* A list of allocations is one whatever happens. *)
LEMMA ListKept ==
    ASSUME NEW call, NEW available, ListFits(call, available)
    PROVE  ListFits(call, available)'
  BY DEF ListFits

(* What a call has read is as it was. *)
LEMMA PayCallKept ==
    ASSUME NEW call, PayCallFits(call), AccountKept,
           call.op = "pay" => payment'[call.doc] = payment[call.doc]
    PROVE  PayCallFits(call)'
<1>1. call.op \in {"void", "voided"} =>
         /\ call.row.entry \in DOMAIN account'
         /\ call.op = "voided" => account'[call.row.entry].status = "reversed"
  BY DEF PayCallFits, AccountKept
<1> QED
  BY <1>1, ListKept DEF PayCallFits

(* The calls of a step: who asks has read what fits, and a payment appears *)
(* when the call that posts it ends.                                       *)
PayMoves ==
    /\ paying' = [c \in Clerks |-> paying'[c]]
    /\ \A c \in Clerks : paying'[c] # paying[c] /\ paying'[c] # NoRow =>
          /\ PayCallFits(paying[c])'
          /\ \A d \in Clerks \ {c} :
                /\ paying'[d] = paying[d]
                /\ paying'[c].op = "pay" /\ Pay!Calls(d, "pay") =>
                      paying[d].doc # paying'[c].doc
    /\ \A p \in Payments : payment[p] = NoRow /\ payment'[p] # NoRow =>
          \E c \in Clerks :
              Pay!Calls(c, "pay") /\ paying[c].doc = p /\ paying'[c] = NoRow

(* Then calls fit. *)
LEMMA PayCallsFit ==
    ASSUME PayGood, PayMoves, AccountKept
    PROVE  /\ \A c \in Clerks : paying'[c] # NoRow => PayCallFits(paying[c])'
           /\ PaidOnce'
<1>1. ASSUME NEW c \in Clerks, paying'[c] # NoRow PROVE PayCallFits(paying[c])'
  <2>1. CASE paying'[c] # paying[c]
    BY <1>1, <2>1 DEF PayMoves
  <2>2. CASE paying'[c] = paying[c]
    <3>1. PICK call : call = paying[c]
      OBVIOUS
    <3>2. PayCallFits(call)
      BY <1>1, <2>2, <3>1 DEF PayGood
    <3>3. ASSUME call.op = "pay" PROVE payment'[call.doc] = payment[call.doc]
      <4>1. call.doc \in Payments /\ payment[call.doc] = NoRow
        BY <3>2, <3>3 DEF PayCallFits
      <4> SUFFICES ASSUME payment'[call.doc] # NoRow PROVE FALSE
        BY <4>1
      <4>2. PICK d \in Clerks :
               Pay!Calls(d, "pay") /\ paying[d].doc = call.doc /\ paying'[d] = NoRow
        BY <4>1 DEF PayMoves
      <4>3. Pay!Calls(c, "pay")
        BY <1>1, <2>2, <3>1, <3>3 DEF Pay!Calls
      <4>4. d = c
        BY <3>1, <4>2, <4>3 DEF PayGood, PaidOnce
      <4> QED
        BY <1>1, <4>2, <4>4
    <3>4. PayCallFits(call)'
      BY <3>2, <3>3, PayCallKept
    <3> QED
      BY <2>2, <3>1, <3>4
  <2> QED
    BY <2>1, <2>2
<1>2. PaidOnce'
  <2> SUFFICES ASSUME NEW c \in Clerks, NEW d \in Clerks, c # d,
                      Pay!Calls(c, "pay")', Pay!Calls(d, "pay")',
                      paying'[c].doc = paying'[d].doc
               PROVE  FALSE
    BY DEF PaidOnce
  <2>1. /\ paying'[c] # NoRow /\ paying'[c].op = "pay"
        /\ paying'[d] # NoRow /\ paying'[d].op = "pay"
    BY DEF Pay!Calls
  <2>2. CASE paying'[c] # paying[c]
    <3>1. paying'[d] = paying[d]
      BY <2>1, <2>2 DEF PayMoves
    <3>2. Pay!Calls(d, "pay")
      BY <2>1, <3>1 DEF Pay!Calls
    <3> QED
      BY <2>1, <2>2, <3>1, <3>2 DEF PayMoves
  <2>3. CASE paying'[d] # paying[d]
    <3>1. paying'[c] = paying[c]
      BY <2>1, <2>3 DEF PayMoves
    <3>2. Pay!Calls(c, "pay")
      BY <2>1, <3>1 DEF Pay!Calls
    <3> QED
      BY <2>1, <2>3, <3>1, <3>2 DEF PayMoves
  <2>4. CASE paying'[c] = paying[c] /\ paying'[d] = paying[d]
    <3>1. Pay!Calls(c, "pay") /\ Pay!Calls(d, "pay") /\ paying[c].doc = paying[d].doc
      BY <2>1, <2>4 DEF Pay!Calls
    <3> QED
      BY <3>1 DEF PayGood, PaidOnce
  <2> QED
    BY <2>2, <2>3, <2>4
<1> QED
  BY <1>1, <1>2

-----------------------------------------------------------------------------
(* Steps of a kind *)

(* One part of the sub-ledger changes by as much as one of its rows.       *)
LEMMA DuesChange ==
    ASSUME PayType, PayType', NEW b \in Bills,
           \A d \in Bills \ {b} : Pay!Dues'[d] = Pay!Dues[d]
    PROVE  Pay!SumFunction(Pay!Dues)' =
              Pay!SumFunction(Pay!Dues) + (Pay!Dues'[b] - Pay!Dues[b])
<1>1. PICK f : f = Pay!Dues
  OBVIOUS
<1>2. PICK e : e = Pay!Dues'
  OBVIOUS
<1>3. DOMAIN e = Bills /\ \A d \in Bills : e[d] \in Int
  BY <1>2 DEF PayType, Pay!Dues, Pay!Drawn, BillRow
<1>4. DOMAIN f = Bills /\ \A d \in Bills : f[d] \in Int
  BY <1>1 DEF PayType, Pay!Dues, Pay!Drawn, BillRow
<1>5. Pay!SumFunction(e) = Pay!SumFunction(f) + (e[b] - f[b])
  BY <1>1, <1>2, <1>3, <1>4, PaySumChange, BookIdentifiersAssumption
<1> QED
  BY <1>1, <1>2, <1>5, PaySum

LEMMA LeftsChange ==
    ASSUME PayType, PayType', NEW n \in SupplierCredits,
           \A m \in SupplierCredits \ {n} : supplierCredit'[m] = supplierCredit[m]
    PROVE  Pay!SumFunction(Pay!Lefts)' =
              Pay!SumFunction(Pay!Lefts) + (Pay!Lefts'[n] - Pay!Lefts[n])
<1>1. PICK f : f = Pay!Lefts
  OBVIOUS
<1>2. PICK e : e = Pay!Lefts'
  OBVIOUS
<1>3. DOMAIN e = SupplierCredits /\ \A m \in SupplierCredits : e[m] \in Int
  BY <1>2 DEF PayType, Pay!Lefts, Pay!Credited, SupplierCreditRow
<1>4. DOMAIN f = SupplierCredits /\ \A m \in SupplierCredits : f[m] \in Int
  BY <1>1 DEF PayType, Pay!Lefts, Pay!Credited, SupplierCreditRow
<1>5. \A m \in SupplierCredits \ {n} : e[m] = f[m]
  BY <1>1, <1>2 DEF Pay!Lefts, Pay!Credited
<1>6. Pay!SumFunction(e) = Pay!SumFunction(f) + (e[n] - f[n])
  BY <1>3, <1>4, <1>5, PaySumChange, BookIdentifiersAssumption
<1> QED
  BY <1>1, <1>2, <1>6, PaySum

LEMMA RemaindersChange ==
    ASSUME PayType, PayType', NEW p \in Payments,
           \A q \in Payments \ {p} : payment'[q] = payment[q]
    PROVE  Pay!SumFunction(Pay!Remainders)' =
              Pay!SumFunction(Pay!Remainders) + (Pay!Remainders'[p] - Pay!Remainders[p])
<1>1. PICK f : f = Pay!Remainders
  OBVIOUS
<1>2. PICK e : e = Pay!Remainders'
  OBVIOUS
<1>3. DOMAIN e = Payments /\ \A q \in Payments : e[q] \in Int
  BY <1>2 DEF PayType, Pay!Remainders, Pay!Paid, PaymentRow
<1>4. DOMAIN f = Payments /\ \A q \in Payments : f[q] \in Int
  BY <1>1 DEF PayType, Pay!Remainders, Pay!Paid, PaymentRow
<1>5. \A q \in Payments \ {p} : e[q] = f[q]
  BY <1>1, <1>2 DEF Pay!Remainders, Pay!Paid
<1>6. Pay!SumFunction(e) = Pay!SumFunction(f) + (e[p] - f[p])
  BY <1>3, <1>4, <1>5, PaySumChange, BookIdentifiersAssumption
<1> QED
  BY <1>1, <1>2, <1>6, PaySum

(* A step with its own row, entry and call done makes everything fit.      *)
LEMMA PayStepFits ==
    ASSUME PayGood, PayType', PayMoves, AccountKept,
           \A b \in Bills : BillFits(b)' /\ PaidOf(b)' = Pay!AppliedTo(b)',
           \A n \in SupplierCredits : CreditFits(n)',
           \A p \in Payments : PaymentFits(p)',
           (Pay!SubLedger = Pay!AccountBalance)'
    PROVE  PayGood'
<1>1. /\ \A c \in Clerks : paying'[c] # NoRow => PayCallFits(paying[c])'
      /\ PaidOnce'
  BY PayCallsFit
<1> QED
  BY <1>1 DEF PayGood

(* Rows of credits that are as before fit as before. *)
LEMMA OthersFit ==
    ASSUME PayGood
    PROVE  /\ \A n \in SupplierCredits :
                 supplierCredit'[n] = supplierCredit[n] /\ applied'[n] = applied[n]
                    => CreditFits(n)'
           /\ \A p \in Payments :
                 payment'[p] = payment[p] /\ applied'[p] = applied[p] => PaymentFits(p)'
<1>1. ASSUME NEW s, applied'[s] = applied[s] PROVE AppliedFrom(s)' = AppliedFrom(s)
  BY <1>1, PaySum DEF AppliedFrom, Pay!Total
<1>2. ASSUME NEW n \in SupplierCredits,
             supplierCredit'[n] = supplierCredit[n], applied'[n] = applied[n]
      PROVE  CreditFits(n)'
  BY <1>1, <1>2 DEF CreditFits, PayGood
<1>3. ASSUME NEW p \in Payments, payment'[p] = payment[p], applied'[p] = applied[p]
      PROVE  PaymentFits(p)'
  BY <1>1, <1>3 DEF PaymentFits, PayGood
<1> QED
  BY <1>2, <1>3

LEMMA AppliedToSame ==
    ASSUME NEW b, applied' = applied
    PROVE  Pay!AppliedTo(b)' = Pay!AppliedTo(b)
  BY PaySum DEF Pay!AppliedTo

(* A call asks. *)
LEMMA PayReadKeeps ==
    ASSUME PayGood, NEW c \in Clerks, NEW call, Pay!Ask(c, call), PayCallFits(call),
           UNCHANGED <<bill, supplierCredit, payment, applied, account>>,
           call.op = "pay" => \A d \in Clerks : Pay!Calls(d, "pay") => paying[d].doc # call.doc
    PROVE  PayGood'
<1>1. AccountKept
  BY DEF AccountKept
<1>2. /\ paying' = [paying EXCEPT ![c] = call] /\ paying = [d \in Clerks |-> paying[d]]
  BY DEF Pay!Ask, PayGood, PayType
<1>3. /\ paying' = [d \in Clerks |-> paying'[d]]
      /\ paying'[c] = call /\ \A d \in Clerks \ {c} : paying'[d] = paying[d]
  BY <1>2
<1>4. PayMoves
  <2>1. PayCallFits(call)'
    BY <1>1, PayCallKept
  <2>2. PayCallFits(paying[c])'
    BY <1>3, <2>1
  <2> QED
    BY <1>3, <2>2 DEF PayMoves
<1>5. PayType'
  BY <1>3 DEF PayGood, PayType
<1>6. ASSUME NEW b \in Bills PROVE BillFits(b)' /\ PaidOf(b)' = Pay!AppliedTo(b)'
  <2>1. BillFits(b)'
    BY <1>1, BillKept DEF PayGood
  <2>2. PaidOf(b)' = PaidOf(b)
    BY DEF PaidOf
  <2> QED
    BY <2>1, <2>2, AppliedToSame DEF PayGood
<1>7. Pay!SubLedger' = Pay!SubLedger
  <2>1. Pay!Dues' = Pay!Dues /\ Pay!Lefts' = Pay!Lefts /\ Pay!Remainders' = Pay!Remainders
    BY DEF Pay!Dues, Pay!Drawn, Pay!Standing, Pay!Lefts, Pay!Credited, Pay!Remainders, Pay!Paid
  <2> QED
    BY <2>1, PaySum DEF Pay!SubLedger
<1>8. Pay!AccountBalance' = Pay!AccountBalance
  BY PaySum DEF Pay!AccountBalance
<1>9. (Pay!SubLedger = Pay!AccountBalance)'
  BY <1>7, <1>8 DEF PayGood
<1>10. /\ \A n \in SupplierCredits : CreditFits(n)'
       /\ \A p \in Payments : PaymentFits(p)'
  BY OthersFit
<1> QED
  BY <1>1, <1>4, <1>5, <1>6, <1>9, <1>10, PayStepFits

(* A bill and its entry change. *)
LEMMA PayBillKeeps ==
    ASSUME PayGood, PayType', PayMoves, AccountKept, NEW b \in Bills,
           \A d \in Bills \ {b} : bill'[d] = bill[d],
           UNCHANGED <<supplierCredit, payment, applied>>,
           \A k \in DOMAIN account :
              account'[k].status = account[k].status \/ account[k].source = b,
           BillFits(b)', PaidOf(b)' = PaidOf(b),
           Pay!AccountBalance' = Pay!AccountBalance + (Pay!Dues'[b] - Pay!Dues[b])
    PROVE  PayGood'
<1>1. ASSUME NEW d \in Bills PROVE BillFits(d)' /\ PaidOf(d)' = Pay!AppliedTo(d)'
  <2>1. BillFits(d)'
    <3>1. CASE d = b
      BY <3>1
    <3>2. CASE d # b
      BY <3>2, BillKept DEF PayGood
    <3> QED
      BY <3>1, <3>2
  <2>2. PaidOf(d)' = PaidOf(d)
    BY DEF PaidOf
  <2> QED
    BY <2>1, <2>2, AppliedToSame DEF PayGood
<1>2. \A d \in Bills \ {b} : Pay!Dues'[d] = Pay!Dues[d]
  BY DueKept DEF PayGood
<1>3. Pay!SumFunction(Pay!Dues)' = Pay!SumFunction(Pay!Dues) + (Pay!Dues'[b] - Pay!Dues[b])
  BY <1>2, DuesChange DEF PayGood
<1>4. Pay!Lefts' = Pay!Lefts /\ Pay!Remainders' = Pay!Remainders
  BY DEF Pay!Lefts, Pay!Credited, Pay!Remainders, Pay!Paid
<1>5. /\ Pay!SumFunction(Pay!Lefts)' = Pay!SumFunction(Pay!Lefts)
      /\ Pay!SumFunction(Pay!Remainders)' = Pay!SumFunction(Pay!Remainders)
  BY <1>4, PaySum
<1>6. /\ Pay!SumFunction(Pay!Dues) \in Int /\ Pay!SumFunction(Pay!Lefts) \in Int
      /\ Pay!SumFunction(Pay!Remainders) \in Int /\ Pay!AccountBalance \in Int
      /\ Pay!Dues[b] \in Int
  BY PaySums DEF PayGood
<1>7. Pay!Dues'[b] \in Int
  BY DEF PayType, Pay!Dues, Pay!Drawn, BillRow
<1>8. (Pay!SubLedger = Pay!AccountBalance)'
  <2>1. Pay!SubLedger = Pay!AccountBalance
    BY DEF PayGood
  <2> QED
    BY <1>3, <1>5, <1>6, <1>7, <2>1 DEF Pay!SubLedger
<1>9. /\ \A n \in SupplierCredits : CreditFits(n)'
      /\ \A p \in Payments : PaymentFits(p)'
  BY OthersFit
<1> QED
  BY <1>1, <1>8, <1>9, PayStepFits

(* A list of allocations is stored: what is due goes down by what is       *)
(* applied.                                                                *)
LEMMA PaySettles ==
    ASSUME PayGood, NEW c \in Clerks, NEW s \in Pay!Settlers, NEW available \in Nat,
           ListFits(paying[c], available), Pay!SettleBills(c, s), ~Pay!BillsChanged(c),
           AccountKept, \A k \in DOMAIN account : account'[k].status = account[k].status
    PROVE  /\ bill' \in [Bills -> BillRow \cup {NoRow}]
           /\ applied' \in [Pay!Settlers -> [Bills -> Nat]]
           /\ \A b \in Bills : BillFits(b)' /\ PaidOf(b)' = Pay!AppliedTo(b)'
           /\ \A q \in Pay!Settlers \ {s} : applied'[q] = applied[q]
           /\ Pay!Total(paying[c].list) \in Nat /\ Pay!Total(paying[c].list) <= available
           /\ AppliedFrom(s)' = AppliedFrom(s) + Pay!Total(paying[c].list)
           /\ Pay!SumFunction(Pay!Dues)' =
                 Pay!SumFunction(Pay!Dues) - Pay!Total(paying[c].list)
<1>1. PICK list : list = paying[c].list
  OBVIOUS
<1>2. PICK read : read = paying[c].bills
  OBVIOUS
<1>3. PICK taken : taken = Taken(list)
  OBVIOUS
<1>4. PICK T : T = Pay!Total(list)
  OBVIOUS
<1>5. /\ list \in AllocationLists /\ T <= available
      /\ \A b \in DOMAIN list :
            read[b] # NoRow /\ read[b].status \in Pay!OpenBill /\ list[b] <= read[b].due
  BY <1>1, <1>2, <1>4 DEF ListFits
<1>6. /\ T \in Nat /\ SumFunctionOnSet(taken, Bills) = T
      /\ \A b \in Bills : taken[b] \in Nat
      /\ \A b \in DOMAIN list : b \in Bills /\ list[b] \in Nat \ {0}
  BY <1>3, <1>4, <1>5, TakenTogether
<1>7. \A b \in Bills : taken[b] = IF b \in DOMAIN list THEN list[b] ELSE 0
  BY <1>3 DEF Taken
<1>8. \A b \in DOMAIN list : bill[b] = read[b] /\ Pay!Standing(b)
  BY <1>1, <1>2 DEF Pay!BillsChanged
<1>9. \A b \in Bills :
         bill'[b] = IF b \in DOMAIN list
                    THEN [bill[b] EXCEPT
                            !.paid = read[b].paid + list[b], !.due = read[b].due - list[b],
                            !.status = IF read[b].due = list[b] THEN "paid"
                                                               ELSE "partially_paid"]
                    ELSE bill[b]
  BY <1>1, <1>2 DEF Pay!SettleBills
<1>10. /\ applied' = [applied EXCEPT ![s] = [b \in Bills |-> @[b] + taken[b]]]
       /\ applied \in [Pay!Settlers -> [Bills -> Nat]]
  <2>1. applied' = [applied EXCEPT ![s] =
                      [b \in Bills |-> @[b] + IF b \in DOMAIN list THEN list[b] ELSE 0]]
    BY <1>1 DEF Pay!SettleBills
  <2>2. [b \in Bills |-> applied[s][b] + taken[b]] =
           [b \in Bills |-> applied[s][b] + IF b \in DOMAIN list THEN list[b] ELSE 0]
    BY <1>7
  <2> QED
    BY <2>1, <2>2 DEF PayGood, PayType
<1>11. /\ \A q \in Pay!Settlers \ {s} : applied'[q] = applied[q]
       /\ \A b \in Bills : applied'[s][b] = applied[s][b] + taken[b]
       /\ \A b \in Bills : applied[s][b] \in Nat /\ applied'[s][b] \in Nat
       /\ applied' \in [Pay!Settlers -> [Bills -> Nat]]
       /\ DOMAIN applied[s] = Bills /\ DOMAIN applied'[s] = Bills
  <2>1. PICK row : row = [b \in Bills |-> applied[s][b] + taken[b]]
    OBVIOUS
  <2>2. applied[s] \in [Bills -> Nat]
    BY <1>10
  <2>3. row \in [Bills -> Nat] /\ \A b \in Bills : row[b] = applied[s][b] + taken[b]
    BY <1>6, <2>1, <2>2
  <2>4. applied' = [applied EXCEPT ![s] = row]
    BY <1>10, <2>1
  <2> QED
    BY <1>10, <2>2, <2>3, <2>4
<1>12. AppliedFrom(s)' = AppliedFrom(s) + T
  <2>1. PICK f : f = applied[s]
    OBVIOUS
  <2>2. PICK g : g = applied'[s]
    OBVIOUS
  <2>3. IsFiniteSet(Bills) /\ DOMAIN f = Bills /\ DOMAIN g = Bills
    BY <1>11, <2>1, <2>2, BookIdentifiersAssumption
  <2>4. \A b \in Bills : f[b] \in Int /\ taken[b] \in Int /\ g[b] = f[b] + taken[b]
    BY <1>6, <1>11, <2>1, <2>2
  <2>5. SumFunctionOnSet(g, Bills) = SumFunctionOnSet(f, Bills) + SumFunctionOnSet(taken, Bills)
    BY <2>3, <2>4, SumPlus
  <2> QED
    BY <1>6, <2>1, <2>2, <2>3, <2>5, PaySum DEF AppliedFrom, Pay!Total
<1>13. ASSUME NEW b \in Bills PROVE Pay!AppliedTo(b)' = Pay!AppliedTo(b) + taken[b]
  <2>1. PICK f : f = [q \in Pay!Settlers |-> applied[q][b]]
    OBVIOUS
  <2>2. PICK g : g = [q \in Pay!Settlers |-> applied'[q][b]]
    OBVIOUS
  <2>3. DOMAIN f = Pay!Settlers /\ DOMAIN g = Pay!Settlers /\ IsFiniteSet(Pay!Settlers)
    BY <2>1, <2>2, PaySums DEF PayGood
  <2>4. /\ \A q \in Pay!Settlers : f[q] \in Int /\ g[q] \in Int
        /\ \A q \in Pay!Settlers \ {s} : g[q] = f[q]
        /\ g[s] - f[s] = taken[b]
    BY <1>6, <1>10, <1>11, <2>1, <2>2
  <2>5. Pay!SumFunction(g) = Pay!SumFunction(f) + (g[s] - f[s])
    BY <2>3, <2>4, PaySumChange
  <2> QED
    BY <2>1, <2>2, <2>4, <2>5, PaySum DEF Pay!AppliedTo
<1>14. ASSUME NEW b \in Bills, b \in DOMAIN list
       PROVE  /\ bill[b] \in BillRow /\ bill'[b] \in BillRow /\ bill'[b] # NoRow
              /\ bill[b] # NoRow /\ bill[b].entry # 0 /\ bill'[b].entry = bill[b].entry
              /\ bill'[b].paid = bill[b].paid + taken[b]
              /\ bill'[b].due = bill[b].due - taken[b]
              /\ BillFits(b)'
  <2>1. PICK row : row = bill[b]
    OBVIOUS
  <2>2. PICK next : next = bill'[b]
    OBVIOUS
  <2>3. /\ row # NoRow /\ row.status \in Pay!OpenBill /\ list[b] <= row.due
        /\ list[b] \in Nat \ {0}
    BY <1>5, <1>6, <1>8, <1>14, <2>1
  <2>4. row \in BillRow
    BY <2>1, <2>3 DEF PayGood, PayType
  <2>5. next = [row EXCEPT !.paid = row.paid + list[b], !.due = row.due - list[b],
                           !.status = IF row.due = list[b] THEN "paid" ELSE "partially_paid"]
    BY <1>8, <1>9, <1>14, <2>1, <2>2
  <2>6. /\ next.paid = row.paid + list[b] /\ next.due = row.due - list[b]
        /\ next.total = row.total /\ next.entry = row.entry
        /\ next.status = IF row.due = list[b] THEN "paid" ELSE "partially_paid"
        /\ row.paid \in Nat /\ row.due \in Nat /\ row.total \in Nat
    BY <2>4, <2>5 DEF BillRow
  <2>7. next.paid \in Nat /\ next.due \in Nat
    BY <2>3, <2>6
  <2>8. next \in BillRow
    BY <2>4, <2>5, <2>6, <2>7 DEF BillRow
  <2>9. next # NoRow
    BY <2>8, NoRowAssumption
  <2>10. /\ row.total > 0 /\ row.paid + row.due = row.total
         /\ row.entry # 0 /\ row.entry \in DOMAIN account
         /\ account[row.entry].source = b /\ account[row.entry].amount = row.total
    BY <2>1, <2>3 DEF PayGood, BillFits, Pay!OpenBill
  <2>11. /\ row.entry \in DOMAIN account'
         /\ account'[row.entry].source = b /\ account'[row.entry].amount = row.total
    BY <2>10 DEF AccountKept
  <2>12. /\ next.total > 0 /\ next.paid + next.due = next.total
         /\ next.status = "paid" <=> next.due = 0
         /\ next.status \notin {"draft", "void"}
    BY <2>3, <2>6, <2>10
  <2>13. BillFits(b)'
    BY <2>2, <2>6, <2>10, <2>11, <2>12 DEF BillFits
  <2> QED
    BY <1>7, <1>14, <2>1, <2>2, <2>3, <2>4, <2>6, <2>8, <2>9, <2>10, <2>13
<1>15. ASSUME NEW b \in Bills, b \notin DOMAIN list
       PROVE  bill'[b] = bill[b] /\ taken[b] = 0 /\ BillFits(b)'
  <2>1. bill'[b] = bill[b] /\ taken[b] = 0
    BY <1>7, <1>9, <1>15
  <2> QED
    BY <2>1, BillKept DEF PayGood
<1>16. bill' \in [Bills -> BillRow \cup {NoRow}]
  <2>1. \A b \in Bills : bill'[b] \in BillRow \cup {NoRow}
    BY <1>14, <1>15 DEF PayGood, PayType
  <2>2. bill' = [b \in Bills |-> bill'[b]]
    BY DEF Pay!SettleBills
  <2> QED
    BY <2>1, <2>2
<1>17. ASSUME NEW b \in Bills PROVE BillFits(b)' /\ PaidOf(b)' = Pay!AppliedTo(b)'
  <2>1. PaidOf(b) = Pay!AppliedTo(b) /\ Pay!AppliedTo(b) \in Int
    BY PaySums DEF PayGood
  <2>2. CASE b \in DOMAIN list
    <3>1. PaidOf(b)' = PaidOf(b) + taken[b]
      BY <1>14, <2>2 DEF PaidOf
    <3> QED
      BY <1>13, <1>14, <2>1, <2>2, <3>1
  <2>3. CASE b \notin DOMAIN list
    <3>1. PaidOf(b)' = PaidOf(b)
      BY <1>15, <2>3 DEF PaidOf
    <3> QED
      BY <1>13, <1>15, <2>1, <2>3, <3>1
  <2> QED
    BY <2>2, <2>3
<1>18. Pay!SumFunction(Pay!Dues)' = Pay!SumFunction(Pay!Dues) - T
  <2>1. PICK f : f = Pay!Dues
    OBVIOUS
  <2>2. PICK g : g = Pay!Dues'
    OBVIOUS
  <2>3. /\ DOMAIN f = Bills /\ DOMAIN g = Bills /\ IsFiniteSet(Bills)
        /\ \A b \in Bills : f[b] \in Nat
    BY <2>1, <2>2, PaySums, BookIdentifiersAssumption DEF PayGood, Pay!Dues
  <2>4. ASSUME NEW b \in Bills PROVE g[b] \in Int /\ f[b] = g[b] + taken[b]
    <3>1. CASE b \in DOMAIN list
      <4>1. f[b] = bill[b].due
        BY <1>8, <1>14, <2>1, <3>1 DEF Pay!Dues, Pay!Drawn
      <4>2. Pay!Standing(b)'
        <5>1. /\ bill[b].entry # 0 /\ account[bill[b].entry].status = "posted"
              /\ bill[b].entry \in DOMAIN account
          BY <1>8, <1>14, <3>1 DEF Pay!Standing, PayGood, BillFits
        <5> QED
          BY <1>14, <3>1, <5>1 DEF Pay!Standing
      <4>3. g[b] = bill'[b].due
        BY <1>14, <2>2, <3>1, <4>2 DEF Pay!Dues, Pay!Drawn
      <4> QED
        BY <1>6, <1>14, <2>3, <3>1, <4>1, <4>3
    <3>2. CASE b \notin DOMAIN list
      <4>1. g[b] = f[b]
        BY <1>15, <2>1, <2>2, <3>2, DueKept DEF PayGood
      <4> QED
        BY <1>15, <2>3, <3>2, <4>1
    <3> QED
      BY <3>1, <3>2
  <2>5. \A b \in Bills : g[b] \in Int /\ taken[b] \in Int /\ f[b] = g[b] + taken[b]
    BY <1>6, <2>4
  <2>6. SumFunctionOnSet(f, Bills) = SumFunctionOnSet(g, Bills) + SumFunctionOnSet(taken, Bills)
    BY <2>3, <2>5, SumPlus
  <2>7. SumFunctionOnSet(g, Bills) \in Int
    BY <2>3, <2>5, SumInt
  <2>8. /\ Pay!SumFunction(Pay!Dues) = SumFunctionOnSet(f, Bills)
        /\ Pay!SumFunction(Pay!Dues)' = SumFunctionOnSet(g, Bills)
    BY <2>1, <2>2, <2>3, PaySum
  <2> QED
    BY <1>6, <2>6, <2>7, <2>8
<1> QED
  BY <1>1, <1>4, <1>5, <1>6, <1>11, <1>12, <1>16, <1>17, <1>18

-----------------------------------------------------------------------------
(* Each step *)

(* A call ends. *)
LEMMA PayCommits ==
    ASSUME PayType, NEW c \in Clerks, NEW changed, Pay!Commit(c, changed),
           \A p \in Payments : payment[p] = NoRow /\ payment'[p] # NoRow =>
              Pay!Calls(c, "pay") /\ paying[c].doc = p
    PROVE  /\ PayMoves /\ paying' = [d \in Clerks |-> paying'[d]]
           /\ ~overwritten' => ~overwritten /\ ~changed
<1>1. paying' = [paying EXCEPT ![c] = NoRow] /\ paying = [d \in Clerks |-> paying[d]]
  BY DEF Pay!Commit, PayType
<1>2. /\ paying' = [d \in Clerks |-> paying'[d]]
      /\ paying'[c] = NoRow /\ \A d \in Clerks \ {c} : paying'[d] = paying[d]
  BY <1>1
<1>3. PayMoves
  BY <1>2 DEF PayMoves
<1> QED
  BY <1>2, <1>3 DEF Pay!Commit

(* What the caller has read. *)
LEMMA PayCaller ==
    ASSUME PayGood, NEW c \in Clerks, NEW op, Pay!Calls(c, op)
    PROVE  PayCallFits(paying[c]) /\ paying[c].op = op
  BY DEF PayGood, Pay!Calls

LEMMA CreateBillFits ==
    ASSUME PayGood, NEW b \in Bills, NEW t \in BillAmounts, Pay!CreateBill(b, t)
    PROVE  PayGood'
<1>1. PICK row : row = Pay!Bill(t)
  OBVIOUS
<1>2. /\ row \in BillRow /\ row.total = t /\ row.due = t /\ row.paid = 0 /\ row.entry = 0
      /\ row.status = "draft" /\ t \in Nat \ {0}
  BY <1>1, BookAmountsAssumption DEF Pay!Bill, BillRow
<1>3. /\ bill' = [bill EXCEPT ![b] = row] /\ bill[b] = NoRow
      /\ bill \in [Bills -> BillRow \cup {NoRow}]
  BY <1>1 DEF Pay!CreateBill, PayGood, PayType
<1>4. /\ bill' \in [Bills -> BillRow \cup {NoRow}] /\ bill'[b] = row
      /\ \A d \in Bills \ {b} : bill'[d] = bill[d]
  BY <1>2, <1>3
<1>5. UNCHANGED <<supplierCredit, payment, applied, account, paying>>
  BY DEF Pay!CreateBill
<1>6. PayType'
  BY <1>4, <1>5 DEF PayGood, PayType
<1>7. AccountKept
  BY <1>5 DEF AccountKept
<1>8. PayMoves
  BY <1>5 DEF PayMoves, PayGood, PayType
<1>9. BillFits(b)'
  BY <1>2, <1>4 DEF BillFits
<1>10. PaidOf(b)' = PaidOf(b)
  BY <1>2, <1>3, <1>4, NoRowAssumption DEF PaidOf
<1>11. Pay!Dues'[b] = 0 /\ Pay!Dues[b] = 0
  BY <1>2, <1>3, <1>4 DEF Pay!Dues, Pay!Drawn, Pay!Standing
<1>12. Pay!AccountBalance' = Pay!AccountBalance /\ Pay!AccountBalance \in Int
  BY <1>5, PaySum, PaySums DEF Pay!AccountBalance, PayGood
<1> QED
  BY <1>4, <1>5, <1>6, <1>7, <1>8, <1>9, <1>10, <1>11, <1>12, PayBillKeeps

(* A draft, unchanged since it was read, is changed. *)
LEMMA DraftFits ==
    ASSUME PayGood, NEW c \in Clerks, ~overwritten',
           Pay!UpdateBill(c) \/ Pay!VoidDraft(c)
    PROVE  PayGood'
<1>1. PICK b : b = paying[c].doc
  OBVIOUS
<1>2. PICK row : row = bill[b]
  OBVIOUS
<1>3. PICK next : next = bill'[b]
  OBVIOUS
<1>4. /\ UNCHANGED <<supplierCredit, payment, applied, account>>
      /\ Pay!Commit(c, bill[b] # paying[c].row)
  BY <1>1 DEF Pay!UpdateBill, Pay!VoidDraft
<1>5. PayMoves /\ paying' = [d \in Clerks |-> paying'[d]] /\ row = paying[c].row
  BY <1>2, <1>4, PayCommits DEF PayGood
<1>6. /\ PayCallFits(paying[c])
      /\ Pay!UpdateBill(c) => paying[c].op = "update"
      /\ Pay!VoidDraft(c) => paying[c].op = "voidDraft"
  BY PayCaller DEF Pay!UpdateBill, Pay!VoidDraft
<1>7. b \in Bills /\ row \in BillRow /\ row.status = "draft"
  BY <1>1, <1>5, <1>6 DEF PayCallFits
<1>8. row # NoRow
  BY <1>7, NoRowAssumption
<1>9. row.total > 0 /\ row.entry = 0 /\ row.paid = 0 /\ row.paid + row.due = row.total
  BY <1>2, <1>7, <1>8 DEF PayGood, BillFits
<1>10. bill = [d \in Bills |-> bill[d]] /\ \A d \in Bills : bill[d] \in BillRow \cup {NoRow}
  BY DEF PayGood, PayType
<1>11. /\ bill' = [d \in Bills |-> bill'[d]] /\ \A d \in Bills \ {b} : bill'[d] = bill[d]
       /\ next \in BillRow /\ next # NoRow /\ next.total > 0 /\ next.paid = 0 /\ next.entry = 0
       /\ next.due = next.total
       /\ next.status \in {"draft", "void"}
  <2>1. CASE Pay!UpdateBill(c)
    <3>1. PICK t : t = paying[c].total
      OBVIOUS
    <3>2. t \in Nat \ {0}
      BY <1>6, <2>1, <3>1, BookAmountsAssumption DEF PayCallFits
    <3>3. bill' = [bill EXCEPT ![b].total = t, ![b].due = t]
      BY <1>1, <2>1, <3>1 DEF Pay!UpdateBill
    <3>4. next = [row EXCEPT !.total = t, !.due = t]
      BY <1>2, <1>3, <1>7, <1>10, <3>3
    <3>5. /\ next \in BillRow /\ next.total = t /\ next.due = t /\ next.status = row.status
          /\ next.paid = row.paid /\ next.entry = row.entry
      BY <1>7, <3>2, <3>4 DEF BillRow
    <3>6. bill' = [d \in Bills |-> bill'[d]] /\ \A d \in Bills \ {b} : bill'[d] = bill[d]
      BY <1>10, <3>3
    <3> QED
      BY <1>7, <1>9, <3>2, <3>5, <3>6, NoRowAssumption
  <2>2. CASE Pay!VoidDraft(c)
    <3>1. bill' = [bill EXCEPT ![b].status = "void"]
      BY <1>1, <2>2 DEF Pay!VoidDraft
    <3>2. next = [row EXCEPT !.status = "void"]
      BY <1>2, <1>3, <1>7, <1>10, <3>1
    <3>3. /\ next \in BillRow /\ next.total = row.total /\ next.due = row.due
          /\ next.paid = row.paid /\ next.entry = row.entry /\ next.status = "void"
          /\ row.total \in Nat /\ row.due \in Nat
      BY <1>7, <3>2 DEF BillRow
    <3>4. bill' = [d \in Bills |-> bill'[d]] /\ \A d \in Bills \ {b} : bill'[d] = bill[d]
      BY <1>10, <3>1
    <3> QED
      BY <1>9, <3>3, <3>4, NoRowAssumption
  <2> QED
    BY <2>1, <2>2
<1>12. PayType'
  BY <1>3, <1>4, <1>5, <1>7, <1>10, <1>11 DEF PayGood, PayType
<1>13. AccountKept
  BY <1>4 DEF AccountKept
<1>14. BillFits(b)'
  BY <1>3, <1>11 DEF BillFits, Pay!Standing, BillRow
<1>15. PaidOf(b)' = PaidOf(b)
  BY <1>2, <1>3, <1>8, <1>9, <1>11 DEF PaidOf
<1>16. Pay!Dues'[b] = 0 /\ Pay!Dues[b] = 0
  BY <1>2, <1>3, <1>7, <1>9, <1>11 DEF Pay!Dues, Pay!Drawn, Pay!Standing
<1>17. Pay!AccountBalance' = Pay!AccountBalance /\ Pay!AccountBalance \in Int
  BY <1>4, PaySum, PaySums DEF Pay!AccountBalance, PayGood
<1> QED
  BY <1>4, <1>5, <1>7, <1>11, <1>12, <1>13, <1>14, <1>15, <1>16, <1>17, PayBillKeeps

LEMMA PostBillFits ==
    ASSUME PayGood, NEW c \in Clerks, ~overwritten', Pay!PostBill(c)
    PROVE  PayGood'
<1>1. PICK b : b = paying[c].doc
  OBVIOUS
<1>2. PICK row : row = bill[b]
  OBVIOUS
<1>3. PICK next : next = bill'[b]
  OBVIOUS
<1>4. PICK entry : entry = Pay!Entry(b, paying[c].row.total)
  OBVIOUS
<1>5. /\ UNCHANGED <<supplierCredit, payment, applied>>
      /\ Pay!Commit(c, bill[b] # paying[c].row)
      /\ account' = Append(account, entry)
      /\ bill' = [bill EXCEPT ![b].status = "open", ![b].entry = Len(account) + 1]
  BY <1>1, <1>4 DEF Pay!PostBill
<1>6. PayMoves /\ paying' = [d \in Clerks |-> paying'[d]] /\ row = paying[c].row
  BY <1>2, <1>5, PayCommits DEF PayGood
<1>7. PayCallFits(paying[c]) /\ paying[c].op = "post"
  BY PayCaller DEF Pay!PostBill
<1>8. b \in Bills /\ row \in BillRow /\ row.status = "draft"
  BY <1>1, <1>6, <1>7 DEF PayCallFits
<1>9. row # NoRow
  BY <1>8, NoRowAssumption
<1>10. row.total > 0 /\ row.entry = 0 /\ row.paid = 0 /\ row.paid + row.due = row.total
  BY <1>2, <1>8, <1>9 DEF PayGood, BillFits
<1>11. /\ entry \in AccountEntry /\ entry.source = b /\ entry.amount = row.total
       /\ entry.status = "posted" /\ row.total \in Nat /\ row.due \in Nat
  BY <1>4, <1>6, <1>8 DEF AccountEntry, Pay!Entry, BillRow
<1>12. PICK k : k = Len(account) + 1
  OBVIOUS
<1>13. /\ account' \in Seq(AccountEntry) /\ AccountKept /\ k \in Nat \ {0}
       /\ k \in DOMAIN account' /\ account'[k] = entry
       /\ \A j \in DOMAIN account : account'[j] = account[j]
       /\ Pay!AccountBalance' = Pay!AccountBalance + row.total
  <2>1. Len(account) \in Nat
    BY DEF PayGood, PayType
  <2> QED
    BY <1>5, <1>11, <1>12, <2>1, AccountAppended DEF PayGood
<1>14. bill = [d \in Bills |-> bill[d]] /\ \A d \in Bills : bill[d] \in BillRow \cup {NoRow}
  BY DEF PayGood, PayType
<1>15. next = [row EXCEPT !.status = "open", !.entry = k]
  BY <1>2, <1>3, <1>5, <1>8, <1>12, <1>14
<1>16. /\ next \in BillRow /\ next.status = "open" /\ next.entry = k
       /\ next.total = row.total /\ next.paid = row.paid /\ next.due = row.due
  BY <1>8, <1>13, <1>15 DEF BillRow
<1>17. next # NoRow
  BY <1>16, NoRowAssumption
<1>18. bill' = [d \in Bills |-> bill'[d]] /\ \A d \in Bills \ {b} : bill'[d] = bill[d]
  BY <1>5, <1>14
<1>19. PayType'
  BY <1>3, <1>5, <1>6, <1>8, <1>13, <1>14, <1>16, <1>18 DEF PayGood, PayType
<1>20. BillFits(b)'
  <2>1. /\ next.total > 0 /\ next.paid + next.due = next.total /\ next.due # 0
        /\ next.entry # 0 /\ next.entry \in DOMAIN account'
        /\ account'[next.entry].source = b /\ account'[next.entry].amount = next.total
    <3>1. row.due = row.total /\ row.due # 0
      BY <1>10, <1>11
    <3>2. /\ k # 0 /\ k \in DOMAIN account'
          /\ account'[k].source = b /\ account'[k].amount = row.total
      BY <1>11, <1>13
    <3> QED
      BY <1>10, <1>11, <1>16, <3>1, <3>2
  <2> QED
    BY <1>3, <1>16, <2>1 DEF BillFits
<1>21. PaidOf(b)' = PaidOf(b)
  BY <1>2, <1>3, <1>9, <1>16, <1>17 DEF PaidOf
<1>22. Pay!Dues[b] = 0
  BY <1>2, <1>8, <1>10 DEF Pay!Dues, Pay!Drawn, Pay!Standing
<1>23. Pay!Dues'[b] = row.total
  <2>1. Pay!Standing(b)'
    BY <1>3, <1>11, <1>13, <1>16 DEF Pay!Standing
  <2>2. next.due = row.total
    BY <1>10, <1>11, <1>16
  <2> QED
    BY <1>3, <1>8, <1>17, <2>1, <2>2 DEF Pay!Dues, Pay!Drawn
<1>24. Pay!AccountBalance' = Pay!AccountBalance + (Pay!Dues'[b] - Pay!Dues[b])
  BY <1>11, <1>13, <1>22, <1>23
<1> QED
  BY <1>5, <1>6, <1>8, <1>13, <1>18, <1>19, <1>20, <1>21, <1>24, PayBillKeeps

(* The entry of a bill is reversed before the bill is void. *)
LEMMA ReverseForVoidFits ==
    ASSUME PayGood, NEW c \in Clerks, ~overwritten', Pay!ReverseForVoid(c)
    PROVE  PayGood'
<1>1. PICK call : call = paying[c]
  OBVIOUS
<1>2. PICK b : b = call.doc
  OBVIOUS
<1>3. PICK e : e = call.row.entry
  OBVIOUS
<1>4. /\ UNCHANGED <<bill, supplierCredit, payment, applied>>
      /\ account' = IF account[e].status = "posted"
                    THEN Append([account EXCEPT ![e].status = "reversed"],
                                Pay!Entry(account[e].source, -account[e].amount))
                    ELSE account
      /\ paying' = [paying EXCEPT ![c] = IF account[e].status = "posted"
                                         THEN [@ EXCEPT !.op = "voided"] ELSE NoRow]
      /\ bill[b] = call.row
  BY <1>1, <1>2, <1>3 DEF Pay!ReverseForVoid
<1>5. PayCallFits(call) /\ call.op = "void"
  BY <1>1, PayCaller DEF Pay!ReverseForVoid
<1>6. /\ call \in VoidCall /\ call.row.status \notin {"draft", "void"}
      /\ call.row.due = call.row.total /\ e \in DOMAIN account
  BY <1>3, <1>5 DEF PayCallFits
<1>7. b \in Bills /\ call.row \in BillRow
  BY <1>2, <1>6 DEF VoidCall
<1>8. bill[b] # NoRow /\ bill'[b] = bill[b] /\ bill[b].entry = e
  BY <1>3, <1>4, <1>7, NoRowAssumption
<1>9. /\ account[e].source = b /\ account[e].amount = call.row.total
      /\ bill[b].due = call.row.total /\ bill[b].status \notin {"draft", "void"}
      /\ e # 0 /\ BillFits(b)
  BY <1>4, <1>6, <1>7, <1>8 DEF PayGood, BillFits
<1>10. paying = [d \in Clerks |-> paying[d]]
  BY DEF PayGood, PayType
<1>11. PaidOf(b)' = PaidOf(b)
  BY <1>8 DEF PaidOf
<1>12. CASE account[e].status = "posted"
  <2>1. /\ account' \in Seq(AccountEntry) /\ AccountKept
        /\ e \in DOMAIN account' /\ account'[e].status = "reversed"
        /\ \A k \in DOMAIN account \ {e} : account'[k] = account[k]
        /\ Pay!AccountBalance' = Pay!AccountBalance - call.row.total
    BY <1>4, <1>6, <1>9, <1>12, AccountReversed DEF PayGood
  <2>2. PICK next : next = [call EXCEPT !.op = "voided"]
    OBVIOUS
  <2>3. next \in VoidCall /\ next.op = "voided" /\ next.row = call.row
    BY <1>6, <2>2 DEF VoidCall
  <2>4. PayCallFits(next)'
    BY <1>3, <1>6, <2>1, <2>3 DEF PayCallFits
  <2>5. paying' = [paying EXCEPT ![c] = next]
    BY <1>1, <1>4, <1>12, <2>2
  <2>6. /\ paying' = [d \in Clerks |-> paying'[d]] /\ paying'[c] = next
        /\ \A d \in Clerks \ {c} : paying'[d] = paying[d]
    BY <1>10, <2>5
  <2>7. PayCallFits(paying[c])'
    BY <2>4, <2>6
  <2>8. PayMoves
    BY <1>4, <2>3, <2>6, <2>7 DEF PayMoves
  <2>9. PayType'
    BY <1>4, <2>1, <2>6 DEF PayGood, PayType
  <2>10. BillFits(b)'
    BY <1>7, <1>8, <1>9, <2>1, BillKept DEF PayGood
  <2>11. Pay!Dues[b] = call.row.total
    <3>1. Pay!Standing(b)
      BY <1>8, <1>9, <1>12 DEF Pay!Standing
    <3> QED
      BY <1>7, <1>8, <1>9, <3>1 DEF Pay!Dues, Pay!Drawn
  <2>12. Pay!Dues'[b] = 0
    <3>1. ~Pay!Standing(b)'
      BY <1>8, <2>1 DEF Pay!Standing
    <3> QED
      BY <1>7, <3>1 DEF Pay!Dues, Pay!Drawn
  <2>13. call.row.total \in Int /\ Pay!AccountBalance \in Int
    BY <1>7, PaySums DEF BillRow, PayGood
  <2>14. Pay!AccountBalance' = Pay!AccountBalance + (Pay!Dues'[b] - Pay!Dues[b])
    BY <2>1, <2>11, <2>12, <2>13
  <2>15. \A k \in DOMAIN account :
            account'[k].status = account[k].status \/ account[k].source = b
    BY <1>9, <2>1
  <2>16. \A d \in Bills \ {b} : bill'[d] = bill[d]
    BY <1>4
  <2> QED
    BY <1>4, <1>7, <1>11, <2>1, <2>8, <2>9, <2>10, <2>14, <2>15, <2>16, PayBillKeeps
<1>13. CASE account[e].status # "posted"
  <2>1. account' = account /\ paying' = [paying EXCEPT ![c] = NoRow]
    BY <1>4, <1>13
  <2>2. /\ paying' = [d \in Clerks |-> paying'[d]] /\ paying'[c] = NoRow
        /\ \A d \in Clerks \ {c} : paying'[d] = paying[d]
    BY <1>10, <2>1
  <2>3. PayMoves
    BY <1>4, <2>2 DEF PayMoves
  <2>4. PayType'
    BY <1>4, <2>1, <2>2 DEF PayGood, PayType
  <2>5. AccountKept
    BY <2>1 DEF AccountKept
  <2>6. BillFits(b)'
    BY <1>7, <1>8, <1>9, <2>5, BillKept DEF PayGood
  <2>7. Pay!Dues'[b] = Pay!Dues[b] /\ Pay!Dues[b] \in Int
    BY <1>7, <1>8, <1>9, <2>1, DueKept, PaySums DEF PayGood
  <2>8. Pay!AccountBalance' = Pay!AccountBalance /\ Pay!AccountBalance \in Int
    BY <2>1, PaySum, PaySums DEF Pay!AccountBalance, PayGood
  <2>9. Pay!AccountBalance' = Pay!AccountBalance + (Pay!Dues'[b] - Pay!Dues[b])
    BY <2>7, <2>8
  <2>10. \A k \in DOMAIN account : account'[k].status = account[k].status
    BY <2>1
  <2>11. \A d \in Bills \ {b} : bill'[d] = bill[d]
    BY <1>4
  <2> QED
    BY <1>4, <1>7, <1>11, <2>3, <2>4, <2>5, <2>6, <2>9, <2>10, <2>11, PayBillKeeps
<1> QED
  BY <1>12, <1>13

LEMMA VoidBillFits ==
    ASSUME PayGood, NEW c \in Clerks, ~overwritten', Pay!VoidBill(c)
    PROVE  PayGood'
<1>1. PICK b : b = paying[c].doc
  OBVIOUS
<1>2. PICK row : row = bill[b]
  OBVIOUS
<1>3. PICK next : next = bill'[b]
  OBVIOUS
<1>4. /\ UNCHANGED <<supplierCredit, payment, applied, account>>
      /\ Pay!Commit(c, bill[b] # paying[c].row)
      /\ bill' = [bill EXCEPT ![b].status = "void", ![b].due = 0]
  BY <1>1 DEF Pay!VoidBill
<1>5. PayMoves /\ paying' = [d \in Clerks |-> paying'[d]] /\ row = paying[c].row
  BY <1>2, <1>4, PayCommits DEF PayGood
<1>6. PayCallFits(paying[c]) /\ paying[c].op = "voided"
  BY PayCaller DEF Pay!VoidBill
<1>7. /\ paying[c] \in VoidCall /\ row.status \notin {"draft", "void"} /\ row.due = row.total
      /\ row.entry \in DOMAIN account /\ account[row.entry].status = "reversed"
  BY <1>5, <1>6 DEF PayCallFits
<1>8. b \in Bills /\ row \in BillRow
  BY <1>1, <1>5, <1>7 DEF VoidCall
<1>9. row # NoRow
  BY <1>8, NoRowAssumption
<1>10. /\ row.total > 0 /\ row.paid + row.due = row.total
       /\ account[row.entry].source = b /\ account[row.entry].amount = row.total
       /\ row.entry # 0
  BY <1>2, <1>7, <1>8, <1>9 DEF PayGood, BillFits
<1>11. bill = [d \in Bills |-> bill[d]] /\ \A d \in Bills : bill[d] \in BillRow \cup {NoRow}
  BY DEF PayGood, PayType
<1>12. next = [row EXCEPT !.status = "void", !.due = 0]
  BY <1>2, <1>3, <1>4, <1>8, <1>11
<1>13. /\ next \in BillRow /\ next.status = "void" /\ next.due = 0 /\ next.entry = row.entry
       /\ next.total = row.total /\ next.paid = row.paid /\ row.paid = 0
  <2>1. row.paid \in Nat /\ row.due \in Nat /\ row.total \in Nat
    BY <1>8 DEF BillRow
  <2>2. row.paid = 0
    BY <1>7, <1>10, <2>1
  <2> QED
    BY <1>8, <1>12, <2>2 DEF BillRow
<1>14. next # NoRow
  BY <1>13, NoRowAssumption
<1>15. bill' = [d \in Bills |-> bill'[d]] /\ \A d \in Bills \ {b} : bill'[d] = bill[d]
  BY <1>4, <1>11
<1>16. PayType'
  BY <1>3, <1>4, <1>5, <1>11, <1>13, <1>15 DEF PayGood, PayType
<1>17. AccountKept
  BY <1>4 DEF AccountKept
<1>18. ~Pay!Standing(b)' /\ ~Pay!Standing(b)
  BY <1>2, <1>3, <1>4, <1>7, <1>13 DEF Pay!Standing
<1>19. BillFits(b)'
  BY <1>3, <1>4, <1>7, <1>10, <1>13, <1>18 DEF BillFits
<1>20. PaidOf(b)' = PaidOf(b)
  BY <1>2, <1>3, <1>9, <1>13, <1>14 DEF PaidOf
<1>21. Pay!Dues'[b] = 0 /\ Pay!Dues[b] = 0
  BY <1>8, <1>18 DEF Pay!Dues, Pay!Drawn
<1>22. Pay!AccountBalance' = Pay!AccountBalance /\ Pay!AccountBalance \in Int
  BY <1>4, PaySum, PaySums DEF Pay!AccountBalance, PayGood
<1>23. \A k \in DOMAIN account : account'[k].status = account[k].status
  BY <1>4
<1>24. Pay!AccountBalance' = Pay!AccountBalance + (Pay!Dues'[b] - Pay!Dues[b])
  BY <1>21, <1>22
<1> QED
  BY <1>4, <1>5, <1>8, <1>15, <1>16, <1>17, <1>19, <1>20, <1>23, <1>24, PayBillKeeps

(* Credits *)

(* A credit and its entry change. *)
LEMMA PayCreditKeeps ==
    ASSUME PayGood, PayType', PayMoves, AccountKept, NEW n \in SupplierCredits,
           \A m \in SupplierCredits \ {n} : supplierCredit'[m] = supplierCredit[m],
           UNCHANGED <<bill, payment, applied>>,
           \A k \in DOMAIN account : account'[k].status = account[k].status,
           CreditFits(n)',
           Pay!AccountBalance' = Pay!AccountBalance - (Pay!Lefts'[n] - Pay!Lefts[n])
    PROVE  PayGood'
<1>1. ASSUME NEW b \in Bills
      PROVE  /\ BillFits(b)' /\ PaidOf(b)' = Pay!AppliedTo(b)'
             /\ Pay!Dues'[b] = Pay!Dues[b]
  <2>1. BillFits(b)'
    BY BillKept DEF PayGood
  <2>2. PaidOf(b)' = PaidOf(b)
    BY DEF PaidOf
  <2>3. Pay!Dues'[b] = Pay!Dues[b]
    BY DueKept DEF PayGood
  <2> QED
    BY <2>1, <2>2, <2>3, AppliedToSame DEF PayGood
<1>2. Pay!Dues' = Pay!Dues
  <2>1. Pay!Dues' = [b \in Bills |-> Pay!Dues'[b]] /\ Pay!Dues = [b \in Bills |-> Pay!Dues[b]]
    BY DEF Pay!Dues
  <2> QED
    BY <1>1, <2>1
<1>3. Pay!Remainders' = Pay!Remainders
  BY DEF Pay!Remainders, Pay!Paid
<1>4. /\ Pay!SumFunction(Pay!Dues)' = Pay!SumFunction(Pay!Dues)
      /\ Pay!SumFunction(Pay!Remainders)' = Pay!SumFunction(Pay!Remainders)
  BY <1>2, <1>3, PaySum
<1>5. Pay!SumFunction(Pay!Lefts)' =
         Pay!SumFunction(Pay!Lefts) + (Pay!Lefts'[n] - Pay!Lefts[n])
  BY LeftsChange DEF PayGood
<1>6. /\ Pay!SumFunction(Pay!Dues) \in Int /\ Pay!SumFunction(Pay!Lefts) \in Int
      /\ Pay!SumFunction(Pay!Remainders) \in Int /\ Pay!AccountBalance \in Int
      /\ Pay!Lefts[n] \in Int
  BY PaySums DEF PayGood
<1>7. Pay!Lefts'[n] \in Int
  BY DEF PayType, Pay!Lefts, Pay!Credited, SupplierCreditRow
<1>8. (Pay!SubLedger = Pay!AccountBalance)'
  <2>1. Pay!SubLedger = Pay!AccountBalance
    BY DEF PayGood
  <2> QED
    BY <1>4, <1>5, <1>6, <1>7, <2>1 DEF Pay!SubLedger
<1>9. /\ \A m \in SupplierCredits : CreditFits(m)'
      /\ \A p \in Payments : PaymentFits(p)'
  BY OthersFit
<1> QED
  BY <1>1, <1>8, <1>9, PayStepFits

LEMMA CreateSupplierCreditFits ==
    ASSUME PayGood, NEW n \in SupplierCredits, NEW t \in BillAmounts,
           Pay!CreateSupplierCredit(n, t)
    PROVE  PayGood'
<1>1. PICK row : row = [status |-> "draft", total |-> t, left |-> t]
  OBVIOUS
<1>2. /\ row \in SupplierCreditRow /\ row.total = t /\ row.left = t /\ row.status = "draft"
      /\ t \in Nat \ {0}
  BY <1>1, BookAmountsAssumption DEF SupplierCreditRow
<1>3. /\ supplierCredit' = [supplierCredit EXCEPT ![n] = row] /\ supplierCredit[n] = NoRow
      /\ UNCHANGED <<bill, payment, applied, account, paying>>
  BY <1>1 DEF Pay!CreateSupplierCredit
<1>4. /\ supplierCredit' \in [SupplierCredits -> SupplierCreditRow \cup {NoRow}]
      /\ supplierCredit'[n] = row
      /\ \A m \in SupplierCredits \ {n} : supplierCredit'[m] = supplierCredit[m]
  BY <1>2, <1>3 DEF PayGood, PayType
<1>5. PayType'
  BY <1>3, <1>4 DEF PayGood, PayType
<1>6. AccountKept /\ PayMoves
  BY <1>3 DEF AccountKept, PayMoves, PayGood, PayType
<1>7. AppliedFrom(n)' = AppliedFrom(n)
  BY <1>3, PaySum DEF AppliedFrom, Pay!Total
<1>8. AppliedFrom(n) = 0
  BY <1>3 DEF PayGood, CreditFits
<1>9. row # NoRow
  BY <1>2, NoRowAssumption
<1>10. CreditFits(n)'
  BY <1>2, <1>4, <1>7, <1>8, <1>9 DEF CreditFits
<1>11. Pay!Lefts'[n] = 0 /\ Pay!Lefts[n] = 0
  BY <1>2, <1>3, <1>4 DEF Pay!Lefts, Pay!Credited
<1>12. Pay!AccountBalance' = Pay!AccountBalance /\ Pay!AccountBalance \in Int
  BY <1>3, PaySum, PaySums DEF Pay!AccountBalance, PayGood
<1>13. Pay!AccountBalance' = Pay!AccountBalance - (Pay!Lefts'[n] - Pay!Lefts[n])
  BY <1>11, <1>12
<1> QED
  BY <1>3, <1>4, <1>5, <1>6, <1>10, <1>13, PayCreditKeeps

LEMMA PostSupplierCreditFits ==
    ASSUME PayGood, NEW c \in Clerks, ~overwritten', Pay!PostSupplierCredit(c)
    PROVE  PayGood'
<1>1. PICK n : n = paying[c].doc
  OBVIOUS
<1>2. PICK row : row = supplierCredit[n]
  OBVIOUS
<1>3. PICK next : next = supplierCredit'[n]
  OBVIOUS
<1>4. PICK entry : entry = Pay!Entry(n, -paying[c].row.total)
  OBVIOUS
<1>5. /\ UNCHANGED <<bill, payment, applied>>
      /\ Pay!Commit(c, supplierCredit[n] # paying[c].row)
      /\ account' = Append(account, entry)
      /\ supplierCredit' = [supplierCredit EXCEPT ![n].status = "open"]
  BY <1>1, <1>4 DEF Pay!PostSupplierCredit
<1>6. PayMoves /\ paying' = [d \in Clerks |-> paying'[d]] /\ row = paying[c].row
  BY <1>2, <1>5, PayCommits DEF PayGood
<1>7. PayCallFits(paying[c]) /\ paying[c].op = "postCredit"
  BY PayCaller DEF Pay!PostSupplierCredit
<1>8. n \in SupplierCredits /\ row \in SupplierCreditRow /\ row.status = "draft"
  BY <1>1, <1>6, <1>7 DEF PayCallFits
<1>9. row # NoRow
  BY <1>8, NoRowAssumption
<1>10. /\ row.left + AppliedFrom(n) = row.total /\ row.left = row.total
       /\ row.total \in Nat
  BY <1>2, <1>8, <1>9 DEF PayGood, CreditFits, SupplierCreditRow
<1>11. entry \in AccountEntry /\ entry.amount = -row.total
  BY <1>4, <1>6, <1>8, <1>10 DEF AccountEntry, Pay!Entry
<1>12. /\ account' \in Seq(AccountEntry) /\ AccountKept
       /\ \A j \in DOMAIN account : account'[j] = account[j]
       /\ Pay!AccountBalance' = Pay!AccountBalance + entry.amount
  BY <1>5, <1>11, AccountAppended DEF PayGood
<1>13. /\ supplierCredit = [m \in SupplierCredits |-> supplierCredit[m]]
       /\ \A m \in SupplierCredits : supplierCredit[m] \in SupplierCreditRow \cup {NoRow}
  BY DEF PayGood, PayType
<1>14. next = [row EXCEPT !.status = "open"]
  BY <1>2, <1>3, <1>5, <1>8, <1>13
<1>15. /\ next \in SupplierCreditRow /\ next.status = "open"
       /\ next.left = row.left /\ next.total = row.total
  BY <1>8, <1>14 DEF SupplierCreditRow
<1>16. next # NoRow
  BY <1>15, NoRowAssumption
<1>17. /\ supplierCredit' = [m \in SupplierCredits |-> supplierCredit'[m]]
       /\ \A m \in SupplierCredits \ {n} : supplierCredit'[m] = supplierCredit[m]
  BY <1>5, <1>13
<1>18. PayType'
  BY <1>3, <1>5, <1>6, <1>8, <1>12, <1>13, <1>15, <1>17 DEF PayGood, PayType
<1>19. AppliedFrom(n)' = AppliedFrom(n)
  BY <1>5, PaySum DEF AppliedFrom, Pay!Total
<1>20. CreditFits(n)'
  BY <1>3, <1>10, <1>15, <1>16, <1>19 DEF CreditFits
<1>21. Pay!Lefts'[n] = row.total /\ Pay!Lefts[n] = 0
  BY <1>2, <1>3, <1>8, <1>10, <1>15, <1>16 DEF Pay!Lefts, Pay!Credited
<1>22. Pay!AccountBalance \in Int
  BY PaySums DEF PayGood
<1>23. Pay!AccountBalance' = Pay!AccountBalance - (Pay!Lefts'[n] - Pay!Lefts[n])
  BY <1>10, <1>11, <1>12, <1>21, <1>22
<1> QED
  BY <1>5, <1>6, <1>8, <1>12, <1>17, <1>18, <1>20, <1>23, PayCreditKeeps

(* Settlements *)

LEMMA ApplySupplierCreditFits ==
    ASSUME PayGood, NEW c \in Clerks, ~overwritten', Pay!ApplySupplierCredit(c)
    PROVE  PayGood'
<1>1. PICK n : n = paying[c].doc
  OBVIOUS
<1>2. PICK row : row = supplierCredit[n]
  OBVIOUS
<1>3. PICK next : next = supplierCredit'[n]
  OBVIOUS
<1>4. PICK T : T = Pay!Total(paying[c].list)
  OBVIOUS
<1>5. PICK left : left = paying[c].row.left - T
  OBVIOUS
<1>6. /\ UNCHANGED <<payment, account>> /\ Pay!SettleBills(c, n)
      /\ supplierCredit' = [supplierCredit EXCEPT
                              ![n].left = left,
                              ![n].status = IF left = 0 THEN "applied" ELSE "open"]
      /\ Pay!Commit(c, Pay!BillsChanged(c) \/ supplierCredit[n] # paying[c].row)
  BY <1>1, <1>4, <1>5 DEF Pay!ApplySupplierCredit
<1>7. /\ PayMoves /\ paying' = [d \in Clerks |-> paying'[d]] /\ row = paying[c].row
      /\ ~Pay!BillsChanged(c)
  BY <1>2, <1>6, PayCommits DEF PayGood
<1>8. PayCallFits(paying[c]) /\ paying[c].op = "apply"
  BY PayCaller DEF Pay!ApplySupplierCredit
<1>9. /\ n \in SupplierCredits /\ row \in SupplierCreditRow /\ row.status # "draft"
      /\ ListFits(paying[c], row.left)
  BY <1>1, <1>7, <1>8 DEF PayCallFits
<1>10. row # NoRow /\ row.left \in Nat /\ row.total \in Nat /\ n \in Pay!Settlers
  BY <1>9, NoRowAssumption DEF SupplierCreditRow, Pay!Settlers
<1>11. AccountKept /\ \A k \in DOMAIN account : account'[k].status = account[k].status
  BY <1>6 DEF AccountKept
<1>12. /\ bill' \in [Bills -> BillRow \cup {NoRow}]
       /\ applied' \in [Pay!Settlers -> [Bills -> Nat]]
       /\ \A b \in Bills : BillFits(b)' /\ PaidOf(b)' = Pay!AppliedTo(b)'
       /\ \A q \in Pay!Settlers \ {n} : applied'[q] = applied[q]
       /\ T \in Nat /\ T <= row.left
       /\ AppliedFrom(n)' = AppliedFrom(n) + T
       /\ Pay!SumFunction(Pay!Dues)' = Pay!SumFunction(Pay!Dues) - T
  BY <1>4, <1>6, <1>7, <1>9, <1>10, <1>11, PaySettles
<1>13. left = row.left - T /\ left \in Nat
  BY <1>5, <1>7, <1>10, <1>12
<1>14. /\ supplierCredit = [m \in SupplierCredits |-> supplierCredit[m]]
       /\ \A m \in SupplierCredits : supplierCredit[m] \in SupplierCreditRow \cup {NoRow}
  BY DEF PayGood, PayType
<1>15. next = [row EXCEPT !.left = left, !.status = IF left = 0 THEN "applied" ELSE "open"]
  BY <1>2, <1>3, <1>6, <1>9, <1>14
<1>16. /\ next \in SupplierCreditRow /\ next.status # "draft"
       /\ next.left = left /\ next.total = row.total
  BY <1>9, <1>13, <1>15 DEF SupplierCreditRow
<1>17. next # NoRow
  BY <1>16, NoRowAssumption
<1>18. /\ supplierCredit' = [m \in SupplierCredits |-> supplierCredit'[m]]
       /\ \A m \in SupplierCredits \ {n} : supplierCredit'[m] = supplierCredit[m]
  BY <1>6, <1>14
<1>19. PayType'
  BY <1>3, <1>6, <1>7, <1>9, <1>12, <1>14, <1>16, <1>18 DEF PayGood, PayType
<1>20. AppliedFrom(n) \in Int /\ row.left + AppliedFrom(n) = row.total
  BY <1>2, <1>9, <1>10, PaySums DEF PayGood, CreditFits
<1>21. CreditFits(n)'
  BY <1>3, <1>10, <1>12, <1>13, <1>16, <1>17, <1>20 DEF CreditFits
<1>22. \A m \in SupplierCredits : CreditFits(m)'
  <2>1. \A m \in SupplierCredits \ {n} : m \in Pay!Settlers \ {n}
    BY DEF Pay!Settlers
  <2> QED
    BY <1>12, <1>18, <1>21, <2>1, OthersFit
<1>23. \A p \in Payments : PaymentFits(p)'
  <2>1. \A p \in Payments : p \in Pay!Settlers \ {n}
    BY <1>9, BookIdentifiersAssumption DEF Pay!Settlers
  <2> QED
    BY <1>6, <1>12, <2>1, OthersFit
<1>24. Pay!Lefts'[n] = row.left - T /\ Pay!Lefts[n] = row.left
  BY <1>2, <1>3, <1>9, <1>10, <1>13, <1>16, <1>17 DEF Pay!Lefts, Pay!Credited
<1>25. Pay!SumFunction(Pay!Lefts)' = Pay!SumFunction(Pay!Lefts) - T
  <2>1. Pay!SumFunction(Pay!Lefts)' =
           Pay!SumFunction(Pay!Lefts) + (Pay!Lefts'[n] - Pay!Lefts[n])
    BY <1>9, <1>18, <1>19, LeftsChange DEF PayGood
  <2>2. Pay!SumFunction(Pay!Lefts) \in Int
    BY PaySums DEF PayGood
  <2> QED
    BY <1>10, <1>12, <1>24, <2>1, <2>2
<1>26. Pay!SumFunction(Pay!Remainders)' = Pay!SumFunction(Pay!Remainders)
  <2>1. Pay!Remainders' = Pay!Remainders
    BY <1>6 DEF Pay!Remainders, Pay!Paid
  <2> QED
    BY <2>1, PaySum
<1>27. Pay!AccountBalance' = Pay!AccountBalance
  BY <1>6, PaySum DEF Pay!AccountBalance
<1>28. (Pay!SubLedger = Pay!AccountBalance)'
  <2>1. Pay!SubLedger = Pay!AccountBalance
    BY DEF PayGood
  <2>2. /\ Pay!SumFunction(Pay!Dues) \in Int /\ Pay!SumFunction(Pay!Lefts) \in Int
        /\ Pay!SumFunction(Pay!Remainders) \in Int
    BY PaySums DEF PayGood
  <2> QED
    BY <1>12, <1>25, <1>26, <1>27, <2>1, <2>2 DEF Pay!SubLedger
<1> QED
  BY <1>7, <1>11, <1>12, <1>19, <1>22, <1>23, <1>28, PayStepFits

(* A payment is stored, with what is left of it. *)
LEMMA PayPaymentKeeps ==
    ASSUME PayGood, PayMoves, AccountKept, NEW p \in Payments, NEW T \in Nat, NEW row \in PaymentRow,
           bill' \in [Bills -> BillRow \cup {NoRow}],
           applied' \in [Pay!Settlers -> [Bills -> Nat]], account' \in Seq(AccountEntry),
           paying' = [d \in Clerks |-> paying'[d]], UNCHANGED supplierCredit,
           payment' = [payment EXCEPT ![p] = row],
           \A b \in Bills : BillFits(b)' /\ PaidOf(b)' = Pay!AppliedTo(b)',
           \A q \in Pay!Settlers \ {p} : applied'[q] = applied[q],
           AppliedFrom(p)' = AppliedFrom(p) + T, row.unapplied + AppliedFrom(p)' = row.amount,
           Pay!SumFunction(Pay!Dues)' = Pay!SumFunction(Pay!Dues) - T,
           Pay!AccountBalance' = Pay!AccountBalance - T - (row.unapplied - Pay!Remainders[p])
    PROVE  PayGood'
<1>1. payment \in [Payments -> PaymentRow \cup {NoRow}]
  BY DEF PayGood, PayType
<1>2. /\ payment' \in [Payments -> PaymentRow \cup {NoRow}] /\ payment'[p] = row
      /\ \A q \in Payments \ {p} : payment'[q] = payment[q]
  BY <1>1
<1>3. PayType'
  BY <1>2 DEF PayGood, PayType
<1>4. row # NoRow /\ row.unapplied \in Nat
  BY NoRowAssumption DEF PaymentRow
<1>5. PaymentFits(p)'
  BY <1>2, <1>4 DEF PaymentFits
<1>6. \A q \in Payments : PaymentFits(q)'
  <2>1. \A q \in Payments \ {p} : q \in Pay!Settlers \ {p}
    BY DEF Pay!Settlers
  <2> QED
    BY <1>2, <1>5, <2>1, OthersFit
<1>7. \A n \in SupplierCredits : CreditFits(n)'
  <2>1. \A n \in SupplierCredits : n \in Pay!Settlers \ {p}
    BY BookIdentifiersAssumption DEF Pay!Settlers
  <2> QED
    BY <2>1, OthersFit
<1>8. Pay!Remainders'[p] = row.unapplied
  BY <1>2, <1>4 DEF Pay!Remainders, Pay!Paid
<1>9. Pay!SumFunction(Pay!Remainders)' =
         Pay!SumFunction(Pay!Remainders) + (row.unapplied - Pay!Remainders[p])
  BY <1>2, <1>3, <1>8, RemaindersChange DEF PayGood
<1>10. Pay!SumFunction(Pay!Lefts)' = Pay!SumFunction(Pay!Lefts)
  <2>1. Pay!Lefts' = Pay!Lefts
    BY DEF Pay!Lefts, Pay!Credited
  <2> QED
    BY <2>1, PaySum
<1>11. (Pay!SubLedger = Pay!AccountBalance)'
  <2>1. Pay!SubLedger = Pay!AccountBalance
    BY DEF PayGood
  <2>2. /\ Pay!SumFunction(Pay!Dues) \in Int /\ Pay!SumFunction(Pay!Lefts) \in Int
        /\ Pay!SumFunction(Pay!Remainders) \in Int /\ Pay!Remainders[p] \in Int
        /\ Pay!AccountBalance \in Int
    BY PaySums DEF PayGood
  <2> QED
    BY <1>4, <1>9, <1>10, <2>1, <2>2 DEF Pay!SubLedger
<1> QED
  BY <1>3, <1>6, <1>7, <1>11, PayStepFits

LEMMA PostPaymentFits ==
    ASSUME PayGood, NEW c \in Clerks, ~overwritten', Pay!PostPayment(c)
    PROVE  PayGood'
<1>1. PICK p : p = paying[c].doc
  OBVIOUS
<1>2. PICK amount : amount = paying[c].amount
  OBVIOUS
<1>3. PICK T : T = Pay!Total(paying[c].list)
  OBVIOUS
<1>4. PICK row : row = [amount |-> amount, unapplied |-> amount - T]
  OBVIOUS
<1>5. PICK entry : entry = Pay!Entry(p, -amount)
  OBVIOUS
<1>6. /\ UNCHANGED supplierCredit /\ Pay!SettleBills(c, p)
      /\ payment' = [payment EXCEPT ![p] = row]
      /\ account' = Append(account, entry)
      /\ Pay!Commit(c, Pay!BillsChanged(c))
  BY <1>1, <1>2, <1>3, <1>4, <1>5 DEF Pay!PostPayment
<1>7. /\ PayCallFits(paying[c]) /\ paying[c].op = "pay" /\ Pay!Calls(c, "pay")
  BY PayCaller DEF Pay!PostPayment
<1>8. /\ p \in Payments /\ amount \in Nat /\ ListFits(paying[c], amount)
      /\ payment[p] = NoRow
  BY <1>1, <1>2, <1>7, BookAmountsAssumption DEF PayCallFits
<1>9. \A q \in Payments : payment[q] = NoRow /\ payment'[q] # NoRow => q = p
  BY <1>6 DEF PayGood, PayType
<1>10. PayMoves /\ paying' = [d \in Clerks |-> paying'[d]] /\ ~Pay!BillsChanged(c)
  BY <1>1, <1>6, <1>7, <1>9, PayCommits DEF PayGood
<1>11. p \in Pay!Settlers /\ entry \in AccountEntry /\ entry.amount = -amount
  BY <1>5, <1>8 DEF Pay!Settlers, AccountEntry, Pay!Entry
<1>12. /\ account' \in Seq(AccountEntry) /\ AccountKept
       /\ \A j \in DOMAIN account : account'[j] = account[j]
       /\ Pay!AccountBalance' = Pay!AccountBalance - amount
  <2>1. Pay!AccountBalance \in Int
    BY PaySums DEF PayGood
  <2>2. /\ account' \in Seq(AccountEntry) /\ AccountKept
        /\ \A j \in DOMAIN account : account'[j] = account[j]
        /\ Pay!AccountBalance' = Pay!AccountBalance + entry.amount
    BY <1>6, <1>11, AccountAppended DEF PayGood
  <2> QED
    BY <1>8, <1>11, <2>1, <2>2
<1>13. /\ bill' \in [Bills -> BillRow \cup {NoRow}]
       /\ applied' \in [Pay!Settlers -> [Bills -> Nat]]
       /\ \A b \in Bills : BillFits(b)' /\ PaidOf(b)' = Pay!AppliedTo(b)'
       /\ \A q \in Pay!Settlers \ {p} : applied'[q] = applied[q]
       /\ T \in Nat /\ T <= amount
       /\ AppliedFrom(p)' = AppliedFrom(p) + T
       /\ Pay!SumFunction(Pay!Dues)' = Pay!SumFunction(Pay!Dues) - T
  <2>1. \A k \in DOMAIN account : account'[k].status = account[k].status
    BY <1>12
  <2> QED
    BY <1>3, <1>6, <1>8, <1>10, <1>11, <1>12, <2>1, PaySettles
<1>14. row \in PaymentRow /\ row.amount = amount /\ row.unapplied = amount - T
  BY <1>4, <1>8, <1>13 DEF PaymentRow
<1>15. AppliedFrom(p) = 0
  BY <1>8 DEF PayGood, PaymentFits
<1>16. row.unapplied + AppliedFrom(p)' = row.amount
  BY <1>8, <1>13, <1>14, <1>15
<1>17. Pay!Remainders[p] = 0
  BY <1>8 DEF Pay!Remainders, Pay!Paid
<1>18. Pay!AccountBalance' = Pay!AccountBalance - T - (row.unapplied - Pay!Remainders[p])
  <2>1. Pay!AccountBalance \in Int
    BY PaySums DEF PayGood
  <2> QED
    BY <1>8, <1>12, <1>13, <1>14, <1>17, <2>1
<1> QED
  BY <1>6, <1>8, <1>10, <1>12, <1>13, <1>14, <1>16, <1>18, PayPaymentKeeps

LEMMA AllocatePaymentFits ==
    ASSUME PayGood, NEW c \in Clerks, ~overwritten', Pay!AllocatePayment(c)
    PROVE  PayGood'
<1>1. PICK p : p = paying[c].doc
  OBVIOUS
<1>2. PICK was : was = payment[p]
  OBVIOUS
<1>3. PICK T : T = Pay!Total(paying[c].list)
  OBVIOUS
<1>4. PICK rest : rest = paying[c].row.unapplied - T
  OBVIOUS
<1>5. /\ UNCHANGED <<supplierCredit, account>> /\ Pay!SettleBills(c, p)
      /\ payment' = [payment EXCEPT ![p].unapplied = rest]
      /\ Pay!Commit(c, Pay!BillsChanged(c) \/ payment[p] # paying[c].row)
  BY <1>1, <1>3, <1>4 DEF Pay!AllocatePayment
<1>6. PayCallFits(paying[c]) /\ paying[c].op = "allocate"
  BY PayCaller DEF Pay!AllocatePayment
<1>7. /\ p \in Payments /\ paying[c].row \in PaymentRow
      /\ ListFits(paying[c], paying[c].row.unapplied)
  BY <1>1, <1>6 DEF PayCallFits
<1>8. ~Pay!BillsChanged(c) /\ was = paying[c].row
  BY <1>2, <1>5 DEF Pay!Commit
<1>9. was \in PaymentRow /\ was # NoRow /\ was.unapplied \in Nat /\ was.amount \in Nat
  BY <1>7, <1>8, NoRowAssumption DEF PaymentRow
<1>10. PICK row : row = [was EXCEPT !.unapplied = rest]
  OBVIOUS
<1>11. payment' = [payment EXCEPT ![p] = row] /\ payment \in [Payments -> PaymentRow \cup {NoRow}]
  BY <1>2, <1>5, <1>10 DEF PayGood, PayType
<1>12. \A q \in Payments : payment[q] = NoRow /\ payment'[q] # NoRow => FALSE
  BY <1>2, <1>9, <1>11
<1>13. PayMoves /\ paying' = [d \in Clerks |-> paying'[d]]
  BY <1>5, <1>12, PayCommits DEF PayGood
<1>14. p \in Pay!Settlers
  BY <1>7 DEF Pay!Settlers
<1>15. /\ AccountKept /\ account' \in Seq(AccountEntry)
       /\ \A k \in DOMAIN account : account'[k].status = account[k].status
  BY <1>5 DEF AccountKept, PayGood, PayType
<1>16. /\ bill' \in [Bills -> BillRow \cup {NoRow}]
       /\ applied' \in [Pay!Settlers -> [Bills -> Nat]]
       /\ \A b \in Bills : BillFits(b)' /\ PaidOf(b)' = Pay!AppliedTo(b)'
       /\ \A q \in Pay!Settlers \ {p} : applied'[q] = applied[q]
       /\ T \in Nat /\ T <= was.unapplied
       /\ AppliedFrom(p)' = AppliedFrom(p) + T
       /\ Pay!SumFunction(Pay!Dues)' = Pay!SumFunction(Pay!Dues) - T
  BY <1>3, <1>5, <1>7, <1>8, <1>9, <1>14, <1>15, PaySettles
<1>17. rest = was.unapplied - T /\ rest \in Nat
  BY <1>4, <1>8, <1>9, <1>16
<1>18. row \in PaymentRow /\ row.amount = was.amount /\ row.unapplied = rest
  BY <1>9, <1>10, <1>17 DEF PaymentRow
<1>19. was.unapplied + AppliedFrom(p) = was.amount /\ AppliedFrom(p) \in Int
  BY <1>2, <1>7, <1>9, <1>14, PaySums DEF PayGood, PaymentFits
<1>20. row.unapplied + AppliedFrom(p)' = row.amount
  BY <1>9, <1>16, <1>17, <1>18, <1>19
<1>21. Pay!Remainders[p] = was.unapplied
  BY <1>2, <1>7, <1>9 DEF Pay!Remainders, Pay!Paid
<1>22. Pay!AccountBalance' = Pay!AccountBalance - T - (row.unapplied - Pay!Remainders[p])
  <2>1. Pay!AccountBalance' = Pay!AccountBalance
    BY <1>5, PaySum DEF Pay!AccountBalance
  <2>2. Pay!AccountBalance \in Int
    BY PaySums DEF PayGood
  <2> QED
    BY <1>9, <1>16, <1>17, <1>18, <1>21, <2>1, <2>2
<1> QED
  BY <1>5, <1>7, <1>11, <1>13, <1>15, <1>16, <1>18, <1>20, <1>22, PayPaymentKeeps

(* Reads *)

(* A payable list, with the bills it names, fits. *)
LEMMA PayableFits ==
    ASSUME NEW call, NEW list \in AllocationLists, NEW available,
           Pay!Total(list) <= available, Pay!Payable(list), call.list = list,
           call.bills = Pay!Restrict(bill, DOMAIN list)
    PROVE  ListFits(call, available)
<1>1. \A b \in DOMAIN list : call.bills[b] = bill[b]
  BY DEF Pay!Restrict
<1> QED
  BY <1>1 DEF ListFits, Pay!Payable

LEMMA ReadsFit ==
    ASSUME PayGood, NEW c \in Clerks,
           \/ \E b \in Bills :
                 \/ \E t \in BillAmounts : Pay!ReadDraftBill(c, "update", b, t)
                 \/ \E op \in {"post", "voidDraft"} : Pay!ReadDraftBill(c, op, b, 0)
                 \/ Pay!ReadForVoid(c, b)
           \/ \E n \in SupplierCredits :
                 \/ Pay!ReadDraftCredit(c, n)
                 \/ \E list \in AllocationLists : Pay!ReadForCredit(c, n, list)
           \/ \E p \in Payments, list \in AllocationLists :
                 \/ \E amount \in BillAmounts : Pay!ReadForPayment(c, p, amount, list)
                 \/ Pay!ReadForAllocation(c, p, list)
    PROVE  PayGood'
<1>1. ASSUME NEW b \in Bills, NEW t, NEW op,
             \/ op = "update" /\ t \in BillAmounts
             \/ op \in {"post", "voidDraft"},
             Pay!ReadDraftBill(c, op, b, t)
      PROVE  PayGood'
  <2>1. PICK call : call = [op |-> op, doc |-> b, row |-> bill[b], total |-> t]
    OBVIOUS
  <2>2. /\ Pay!Ask(c, call) /\ bill[b] # NoRow /\ bill[b].status = "draft"
        /\ UNCHANGED <<bill, supplierCredit, payment, applied, account>>
    BY <1>1, <2>1 DEF Pay!ReadDraftBill
  <2>3. call.op = op /\ call.doc = b /\ call.row = bill[b] /\ call.total = t
    BY <2>1
  <2>4. PayCallFits(call) /\ call.op # "pay"
    BY <1>1, <2>2, <2>3 DEF PayCallFits, PayGood, PayType
  <2> QED
    BY <2>2, <2>4, PayReadKeeps
<1>2. ASSUME NEW b \in Bills, Pay!ReadForVoid(c, b) PROVE PayGood'
  <2>1. PICK call : call = [op |-> "void", doc |-> b, row |-> bill[b]]
    OBVIOUS
  <2>2. /\ Pay!Ask(c, call) /\ bill[b] # NoRow /\ bill[b].status \notin {"draft", "void"}
        /\ bill[b].due = bill[b].total
        /\ UNCHANGED <<bill, supplierCredit, payment, applied, account>>
    BY <1>2, <2>1 DEF Pay!ReadForVoid
  <2>3. bill[b] \in BillRow /\ bill[b].entry \in DOMAIN account
    BY <2>2 DEF PayGood, PayType, BillFits
  <2>4. call.op = "void" /\ call.row = bill[b] /\ call \in VoidCall
    BY <2>1, <2>3 DEF VoidCall
  <2>5. PayCallFits(call) /\ call.op # "pay"
    BY <2>2, <2>3, <2>4 DEF PayCallFits
  <2> QED
    BY <2>2, <2>5, PayReadKeeps
<1>3. ASSUME NEW n \in SupplierCredits, Pay!ReadDraftCredit(c, n) PROVE PayGood'
  <2>1. PICK call : call = [op |-> "postCredit", doc |-> n, row |-> supplierCredit[n]]
    OBVIOUS
  <2>2. /\ Pay!Ask(c, call) /\ supplierCredit[n] # NoRow
        /\ supplierCredit[n].status = "draft"
        /\ UNCHANGED <<bill, supplierCredit, payment, applied, account>>
    BY <1>3, <2>1 DEF Pay!ReadDraftCredit
  <2>3. call.op = "postCredit" /\ call.doc = n /\ call.row = supplierCredit[n]
    BY <2>1
  <2>4. PayCallFits(call) /\ call.op # "pay"
    BY <2>2, <2>3 DEF PayCallFits, PayGood, PayType
  <2> QED
    BY <2>2, <2>4, PayReadKeeps
<1>4. ASSUME NEW n \in SupplierCredits, NEW list \in AllocationLists,
             Pay!ReadForCredit(c, n, list)
      PROVE  PayGood'
  <2>1. PICK call : call = [op |-> "apply", doc |-> n, row |-> supplierCredit[n],
                            list |-> list, bills |-> Pay!Restrict(bill, DOMAIN list)]
    OBVIOUS
  <2>2. /\ Pay!Ask(c, call) /\ supplierCredit[n] # NoRow
        /\ supplierCredit[n].status \in {"open", "applied"}
        /\ Pay!Total(list) <= supplierCredit[n].left /\ Pay!Payable(list)
        /\ UNCHANGED <<bill, supplierCredit, payment, applied, account>>
    BY <1>4, <2>1 DEF Pay!ReadForCredit
  <2>3. /\ call.op = "apply" /\ call.doc = n /\ call.row = supplierCredit[n]
        /\ call.list = list /\ call.bills = Pay!Restrict(bill, DOMAIN list)
    BY <2>1
  <2>4. ListFits(call, call.row.left)
    BY <2>2, <2>3, PayableFits
  <2>5. PayCallFits(call) /\ call.op # "pay"
    BY <2>2, <2>3, <2>4 DEF PayCallFits, PayGood, PayType
  <2> QED
    BY <2>2, <2>5, PayReadKeeps
<1>5. ASSUME NEW p \in Payments, NEW list \in AllocationLists, NEW amount \in BillAmounts,
             Pay!ReadForPayment(c, p, amount, list)
      PROVE  PayGood'
  <2>1. PICK call : call = [op |-> "pay", doc |-> p, amount |-> amount,
                            list |-> list, bills |-> Pay!Restrict(bill, DOMAIN list)]
    OBVIOUS
  <2>2. /\ Pay!Ask(c, call) /\ payment[p] = NoRow
        /\ \A d \in Clerks : Pay!Calls(d, "pay") => paying[d].doc # p
        /\ Pay!Total(list) <= amount /\ Pay!Payable(list)
        /\ UNCHANGED <<bill, supplierCredit, payment, applied, account>>
    BY <1>5, <2>1 DEF Pay!ReadForPayment
  <2>3. /\ call.op = "pay" /\ call.doc = p /\ call.amount = amount
        /\ call.list = list /\ call.bills = Pay!Restrict(bill, DOMAIN list)
    BY <2>1
  <2>4. ListFits(call, call.amount)
    BY <2>2, <2>3, PayableFits
  <2>5. PayCallFits(call)
    BY <2>2, <2>3, <2>4 DEF PayCallFits
  <2> QED
    BY <2>2, <2>3, <2>5, PayReadKeeps
<1>6. ASSUME NEW p \in Payments, NEW list \in AllocationLists,
             Pay!ReadForAllocation(c, p, list)
      PROVE  PayGood'
  <2>1. PICK call : call = [op |-> "allocate", doc |-> p, row |-> payment[p],
                            list |-> list, bills |-> Pay!Restrict(bill, DOMAIN list)]
    OBVIOUS
  <2>2. /\ Pay!Ask(c, call) /\ payment[p] # NoRow
        /\ Pay!Total(list) <= payment[p].unapplied /\ Pay!Payable(list)
        /\ UNCHANGED <<bill, supplierCredit, payment, applied, account>>
    BY <1>6, <2>1 DEF Pay!ReadForAllocation
  <2>3. /\ call.op = "allocate" /\ call.doc = p /\ call.row = payment[p]
        /\ call.list = list /\ call.bills = Pay!Restrict(bill, DOMAIN list)
    BY <2>1
  <2>4. ListFits(call, call.row.unapplied)
    BY <2>2, <2>3, PayableFits
  <2>5. PayCallFits(call) /\ call.op # "pay"
    BY <2>2, <2>3, <2>4 DEF PayCallFits, PayGood, PayType
  <2> QED
    BY <2>2, <2>5, PayReadKeeps
<1> QED
  BY <1>1, <1>2, <1>3, <1>4, <1>5, <1>6

-----------------------------------------------------------------------------

LEMMA PayInit == Pay!Init => PayInv
<1> SUFFICES ASSUME Pay!Init PROVE PayGood
  BY DEF PayInv
<1>1. PayType
  <2>1. account \in Seq(AccountEntry)
    BY DEF Pay!Init
  <2> QED
    BY <2>1 DEF Pay!Init, PayType
<1>2. /\ IsFiniteSet(Bills) /\ IsFiniteSet(SupplierCredits) /\ IsFiniteSet(Payments)
      /\ IsFiniteSet(Pay!Settlers)
  BY <1>1, BookIdentifiersAssumption, PaySums
<1>3. ASSUME NEW f, IsFiniteSet(DOMAIN f), \A x \in DOMAIN f : f[x] = 0
      PROVE  Pay!SumFunction(f) = 0
  <2>1. PICK S : S = DOMAIN f
    OBVIOUS
  <2>2. SumFunctionOnSet(f, S) = 0
    BY <1>3, <2>1, SumZero
  <2> QED
    BY <2>1, <2>2, PaySum
<1>4. ASSUME NEW b \in Bills PROVE BillFits(b) /\ PaidOf(b) = Pay!AppliedTo(b)
  <2>1. PICK f : f = [s \in Pay!Settlers |-> applied[s][b]]
    OBVIOUS
  <2>2. DOMAIN f = Pay!Settlers /\ \A s \in Pay!Settlers : f[s] = 0
    BY <2>1 DEF Pay!Init
  <2>3. Pay!AppliedTo(b) = 0
    BY <1>2, <1>3, <2>1, <2>2 DEF Pay!AppliedTo
  <2>4. bill[b] = NoRow
    BY DEF Pay!Init
  <2> QED
    BY <2>3, <2>4 DEF BillFits, PaidOf
<1>5. ASSUME NEW s \in Pay!Settlers PROVE AppliedFrom(s) = 0
  <2>1. DOMAIN applied[s] = Bills /\ \A b \in Bills : applied[s][b] = 0
    BY DEF Pay!Init
  <2> QED
    BY <1>2, <1>3, <2>1 DEF AppliedFrom, Pay!Total
<1>6. \A n \in SupplierCredits : CreditFits(n)
  BY <1>5 DEF CreditFits, Pay!Init, Pay!Settlers
<1>7. \A p \in Payments : PaymentFits(p)
  BY <1>5 DEF PaymentFits, Pay!Init, Pay!Settlers
<1>8. Pay!SubLedger = Pay!AccountBalance
  <2>1. /\ DOMAIN Pay!Dues = Bills /\ \A b \in Bills : Pay!Dues[b] = 0
        /\ DOMAIN Pay!Lefts = SupplierCredits /\ \A n \in SupplierCredits : Pay!Lefts[n] = 0
        /\ DOMAIN Pay!Remainders = Payments /\ \A p \in Payments : Pay!Remainders[p] = 0
    BY DEF Pay!Init, Pay!Dues, Pay!Drawn, Pay!Lefts, Pay!Credited, Pay!Remainders, Pay!Paid
  <2>2. /\ Pay!SumFunction(Pay!Dues) = 0 /\ Pay!SumFunction(Pay!Lefts) = 0
        /\ Pay!SumFunction(Pay!Remainders) = 0
    BY <1>2, <1>3, <2>1
  <2>3. PICK f : f = [k \in DOMAIN account |-> account[k].amount]
    OBVIOUS
  <2>4. DOMAIN f = {}
    BY <2>3 DEF Pay!Init
  <2>5. Pay!SumFunction(f) = 0
    BY <1>3, <2>4, FS_EmptySet
  <2> QED
    BY <2>2, <2>3, <2>5 DEF Pay!SubLedger, Pay!AccountBalance
<1>9. (\A c \in Clerks : paying[c] = NoRow) /\ PaidOnce
  BY DEF Pay!Init, PaidOnce, Pay!Calls
<1> QED
  BY <1>1, <1>4, <1>6, <1>7, <1>8, <1>9 DEF PayGood

LEMMA PayRest == PayInv /\ UNCHANGED payvars => PayInv'
<1> SUFFICES ASSUME PayInv, UNCHANGED payvars, ~overwritten' PROVE PayGood'
  BY DEF PayInv
<1>1. /\ UNCHANGED <<bill, supplierCredit, payment, applied, account, paying>>
      /\ PayGood
  BY DEF payvars, PayInv
<1>2. PayType' /\ AccountKept /\ PayMoves
  BY <1>1 DEF PayGood, PayType, AccountKept, PayMoves
<1>3. ASSUME NEW b \in Bills PROVE BillFits(b)' /\ PaidOf(b)' = Pay!AppliedTo(b)'
  <2>1. BillFits(b)'
    BY <1>1, <1>2, BillKept DEF PayGood
  <2>2. PaidOf(b)' = PaidOf(b)
    BY <1>1 DEF PaidOf
  <2> QED
    BY <1>1, <2>1, <2>2, AppliedToSame DEF PayGood
<1>4. Pay!SubLedger' = Pay!SubLedger
  <2>1. Pay!Dues' = Pay!Dues /\ Pay!Lefts' = Pay!Lefts /\ Pay!Remainders' = Pay!Remainders
    BY <1>1 DEF Pay!Dues, Pay!Drawn, Pay!Standing, Pay!Lefts, Pay!Credited, Pay!Remainders,
                Pay!Paid
  <2> QED
    BY <2>1, PaySum DEF Pay!SubLedger
<1>5. Pay!AccountBalance' = Pay!AccountBalance
  BY <1>1, PaySum DEF Pay!AccountBalance
<1>6. (Pay!SubLedger = Pay!AccountBalance)'
  BY <1>1, <1>4, <1>5 DEF PayGood
<1>7. /\ \A n \in SupplierCredits : CreditFits(n)'
      /\ \A p \in Payments : PaymentFits(p)'
  BY <1>1, OthersFit
<1> QED
  BY <1>1, <1>2, <1>3, <1>6, <1>7, PayStepFits

(* Once a call has relied on what had changed, nothing is claimed. *)
LEMMA PayStep == PayInv /\ Pay!Next => PayInv'
<1> SUFFICES ASSUME PayInv, Pay!Next, ~overwritten' PROVE PayGood'
  BY DEF PayInv
<1>1. ASSUME NEW b \in Bills, NEW t \in BillAmounts, Pay!CreateBill(b, t) PROVE PayGood'
  BY <1>1, CreateBillFits DEF PayInv, Pay!CreateBill
<1>2. ASSUME NEW n \in SupplierCredits, NEW t \in BillAmounts, Pay!CreateSupplierCredit(n, t)
      PROVE  PayGood'
  BY <1>2, CreateSupplierCreditFits DEF PayInv, Pay!CreateSupplierCredit
<1>3. ASSUME NEW c \in Clerks,
             \/ \E b \in Bills :
                   \/ \E t \in BillAmounts : Pay!ReadDraftBill(c, "update", b, t)
                   \/ \E op \in {"post", "voidDraft"} : Pay!ReadDraftBill(c, op, b, 0)
                   \/ Pay!ReadForVoid(c, b)
             \/ \E n \in SupplierCredits :
                   \/ Pay!ReadDraftCredit(c, n)
                   \/ \E list \in AllocationLists : Pay!ReadForCredit(c, n, list)
             \/ \E p \in Payments, list \in AllocationLists :
                   \/ \E amount \in BillAmounts : Pay!ReadForPayment(c, p, amount, list)
                   \/ Pay!ReadForAllocation(c, p, list)
      PROVE  PayGood'
  <2>1. overwritten' = overwritten
    BY <1>3 DEF Pay!ReadDraftBill, Pay!ReadForVoid, Pay!ReadDraftCredit, Pay!ReadForCredit,
                Pay!ReadForPayment, Pay!ReadForAllocation
  <2> QED
    BY <1>3, <2>1, ReadsFit DEF PayInv
<1>4. ASSUME NEW c \in Clerks, Pay!UpdateBill(c) \/ Pay!VoidDraft(c) PROVE PayGood'
  BY <1>4, DraftFits DEF PayInv, Pay!UpdateBill, Pay!VoidDraft, Pay!Commit
<1>5. ASSUME NEW c \in Clerks, Pay!PostBill(c) PROVE PayGood'
  BY <1>5, PostBillFits DEF PayInv, Pay!PostBill, Pay!Commit
<1>6. ASSUME NEW c \in Clerks, Pay!ReverseForVoid(c) PROVE PayGood'
  BY <1>6, ReverseForVoidFits DEF PayInv, Pay!ReverseForVoid
<1>7. ASSUME NEW c \in Clerks, Pay!VoidBill(c) PROVE PayGood'
  BY <1>7, VoidBillFits DEF PayInv, Pay!VoidBill, Pay!Commit
<1>8. ASSUME NEW c \in Clerks, Pay!CutShort(c) PROVE PayGood'
  BY <1>8 DEF Pay!CutShort, Pay!Commit
<1>9. ASSUME NEW c \in Clerks, Pay!PostSupplierCredit(c) PROVE PayGood'
  BY <1>9, PostSupplierCreditFits DEF PayInv, Pay!PostSupplierCredit, Pay!Commit
<1>10. ASSUME NEW c \in Clerks, Pay!ApplySupplierCredit(c) PROVE PayGood'
  BY <1>10, ApplySupplierCreditFits DEF PayInv, Pay!ApplySupplierCredit, Pay!Commit
<1>11. ASSUME NEW c \in Clerks, Pay!PostPayment(c) PROVE PayGood'
  BY <1>11, PostPaymentFits DEF PayInv, Pay!PostPayment, Pay!Commit
<1>12. ASSUME NEW c \in Clerks, Pay!AllocatePayment(c) PROVE PayGood'
  BY <1>12, AllocatePaymentFits DEF PayInv, Pay!AllocatePayment, Pay!Commit
<1> QED
  BY <1>1, <1>2, <1>3, <1>4, <1>5, <1>6, <1>7, <1>8, <1>9, <1>10, <1>11, <1>12 DEF Pay!Next

LEMMA PaySafe == PayInv => Pay!PayablesTieOut
<1> SUFFICES ASSUME PayGood PROVE Pay!ColumnsAddUp /\ Pay!EntriesMatch
  BY DEF PayInv, PayGood, Pay!PayablesTieOut
<1>1. ASSUME NEW b \in Pay!Drawn
      PROVE  /\ bill[b].paid = Pay!AppliedTo(b)
             /\ bill[b].due >= 0
             /\ bill[b].status # "void" => bill[b].paid + bill[b].due = bill[b].total
             /\ bill[b].status = "paid" <=> bill[b].due = 0 /\ bill[b].status # "void"
             /\ bill[b].status \in Pay!OpenBill \cup {"paid"} /\ Pay!Standing(b)
                   => account[bill[b].entry].amount = bill[b].total
             /\ bill[b].status = "void" => bill[b].paid = 0 /\ ~Pay!Standing(b)
  <2>1. b \in Bills /\ bill[b] # NoRow
    BY DEF Pay!Drawn
  <2>2. bill[b] \in BillRow
    BY <2>1 DEF PayGood, PayType
  <2>3. bill[b].due >= 0
    BY <2>2 DEF BillRow
  <2>4. bill[b].paid = Pay!AppliedTo(b) /\ BillFits(b)
    BY <2>1 DEF PayGood, PaidOf
  <2> QED
    BY <2>1, <2>3, <2>4 DEF BillFits, Pay!OpenBill
<1>2. \A n \in Pay!Credited :
         supplierCredit[n].left + Pay!Total(applied[n]) = supplierCredit[n].total
  BY DEF Pay!Credited, PayGood, CreditFits, AppliedFrom
<1>3. \A p \in Pay!Paid : payment[p].unapplied + Pay!Total(applied[p]) = payment[p].amount
  BY DEF Pay!Paid, PayGood, PaymentFits, AppliedFrom
<1> QED
  BY <1>1, <1>2, <1>3 DEF Pay!ColumnsAddUp, Pay!EntriesMatch

(* PayablesTieOut holds in every reachable state: whatever bills, credits, *)
(* payments, clerks and allocations there are, and in whatever order calls *)
(* read and commit, the sub-ledger adds up and is the balance of its       *)
(* account until a call relies on a row that has changed, or a void is cut *)
(* short (domain/accounting/ap.ts:131-484).                                *)
THEOREM PayablesTieOutAlways == BooksSpec => []PayablesTieOut
<1>1. BooksInit => PayInv
  BY PayInit DEF BooksInit
<1>2. PayInv /\ [BooksNext]_books => PayInv'
  <2>1. [BooksNext]_books => Pay!Next \/ UNCHANGED payvars
    BY DEF BooksNext, books
  <2> QED
    BY <2>1, PayStep, PayRest
<1>3. PayInv => PayablesTieOut
  BY PaySafe DEF PayablesTieOut
<1> QED
  BY <1>1, <1>2, <1>3, PTL DEF BooksSpec

-----------------------------------------------------------------------------
(* The amounts of documents *)

(* The policies round to a neighbour: a quotient moves by less than one,   *)
(* and never above a bound on what is divided.                             *)
LEMMA RoundUnsignedNear ==
    ASSUME NEW n \in Nat, NEW d \in Nat \ {0}, NEW mode
    PROVE  /\ Sums!RoundUnsigned(n, d, mode) \in Nat
           /\ -d < d * Sums!RoundUnsigned(n, d, mode) - n
           /\ d * Sums!RoundUnsigned(n, d, mode) - n < d
           /\ \A g \in Nat : n <= d * g => Sums!RoundUnsigned(n, d, mode) <= g
<1>1. PICK q \in Nat : q = n \div d
  BY SMTT(30)
<1>2. PICK m \in 0 .. d - 1 : m = n % d
  BY SMTT(30)
<1>3. n = d * q + m
  BY <1>1, <1>2, SMTT(30)
<1>4. PICK u \in {0, 1} : (u = 1 => m > 0) /\ Sums!RoundUnsigned(n, d, mode) = q + u
  <2> DEFINE up == \/ mode = "up" /\ m > 0
                   \/ mode = "half_up" /\ 2 * m >= d
                   \/ mode = "half_even" /\ (2 * m > d \/ (2 * m = d /\ q % 2 = 1))
  <2>1. up => m > 0
    OBVIOUS
  <2>2. Sums!RoundUnsigned(n, d, mode) = q + (IF up THEN 1 ELSE 0)
    BY <1>1, <1>2 DEF Sums!RoundUnsigned
  <2> HIDE DEF up
  <2> QED
    BY <2>1, <2>2
<1>5. -d < d * (q + u) - n /\ d * (q + u) - n < d
  BY <1>3, <1>4, SMTT(30)
<1>6. ASSUME NEW g \in Nat, n <= d * g PROVE q + u <= g
  BY <1>3, <1>4, <1>6, SMTT(30)
<1> QED
  BY <1>4, <1>5, <1>6

(* With a sign it does the same on either side of zero. *)
LEMMA RoundNear ==
    ASSUME NEW n \in Int, NEW d \in Nat \ {0}, NEW mode
    PROVE  /\ Sums!Round(n, d, mode) \in Int
           /\ -d < d * Sums!Round(n, d, mode) - n
           /\ d * Sums!Round(n, d, mode) - n < d
           /\ n >= 0 => Sums!Round(n, d, mode) >= 0
           /\ n <= 0 => Sums!Round(n, d, mode) <= 0
           /\ \A g \in Nat : n >= 0 /\ n <= d * g => Sums!Round(n, d, mode) <= g
<1>1. CASE n >= 0
  <2>1. n \in Nat /\ Sums!Round(n, d, mode) = Sums!RoundUnsigned(n, d, mode)
    BY <1>1 DEF Sums!Round
  <2>2. n = 0 => Sums!RoundUnsigned(n, d, mode) <= 0
    <3>1. d * 0 = 0
      OBVIOUS
    <3> QED
      BY <2>1, <3>1, RoundUnsignedNear
  <2> QED
    BY <2>1, <2>2, RoundUnsignedNear
<1>2. CASE n < 0
  <2>1. PICK p \in Nat : p = -n
    BY <1>2
  <2>2. PICK r : r = Sums!RoundUnsigned(p, d, mode)
    OBVIOUS
  <2>3. Sums!Round(n, d, mode) = -r
    BY <1>2, <2>1, <2>2 DEF Sums!Round
  <2>4. r \in Nat /\ -d < d * r - p /\ d * r - p < d
    BY <2>1, <2>2, RoundUnsignedNear
  <2>5. d * (-r) = -(d * r) /\ d * r \in Int
    BY <2>4
  <2>6. -d < d * (-r) - n /\ d * (-r) - n < d
    BY <2>1, <2>4, <2>5
  <2> QED
    BY <1>2, <2>3, <2>4, <2>6
<1> QED
  BY <1>1, <1>2

(* A line that has been priced: its tax is fair, and neither its net nor   *)
(* its tax is below zero unless together they are.                         *)
LineFits(l) ==
    /\ l.net \in Int /\ l.tax \in Int /\ l.rate \in Nat
    /\ Sums!Within(100 * l.tax - l.rate * l.net, 100 + l.rate)
    /\ l.net + l.tax >= 0 => l.net >= 0 /\ l.tax >= 0

(* Pricing a line makes it fit, under every policy. *)
LEMMA PricedLineFits ==
    ASSUME NEW line \in Lines, NEW mode
    PROVE  /\ Sums!LineAmounts(line, mode) \in [net : Int, tax : Int, rate : Nat]
           /\ LineFits(Sums!LineAmounts(line, mode))
<1>1. /\ line.gross \in Int /\ line.discount \in 0 .. 100 /\ line.tax \in Nat
      /\ line.inclusive \in BOOLEAN
  BY DocumentAssumption
<1>2. PICK g \in Int : g = Sums!Round(line.gross * (100 - line.discount), 1000, mode)
  <2>1. line.gross * (100 - line.discount) \in Int
    BY <1>1
  <2> QED
    BY <2>1, RoundNear
<1>3. PICK t \in Nat : t = line.tax
  BY <1>1
<1>4. PICK l : l = Sums!LineAmounts(line, mode)
  OBVIOUS
<1>5. CASE line.inclusive
  <2>1. PICK n : n = Sums!Round(100 * g, 100 + t, mode)
    OBVIOUS
  <2>2. l = [net |-> n, tax |-> g - n, rate |-> t]
    BY <1>2, <1>3, <1>4, <1>5, <2>1 DEF Sums!LineAmounts
  <2>3. /\ n \in Int
        /\ -(100 + t) < (100 + t) * n - 100 * g /\ (100 + t) * n - 100 * g < 100 + t
        /\ 100 * g >= 0 => n >= 0
        /\ \A b \in Nat : 100 * g >= 0 /\ 100 * g <= (100 + t) * b => n <= b
    <3>1. 100 * g \in Int /\ 100 + t \in Nat \ {0}
      OBVIOUS
    <3> QED
      BY <2>1, <3>1, RoundNear
  <2>4. (100 + t) * n = 100 * n + t * n /\ t * n \in Int
    BY <2>3
  <2>5. Sums!Within(100 * (g - n) - t * n, 100 + t)
    BY <2>3, <2>4 DEF Sums!Within
  <2>6. ASSUME g >= 0 PROVE n >= 0 /\ g - n >= 0
    <3>1. t * g >= 0 /\ (100 + t) * g = 100 * g + t * g /\ t * g \in Int
      BY <2>6
    <3>2. 100 * g <= (100 + t) * g
      BY <3>1
    <3> QED
      BY <2>3, <2>6, <3>2
  <2> QED
    BY <1>4, <2>2, <2>3, <2>5, <2>6 DEF LineFits
<1>6. CASE ~line.inclusive
  <2>1. PICK x : x = Sums!Round(g * t, 100, mode)
    OBVIOUS
  <2>2. l = [net |-> g, tax |-> x, rate |-> t]
    BY <1>2, <1>3, <1>4, <1>6, <2>1 DEF Sums!LineAmounts
  <2>3. g * t \in Int /\ (g >= 0 => g * t >= 0) /\ (g <= 0 => g * t <= 0) /\ g * t = t * g
    OBVIOUS
  <2>4. /\ x \in Int /\ -100 < 100 * x - g * t /\ 100 * x - g * t < 100
        /\ (g >= 0 => x >= 0) /\ (g <= 0 => x <= 0)
    BY <2>1, <2>3, RoundNear
  <2>5. Sums!Within(100 * x - t * g, 100 + t)
    BY <2>3, <2>4 DEF Sums!Within
  <2> QED
    BY <1>4, <2>2, <2>4, <2>5 DEF LineFits
<1> QED
  BY <1>1, <1>5, <1>6

(* Amounts that were each moved by less than a unit move their sum by at   *)
(* most a unit each.                                                       *)
LEMMA SumNear ==
    ASSUME NEW f, NEW g, NEW S, IsFiniteSet(S), NEW r \in Nat,
           \A x \in S : /\ f[x] \in Int /\ g[x] \in Int
                        /\ -10 < 10 * f[x] - r * g[x] /\ 10 * f[x] - r * g[x] < 10
    PROVE  /\ -(10 * Cardinality(S)) <= 10 * SumFunctionOnSet(f, S) - r * SumFunctionOnSet(g, S)
           /\ 10 * SumFunctionOnSet(f, S) - r * SumFunctionOnSet(g, S) <= 10 * Cardinality(S)
<1> DEFINE Near(s) ==
        /\ -(10 * Cardinality(s)) <= 10 * SumFunctionOnSet(f, s) - r * SumFunctionOnSet(g, s)
        /\ 10 * SumFunctionOnSet(f, s) - r * SumFunctionOnSet(g, s) <= 10 * Cardinality(s)
<1> DEFINE Fine == {n \in Nat : \A s \in SUBSET S : Cardinality(s) = n => Near(s)}
<1>a. \A s \in SUBSET S : /\ IsFiniteSet(s) /\ Cardinality(s) \in Nat
                           /\ (Cardinality(s) = 0 <=> s = {})
  BY FS_Subset, FS_CardinalityType, FS_EmptySet
<1>1. 0 \in Fine
  <2>1. SumFunctionOnSet(f, {}) = 0 /\ SumFunctionOnSet(g, {}) = 0 /\ Cardinality({}) = 0
    BY SumFirst, FS_EmptySet
  <2>2. Near({})
    BY <2>1
  <2>3. \A s \in SUBSET S : Cardinality(s) = 0 => s = {}
    BY <1>a
  <2> HIDE DEF Near
  <2> QED
    BY <2>2, <2>3
<1>2. ASSUME NEW n \in Nat, n \in Fine PROVE n + 1 \in Fine
  <2> SUFFICES ASSUME NEW s \in SUBSET S, Cardinality(s) = n + 1
               PROVE  Near(s)
    OBVIOUS
  <2>1. s # {} /\ IsFiniteSet(s)
    BY <1>a
  <2>2. PICK a : a = First(s)
    OBVIOUS
  <2>3. PICK t : t = s \ {a}
    OBVIOUS
  <2>4. a \in S /\ t \in SUBSET S /\ Cardinality(t) = n /\ IsFiniteSet(t)
    <3>1. /\ First(s) \in s /\ s \ {First(s)} \in SUBSET S
          /\ Cardinality(s \ {First(s)}) = Cardinality(s) - 1
      BY <2>1, Rest
    <3> QED
      BY <1>a, <2>2, <2>3, <3>1
  <2>5. SumFunctionOnSet(f, s) = f[a] + SumFunctionOnSet(f, t)
    BY <2>1, <2>2, <2>3, SumFirst
  <2>6. SumFunctionOnSet(g, s) = g[a] + SumFunctionOnSet(g, t)
    BY <2>1, <2>2, <2>3, SumFirst
  <2>7. PICK F \in Int : F = SumFunctionOnSet(f, t)
    BY <2>4, SumInt
  <2>8. PICK G \in Int : G = SumFunctionOnSet(g, t)
    BY <2>4, SumInt
  <2>9. -(10 * n) <= 10 * F - r * G /\ 10 * F - r * G <= 10 * n
    BY <1>2, <2>4, <2>7, <2>8
  <2>10. PICK x \in Int : x = f[a]
    BY <2>4
  <2>11. PICK y \in Int : y = g[a]
    BY <2>4
  <2>12. -10 < 10 * x - r * y /\ 10 * x - r * y < 10
    BY <2>4, <2>10, <2>11
  <2>13. r * (y + G) = r * y + r * G /\ r * y \in Int /\ r * G \in Int
    OBVIOUS
  <2>14. /\ -(10 * (n + 1)) <= 10 * (x + F) - r * (y + G)
         /\ 10 * (x + F) - r * (y + G) <= 10 * (n + 1)
    BY <2>9, <2>12, <2>13
  <2> QED
    BY <2>5, <2>6, <2>7, <2>8, <2>10, <2>11, <2>14
<1>3. Cardinality(S) \in Fine
  <2> HIDE DEF Fine
  <2> QED
    BY <1>1, <1>2, AllNaturals, FS_CardinalityType
<1> QED
  BY <1>3

(* Journals, by the numbers of their lines. *)
Side == [debit : Int, credit : Int]

(* Numbers of lines, but for the rounding line, and journals with them. *)
Numbers == 0 .. MaxLines + 3

DebitsOf(journal) == [k \in DOMAIN journal |-> journal[k].debit]
CreditsOf(journal) == [k \in DOMAIN journal |-> journal[k].credit]

(* The amounts add up as all do. *)
LEMMA AmountSum ==
    ASSUME NEW f, NEW S
    PROVE  /\ Sums!SumFunctionOnSet(f, S) = SumFunctionOnSet(f, S)
           /\ Sums!SumFunction(f) = SumFunctionOnSet(f, DOMAIN f)
  BY DEF Sums!SumFunction, Sums!SumFunctionOnSet, Sums!FoldFunctionOnSet, Sums!MapThenFoldSet,
         SumFunctionOnSet, FoldFunctionOnSet, MapThenFoldSet

(* The sides of a journal add up to integers. *)
LEMMA JournalSums ==
    ASSUME NEW K, IsFiniteSet(K), NEW journal \in [K -> Side]
    PROVE  /\ Sums!Debits(journal) = SumFunctionOnSet(DebitsOf(journal), K)
           /\ Sums!Credits(journal) = SumFunctionOnSet(CreditsOf(journal), K)
           /\ Sums!Debits(journal) \in Int /\ Sums!Credits(journal) \in Int
<1>1. DOMAIN journal = K /\ \A k \in K : journal[k].debit \in Int /\ journal[k].credit \in Int
  BY DEF Side
<1>2. /\ DOMAIN DebitsOf(journal) = K /\ DOMAIN CreditsOf(journal) = K
      /\ \A k \in K : DebitsOf(journal)[k] \in Int /\ CreditsOf(journal)[k] \in Int
  BY <1>1 DEF DebitsOf, CreditsOf
<1>3. /\ SumFunctionOnSet(DebitsOf(journal), K) \in Int
      /\ SumFunctionOnSet(CreditsOf(journal), K) \in Int
  BY <1>2, SumInt
<1>4. /\ Sums!Debits(journal) = Sums!SumFunction(DebitsOf(journal))
      /\ Sums!Credits(journal) = Sums!SumFunction(CreditsOf(journal))
  BY DEF Sums!Debits, DebitsOf, Sums!Credits, CreditsOf
<1> QED
  BY <1>2, <1>3, <1>4, AmountSum

(* Finitely many numbers, and null is no journal with them. *)
LEMMA JournalNumbers ==
    ASSUME NEW K \in SUBSET Numbers
    PROVE  /\ IsFiniteSet(K) /\ Cardinality(K) \in Nat
           /\ Sums!Rounding \notin K
           /\ NoRow \notin [K -> Side]
           /\ NoRow \notin [{Sums!Rounding} \cup K -> Side]
<1>1. IsFiniteSet(K)
  <2>1. IsFiniteSet(Numbers)
    BY DocumentAssumption, FS_Interval DEF Numbers
  <2> QED
    BY <2>1, FS_Subset
<1>2. /\ K \in SUBSET (-1 .. MaxLines + 3)
      /\ {Sums!Rounding} \cup K \in SUBSET (-1 .. MaxLines + 3)
      /\ Sums!Rounding \notin K
  BY DocumentAssumption DEF Numbers, Sums!Rounding
<1> QED
  BY <1>1, <1>2, NoRowAssumption, FS_CardinalityType DEF Side

(* A journal converts line by line, with an error of less than a unit each *)
(* line if one side of it is empty.                                        *)
LEMMA ConvertedNear ==
    ASSUME NEW K, NEW journal \in [K -> Side], NEW rate \in Nat, NEW mode, NEW k \in K
    PROVE  /\ Sums!Converted(journal, rate, mode) \in [K -> Side]
           /\ \/ journal[k].debit = 0
              \/ journal[k].credit = 0
              => LET base == Sums!Converted(journal, rate, mode)
                     d == 10 * (base[k].debit - base[k].credit)
                          - rate * (journal[k].debit - journal[k].credit)
                 IN -10 < d /\ d < 10
<1> DEFINE base == Sums!Converted(journal, rate, mode)
<1>1. \A i \in K : journal[i].debit \in Int /\ journal[i].credit \in Int
  BY DEF Side
<1>2. ASSUME NEW x \in Int
      PROVE  /\ Sums!Round(x * rate, 10, mode) \in Int
             /\ -10 < 10 * Sums!Round(x * rate, 10, mode) - x * rate
             /\ 10 * Sums!Round(x * rate, 10, mode) - x * rate < 10
             /\ x = 0 => Sums!Round(x * rate, 10, mode) = 0
  <2>1. PICK p \in Int : p = x * rate
    OBVIOUS
  <2>2. /\ Sums!Round(p, 10, mode) \in Int
        /\ -10 < 10 * Sums!Round(p, 10, mode) - p
        /\ 10 * Sums!Round(p, 10, mode) - p < 10
        /\ p >= 0 => Sums!Round(p, 10, mode) >= 0
        /\ p <= 0 => Sums!Round(p, 10, mode) <= 0
    BY RoundNear
  <2>3. x = 0 => p = 0
    BY <2>1
  <2>4. p = 0 => Sums!Round(p, 10, mode) = 0
    BY <2>2
  <2> QED
    BY <2>1, <2>2, <2>3, <2>4
<1>3. /\ DOMAIN journal = K
      /\ base = [i \in K |-> [debit |-> Sums!Round(journal[i].debit * rate, 10, mode),
                              credit |-> Sums!Round(journal[i].credit * rate, 10, mode)]]
  BY DEF Sums!Converted
<1>4. /\ base \in [K -> Side]
      /\ base[k].debit = Sums!Round(journal[k].debit * rate, 10, mode)
      /\ base[k].credit = Sums!Round(journal[k].credit * rate, 10, mode)
  <2> HIDE DEF base
  <2>1. ASSUME NEW i \in K
        PROVE  /\ Sums!Round(journal[i].debit * rate, 10, mode) \in Int
               /\ Sums!Round(journal[i].credit * rate, 10, mode) \in Int
    BY <1>1, <1>2
  <2>2. ASSUME NEW i \in K
        PROVE  [debit |-> Sums!Round(journal[i].debit * rate, 10, mode),
                credit |-> Sums!Round(journal[i].credit * rate, 10, mode)] \in Side
    BY <2>1 DEF Side
  <2> QED
    BY <1>3, <2>2
<1>5. PICK d \in Int : d = journal[k].debit
  BY <1>1
<1>6. PICK c \in Int : c = journal[k].credit
  BY <1>1
<1> HIDE DEF base
<1>7. PICK e \in Int : e = base[k].debit /\ e = Sums!Round(d * rate, 10, mode)
  BY <1>2, <1>4, <1>5
<1>8. PICK b \in Int : b = base[k].credit /\ b = Sums!Round(c * rate, 10, mode)
  BY <1>2, <1>4, <1>6
<1>9. /\ -10 < 10 * e - d * rate /\ 10 * e - d * rate < 10 /\ (d = 0 => e = 0)
      /\ -10 < 10 * b - c * rate /\ 10 * b - c * rate < 10 /\ (c = 0 => b = 0)
  BY <1>2, <1>7, <1>8
<1>10. /\ rate * (d - c) = d * rate - c * rate /\ d * rate \in Int /\ c * rate \in Int
       /\ (d = 0 => d * rate = 0) /\ (c = 0 => c * rate = 0)
  OBVIOUS
<1>11. ASSUME d = 0 \/ c = 0
       PROVE  -10 < 10 * (e - b) - rate * (d - c) /\ 10 * (e - b) - rate * (d - c) < 10
  BY <1>9, <1>10, <1>11
<1>12. journal[k].debit = 0 \/ journal[k].credit = 0
       => LET dd == 10 * (base[k].debit - base[k].credit)
                          - rate * (journal[k].debit - journal[k].credit)
          IN -10 < dd /\ dd < 10
  BY <1>5, <1>6, <1>7, <1>8, <1>11
<1> QED
  BY <1>4, <1>12 DEF base

(* What a postable journal has drifted apart is a unit per line at most.   *)
LEMMA DriftBounded ==
    ASSUME NEW K, IsFiniteSet(K), NEW journal \in [K -> Side], Sums!Postable(journal),
           NEW rate \in Nat, NEW mode
    PROVE  LET base == Sums!Converted(journal, rate, mode)
               residual == Sums!Debits(base) - Sums!Credits(base)
           IN /\ residual \in Int
              /\ -Cardinality(K) <= residual /\ residual <= Cardinality(K)
<1> DEFINE base == Sums!Converted(journal, rate, mode)
           f == [k \in K |-> base[k].debit - base[k].credit]
           g == [k \in K |-> journal[k].debit - journal[k].credit]
<1>1. base \in [K -> Side]
  <2>1. CASE K = {}
    BY <2>1 DEF Sums!Converted
  <2>2. CASE K # {}
    BY <2>2, ConvertedNear
  <2> QED
    BY <2>1, <2>2
<1>2. \A k \in K : journal[k].debit = 0 \/ journal[k].credit = 0
  <2>1. DOMAIN journal = K /\ \A k \in K : journal[k].debit \in Int /\ journal[k].credit \in Int
    BY DEF Side
  <2> QED
    BY <2>1 DEF Sums!Postable
<1>3. \A k \in K : /\ f[k] \in Int /\ g[k] \in Int
                   /\ -10 < 10 * f[k] - rate * g[k] /\ 10 * f[k] - rate * g[k] < 10
  <2> SUFFICES ASSUME NEW k \in K
               PROVE  /\ f[k] \in Int /\ g[k] \in Int
                      /\ -10 < 10 * f[k] - rate * g[k] /\ 10 * f[k] - rate * g[k] < 10
    OBVIOUS
  <2>1. f[k] = base[k].debit - base[k].credit /\ g[k] = journal[k].debit - journal[k].credit
    OBVIOUS
  <2>2. base[k] \in Side /\ journal[k] \in Side
    BY <1>1
  <2>3. f[k] \in Int /\ g[k] \in Int
    BY <2>1, <2>2 DEF Side
  <2>4. /\ -10 < 10 * (base[k].debit - base[k].credit)
                 - rate * (journal[k].debit - journal[k].credit)
        /\ 10 * (base[k].debit - base[k].credit)
             - rate * (journal[k].debit - journal[k].credit) < 10
    BY <1>2, ConvertedNear
  <2> QED
    BY <2>1, <2>3, <2>4
<1> HIDE DEF base
<1>4. /\ -(10 * Cardinality(K)) <= 10 * SumFunctionOnSet(f, K) - rate * SumFunctionOnSet(g, K)
      /\ 10 * SumFunctionOnSet(f, K) - rate * SumFunctionOnSet(g, K) <= 10 * Cardinality(K)
  <2> HIDE DEF f, g
  <2> QED
    BY <1>3, SumNear
<1>5. ASSUME NEW j \in [K -> Side], NEW h, h = [k \in K |-> j[k].debit - j[k].credit]
      PROVE  /\ Sums!Debits(j) \in Int /\ Sums!Credits(j) \in Int
             /\ SumFunctionOnSet(h, K) \in Int
             /\ Sums!Debits(j) = Sums!Credits(j) + SumFunctionOnSet(h, K)
  <2>1. /\ Sums!Debits(j) = SumFunctionOnSet(DebitsOf(j), K)
        /\ Sums!Credits(j) = SumFunctionOnSet(CreditsOf(j), K)
        /\ Sums!Debits(j) \in Int /\ Sums!Credits(j) \in Int
    BY JournalSums
  <2>2. \A k \in K : /\ CreditsOf(j)[k] \in Int /\ h[k] \in Int
                     /\ DebitsOf(j)[k] = CreditsOf(j)[k] + h[k]
    BY <1>5 DEF Side, DebitsOf, CreditsOf
  <2>3. SumFunctionOnSet(DebitsOf(j), K)
          = SumFunctionOnSet(CreditsOf(j), K) + SumFunctionOnSet(h, K)
    BY <2>2, SumPlus
  <2>4. SumFunctionOnSet(h, K) \in Int
    BY <2>2, SumInt
  <2> QED
    BY <2>1, <2>3, <2>4
<1>6. /\ Sums!Debits(base) \in Int /\ Sums!Credits(base) \in Int
      /\ SumFunctionOnSet(f, K) \in Int
      /\ Sums!Debits(base) = Sums!Credits(base) + SumFunctionOnSet(f, K)
  BY <1>1, <1>5
<1>7. SumFunctionOnSet(g, K) = 0
  <2>1. /\ Sums!Debits(journal) \in Int /\ Sums!Credits(journal) \in Int
        /\ SumFunctionOnSet(g, K) \in Int
        /\ Sums!Debits(journal) = Sums!Credits(journal) + SumFunctionOnSet(g, K)
    BY <1>5
  <2>2. Sums!Debits(journal) = Sums!Credits(journal)
    BY DEF Sums!Postable
  <2> QED
    BY <2>1, <2>2
<1>8. Cardinality(K) \in Nat /\ rate * 0 = 0
  BY FS_CardinalityType
<1> QED
  BY <1>4, <1>6, <1>7, <1>8 DEF base

(* prepare refuses no postable journal for what rounding did, and what it  *)
(* returns balances to the unit.                                           *)
LEMMA PreparedBalances ==
    ASSUME NEW K \in SUBSET Numbers, NEW journal \in [K -> Side],
           NEW rate \in Nat, NEW mode
    PROVE  LET prepared == Sums!Prepared(journal, rate, mode)
           IN /\ Sums!Postable(journal) => prepared # NoRow
              /\ prepared # NoRow => Sums!Debits(prepared) = Sums!Credits(prepared)
<1> DEFINE base == Sums!Converted(journal, rate, mode)
           residual == Sums!Debits(base) - Sums!Credits(base)
           plugged == [k \in {Sums!Rounding} \cup DOMAIN base |->
                          IF k = Sums!Rounding THEN Sums!Plug(residual) ELSE base[k]]
           prepared == Sums!Prepared(journal, rate, mode)
           refusing == \/ ~Sums!Postable(journal)
                       \/ residual > Sums!MaxDrift(journal)
                       \/ -residual > Sums!MaxDrift(journal)
<1>1. prepared = CASE refusing -> NoRow
                   [] residual = 0 -> base
                   [] OTHER -> plugged
  BY DEF Sums!Prepared
<1>2. /\ IsFiniteSet(K) /\ Cardinality(K) \in Nat /\ Sums!Rounding \notin K
      /\ NoRow \notin [K -> Side] /\ NoRow \notin [{Sums!Rounding} \cup K -> Side]
  BY JournalNumbers
<1>3. base \in [K -> Side]
  <2>1. CASE K = {}
    BY <2>1 DEF Sums!Converted
  <2>2. CASE K # {}
    BY <2>2, ConvertedNear
  <2> QED
    BY <2>1, <2>2
<1>4. /\ Sums!Debits(base) = SumFunctionOnSet(DebitsOf(base), K)
      /\ Sums!Credits(base) = SumFunctionOnSet(CreditsOf(base), K)
      /\ Sums!Debits(base) \in Int /\ Sums!Credits(base) \in Int
  <2> HIDE DEF base
  <2> QED
    BY <1>2, <1>3, JournalSums
<1>5. residual \in Int
  BY <1>4
<1>6. Sums!Postable(journal) => ~refusing
  <2>1. Sums!MaxDrift(journal) = Cardinality(K) + 1
    BY DEF Sums!MaxDrift, Sums!Cardinality, Cardinality
  <2>2. ASSUME Sums!Postable(journal)
        PROVE  -Cardinality(K) <= residual /\ residual <= Cardinality(K)
    BY <1>2, <2>2, DriftBounded
  <2> HIDE DEF residual
  <2> QED
    BY <1>2, <1>5, <2>1, <2>2
<1>7. Sums!Plug(residual) \in Side /\ Sums!Plug(residual).debit - Sums!Plug(residual).credit = -residual
  <2> HIDE DEF residual
  <2> QED
    BY <1>5 DEF Sums!Plug, Sums!Debit, Sums!Credit, Side
<1>8. plugged \in [{Sums!Rounding} \cup K -> Side]
  <2>1. DOMAIN base = K
    BY <1>3
  <2> HIDE DEF base, residual
  <2> QED
    BY <1>3, <1>7, <2>1
<1>9. Sums!Debits(plugged) = Sums!Credits(plugged)
  <2> DEFINE x == Sums!Rounding
  <2>1. DOMAIN base = K
    BY <1>3
  <2> HIDE DEF base, residual, x
  <2>2. /\ plugged[x] = Sums!Plug(residual) /\ \A k \in K : plugged[k] = base[k]
    BY <1>2, <2>1 DEF x
  <2>3. IsFiniteSet(K \cup {x}) /\ K \cup {x} = {x} \cup K /\ x \notin K
    BY <1>2, FS_AddElement DEF x
  <2>4. plugged \in [K \cup {x} -> Side]
    BY <1>8, <2>3 DEF x
  <2> HIDE DEF plugged
  <2>5. /\ Sums!Debits(plugged) = SumFunctionOnSet(DebitsOf(plugged), K \cup {x})
        /\ Sums!Credits(plugged) = SumFunctionOnSet(CreditsOf(plugged), K \cup {x})
    BY <2>3, <2>4, JournalSums
  <2>6. /\ DebitsOf(plugged)[x] = Sums!Plug(residual).debit
        /\ CreditsOf(plugged)[x] = Sums!Plug(residual).credit
        /\ \A k \in K : /\ DebitsOf(plugged)[k] = DebitsOf(base)[k]
                        /\ CreditsOf(plugged)[k] = CreditsOf(base)[k]
                        /\ DebitsOf(base)[k] \in Int /\ CreditsOf(base)[k] \in Int
    BY <1>3, <2>1, <2>2, <2>4 DEF DebitsOf, CreditsOf, Side
  <2>7. Sums!Plug(residual).debit \in Int /\ Sums!Plug(residual).credit \in Int
    BY <1>7 DEF Side
  <2>8. SumFunctionOnSet(DebitsOf(plugged), K \cup {x})
          = SumFunctionOnSet(DebitsOf(plugged), K) + DebitsOf(plugged)[x]
    BY <1>2, <2>3, <2>6, <2>7, SumAdd
  <2>9. SumFunctionOnSet(CreditsOf(plugged), K \cup {x})
          = SumFunctionOnSet(CreditsOf(plugged), K) + CreditsOf(plugged)[x]
    BY <1>2, <2>3, <2>6, <2>7, SumAdd
  <2>10. /\ SumFunctionOnSet(DebitsOf(plugged), K) = SumFunctionOnSet(DebitsOf(base), K)
         /\ SumFunctionOnSet(CreditsOf(plugged), K) = SumFunctionOnSet(CreditsOf(base), K)
    BY <1>2, <2>6, SumSame
  <2>11. residual = Sums!Debits(base) - Sums!Credits(base)
    BY DEF residual
  <2> QED
    BY <1>4, <1>7, <2>5, <2>6, <2>7, <2>8, <2>9, <2>10, <2>11
<1>10. base # NoRow /\ plugged # NoRow
  BY <1>2, <1>3, <1>8
<1>11. residual = 0 => Sums!Debits(base) = Sums!Credits(base)
  BY <1>4
<1> HIDE DEF base, residual, plugged, refusing, prepared
<1>12. /\ Sums!Postable(journal) => prepared # NoRow
       /\ prepared # NoRow => Sums!Debits(prepared) = Sums!Credits(prepared)
  BY <1>1, <1>6, <1>9, <1>10, <1>11
<1> QED
  BY <1>12 DEF prepared

(* The prices of an invoice's lines. *)
Price == [net : Int, tax : Int, rate : Nat]

(* Two lines of a journal are two or more. *)
LEMMA TwoLines ==
    ASSUME NEW K, IsFiniteSet(K), NEW i \in K, NEW k \in K, i # k
    PROVE  Cardinality(K) >= 2
<1>1. IsFiniteSet({i}) /\ Cardinality({i}) = 1
  BY FS_Singleton
<1>2. {i, k} = {i} \cup {k} /\ k \notin {i}
  OBVIOUS
<1>3. Cardinality({i, k}) = 2
  BY <1>1, <1>2, FS_AddElement
<1>4. {i, k} \in SUBSET K
  OBVIOUS
<1>5. Cardinality({i, k}) <= Cardinality(K) /\ Cardinality(K) \in Nat
  BY <1>4, FS_Subset, FS_CardinalityType
<1> QED
  BY <1>3, <1>5

(* The journal of an invoice, of any lines. *)
LEMMA InvoiceJournalType ==
    ASSUME NEW lines \in Seq(Price), Len(lines) <= MaxLines
    PROVE  /\ DOMAIN Sums!InvoiceJournal(lines) \in SUBSET Numbers
           /\ Sums!InvoiceJournal(lines) \in [DOMAIN Sums!InvoiceJournal(lines) -> Side]
           /\ Sums!Total(lines) \in Int /\ Sums!Tax(lines) \in Int
<1> DEFINE N == 1 .. Len(lines)
           nets == [i \in N |-> lines[i].net]
           taxes == [i \in N |-> lines[i].tax]
           totals == [i \in N |-> lines[i].net + lines[i].tax]
<1>1. /\ DOMAIN lines = N /\ Len(lines) \in Nat /\ IsFiniteSet(N)
      /\ \A i \in N : lines[i].net \in Int /\ lines[i].tax \in Int
  <2>1. Len(lines) \in Nat /\ DOMAIN lines = N /\ \A i \in N : lines[i] \in Price
    OBVIOUS
  <2>2. \A i \in N : lines[i].net \in Int /\ lines[i].tax \in Int
    BY <2>1 DEF Price
  <2>3. IsFiniteSet(N)
    BY <2>1, FS_Interval
  <2> QED
    BY <2>1, <2>2, <2>3
<1>2. Sums!Total(lines) \in Int
  <2>1. Sums!Total(lines) = Sums!SumFunction(totals)
    BY <1>1 DEF Sums!Total
  <2>2. Sums!Total(lines) = SumFunctionOnSet(totals, N)
    BY <2>1, AmountSum
  <2> QED
    BY <1>1, <2>2, SumInt
<1>3. Sums!Tax(lines) \in Int
  <2>1. Sums!Tax(lines) = SumFunctionOnSet(taxes, Sums!Taxed(lines))
    BY <1>1, AmountSum DEF Sums!Tax
  <2>2. Sums!Taxed(lines) \in SUBSET N
    BY <1>1 DEF Sums!Taxed
  <2>3. IsFiniteSet(Sums!Taxed(lines))
    BY <1>1, <2>2, FS_Subset
  <2>4. \A i \in Sums!Taxed(lines) : taxes[i] \in Int
    BY <1>1, <2>2
  <2> QED
    BY <2>1, <2>3, <2>4, SumInt
<1>4. Sums!Charged(lines) \in SUBSET N
  BY <1>1 DEF Sums!Charged
<1>5. Sums!TaxLine(lines) = Len(lines) + 1
  BY DEF Sums!TaxLine
<1>6. DOMAIN Sums!InvoiceJournal(lines) \in SUBSET Numbers
  <2>1. DOMAIN Sums!InvoiceJournal(lines)
          \in SUBSET ({0} \cup Sums!Charged(lines) \cup {Sums!TaxLine(lines)})
    BY DEF Sums!InvoiceJournal
  <2>2. {0} \cup N \cup {Len(lines) + 1} \in SUBSET Numbers
    BY <1>1, DocumentAssumption DEF Numbers
  <2> QED
    BY <1>4, <1>5, <2>1, <2>2
<1>7. Sums!InvoiceJournal(lines) \in [DOMAIN Sums!InvoiceJournal(lines) -> Side]
  <2>1. \A x \in Int : Sums!Debit(x) \in Side /\ Sums!Credit(x) \in Side
    BY DEF Sums!Debit, Sums!Credit, Side
  <2>2. /\ Sums!Debit(Sums!Total(lines)) \in Side /\ Sums!Credit(Sums!Tax(lines)) \in Side
        /\ \A i \in Sums!Charged(lines) : Sums!Credit(lines[i].net) \in Side
    BY <1>1, <1>2, <1>3, <1>4, <2>1
  <2> QED
    BY <2>2 DEF Sums!InvoiceJournal
<1> QED
  BY <1>2, <1>3, <1>6, <1>7

(* The journal of an invoice with no line below zero is postable. *)
LEMMA InvoiceJournalPostable ==
    ASSUME NEW lines \in Seq(Price), Len(lines) <= MaxLines,
           \A i \in 1 .. Len(lines) : LineFits(lines[i]) /\ lines[i].net + lines[i].tax >= 0,
           Sums!Total(lines) # 0
    PROVE  Sums!Postable(Sums!InvoiceJournal(lines))
<1> DEFINE N == 1 .. Len(lines)
           nets == [i \in N |-> lines[i].net]
           taxes == [i \in N |-> lines[i].tax]
           totals == [i \in N |-> lines[i].net + lines[i].tax]
           C == Sums!Charged(lines)
           T == Sums!Taxed(lines)
           x == Sums!TaxLine(lines)
           total == Sums!Total(lines)
           tax == Sums!Tax(lines)
           journal == Sums!InvoiceJournal(lines)
           K == DOMAIN journal
<1>1. /\ DOMAIN lines = N /\ IsFiniteSet(N) /\ Len(lines) \in Nat
      /\ \A i \in N : /\ lines[i].net \in Int /\ lines[i].tax \in Int
                      /\ lines[i].net >= 0 /\ lines[i].tax >= 0
  <2>1. Len(lines) \in Nat /\ DOMAIN lines = N
    OBVIOUS
  <2>2. \A i \in N : /\ lines[i].net \in Int /\ lines[i].tax \in Int
                     /\ lines[i].net >= 0 /\ lines[i].tax >= 0
    BY DEF LineFits
  <2>3. IsFiniteSet(N)
    BY <2>1, FS_Interval
  <2> QED
    BY <2>1, <2>2, <2>3
<1>2. /\ C \in SUBSET N /\ T \in SUBSET N /\ x = Len(lines) + 1
      /\ \A i \in N : /\ i \in C <=> lines[i].net > 0
                      /\ i \in T <=> lines[i].tax > 0
  BY <1>1 DEF Sums!Charged, Sums!Taxed, Sums!TaxLine
<1>3. IsFiniteSet(C) /\ IsFiniteSet(T)
  BY <1>1, <1>2, FS_Subset
<1>4. total = SumFunctionOnSet(totals, N)
  <2>1. Sums!Total(lines) = Sums!SumFunction(totals)
    BY <1>1 DEF Sums!Total
  <2> QED
    BY <2>1, AmountSum
<1>5. tax = SumFunctionOnSet(taxes, T)
  BY <1>1, AmountSum DEF Sums!Tax
<1>6. SumFunctionOnSet(nets, N) = SumFunctionOnSet(nets, C)
  <2>1. /\ \A i \in C : nets[i] \in Int
        /\ \A i \in N \ C : nets[i] = 0
    BY <1>1, <1>2
  <2> HIDE DEF N, nets, C
  <2> QED
    BY <1>1, <1>2, <2>1, SumFiltered
<1>7. SumFunctionOnSet(taxes, N) = tax
  <2>1. /\ \A i \in T : taxes[i] \in Int
        /\ \A i \in N \ T : taxes[i] = 0
    BY <1>1, <1>2
  <2> HIDE DEF N, taxes, T, tax
  <2>2. SumFunctionOnSet(taxes, N) = SumFunctionOnSet(taxes, T)
    BY <1>1, <1>2, <2>1, SumFiltered
  <2> QED
    BY <1>5, <2>2
<1>8. total = SumFunctionOnSet(nets, C) + tax
  <2>1. \A i \in N : nets[i] \in Int /\ taxes[i] \in Int /\ totals[i] = nets[i] + taxes[i]
    BY <1>1
  <2>2. SumFunctionOnSet(totals, N) = SumFunctionOnSet(nets, N) + SumFunctionOnSet(taxes, N)
    <3> HIDE DEF nets, taxes, totals
    <3> QED
      BY <1>1, <2>1, SumPlus
  <2> QED
    BY <1>4, <1>6, <1>7, <2>2
<1>9. SumFunctionOnSet(nets, C) \in Nat /\ tax \in Nat
  <2>1. \A i \in C : nets[i] \in Nat
    BY <1>1, <1>2
  <2>2. \A i \in T : taxes[i] \in Nat
    BY <1>1, <1>2
  <2> HIDE DEF nets, taxes, C, T, tax
  <2> QED
    BY <1>3, <1>5, <2>1, <2>2, SumNat
<1>10. total \in Nat \ {0}
  BY <1>8, <1>9
<1>11. /\ K = {0} \cup C \cup (IF tax > 0 THEN {x} ELSE {})
       /\ journal[0] = Sums!Debit(total)
       /\ \A i \in C : journal[i] = Sums!Credit(lines[i].net)
       /\ tax > 0 => journal[x] = Sums!Credit(tax)
  BY <1>1, <1>2 DEF Sums!InvoiceJournal
<1>12. /\ journal \in [K -> Side] /\ K \in SUBSET Numbers
  BY InvoiceJournalType, <1>1 DEF Price
<1>13. IsFiniteSet(K)
  BY <1>12, JournalNumbers
<1>14. 0 \notin C /\ 0 # x /\ x \notin C
  BY <1>1, <1>2
<1> HIDE DEF N, nets, taxes, totals, C, T, x, total, tax, journal, K
<1>15. \A k \in K : /\ journal[k].debit >= 0 /\ journal[k].credit >= 0
                    /\ (journal[k].debit > 0) # (journal[k].credit > 0)
  <2>1. \A i \in C : lines[i].net \in Int /\ lines[i].net > 0
    BY <1>1, <1>2
  <2> SUFFICES ASSUME NEW k \in K
               PROVE  /\ journal[k].debit >= 0 /\ journal[k].credit >= 0
                      /\ (journal[k].debit > 0) # (journal[k].credit > 0)
    OBVIOUS
  <2>2. CASE k = 0
    BY <1>10, <1>11, <2>2 DEF Sums!Debit
  <2>3. CASE k \in C
    <3>1. PICK c \in Int : c = lines[k].net /\ c > 0
      BY <2>1, <2>3
    <3>2. journal[k] = [debit |-> 0, credit |-> c]
      BY <1>11, <2>3, <3>1 DEF Sums!Credit
    <3> QED
      BY <3>1, <3>2
  <2>4. CASE k = x /\ tax > 0
    BY <1>9, <1>11, <2>4 DEF Sums!Credit
  <2> QED
    BY <1>11, <2>2, <2>3, <2>4
<1>16. Cardinality(K) >= 2
  <2>1. CASE tax > 0
    <3>1. x \in K /\ 0 \in K
      BY <1>11, <2>1
    <3> QED
      BY <1>13, <1>14, <3>1, TwoLines
  <2>2. CASE ~(tax > 0)
    <3>1. SumFunctionOnSet(nets, C) # 0
      BY <1>8, <1>9, <1>10, <2>2
    <3>2. PICK i \in C : TRUE
      <4>1. C = {} => SumFunctionOnSet(nets, C) = 0
        BY SumFirst, FS_EmptySet
      <4> QED
        BY <3>1, <4>1
    <3>3. i \in K /\ 0 \in K /\ i # 0
      BY <1>11, <1>14
    <3> QED
      BY <1>13, <3>3, TwoLines
  <2> QED
    BY <2>1, <2>2
<1> DEFINE D == DebitsOf(journal)
           E == CreditsOf(journal)
           L == {0} \cup C
<1>17. /\ DOMAIN journal = K
       /\ \A k \in K : D[k] = journal[k].debit /\ E[k] = journal[k].credit
       /\ \A k \in K : D[k] \in Int /\ E[k] \in Int
  BY <1>12 DEF DebitsOf, CreditsOf, Side
<1>18. /\ Sums!Debits(journal) = SumFunctionOnSet(D, K)
       /\ Sums!Credits(journal) = SumFunctionOnSet(E, K)
  BY <1>12, <1>13, JournalSums
<1>19. /\ D[0] = total /\ E[0] = 0
       /\ \A i \in C : D[i] = 0 /\ E[i] = nets[i] /\ nets[i] \in Int
       /\ tax > 0 => D[x] = 0 /\ E[x] = tax
  <2>1. \A i \in C : nets[i] = lines[i].net /\ nets[i] \in Int
    BY <1>1, <1>2 DEF nets
  <2>2. 0 \in K /\ C \in SUBSET K /\ (tax > 0 => x \in K)
    BY <1>11
  <2> HIDE DEF D, E
  <2>3. /\ journal[0].debit = total /\ journal[0].credit = 0
        /\ tax > 0 => journal[x].debit = 0 /\ journal[x].credit = tax
    BY <1>11 DEF Sums!Debit, Sums!Credit
  <2>4. \A i \in C : journal[i].debit = 0 /\ journal[i].credit = lines[i].net
    <3> SUFFICES ASSUME NEW i \in C
                 PROVE  journal[i].debit = 0 /\ journal[i].credit = lines[i].net
      OBVIOUS
    <3>1. journal[i] = Sums!Credit(lines[i].net)
      BY <1>11
    <3>2. journal[i] = [debit |-> 0, credit |-> lines[i].net]
      BY <3>1 DEF Sums!Credit
    <3> QED
      BY <3>2
  <2> QED
    BY <1>17, <2>1, <2>2, <2>3, <2>4
<1> HIDE DEF D, E
<1>20. SumFunctionOnSet(D, L) = total /\ SumFunctionOnSet(E, L) = SumFunctionOnSet(nets, C)
  <2>1. L = C \cup {0}
    OBVIOUS
  <2>2. /\ SumFunctionOnSet(D, C \cup {0}) = SumFunctionOnSet(D, C) + D[0]
        /\ SumFunctionOnSet(E, C \cup {0}) = SumFunctionOnSet(E, C) + E[0]
    BY <1>3, <1>10, <1>14, <1>19, SumAdd
  <2>3. SumFunctionOnSet(D, C) = 0
    BY <1>3, <1>19, SumZero
  <2>4. SumFunctionOnSet(E, C) = SumFunctionOnSet(nets, C)
    BY <1>3, <1>19, SumSame
  <2>5. total \in Int /\ SumFunctionOnSet(nets, C) \in Int
    BY <1>9, <1>10
  <2> HIDE DEF L
  <2> QED
    BY <1>19, <2>1, <2>2, <2>3, <2>4, <2>5
<1>21. IsFiniteSet(L) /\ x \notin L /\ \A k \in L : D[k] \in Int /\ E[k] \in Int
  <2>1. L = C \cup {0}
    OBVIOUS
  <2>2. IsFiniteSet(L)
    BY <1>3, <2>1, FS_AddElement
  <2> QED
    BY <1>10, <1>14, <1>19, <2>2
<1>22. SumFunctionOnSet(D, K) = SumFunctionOnSet(E, K)
  <2>1. CASE tax > 0
    <3>1. K = L \cup {x}
      BY <1>11, <2>1
    <3>2. /\ SumFunctionOnSet(D, K) = SumFunctionOnSet(D, L) + D[x]
          /\ SumFunctionOnSet(E, K) = SumFunctionOnSet(E, L) + E[x]
      <4>1. D[x] \in Int /\ E[x] \in Int
        BY <1>9, <1>19, <2>1
      <4> HIDE DEF L
      <4> QED
        BY <1>21, <3>1, <4>1, SumAdd
    <3> HIDE DEF L
    <3> QED
      BY <1>8, <1>9, <1>10, <1>19, <1>20, <2>1, <3>2
  <2>2. CASE ~(tax > 0)
    <3>1. K = L /\ tax = 0
      BY <1>9, <1>11, <2>2
    <3> HIDE DEF L
    <3> QED
      BY <1>8, <1>9, <1>20, <3>1
  <2> QED
    BY <2>1, <2>2
<1>23. Sums!Cardinality(K) >= 2
  BY <1>16 DEF Sums!Cardinality, Cardinality
<1>24. Sums!Postable(journal)
  BY <1>15, <1>17, <1>18, <1>22, <1>23 DEF Sums!Postable
<1> QED
  BY <1>24 DEF journal

(* The journal of a transfer whose sides are both worth something.         *)
LEMMA TransferJournalPostable ==
    ASSUME NEW t \in Transfers, NEW mode
    PROVE  LET from == Sums!Round(t.fromAmount * t.fromRate, 10, mode)
               to   == Sums!Round(t.toAmount * t.toRate, 10, mode)
               journal == Sums!TransferJournal(t, mode)
           IN /\ DOMAIN journal \in SUBSET Numbers
              /\ journal \in [DOMAIN journal -> Side]
              /\ from # 0 /\ to # 0 => Sums!Postable(journal)
<1>1. PICK from \in Nat : from = Sums!Round(t.fromAmount * t.fromRate, 10, mode)
  <2>1. PICK p \in Nat : p = t.fromAmount * t.fromRate
    BY DocumentAssumption
  <2>2. Sums!Round(p, 10, mode) \in Nat
    BY RoundNear
  <2> QED
    BY <2>1, <2>2
<1>2. PICK to \in Nat : to = Sums!Round(t.toAmount * t.toRate, 10, mode)
  <2>1. PICK p \in Nat : p = t.toAmount * t.toRate
    BY DocumentAssumption
  <2>2. Sums!Round(p, 10, mode) \in Nat
    BY RoundNear
  <2> QED
    BY <2>1, <2>2
<1>3. PICK n \in {2, 3} : n = IF from = to THEN 2 ELSE 3
  OBVIOUS
<1>4. PICK journal : journal = Sums!TransferJournal(t, mode)
  OBVIOUS
<1>5. /\ journal = [k \in 1 .. n |->
              CASE k = 1 -> Sums!Debit(to)
                [] k = 2 -> Sums!Credit(from)
                [] OTHER -> IF from > to THEN Sums!Debit(from - to) ELSE Sums!Credit(to - from)]
      /\ DOMAIN journal = 1 .. n
  BY <1>1, <1>2, <1>3, <1>4 DEF Sums!TransferJournal
<1>6. /\ journal[1] = Sums!Debit(to) /\ journal[2] = Sums!Credit(from)
      /\ n = 3 => journal[3] = IF from > to THEN Sums!Debit(from - to)
                                            ELSE Sums!Credit(to - from)
  BY <1>5
<1>7. 1 .. n \in SUBSET Numbers
  BY DocumentAssumption DEF Numbers
<1>8. \A k \in 1 .. n : journal[k] \in Side
  <2>1. \A y \in Int : Sums!Debit(y) \in Side /\ Sums!Credit(y) \in Side
    BY DEF Sums!Debit, Sums!Credit, Side
  <2>2. \A k \in 1 .. n : k = 1 \/ k = 2 \/ (k = 3 /\ n = 3)
    OBVIOUS
  <2>3. from - to \in Int /\ to - from \in Int
    OBVIOUS
  <2> QED
    BY <1>6, <2>1, <2>2, <2>3
<1>9. journal \in [1 .. n -> Side]
  BY <1>5, <1>8
<1>10. ASSUME from # 0, to # 0 PROVE Sums!Postable(journal)
  <2>1. /\ journal[1].debit = to /\ journal[1].credit = 0
        /\ journal[2].debit = 0 /\ journal[2].credit = from
        /\ n = 3 => /\ journal[3].debit = IF from > to THEN from - to ELSE 0
                    /\ journal[3].credit = IF from > to THEN 0 ELSE to - from
    BY <1>6 DEF Sums!Debit, Sums!Credit
  <2>2. \A k \in 1 .. n : /\ journal[k].debit >= 0 /\ journal[k].credit >= 0
                          /\ (journal[k].debit > 0) # (journal[k].credit > 0)
    <3> SUFFICES ASSUME NEW k \in 1 .. n
                 PROVE  /\ journal[k].debit >= 0 /\ journal[k].credit >= 0
                        /\ (journal[k].debit > 0) # (journal[k].credit > 0)
      OBVIOUS
    <3>1. CASE k = 1
      BY <1>10, <2>1, <3>1
    <3>2. CASE k = 2
      BY <1>10, <2>1, <3>2
    <3>3. CASE k = 3
      BY <1>3, <2>1, <3>3
    <3> QED
      BY <3>1, <3>2, <3>3
  <2>3. IsFiniteSet(1 .. n) /\ 1 \in 1 .. n /\ 2 \in 1 .. n
    BY FS_Interval
  <2>4. Sums!Cardinality(1 .. n) >= 2
    <3>1. Cardinality(1 .. n) >= 2
      BY FS_Interval
    <3> QED
      BY <3>1 DEF Sums!Cardinality, Cardinality
  <2>5. Sums!Debits(journal) = Sums!Credits(journal)
    <3>1. /\ Sums!Debits(journal) = SumFunctionOnSet(DebitsOf(journal), 1 .. n)
          /\ Sums!Credits(journal) = SumFunctionOnSet(CreditsOf(journal), 1 .. n)
      BY <1>9, <2>3, JournalSums
    <3>2. ASSUME NEW f, \A k \in 1 .. n : f[k] \in Int
          PROVE  SumFunctionOnSet(f, 1 .. n) = f[1] + f[2] + IF n = 3 THEN f[3] ELSE 0
      <4>1. SumFunctionOnSet(f, 1 .. 0) = 0
        <5>1. 1 .. 0 = {}
          OBVIOUS
        <5> QED
          BY <5>1, SumFirst, FS_EmptySet
      <4>2. ASSUME NEW m \in Nat, m + 1 <= n
            PROVE  SumFunctionOnSet(f, 1 .. m + 1) = SumFunctionOnSet(f, 1 .. m) + f[m + 1]
        <5>1. \A k \in 1 .. m + 1 : k \in 1 .. n
          BY <4>2
        <5>2. \A k \in 1 .. m + 1 : f[k] \in Int
          BY <3>2, <5>1
        <5> QED
          BY <5>2, SumNext
      <4>3. /\ SumFunctionOnSet(f, 1 .. 1) = SumFunctionOnSet(f, 1 .. 0) + f[1]
            /\ SumFunctionOnSet(f, 1 .. 2) = SumFunctionOnSet(f, 1 .. 1) + f[2]
        <5>1. 0 + 1 = 1 /\ 1 + 1 = 2 /\ 1 <= n /\ 2 <= n
          OBVIOUS
        <5> QED
          BY <4>2, <5>1
      <4>4. n = 3 => SumFunctionOnSet(f, 1 .. 3) = SumFunctionOnSet(f, 1 .. 2) + f[3]
        <5>1. 2 + 1 = 3 /\ (n = 3 => 2 + 1 <= n)
          OBVIOUS
        <5>2. n = 3 => SumFunctionOnSet(f, 1 .. 2 + 1) = SumFunctionOnSet(f, 1 .. 2) + f[2 + 1]
          <6> SUFFICES ASSUME 2 + 1 <= n
                       PROVE  SumFunctionOnSet(f, 1 .. 2 + 1)
                                = SumFunctionOnSet(f, 1 .. 2) + f[2 + 1]
            BY <5>1
          <6>1. PICK m \in Nat : m = 2
            OBVIOUS
          <6> QED
            BY <4>2, <6>1
        <5> QED
          BY <5>1, <5>2
      <4>5. f[1] \in Int /\ f[2] \in Int /\ (n = 3 => f[3] \in Int)
        BY <3>2
      <4> QED
        BY <4>1, <4>2, <4>3, <4>4, <4>5
    <3>3. \A k \in 1 .. n : /\ DebitsOf(journal)[k] = journal[k].debit
                            /\ CreditsOf(journal)[k] = journal[k].credit
                            /\ DebitsOf(journal)[k] \in Int /\ CreditsOf(journal)[k] \in Int
      BY <1>5, <1>8 DEF DebitsOf, CreditsOf, Side
    <3>4. /\ SumFunctionOnSet(DebitsOf(journal), 1 .. n)
               = journal[1].debit + journal[2].debit + IF n = 3 THEN journal[3].debit ELSE 0
          /\ SumFunctionOnSet(CreditsOf(journal), 1 .. n)
               = journal[1].credit + journal[2].credit + IF n = 3 THEN journal[3].credit ELSE 0
      BY <3>2, <3>3
    <3> QED
      BY <1>3, <2>1, <3>1, <3>4
  <2> QED
    BY <1>5, <2>2, <2>4, <2>5 DEF Sums!Postable
<1> QED
  BY <1>1, <1>2, <1>4, <1>5, <1>7, <1>9, <1>10

(* What an invoice has been priced with, and what its entry and a transfer *)
(* have come to.                                                           *)
AmountsInv ==
    /\ policy \in Policies
    /\ document \in Seq(Price) /\ Len(document) <= MaxLines
    /\ \A i \in 1 .. Len(document) : LineFits(document[i])
    /\ Sums!InvoicesCanBeIssued
    /\ Sums!TransfersBalance

(* At first there is no invoice, no entry and no transfer. *)
LEMMA AmountsInit == Sums!Init => AmountsInv
<1> SUFFICES ASSUME Sums!Init PROVE AmountsInv
  OBVIOUS
<1>1. /\ policy \in Policies /\ document = << >> /\ booked = NoRow /\ refused = FALSE
      /\ transfer = NoRow
  BY DEF Sums!Init
<1>2. document \in Seq(Price) /\ Len(document) = 0
  BY <1>1
<1> QED
  BY <1>1, <1>2, DocumentAssumption
     DEF AmountsInv, Sums!InvoicesCanBeIssued, Sums!TransfersBalance

(* Another policy changes nothing that has been computed. *)
LEMMA AmountsSetPolicy ==
    ASSUME AmountsInv, NEW mode \in Policies, Sums!SetPolicy(mode)
    PROVE  AmountsInv'
  BY DEF AmountsInv, Sums!SetPolicy, Sums!InvoicesCanBeIssued, Sums!TransfersBalance,
         Sums!Debits, Sums!Credits

(* The lines of a draft are priced as they should be. *)
LEMMA AmountsSaveInvoice ==
    ASSUME AmountsInv, NEW n \in 1 .. MaxLines, NEW lines \in [1 .. n -> Lines],
           Sums!SaveInvoice(lines)
    PROVE  AmountsInv'
<1>1. /\ booked = NoRow /\ refused' = FALSE
      /\ document' = [i \in 1 .. n |-> Sums!LineAmounts(lines[i], policy)]
      /\ UNCHANGED <<policy, booked, transfer>>
  BY DEF Sums!SaveInvoice
<1>2. ASSUME NEW i \in 1 .. n
      PROVE  /\ Sums!LineAmounts(lines[i], policy) \in Price
             /\ LineFits(Sums!LineAmounts(lines[i], policy))
  BY PricedLineFits DEF Price
<1>3. n \in Nat /\ n <= MaxLines
  BY DocumentAssumption
<1>4. document' \in Seq(Price) /\ Len(document') = n
  BY <1>1, <1>2, <1>3
<1>5. \A i \in 1 .. n : document'[i] = Sums!LineAmounts(lines[i], policy)
  BY <1>1
<1>6. \A i \in 1 .. n : LineFits(document'[i])
  BY <1>2, <1>5
<1>7. Sums!InvoicesCanBeIssued'
  BY <1>1 DEF Sums!InvoicesCanBeIssued
<1>8. Sums!TransfersBalance'
  BY <1>1 DEF AmountsInv, Sums!TransfersBalance, Sums!Debits, Sums!Credits
<1>9. policy' \in Policies
  BY <1>1 DEF AmountsInv
<1> QED
  BY <1>3, <1>4, <1>6, <1>7, <1>8, <1>9 DEF AmountsInv, LineFits, Sums!Within

(* Its entry balances, and it has one unless a line is below zero. *)
LEMMA AmountsIssueInvoice ==
    ASSUME AmountsInv, NEW rate \in Rates, Sums!IssueInvoice(rate)
    PROVE  AmountsInv'
<1>1. /\ document # << >> /\ booked = NoRow /\ Sums!Total(document) # 0
      /\ booked' = Sums!Prepared(Sums!InvoiceJournal(document), rate, policy)
      /\ refused' = (booked' = NoRow)
      /\ UNCHANGED <<policy, document, transfer>>
  BY DEF Sums!IssueInvoice
<1>2. PICK journal : journal = Sums!InvoiceJournal(document)
  OBVIOUS
<1>3. PICK K : K = DOMAIN journal
  OBVIOUS
<1>4. /\ document \in Seq(Price) /\ Len(document) <= MaxLines
      /\ \A i \in 1 .. Len(document) : LineFits(document[i])
  BY DEF AmountsInv
<1>5. K \in SUBSET Numbers /\ journal \in [K -> Side]
  BY <1>2, <1>3, <1>4, InvoiceJournalType
<1>6. rate \in Nat
  BY DocumentAssumption
<1>7. /\ Sums!Postable(journal) => booked' # NoRow
      /\ booked' # NoRow => Sums!Debits(booked') = Sums!Credits(booked')
  BY <1>1, <1>2, <1>5, <1>6, PreparedBalances
<1>8. ASSUME refused' PROVE \E i \in DOMAIN document : document[i].net + document[i].tax < 0
  <2> SUFFICES ASSUME \A i \in DOMAIN document : ~(document[i].net + document[i].tax < 0)
               PROVE  FALSE
    OBVIOUS
  <2>1. \A i \in 1 .. Len(document) : document[i].net + document[i].tax >= 0
    <3> SUFFICES ASSUME NEW i \in 1 .. Len(document)
                 PROVE  document[i].net + document[i].tax >= 0
      OBVIOUS
    <3>1. i \in DOMAIN document
      BY <1>4
    <3>2. document[i].net \in Int /\ document[i].tax \in Int
      BY <1>4 DEF LineFits
    <3> QED
      BY <3>1, <3>2
  <2>2. Sums!Postable(journal)
    BY <1>1, <1>2, <1>4, <2>1, InvoiceJournalPostable
  <2> QED
    BY <1>1, <1>7, <1>8, <2>2
<1>9. Sums!InvoicesCanBeIssued'
  BY <1>1, <1>7, <1>8 DEF Sums!InvoicesCanBeIssued, Sums!Debits, Sums!Credits
<1>10. Sums!TransfersBalance'
  BY <1>1 DEF AmountsInv, Sums!TransfersBalance, Sums!Debits, Sums!Credits
<1> QED
  BY <1>1, <1>9, <1>10 DEF AmountsInv

(* The entry of a transfer balances, if it has one. *)
LEMMA AmountsCreateTransfer ==
    ASSUME AmountsInv, NEW t \in Transfers, Sums!CreateTransfer(t)
    PROVE  AmountsInv'
<1>1. /\ transfer' = [of |-> t,
                      lines |-> Sums!Prepared(Sums!TransferJournal(t, policy), 10, policy)]
      /\ UNCHANGED <<policy, document, booked, refused>>
  BY DEF Sums!CreateTransfer
<1>2. PICK journal : journal = Sums!TransferJournal(t, policy)
  OBVIOUS
<1>3. PICK K : K = DOMAIN journal
  OBVIOUS
<1>4. PICK lines : lines = Sums!Prepared(journal, 10, policy)
  OBVIOUS
<1>5. transfer'.of = t /\ transfer'.lines = lines
  BY <1>1, <1>2, <1>4
<1>6. PICK from : from = Sums!Round(t.fromAmount * t.fromRate, 10, policy)
  OBVIOUS
<1>7. PICK to : to = Sums!Round(t.toAmount * t.toRate, 10, policy)
  OBVIOUS
<1>8. /\ K \in SUBSET Numbers /\ journal \in [K -> Side]
      /\ from # 0 /\ to # 0 => Sums!Postable(journal)
  BY <1>2, <1>3, <1>6, <1>7, TransferJournalPostable
<1>9. /\ Sums!Postable(journal) => lines # NoRow
      /\ lines # NoRow => Sums!Debits(lines) = Sums!Credits(lines)
  BY <1>4, <1>8, PreparedBalances
<1>10. policy \in Policies
  BY DEF AmountsInv
<1>11. lines = NoRow =>
          \E mode \in Policies :
              \/ Sums!Round(t.fromAmount * t.fromRate, 10, mode) = 0
              \/ Sums!Round(t.toAmount * t.toRate, 10, mode) = 0
  BY <1>6, <1>7, <1>8, <1>9, <1>10
<1>12. Sums!TransfersBalance'
  BY <1>5, <1>9, <1>11 DEF Sums!TransfersBalance, Sums!Debits, Sums!Credits
<1>13. Sums!InvoicesCanBeIssued'
  BY <1>1 DEF AmountsInv, Sums!InvoicesCanBeIssued, Sums!Debits, Sums!Credits
<1> QED
  BY <1>1, <1>12, <1>13 DEF AmountsInv

(* It holds in every step. *)
LEMMA AmountsStep == AmountsInv /\ Sums!Next => AmountsInv'
<1> SUFFICES ASSUME AmountsInv, Sums!Next PROVE AmountsInv'
  OBVIOUS
<1>1. CASE \E mode \in Policies : Sums!SetPolicy(mode)
  BY <1>1, AmountsSetPolicy
<1>2. CASE \E n \in 1 .. MaxLines : \E lines \in [1 .. n -> Lines] : Sums!SaveInvoice(lines)
  BY <1>2, AmountsSaveInvoice
<1>3. CASE \E rate \in Rates : Sums!IssueInvoice(rate)
  BY <1>3, AmountsIssueInvoice
<1>4. CASE \E t \in Transfers : Sums!CreateTransfer(t)
  BY <1>4, AmountsCreateTransfer
<1> QED
  BY <1>1, <1>2, <1>3, <1>4 DEF Sums!Next

(* While others take their steps, nothing happens to the amounts. *)
LEMMA AmountsRest == AmountsInv /\ UNCHANGED amountvars => AmountsInv'
  BY DEF AmountsInv, amountvars, Sums!InvoicesCanBeIssued, Sums!TransfersBalance,
         Sums!Debits, Sums!Credits

(* It implies what is promised. *)
LEMMA AmountsSafe == AmountsInv => Sums!AmountsAddUp
<1> SUFFICES ASSUME AmountsInv PROVE Sums!TaxIsFair
  BY DEF AmountsInv, Sums!AmountsAddUp
<1>1. DOMAIN document = 1 .. Len(document)
  BY DEF AmountsInv
<1> QED
  BY <1>1 DEF AmountsInv, LineFits, Sums!TaxIsFair

(* AmountsAddUp holds in every reachable state: whatever lines, discounts, *)
(* taxes, rates, policies and transfers there are, the tax of a line is    *)
(* that of its net, entries balance to the unit, and rounding is no reason *)
(* to refuse one (lib/accounting-math.ts:28-53,                            *)
(* domain/accounting/posting.ts:90-141, bank.ts:112-150).                  *)
THEOREM AmountsAddUpAlways == BooksSpec => []AmountsAddUp
<1>1. BooksInit => AmountsInv
  BY AmountsInit DEF BooksInit
<1>2. AmountsInv /\ [BooksNext]_books => AmountsInv'
  BY EachBookSteps, AmountsStep, AmountsRest
<1>3. AmountsInv => AmountsAddUp
  BY AmountsSafe DEF AmountsAddUp
<1> QED
  BY <1>1, <1>2, <1>3, PTL DEF BooksSpec

=============================================================================
