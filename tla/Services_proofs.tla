--------------------------- MODULE Services_proofs ---------------------------
(***************************************************************************)
(* Proofs about Services, for any number of callers, rows and bounds.      *)
(* Each service has an inductive invariant of its own: its type, what      *)
(* relates its rows, and what a call in between has read, unless a history *)
(* variable says that others have interfered.  For each service there are  *)
(* a lemma that its initial states satisfy it, one that its steps keep it, *)
(* resting on one for each action, and one that it implies the property    *)
(* the runs check.  The theorems at the end join them: a step of Services  *)
(* is a step of one service and leaves the others as they are.             *)
(***************************************************************************)
EXTENDS Services, TLAPS, FiniteSetTheorems, WellFoundedInduction

(* Every step of the services is a step of each, or leaves it as it is. *)
LEMMA EachServiceSteps ==
    ASSUME [ServicesNext]_services
    PROVE  /\ UNCHANGED focus
           /\ [Hub!Next]_hubvars
           /\ [Content!Next]_contentvars
           /\ [Day!Next]_dayvars
           /\ [Checks!Next]_checkvars
           /\ [Remind!Next]_remindervars
           /\ [Files!Next]_filevars
           /\ [Recur!Next]_recurrencevars
           /\ [Confirm!Next]_confirmationvars
           /\ [Spend!Next]_spendvars
           /\ [Once!Next]_oncevars
           /\ [Design!Next]_designvars
           /\ [Told!Next]_inboxvars
           /\ [Jobs!Next]_cronvars
           /\ [Limits!Next]_limitvars
BY DEF ServicesNext, services

(* A set of naturals that is not empty has a least element. *)
LEMMA LeastNatural ==
    ASSUME NEW S, S \subseteq Nat, S # {}
    PROVE  \E n \in S : \A m \in S : n <= m
<1>1. PICK R : R = OpToRel(<, Nat)
  OBVIOUS
<1>2. IsWellFoundedOn(R, Nat)
  BY <1>1, NatLessThanWellFounded
<1>3. PICK n \in S : \A m \in S : <<m, n>> \notin R
  BY <1>2, WFMin
<1>4. \A m \in S : ~(m < n)
  BY <1>1, <1>3 DEF OpToRel
<1> QED
  BY <1>4

(* A set of naturals with an upper bound has a greatest element. *)
LEMMA GreatestNatural ==
    ASSUME NEW N \in Nat, NEW S \in SUBSET (0 .. N), S # {}
    PROVE  \E n \in S : \A k \in S : n >= k
<1> DEFINE T == {m \in 0 .. N : N - m \in S}
<1>1. T \subseteq Nat /\ T # {}
  <2>1. PICK n : n \in S
    OBVIOUS
  <2>2. N - n \in 0 .. N /\ N - (N - n) = n
    BY <2>1
  <2> QED
    BY <2>1, <2>2
<1>2. PICK m \in T : \A k \in T : m <= k
  BY <1>1, LeastNatural
<1>3. \A k \in S : N - k \in T
  OBVIOUS
<1>4. \A k \in S : N - m >= k
  BY <1>2, <1>3
<1> QED
  BY <1>2, <1>4

(* The elements of a sequence, and one of them replaced. *)
LEMMA ElementOf ==
    ASSUME NEW S, NEW s \in Seq(S), NEW n \in DOMAIN s
    PROVE  s[n] \in S
OBVIOUS

(* An element of the right kind may take the place of another. *)
LEMMA ElementReplaced ==
    ASSUME NEW S, NEW s \in Seq(S), NEW n \in DOMAIN s, NEW e \in S
    PROVE  [s EXCEPT ![n] = e] \in Seq(S)
OBVIOUS

(* A set of which any two elements are equal has one at most. *)
LEMMA AtMostOne ==
    ASSUME NEW S, \A j, k \in S : j = k
    PROVE  Cardinality(S) <= 1
<1>1. CASE S = {}
  BY <1>1, FS_EmptySet
<1>2. CASE S # {}
  <2>1. PICK x : S = {x}
    BY <1>2
  <2>2. Cardinality({x}) = 1
    BY FS_Singleton
  <2> QED
    BY <2>1, <2>2
<1> QED
  BY <1>1, <1>2

-----------------------------------------------------------------------------
(* The live signal of discussion channels *)

HubStream ==
    [stage : {"new", "open", "closed"}, captured : {Null} \cup Streams, stops : Nat,
     heard : Nat, late : BOOLEAN]

HubConstants == MaxChannels \in Nat /\ Null \notin Streams \cup HubEntry

HubType ==
    /\ posted \in [Channels -> Nat]
    /\ hub \in [Channels -> {Null} \cup Streams]
    /\ entry \in [Streams -> {Null} \cup HubEntry]
    /\ stream \in [Streams -> HubStream]
    /\ polls \in SUBSET [entry : Streams, read : Nat]

StreamStands(s) ==
    /\ stream[s].stage = "new" =>
          stream[s].captured = Null /\ stream[s].stops = 0 /\ entry[s] = Null
    /\ stream[s].stage = "open" => stream[s].stops = 0
    /\ stream[s].stage = "closed" => stream[s].stops >= 1
    /\ stream[s].captured # Null => entry[stream[s].captured] # Null

(* An open stream listens to the entry it has captured. *)
Listens(s) ==
    stream[s].stage = "open" /\ stream[s].captured # Null =>
        /\ s \in entry[stream[s].captured].listeners
        /\ ~stream[s].late => stream[s].heard = entry[stream[s].captured].signal
        /\ entry[stream[s].captured].prime # "done" /\ stream[s].captured # s =>
              stream[s].late

EntryStands(e) ==
    entry[e] # Null =>
        /\ entry[e].timer <=> entry[e].listeners # {}
        /\ stream[e].captured = e

WatchStands(c) ==
    hub[c] # Null =>
        entry[hub[c]] # Null /\ entry[hub[c]].channel = c /\ entry[hub[c]].timer

(* Who listens to an entry has captured it. *)
OnlyOwn(e) ==
    entry[e] # Null => \A s \in entry[e].listeners : stream[s].captured = e

(* Unless a stream was stopped twice, its entry is that of its channel. *)
OnTheHub ==
    (\A s \in Streams : stream[s].stops <= 1) =>
    \A s \in Streams : stream[s].stage = "open" /\ stream[s].captured # Null =>
        hub[entry[stream[s].captured].channel] = stream[s].captured

WithinCap == IsFiniteSet(Hub!Watched) /\ Cardinality(Hub!Watched) <= MaxChannels

HubInv ==
    /\ HubType
    /\ \A s \in Streams : StreamStands(s) /\ Listens(s) /\ EntryStands(s)
    /\ \A e \in Streams : OnlyOwn(e)
    /\ \A c \in Channels : WatchStands(c)
    /\ OnTheHub
    /\ \A q \in polls : entry[q.entry] # Null
    /\ WithinCap

(* The hub counts sets as everybody does. *)
LEMMA HubCardinality == \A S : Hub!Cardinality(S) = Cardinality(S)
BY DEF Hub!Cardinality, Cardinality

(* Of a finite set of watched channels, any part is within the cap as      *)
(* well.                                                                   *)
LEMMA FewerWatched ==
    ASSUME WithinCap, HubConstants, Hub!Watched' \subseteq Hub!Watched
    PROVE  WithinCap'
<1>1. IsFiniteSet(Hub!Watched') /\ Cardinality(Hub!Watched') <= Cardinality(Hub!Watched)
  BY FS_Subset DEF WithinCap
<1>2. Cardinality(Hub!Watched) \in Nat /\ Cardinality(Hub!Watched') \in Nat
  BY <1>1, FS_CardinalityType DEF WithinCap
<1> QED
  BY <1>1, <1>2 DEF WithinCap, HubConstants

(* Nobody listens and nothing is watched: the invariant of the hub holds. *)
LEMMA HubInit ==
    ASSUME HubConstants, Hub!Init
    PROVE  HubInv
<1> USE DEF Hub!Init
<1>1. HubType
  <2>1. Hub!NewStream \in HubStream
    BY DEF Hub!NewStream, HubStream
  <2> QED
    BY <2>1 DEF HubType
<1>2. \A s \in Streams : StreamStands(s) /\ Listens(s) /\ EntryStands(s)
  BY DEF StreamStands, Listens, EntryStands, Hub!NewStream
<1>2a. \A e \in Streams : OnlyOwn(e)
  BY DEF OnlyOwn
<1>3. \A c \in Channels : WatchStands(c)
  BY DEF WatchStands
<1>4. OnTheHub
  BY DEF OnTheHub, Hub!NewStream
<1>5. WithinCap
  <2>1. Hub!Watched = {}
    BY DEF Hub!Watched
  <2> QED
    BY <2>1, FS_EmptySet DEF WithinCap, HubConstants
<1> QED
  BY <1>1, <1>2, <1>2a, <1>3, <1>4, <1>5 DEF HubInv

(* A stream that opens. *)
LEMMA OpenStream ==
    ASSUME HubConstants, HubInv, NEW s \in Streams, NEW e \in {Null} \cup Streams,
           NEW heard \in Nat, NEW late \in BOOLEAN, Hub!Open(s, e, heard, late)
    PROVE  /\ stream[s].stage = "new" /\ entry[s] = Null
           /\ stream' \in [Streams -> HubStream]
           /\ stream'[s].stage = "open" /\ stream'[s].captured = e /\ stream'[s].stops = 0
           /\ stream'[s].heard = heard /\ stream'[s].late = late
           /\ \A t \in Streams \ {s} : stream'[t] = stream[t]
           /\ UNCHANGED <<posted, polls>>
           /\ \A t \in Streams : stream[t].captured # s
           /\ \A c \in Channels : hub[c] # s
<1>0. HubType
  BY DEF HubInv
<1>1. PICK n : n = [stage |-> "open", captured |-> e, stops |-> 0,
                    heard |-> heard, late |-> late]
  OBVIOUS
<1>2. n \in HubStream
  BY <1>1 DEF HubStream
<1>3. /\ stream[s].stage = "new"
      /\ stream' = [stream EXCEPT ![s] = n]
      /\ UNCHANGED <<posted, polls>>
  BY <1>1 DEF Hub!Open
<1>4. entry[s] = Null
  BY <1>3 DEF HubInv, StreamStands
<1>5. \A t \in Streams : stream[t].captured # s
  BY <1>4 DEF HubInv, StreamStands, HubConstants
<1>6. \A c \in Channels : hub[c] # s
  BY <1>4 DEF HubInv, WatchStands, HubConstants
<1> QED
  BY <1>0, <1>1, <1>2, <1>3, <1>4, <1>5, <1>6 DEF HubType

(* The first stream of a channel brings an entry, a poller and its own     *)
(* listener (lib/realtime/channel-hub.ts:61-83).                           *)
LEMMA SubscribeFirstKeeps ==
    ASSUME HubConstants, HubInv, NEW s \in Streams, NEW c \in Channels,
           Hub!SubscribeFirst(s, c)
    PROVE  HubInv'
<1>0. HubType /\ s # Null
  BY DEF HubInv, HubConstants
<1>1. PICK n : n = [channel |-> c, signal |-> 0, listeners |-> {s},
                    timer |-> TRUE, prime |-> "asked", read |-> 0]
  OBVIOUS
<1>2. n \in HubEntry /\ n # Null
  <2>1. {s} \in SUBSET Streams
    OBVIOUS
  <2>2. n \in HubEntry
    BY <1>1, <2>1 DEF HubEntry
  <2> QED
    BY <2>2 DEF HubConstants
<1>3. /\ hub[c] = Null /\ Cardinality(Hub!Watched) < MaxChannels
      /\ Hub!Open(s, s, 0, FALSE)
      /\ hub' = [hub EXCEPT ![c] = s]
      /\ entry' = [entry EXCEPT ![s] = n]
  BY <1>1, HubCardinality DEF Hub!SubscribeFirst
<1>4. /\ stream[s].stage = "new" /\ entry[s] = Null
      /\ stream' \in [Streams -> HubStream]
      /\ stream'[s].stage = "open" /\ stream'[s].captured = s /\ stream'[s].stops = 0
      /\ stream'[s].heard = 0 /\ stream'[s].late = FALSE
      /\ \A t \in Streams \ {s} : stream'[t] = stream[t]
      /\ UNCHANGED <<posted, polls>>
      /\ \A t \in Streams : stream[t].captured # s
      /\ \A d \in Channels : hub[d] # s
  BY <1>3, OpenStream
<1>5. HubType'
  BY <1>0, <1>2, <1>3, <1>4 DEF HubType
<1>6. entry'[s] = n /\ \A e \in Streams \ {s} : entry'[e] = entry[e]
  BY <1>0, <1>3 DEF HubType
<1>7. hub'[c] = s /\ \A d \in Channels \ {c} : hub'[d] = hub[d]
  BY <1>0, <1>3 DEF HubType
<1>8. ASSUME NEW t \in Streams
      PROVE  StreamStands(t)' /\ Listens(t)' /\ EntryStands(t)'
  <2>1. CASE t = s
    BY <1>0, <1>1, <1>2, <1>4, <1>6, <2>1 DEF StreamStands, Listens, EntryStands
  <2>2. CASE t # s
    <3>1. StreamStands(t) /\ Listens(t) /\ EntryStands(t)
      BY DEF HubInv
    <3>2. stream'[t] = stream[t] /\ entry'[t] = entry[t] /\ stream[t].captured # s
      BY <1>4, <1>6, <2>2
    <3>3. stream[t].captured # Null =>
             stream[t].captured \in Streams
             /\ entry'[stream[t].captured] = entry[stream[t].captured]
      BY <1>0, <1>6, <3>2 DEF HubType, HubStream
    <3> QED
      BY <3>1, <3>2, <3>3 DEF StreamStands, Listens, EntryStands
  <2> QED
    BY <2>1, <2>2
<1>9. ASSUME NEW d \in Channels
      PROVE  WatchStands(d)'
  <2>1. CASE d = c
    BY <1>1, <1>2, <1>6, <1>7, <2>1 DEF WatchStands
  <2>2. CASE d # c
    <3>1. WatchStands(d) /\ hub'[d] = hub[d] /\ hub[d] # s
      BY <1>4, <1>7, <2>2 DEF HubInv
    <3>2. hub[d] # Null => entry'[hub[d]] = entry[hub[d]]
      BY <1>0, <1>6, <3>1 DEF HubType
    <3> QED
      BY <3>1, <3>2 DEF WatchStands
  <2> QED
    BY <2>1, <2>2
<1>10. OnTheHub'
  <2>1. SUFFICES ASSUME \A t \in Streams : stream'[t].stops <= 1,
                        NEW t \in Streams, stream'[t].stage = "open",
                        stream'[t].captured # Null
                 PROVE  hub'[entry'[stream'[t].captured].channel] = stream'[t].captured
    BY DEF OnTheHub
  <2>2. CASE t = s
    BY <1>1, <1>4, <1>6, <1>7, <2>2
  <2>3. CASE t # s
    <3>1. \A u \in Streams : stream[u].stops <= 1
      <4>1. stream[s].stops = 0
        BY <1>4 DEF HubInv, StreamStands
      <4> QED
        BY <1>4, <2>1, <4>1
    <3>2. stream'[t] = stream[t] /\ stream[t].captured \in Streams
          /\ stream[t].captured # s
      BY <1>0, <1>4, <2>1, <2>3 DEF HubType, HubStream
    <3>3. hub[entry[stream[t].captured].channel] = stream[t].captured
      BY <2>1, <3>1, <3>2 DEF HubInv, OnTheHub
    <3>4. entry[stream[t].captured].channel \in Channels
      BY <1>0, <2>1, <3>2 DEF HubInv, HubType, HubEntry, StreamStands
    <3>5. entry[stream[t].captured].channel # c
      BY <1>3, <2>1, <3>2, <3>3
    <3> QED
      BY <1>6, <1>7, <3>2, <3>3, <3>4, <3>5
  <2> QED
    BY <2>2, <2>3
<1>11. \A q \in polls' : entry'[q.entry] # Null
  BY <1>0, <1>2, <1>4, <1>6 DEF HubInv, HubType
<1>12. WithinCap'
  <2>1. Hub!Watched' = Hub!Watched \cup {c}
    BY <1>0, <1>7 DEF Hub!Watched
  <2>2. IsFiniteSet(Hub!Watched) /\ Cardinality(Hub!Watched) \in Nat
    BY FS_CardinalityType DEF HubInv, WithinCap
  <2>3. IsFiniteSet(Hub!Watched \cup {c})
        /\ Cardinality(Hub!Watched \cup {c}) <= Cardinality(Hub!Watched) + 1
    <3>1. PICK W : W = Hub!Watched
      OBVIOUS
    <3>2. /\ Cardinality(W \cup {c}) = IF c \in W THEN Cardinality(W) ELSE Cardinality(W) + 1
          /\ IsFiniteSet(W \cup {c})
      BY <2>2, <3>1, FS_AddElement
    <3> QED
      BY <2>2, <3>1, <3>2
  <2>4. IsFiniteSet(Hub!Watched') /\ Cardinality(Hub!Watched') <= Cardinality(Hub!Watched) + 1
    BY <2>1, <2>3
  <2>5. Cardinality(Hub!Watched') \in Nat
    BY <2>4, FS_CardinalityType
  <2> QED
    BY <1>3, <2>2, <2>4, <2>5 DEF WithinCap, HubConstants
<1>13. ASSUME NEW e \in Streams PROVE OnlyOwn(e)'
  <2>1. OnlyOwn(e) /\ stream[s].captured = Null
    BY <1>4 DEF HubInv, StreamStands
  <2>2. CASE e = s
    BY <1>1, <1>4, <1>6, <2>2 DEF OnlyOwn
  <2>3. CASE e # s
    <3>1. entry[e] # Null => entry[e].listeners \subseteq Streams /\ e # Null
      BY <1>0 DEF HubType, HubEntry, HubConstants
    <3> QED
      BY <1>4, <1>6, <2>1, <2>3, <3>1 DEF OnlyOwn
  <2> QED
    BY <2>2, <2>3
<1> QED
  BY <1>5, <1>8, <1>9, <1>10, <1>11, <1>12, <1>13 DEF HubInv

(* A stream over the cap is deaf and counts for nothing                    *)
(* (lib/realtime/channel-hub.ts:65-70).                                    *)
LEMMA SubscribeOverCapKeeps ==
    ASSUME HubConstants, HubInv, NEW s \in Streams, NEW c \in Channels,
           Hub!SubscribeOverCap(s, c)
    PROVE  HubInv'
<1>0. HubType
  BY DEF HubInv
<1>1. Hub!Open(s, Null, 0, FALSE) /\ UNCHANGED <<hub, entry>>
  BY DEF Hub!SubscribeOverCap
<1>2. /\ stream[s].stage = "new" /\ entry[s] = Null
      /\ stream' \in [Streams -> HubStream]
      /\ stream'[s].stage = "open" /\ stream'[s].captured = Null /\ stream'[s].stops = 0
      /\ stream'[s].heard = 0 /\ stream'[s].late = FALSE
      /\ \A t \in Streams \ {s} : stream'[t] = stream[t]
      /\ UNCHANGED <<posted, polls>>
  <2>1. Null \in {Null} \cup Streams /\ 0 \in Nat /\ FALSE \in BOOLEAN
    OBVIOUS
  <2> QED
    BY <1>1, <2>1, OpenStream
<1>3. HubType'
  BY <1>0, <1>1, <1>2 DEF HubType
<1>4. ASSUME NEW t \in Streams
      PROVE  StreamStands(t)' /\ Listens(t)' /\ EntryStands(t)'
  BY <1>1, <1>2 DEF HubInv, StreamStands, Listens, EntryStands
<1>5. OnTheHub'
  <2>1. stream[s].stops = 0
    BY <1>2 DEF HubInv, StreamStands
  <2> QED
    BY <1>1, <1>2, <2>1 DEF HubInv, OnTheHub
<1>6. Hub!Watched' = Hub!Watched
  BY <1>1 DEF Hub!Watched
<1>7. ASSUME NEW e \in Streams PROVE OnlyOwn(e)'
  <2>1. OnlyOwn(e) /\ stream[s].captured = Null /\ e # Null
    BY <1>2 DEF HubInv, StreamStands, HubConstants
  <2>2. entry[e] # Null => entry[e].listeners \subseteq Streams
    BY <1>0 DEF HubType, HubEntry
  <2> QED
    BY <1>1, <1>2, <2>1, <2>2 DEF OnlyOwn
<1> QED
  BY <1>1, <1>2, <1>3, <1>4, <1>5, <1>6, <1>7, FewerWatched DEF HubInv, WatchStands

(* Entries of which nothing changes that others rely on. *)
SameEntry(e) ==
    entry[e] # Null =>
        /\ entry'[e] # Null
        /\ entry'[e].channel = entry[e].channel
        /\ entry'[e].timer = entry[e].timer
        /\ entry'[e].listeners = entry[e].listeners

SameStream(s) ==
    /\ stream'[s].stage = stream[s].stage
    /\ stream'[s].captured = stream[s].captured
    /\ stream'[s].stops = stream[s].stops

(* A step that changes signals and what streams have heard, and nothing    *)
(* else, keeps the invariant if open streams still listen to their         *)
(* entries.                                                                *)
LEMMA SignalsKeep ==
    ASSUME HubConstants, HubInv, HubType', UNCHANGED hub,
           \A e \in Streams : SameEntry(e) /\ (entry[e] = Null => entry'[e] = Null),
           \A s \in Streams : SameStream(s),
           \A s \in Streams : Listens(s)',
           \A q \in polls' : entry[q.entry] # Null
    PROVE  HubInv'
<1>0. HubType
  BY DEF HubInv
<1>1. ASSUME NEW s \in Streams
      PROVE  StreamStands(s)' /\ EntryStands(s)'
  <2>1. StreamStands(s) /\ EntryStands(s) /\ SameStream(s) /\ SameEntry(s)
        /\ (entry[s] = Null => entry'[s] = Null)
    BY DEF HubInv
  <2>2. stream[s].captured # Null => SameEntry(stream[s].captured)
    BY <1>0 DEF HubType, HubStream
  <2>3. StreamStands(s)'
    BY <2>1, <2>2 DEF StreamStands, SameStream, SameEntry
  <2> QED
    BY <2>1, <2>3 DEF EntryStands, SameStream, SameEntry
<1>2. ASSUME NEW c \in Channels
      PROVE  WatchStands(c)'
  BY <1>0 DEF HubInv, HubType, WatchStands, SameEntry
<1>3. OnTheHub'
  <2>1. SUFFICES ASSUME \A t \in Streams : stream'[t].stops <= 1,
                        NEW t \in Streams, stream'[t].stage = "open",
                        stream'[t].captured # Null
                 PROVE  hub'[entry'[stream'[t].captured].channel] = stream'[t].captured
    BY DEF OnTheHub
  <2>2. \A u \in Streams : stream[u].stops <= 1
    BY <2>1 DEF SameStream
  <2>3. stream[t].stage = "open" /\ stream[t].captured # Null
        /\ stream'[t].captured = stream[t].captured
    BY <2>1 DEF SameStream
  <2>4. hub[entry[stream[t].captured].channel] = stream[t].captured
    BY <2>2, <2>3 DEF HubInv, OnTheHub
  <2>5. stream[t].captured \in Streams /\ entry[stream[t].captured] # Null
    BY <1>0, <2>3 DEF HubInv, StreamStands, HubType, HubStream
  <2> QED
    BY <2>3, <2>4, <2>5 DEF SameEntry
<1>4. Hub!Watched' = Hub!Watched
  BY DEF Hub!Watched
<1>5. \A q \in polls' : entry'[q.entry] # Null
  BY DEF SameEntry, HubType
<1>6. ASSUME NEW e \in Streams PROVE OnlyOwn(e)'
  <2>1. OnlyOwn(e) /\ SameEntry(e) /\ (entry[e] = Null => entry'[e] = Null)
    BY DEF HubInv
  <2>2. entry[e] # Null => entry[e].listeners \subseteq Streams
    BY <1>0 DEF HubType, HubEntry
  <2> QED
    BY <2>1, <2>2 DEF OnlyOwn, SameEntry, SameStream
<1> QED
  BY <1>1, <1>2, <1>3, <1>4, <1>5, <1>6, FewerWatched DEF HubInv

(* A further stream of a watched channel joins the listeners of its entry  *)
(* (lib/realtime/channel-hub.ts:78-83).                                    *)
LEMMA SubscribeNextKeeps ==
    ASSUME HubConstants, HubInv, NEW s \in Streams, NEW c \in Channels,
           Hub!SubscribeNext(s, c)
    PROVE  HubInv'
<1>0. HubType /\ s # Null
  BY DEF HubInv, HubConstants
<1>1. PICK e : e = hub[c]
  OBVIOUS
<1>2. /\ e \in Streams /\ entry[e] \in HubEntry /\ e # Null /\ entry[e] # Null
      /\ entry[e].channel = c /\ entry[e].timer
  <2>1. e # Null /\ WatchStands(c)
    BY <1>1 DEF HubInv, Hub!SubscribeNext
  <2>2. e \in Streams /\ entry[e] # Null
    BY <1>0, <1>1, <2>1 DEF HubType, WatchStands
  <2> QED
    BY <1>0, <1>1, <2>1, <2>2 DEF HubType, WatchStands
<1>3. PICK heard \in Nat : heard = entry[e].signal
  BY <1>2 DEF HubEntry
<1>4. PICK late \in BOOLEAN : late = (entry[e].prime # "done")
  OBVIOUS
<1>5. PICK n : n = [entry[e] EXCEPT !.listeners = entry[e].listeners \cup {s}]
  OBVIOUS
<1>6. /\ Hub!Open(s, e, heard, late)
      /\ entry' = [entry EXCEPT ![e] = n]
      /\ UNCHANGED hub
  BY <1>0, <1>1, <1>2, <1>3, <1>4, <1>5 DEF Hub!SubscribeNext, HubType
<1>7. n \in HubEntry /\ n # Null
  BY <1>2, <1>5 DEF HubEntry, HubConstants
<1>8. /\ n.channel = c /\ n.signal = heard /\ n.timer /\ n.listeners = entry[e].listeners \cup {s}
      /\ n.prime = entry[e].prime
  <2>1. /\ n.channel = entry[e].channel /\ n.signal = entry[e].signal
        /\ n.timer = entry[e].timer /\ n.prime = entry[e].prime
        /\ n.listeners = entry[e].listeners \cup {s}
    BY <1>2, <1>5 DEF HubEntry
  <2> QED
    BY <1>2, <1>3, <2>1
<1>9. /\ stream[s].stage = "new" /\ entry[s] = Null
      /\ stream' \in [Streams -> HubStream]
      /\ stream'[s].stage = "open" /\ stream'[s].captured = e /\ stream'[s].stops = 0
      /\ stream'[s].heard = heard /\ stream'[s].late = late
      /\ \A t \in Streams \ {s} : stream'[t] = stream[t]
      /\ UNCHANGED <<posted, polls>>
      /\ \A t \in Streams : stream[t].captured # s
      /\ \A d \in Channels : hub[d] # s
  <2>1. e \in {Null} \cup Streams
    BY <1>2
  <2>2. Hub!Open(s, e, heard, late) /\ heard \in Nat /\ late \in BOOLEAN
    BY <1>3, <1>4, <1>6
  <2> QED
    BY <2>1, <2>2, OpenStream
<1>10. HubType'
  BY <1>0, <1>2, <1>6, <1>7, <1>9 DEF HubType
<1>11. entry'[e] = n /\ \A d \in Streams \ {e} : entry'[d] = entry[d]
  BY <1>0, <1>2, <1>6 DEF HubType
<1>12. e # s
  BY <1>2, <1>9
<1>13. ASSUME NEW t \in Streams
       PROVE  StreamStands(t)' /\ Listens(t)' /\ EntryStands(t)'
  <2>1. CASE t = s
    <3>1. StreamStands(t)'
      BY <1>7, <1>9, <1>11, <2>1 DEF StreamStands
    <3>2. Listens(t)'
      BY <1>4, <1>8, <1>9, <1>11, <2>1 DEF Listens
    <3>3. EntryStands(t)'
      BY <1>9, <1>11, <1>12, <2>1 DEF EntryStands
    <3> QED
      BY <3>1, <3>2, <3>3
  <2>2. CASE t # s
    <3>1. StreamStands(t) /\ Listens(t) /\ EntryStands(t) /\ stream'[t] = stream[t]
      BY <1>9, <2>2 DEF HubInv
    <3>2. stream[t].captured # Null => stream[t].captured \in Streams
      BY <1>0 DEF HubType, HubStream
    <3>3. StreamStands(t)'
      BY <1>2, <1>7, <1>11, <3>1, <3>2 DEF StreamStands
    <3>4. Listens(t)'
      BY <1>3, <1>8, <1>11, <3>1, <3>2 DEF Listens
    <3>5. EntryStands(t)'
      <4>1. CASE t = e
        BY <1>2, <1>8, <1>11, <3>1, <4>1 DEF EntryStands
      <4>2. CASE t # e
        BY <1>11, <3>1, <4>2 DEF EntryStands
      <4> QED
        BY <4>1, <4>2
    <3> QED
      BY <3>3, <3>4, <3>5
  <2> QED
    BY <2>1, <2>2
<1>14. ASSUME NEW d \in Channels
       PROVE  WatchStands(d)'
  <2>1. WatchStands(d) /\ hub'[d] = hub[d] /\ (hub[d] # Null => hub[d] \in Streams)
    BY <1>0, <1>6 DEF HubInv, HubType
  <2>2. CASE hub[d] = e
    BY <1>2, <1>7, <1>8, <1>11, <2>1, <2>2 DEF WatchStands
  <2>3. CASE hub[d] # e
    BY <1>11, <2>1, <2>3 DEF WatchStands
  <2> QED
    BY <2>2, <2>3
<1>15. OnTheHub'
  <2>1. SUFFICES ASSUME \A t \in Streams : stream'[t].stops <= 1,
                        NEW t \in Streams, stream'[t].stage = "open",
                        stream'[t].captured # Null
                 PROVE  hub'[entry'[stream'[t].captured].channel] = stream'[t].captured
    BY DEF OnTheHub
  <2>2. CASE t = s
    BY <1>1, <1>6, <1>8, <1>9, <1>11, <2>2
  <2>3. CASE t # s
    <3>1. \A u \in Streams : stream[u].stops <= 1
      <4>1. stream[s].stops = 0
        BY <1>9 DEF HubInv, StreamStands
      <4> QED
        BY <1>9, <2>1, <4>1
    <3>2. stream'[t] = stream[t] /\ stream[t].captured \in Streams
      BY <1>0, <1>9, <2>1, <2>3 DEF HubType, HubStream
    <3>3. hub[entry[stream[t].captured].channel] = stream[t].captured
      BY <2>1, <3>1, <3>2 DEF HubInv, OnTheHub
    <3>4. entry'[stream[t].captured].channel = entry[stream[t].captured].channel
      BY <1>2, <1>8, <1>11, <3>2
    <3> QED
      BY <1>6, <3>2, <3>3, <3>4
  <2> QED
    BY <2>2, <2>3
<1>16. Hub!Watched' = Hub!Watched
  BY <1>6 DEF Hub!Watched
<1>17. \A q \in polls' : entry'[q.entry] # Null
  BY <1>0, <1>7, <1>9, <1>11 DEF HubInv, HubType
<1>18. ASSUME NEW d \in Streams PROVE OnlyOwn(d)'
  <2>1. OnlyOwn(d) /\ stream[s].captured = Null /\ d # Null
    BY <1>9 DEF HubInv, StreamStands, HubConstants
  <2>2. entry[d] # Null => entry[d].listeners \subseteq Streams
    BY <1>0 DEF HubType, HubEntry
  <2>3. CASE d = e
    BY <1>2, <1>8, <1>9, <1>11, <2>1, <2>2, <2>3 DEF OnlyOwn
  <2>4. CASE d # e
    BY <1>9, <1>11, <2>1, <2>2, <2>4 DEF OnlyOwn
  <2> QED
    BY <2>3, <2>4
<1> QED
  BY <1>10, <1>13, <1>14, <1>15, <1>16, <1>17, <1>18, FewerWatched DEF HubInv

(* The read that primes an entry changes no signal yet                     *)
(* (lib/realtime/channel-hub.ts:30-39).                                    *)
LEMMA PrimeReadKeeps ==
    ASSUME HubConstants, HubInv, NEW e \in Streams, Hub!PrimeRead(e)
    PROVE  HubInv'
<1>0. HubType /\ entry[e] # Null /\ entry[e].prime = "asked" /\ entry[e] \in HubEntry
  BY DEF HubInv, HubType, Hub!PrimeRead
<1>1. PICK n : n = [entry[e] EXCEPT !.prime = "read", !.read = posted[entry[e].channel]]
  OBVIOUS
<1>2. entry' = [entry EXCEPT ![e] = n] /\ UNCHANGED <<posted, hub, stream, polls>>
  BY <1>0, <1>1 DEF Hub!PrimeRead, HubType
<1>3. n \in HubEntry /\ n # Null
  <2>1. posted[entry[e].channel] \in Nat
    BY <1>0 DEF HubEntry, HubType
  <2>2. n \in HubEntry
    BY <1>0, <1>1, <2>1 DEF HubEntry
  <2> QED
    BY <2>2 DEF HubConstants
<1>4. n.channel = entry[e].channel /\ n.timer = entry[e].timer
      /\ n.listeners = entry[e].listeners /\ n.signal = entry[e].signal /\ n.prime = "read"
  BY <1>0, <1>1 DEF HubEntry
<1>5. entry'[e] = n /\ \A d \in Streams \ {e} : entry'[d] = entry[d]
  BY <1>0, <1>2 DEF HubType
<1>6. HubType'
  BY <1>0, <1>2, <1>3 DEF HubType
<1>7. \A d \in Streams : SameEntry(d) /\ (entry[d] = Null => entry'[d] = Null)
  BY <1>0, <1>3, <1>4, <1>5 DEF SameEntry
<1>8. \A s \in Streams : SameStream(s)
  BY <1>2 DEF SameStream
<1>9. ASSUME NEW s \in Streams PROVE Listens(s)'
  <2>1. Listens(s) /\ stream'[s] = stream[s]
        /\ (stream[s].captured # Null => stream[s].captured \in Streams)
    BY <1>0, <1>2 DEF HubInv, HubType, HubStream
  <2> QED
    BY <1>0, <1>4, <1>5, <2>1 DEF Listens
<1> QED
  BY <1>2, <1>6, <1>7, <1>8, <1>9, SignalsKeep DEF HubInv

(* The signal that primes an entry is told to the stream that brought it;  *)
(* who joined before is late (lib/realtime/channel-hub.ts:74).             *)
LEMMA PrimeDoneKeeps ==
    ASSUME HubConstants, HubInv, NEW e \in Streams, Hub!PrimeDone(e)
    PROVE  HubInv'
<1>0. HubType /\ entry[e] # Null /\ entry[e].prime = "read" /\ entry[e] \in HubEntry
      /\ stream[e] \in HubStream
  BY DEF HubInv, HubType, Hub!PrimeDone
<1>1. PICK n : n = [entry[e] EXCEPT !.prime = "done", !.signal = entry[e].read, !.read = 0]
  OBVIOUS
<1>2. PICK heard \in Nat :
        heard = IF stream[e].stage = "open" THEN entry[e].read ELSE stream[e].heard
  BY <1>0 DEF HubEntry, HubStream
<1>3. PICK t : t = [stream[e] EXCEPT !.heard = heard]
  OBVIOUS
<1>4. /\ entry' = [entry EXCEPT ![e] = n]
      /\ stream' = [stream EXCEPT ![e] = t]
      /\ UNCHANGED <<posted, hub, polls>>
  BY <1>0, <1>1, <1>2, <1>3 DEF Hub!PrimeDone, HubType
<1>5. n \in HubEntry /\ n # Null
  <2>1. n \in HubEntry
    BY <1>0, <1>1 DEF HubEntry
  <2> QED
    BY <2>1 DEF HubConstants
<1>6. n.channel = entry[e].channel /\ n.timer = entry[e].timer
      /\ n.listeners = entry[e].listeners /\ n.signal = entry[e].read /\ n.prime = "done"
  BY <1>0, <1>1 DEF HubEntry
<1>7. t \in HubStream /\ t.heard = heard /\ t.stage = stream[e].stage
      /\ t.captured = stream[e].captured /\ t.stops = stream[e].stops /\ t.late = stream[e].late
  BY <1>0, <1>2, <1>3 DEF HubStream
<1>8. entry'[e] = n /\ \A d \in Streams \ {e} : entry'[d] = entry[d]
  BY <1>0, <1>4 DEF HubType
<1>9. stream'[e] = t /\ \A d \in Streams \ {e} : stream'[d] = stream[d]
  BY <1>0, <1>4 DEF HubType
<1>10. HubType'
  BY <1>0, <1>4, <1>5, <1>7 DEF HubType
<1>11. \A d \in Streams : SameEntry(d) /\ (entry[d] = Null => entry'[d] = Null)
  BY <1>0, <1>5, <1>6, <1>8 DEF SameEntry
<1>12. \A s \in Streams : SameStream(s)
  BY <1>7, <1>9 DEF SameStream
<1>13. ASSUME NEW s \in Streams PROVE Listens(s)'
  <2>1. Listens(s) /\ (stream[s].captured # Null => stream[s].captured \in Streams)
    BY <1>0 DEF HubInv, HubType, HubStream
  <2>2. CASE s = e
    <3>1. stream[e].captured = e
      BY <1>0 DEF HubInv, EntryStands
    <3> QED
      BY <1>2, <1>6, <1>7, <1>8, <1>9, <2>1, <2>2, <3>1 DEF Listens
  <2>3. CASE s # e
    <3>1. stream'[s] = stream[s]
      BY <1>9, <2>3
    <3>2. CASE stream[s].captured = e
      BY <1>0, <1>6, <1>8, <2>1, <2>3, <3>1, <3>2 DEF Listens
    <3>3. CASE stream[s].captured # e
      BY <1>8, <2>1, <3>1, <3>3 DEF Listens
    <3> QED
      BY <3>2, <3>3
  <2> QED
    BY <2>2, <2>3
<1> QED
  BY <1>4, <1>10, <1>11, <1>12, <1>13, SignalsKeep DEF HubInv

(* Priming that fails leaves the signal empty (lib/realtime/channel-       *)
(* hub.ts:74).                                                             *)
LEMMA PrimeFailsKeeps ==
    ASSUME HubConstants, HubInv, NEW e \in Streams, Hub!PrimeFails(e)
    PROVE  HubInv'
<1>0. HubType /\ entry[e] # Null /\ entry[e] \in HubEntry
  BY DEF HubInv, HubType, Hub!PrimeFails
<1>1. PICK n : n = [entry[e] EXCEPT !.prime = "done", !.read = 0]
  OBVIOUS
<1>2. entry' = [entry EXCEPT ![e] = n] /\ UNCHANGED <<posted, hub, stream, polls>>
  BY <1>0, <1>1 DEF Hub!PrimeFails, HubType
<1>3. n \in HubEntry /\ n # Null
  <2>1. n \in HubEntry
    BY <1>0, <1>1 DEF HubEntry
  <2> QED
    BY <2>1 DEF HubConstants
<1>4. n.channel = entry[e].channel /\ n.timer = entry[e].timer
      /\ n.listeners = entry[e].listeners /\ n.signal = entry[e].signal /\ n.prime = "done"
  BY <1>0, <1>1 DEF HubEntry
<1>5. entry'[e] = n /\ \A d \in Streams \ {e} : entry'[d] = entry[d]
  BY <1>0, <1>2 DEF HubType
<1>6. HubType'
  BY <1>0, <1>2, <1>3 DEF HubType
<1>7. \A d \in Streams : SameEntry(d) /\ (entry[d] = Null => entry'[d] = Null)
  BY <1>0, <1>3, <1>4, <1>5 DEF SameEntry
<1>8. \A s \in Streams : SameStream(s)
  BY <1>2 DEF SameStream
<1>9. ASSUME NEW s \in Streams PROVE Listens(s)'
  <2>1. Listens(s) /\ stream'[s] = stream[s]
        /\ (stream[s].captured # Null => stream[s].captured \in Streams)
    BY <1>0, <1>2 DEF HubInv, HubType, HubStream
  <2> QED
    BY <1>0, <1>4, <1>5, <2>1 DEF Listens
<1> QED
  BY <1>2, <1>6, <1>7, <1>8, <1>9, SignalsKeep DEF HubInv

(* A poll reads for the entry that is on the hub, which need not be its    *)
(* own (lib/realtime/channel-hub.ts:42-46).                                *)
LEMMA PollReadKeeps ==
    ASSUME HubConstants, HubInv, NEW t \in Streams, Hub!PollRead(t)
    PROVE  HubInv'
<1>0. HubType /\ entry[t] # Null /\ entry[t] \in HubEntry
  BY DEF HubInv, HubType, Hub!PollRead
<1>1. PICK c \in Channels : c = entry[t].channel
  BY <1>0 DEF HubEntry
<1>2. PICK q : q = [entry |-> hub[c], read |-> posted[c]]
  OBVIOUS
<1>3. hub[c] # Null /\ polls' = polls \cup {q} /\ UNCHANGED <<posted, hub, entry, stream>>
  BY <1>1, <1>2 DEF Hub!PollRead
<1>4. q \in [entry : Streams, read : Nat] /\ entry[q.entry] # Null
  BY <1>0, <1>1, <1>2, <1>3 DEF HubInv, HubType, WatchStands
<1>5. HubType'
  BY <1>0, <1>3, <1>4 DEF HubType
<1>6. \A d \in Streams : SameEntry(d) /\ SameStream(d)
  BY <1>3 DEF SameEntry, SameStream
<1>7. \A s \in Streams : Listens(s)'
  BY <1>3 DEF HubInv, Listens
<1>8. \A p \in polls' : entry[p.entry] # Null
  BY <1>3, <1>4 DEF HubInv
<1> QED
  BY <1>3, <1>5, <1>6, <1>7, <1>8, SignalsKeep

(* What a poll has read becomes the signal of the entry, and every         *)
(* listener is told (lib/realtime/channel-hub.ts:47-50).                   *)
LEMMA PollDoneKeeps ==
    ASSUME HubConstants, HubInv, NEW q \in polls, Hub!PollDone(q)
    PROVE  HubInv'
<1>0. HubType /\ q \in [entry : Streams, read : Nat]
  BY DEF HubInv, HubType
<1>1. PICK e \in Streams : e = q.entry
  BY <1>0
<1>2. PICK r \in Nat : r = q.read
  BY <1>0
<1>3. entry[e] # Null /\ entry[e] \in HubEntry
  BY <1>0, <1>1 DEF HubInv, HubType
<1>4. PICK n : n = [entry[e] EXCEPT !.signal = r]
  OBVIOUS
<1>5. /\ entry' = [entry EXCEPT ![e] = n]
      /\ stream' = [s \in Streams |->
                       IF r # entry[e].signal /\ s \in entry[e].listeners
                       THEN [stream[s] EXCEPT !.heard = r] ELSE stream[s]]
      /\ polls' = polls \ {q}
      /\ UNCHANGED <<posted, hub>>
  BY <1>0, <1>1, <1>2, <1>3, <1>4 DEF Hub!PollDone, HubType
<1>6. n \in HubEntry /\ n # Null
  BY <1>3, <1>4 DEF HubEntry, HubConstants
<1>7. n.channel = entry[e].channel /\ n.timer = entry[e].timer
      /\ n.listeners = entry[e].listeners /\ n.signal = r /\ n.prime = entry[e].prime
  BY <1>3, <1>4 DEF HubEntry
<1>8. entry'[e] = n /\ \A d \in Streams \ {e} : entry'[d] = entry[d]
  BY <1>0, <1>5 DEF HubType
<1>9. ASSUME NEW s \in Streams
      PROVE  /\ stream'[s] \in HubStream
             /\ SameStream(s) /\ stream'[s].late = stream[s].late
             /\ stream'[s].heard = IF r # entry[e].signal /\ s \in entry[e].listeners
                                   THEN r ELSE stream[s].heard
  <2>1. stream[s] \in HubStream
    BY <1>0 DEF HubType
  <2>2. CASE r # entry[e].signal /\ s \in entry[e].listeners
    <3>1. stream'[s] = [stream[s] EXCEPT !.heard = r]
      BY <1>5, <2>2
    <3> QED
      BY <2>1, <2>2, <3>1 DEF HubStream, SameStream
  <2>3. CASE ~(r # entry[e].signal /\ s \in entry[e].listeners)
    <3>1. stream'[s] = stream[s]
      BY <1>5, <2>3
    <3> QED
      BY <2>1, <2>3, <3>1 DEF SameStream
  <2> QED
    BY <2>2, <2>3
<1>10. HubType'
  <2>1. stream' \in [Streams -> HubStream]
    BY <1>5, <1>9
  <2> QED
    BY <1>0, <1>5, <1>6, <2>1 DEF HubType
<1>11. \A d \in Streams : SameEntry(d) /\ (entry[d] = Null => entry'[d] = Null)
  BY <1>3, <1>6, <1>7, <1>8 DEF SameEntry
<1>12. ASSUME NEW s \in Streams PROVE Listens(s)'
  <2>1. Listens(s) /\ (stream[s].captured # Null => stream[s].captured \in Streams)
    BY <1>0 DEF HubInv, HubType, HubStream
  <2>2. SameStream(s) /\ stream'[s].late = stream[s].late
        /\ stream'[s].heard = IF r # entry[e].signal /\ s \in entry[e].listeners
                              THEN r ELSE stream[s].heard
    BY <1>9
  <2>3. CASE stream[s].captured = e
    BY <1>7, <1>8, <2>1, <2>2, <2>3 DEF Listens, SameStream
  <2>4. CASE stream[s].captured # e
    <3>1. stream[s].captured # Null /\ stream[s].stage = "open" => s \notin entry[e].listeners
      BY <1>3, <2>4 DEF HubInv, OnlyOwn
    <3> QED
      BY <1>8, <2>1, <2>2, <2>4, <3>1 DEF Listens, SameStream
  <2> QED
    BY <2>3, <2>4
<1> QED
  BY <1>5, <1>9, <1>10, <1>11, <1>12, SignalsKeep DEF HubInv

(* A poll that fails tells nobody (lib/realtime/channel-hub.ts:51-54). *)
LEMMA PollFailsKeeps ==
    ASSUME HubConstants, HubInv, NEW q \in polls, Hub!PollFails(q)
    PROVE  HubInv'
<1>0. HubType
  BY DEF HubInv
<1>1. polls' = polls \ {q} /\ UNCHANGED <<posted, hub, entry, stream>>
  BY DEF Hub!PollFails
<1>2. HubType'
  BY <1>0, <1>1 DEF HubType
<1>3. \A d \in Streams : SameEntry(d) /\ SameStream(d)
  BY <1>1 DEF SameEntry, SameStream
<1>4. \A s \in Streams : Listens(s)'
  BY <1>1 DEF HubInv, Listens
<1> QED
  BY <1>1, <1>2, <1>3, <1>4, SignalsKeep DEF HubInv

(* Messages change what the next poll will read, nothing that was told. *)
LEMMA ChangeChannelKeeps ==
    ASSUME HubConstants, HubInv, NEW c \in Channels, Hub!ChangeChannel(c)
    PROVE  HubInv'
<1>0. HubType
  BY DEF HubInv
<1>1. posted' = [posted EXCEPT ![c] = posted[c] + 1] /\ UNCHANGED <<hub, entry, stream, polls>>
  BY DEF Hub!ChangeChannel
<1>2. HubType'
  BY <1>0, <1>1 DEF HubType
<1>3. \A d \in Streams : SameEntry(d) /\ SameStream(d)
  BY <1>1 DEF SameEntry, SameStream
<1>4. \A s \in Streams : Listens(s)'
  BY <1>1 DEF HubInv, Listens
<1> QED
  BY <1>1, <1>2, <1>3, <1>4, SignalsKeep DEF HubInv

(* A stream that stops leaves the listeners; the last one takes the poller *)
(* and the entry with it (lib/realtime/channel-hub.ts:87-93).              *)
LEMMA StopKeeps ==
    ASSUME HubConstants, HubInv, NEW s \in Streams, Hub!Stop(s)
    PROVE  HubInv'
<1>0. HubType /\ s # Null /\ stream[s] \in HubStream /\ stream[s].stage # "new"
  BY DEF HubInv, HubType, HubConstants, Hub!Stop
<1>1. PICK t : t = [stream[s] EXCEPT !.stage = "closed", !.stops = stream[s].stops + 1,
                                     !.heard = 0, !.late = FALSE]
  OBVIOUS
<1>2. stream' = [stream EXCEPT ![s] = t] /\ UNCHANGED <<posted, polls>>
  BY <1>0, <1>1 DEF Hub!Stop, HubType
<1>3. t \in HubStream /\ t.stage = "closed" /\ t.captured = stream[s].captured
      /\ t.stops = stream[s].stops + 1 /\ t.stops >= 1
  <2>1. PICK stops \in Nat : stops = stream[s].stops + 1
    BY <1>0 DEF HubStream
  <2>2. t = [stream[s] EXCEPT !.stage = "closed", !.stops = stops, !.heard = 0, !.late = FALSE]
    BY <1>1, <2>1
  <2>3. t \in HubStream /\ t.stage = "closed" /\ t.captured = stream[s].captured
        /\ t.stops = stops
    BY <1>0, <2>2 DEF HubStream
  <2>4. stream[s].stops \in Nat
    BY <1>0 DEF HubStream
  <2> QED
    BY <2>1, <2>3, <2>4
<1>4. stream'[s] = t /\ \A d \in Streams \ {s} : stream'[d] = stream[d]
  BY <1>0, <1>2 DEF HubType
<1>5. stream' \in [Streams -> HubStream]
  BY <1>0, <1>2, <1>3 DEF HubType
<1>6. \A d \in Streams : stream'[d].captured = stream[d].captured
  BY <1>3, <1>4
<1>7. (\A d \in Streams : stream'[d].stops <= 1) =>
         stream[s].stage = "open" /\ \A d \in Streams : stream[d].stops <= 1
  <2>1. stream'[s].stops <= 1 => stream[s].stops = 0
    BY <1>0, <1>3, <1>4 DEF HubStream
  <2>2. stream[s].stops = 0 => stream[s].stage = "open"
    BY <1>0 DEF HubInv, StreamStands, HubStream
  <2> QED
    BY <1>4, <2>1, <2>2
<1>8. CASE stream[s].captured = Null
  <2>1. UNCHANGED <<hub, entry>>
    BY <1>8 DEF Hub!Stop, Hub!Attached
  <2>2. HubType'
    BY <1>0, <1>2, <1>5, <2>1 DEF HubType
  <2>3. ASSUME NEW d \in Streams
        PROVE  StreamStands(d)' /\ Listens(d)' /\ EntryStands(d)' /\ OnlyOwn(d)'
    <3>1. StreamStands(d) /\ Listens(d) /\ EntryStands(d) /\ OnlyOwn(d)
      BY DEF HubInv
    <3>2. StreamStands(d)' /\ Listens(d)'
      BY <1>3, <1>4, <1>8, <2>1, <3>1 DEF StreamStands, Listens
    <3>3. entry[d] # Null => entry[d].listeners \subseteq Streams
      BY <1>0 DEF HubType, HubEntry
    <3> QED
      BY <1>6, <2>1, <3>1, <3>2, <3>3 DEF EntryStands, OnlyOwn
  <2>4. OnTheHub'
    BY <1>3, <1>4, <1>6, <1>7, <2>1 DEF HubInv, OnTheHub
  <2>5. Hub!Watched' = Hub!Watched
    BY <2>1 DEF Hub!Watched
  <2> QED
    BY <1>2, <2>1, <2>2, <2>3, <2>4, <2>5, FewerWatched DEF HubInv, WatchStands
<1>9. CASE stream[s].captured # Null
  <2>1. PICK e \in Streams : e = stream[s].captured
    BY <1>0, <1>9 DEF HubStream
  <2>2. entry[e] # Null /\ entry[e] \in HubEntry
    BY <1>0, <1>9, <2>1 DEF HubInv, StreamStands, HubType
  <2>3. PICK left \in SUBSET Streams : left = entry[e].listeners \ {s}
    BY <2>2 DEF HubEntry
  <2>4. PICK timer \in BOOLEAN : timer <=> entry[e].timer /\ left # {}
    OBVIOUS
  <2>5. PICK n : n = [entry[e] EXCEPT !.listeners = left, !.timer = timer]
    OBVIOUS
  <2>6. n \in HubEntry /\ n # Null
    BY <2>2, <2>5 DEF HubEntry, HubConstants
  <2>7. n.channel = entry[e].channel /\ n.timer = timer /\ n.listeners = left
        /\ n.signal = entry[e].signal /\ n.prime = entry[e].prime
    BY <2>2, <2>5 DEF HubEntry
  <2>8. PICK c \in Channels : c = entry[e].channel
    BY <2>2 DEF HubEntry
  <2>9. /\ entry' = [entry EXCEPT ![e] = n]
        /\ hub' = IF left = {} THEN [hub EXCEPT ![c] = Null] ELSE hub
    <3>1. Hub!Unsubscribe(e, s)
      BY <1>9, <2>1 DEF Hub!Stop, Hub!Attached
    <3>2. timer = (entry[e].timer /\ left # {})
      BY <2>2, <2>4 DEF HubEntry
    <3> QED
      BY <1>0, <2>2, <2>3, <2>5, <2>8, <3>1, <3>2 DEF Hub!Unsubscribe, HubType
  <2>10. entry'[e] = n /\ \A d \in Streams \ {e} : entry'[d] = entry[d]
    BY <1>0, <2>9 DEF HubType
  <2>11. \A d \in Channels : hub'[d] = IF left = {} /\ d = c THEN Null ELSE hub[d]
    BY <1>0, <2>9 DEF HubType
  <2>12. HubType'
    <3>1. hub' \in [Channels -> {Null} \cup Streams]
      BY <1>0, <2>9 DEF HubType
    <3> QED
      BY <1>0, <1>2, <1>5, <2>6, <2>9, <3>1 DEF HubType
  <2>13. timer <=> left # {}
    <3>1. EntryStands(e)
      BY DEF HubInv
    <3> QED
      BY <2>2, <2>3, <2>4, <3>1 DEF EntryStands
  <2>14. ASSUME NEW d \in Streams
         PROVE  StreamStands(d)' /\ Listens(d)' /\ EntryStands(d)' /\ OnlyOwn(d)'
    <3>1. StreamStands(d) /\ Listens(d) /\ EntryStands(d) /\ OnlyOwn(d)
          /\ (stream[d].captured # Null => stream[d].captured \in Streams)
      BY <1>0 DEF HubInv, HubType, HubStream
    <3>2. StreamStands(d)'
      <4>1. CASE d = s
        BY <1>3, <1>4, <2>1, <2>6, <2>10, <4>1 DEF StreamStands
      <4>2. CASE d # s
        BY <1>4, <2>2, <2>6, <2>10, <3>1, <4>2 DEF StreamStands
      <4> QED
        BY <4>1, <4>2
    <3>3. Listens(d)'
      <4>1. CASE d = s
        BY <1>3, <1>4, <4>1 DEF Listens
      <4>2. CASE d # s
        BY <1>4, <2>3, <2>7, <2>10, <3>1, <4>2 DEF Listens
      <4> QED
        BY <4>1, <4>2
    <3>4. EntryStands(d)'
      BY <1>6, <2>2, <2>7, <2>10, <2>13, <3>1 DEF EntryStands
    <3>5. OnlyOwn(d)'
      <4>1. entry[d] # Null => entry[d].listeners \subseteq Streams
        BY <1>0 DEF HubType, HubEntry
      <4>2. CASE d = e
        BY <1>6, <2>2, <2>3, <2>7, <2>10, <3>1, <4>1, <4>2 DEF OnlyOwn
      <4>3. CASE d # e
        BY <1>6, <2>10, <3>1, <4>1, <4>3 DEF OnlyOwn
      <4> QED
        BY <4>2, <4>3
    <3> QED
      BY <3>2, <3>3, <3>4, <3>5
  <2>15. ASSUME NEW d \in Channels
         PROVE  WatchStands(d)'
    <3>1. WatchStands(d) /\ (hub[d] # Null => hub[d] \in Streams)
      BY <1>0 DEF HubInv, HubType
    <3>2. CASE hub[d] = e
      <4>1. hub[d] # Null
        BY <3>2 DEF HubConstants
      <4>2. d = c /\ entry[e].timer
        BY <2>8, <3>1, <3>2, <4>1 DEF WatchStands
      <4> QED
        BY <2>4, <2>6, <2>7, <2>8, <2>10, <2>11, <2>13, <3>1, <3>2, <4>2 DEF WatchStands
    <3>3. CASE hub[d] # e
      BY <2>10, <2>11, <3>1, <3>3 DEF WatchStands
    <3> QED
      BY <3>2, <3>3
  <2>16. OnTheHub'
    <3>1. SUFFICES ASSUME \A d \in Streams : stream'[d].stops <= 1,
                          NEW d \in Streams, stream'[d].stage = "open",
                          stream'[d].captured # Null
                   PROVE  hub'[entry'[stream'[d].captured].channel] = stream'[d].captured
      BY DEF OnTheHub
    <3>2. stream[s].stage = "open" /\ \A u \in Streams : stream[u].stops <= 1
      BY <1>7, <3>1
    <3>3. d # s /\ stream'[d] = stream[d]
      BY <1>3, <1>4, <3>1
    <3>4. PICK a \in Streams : a = stream[d].captured
      BY <1>0, <3>1, <3>3 DEF HubType, HubStream
    <3>5. hub[entry[a].channel] = a /\ d \in entry[a].listeners /\ entry[a] # Null
      BY <3>1, <3>2, <3>3, <3>4 DEF HubInv, OnTheHub, Listens, StreamStands
    <3>6. hub[c] = e
      BY <1>9, <2>1, <2>8, <3>2 DEF HubInv, OnTheHub
    <3>7. entry'[a].channel = entry[a].channel
      BY <2>7, <2>10
    <3>8. entry[a].channel \in Channels
      BY <1>0, <3>5 DEF HubType, HubEntry
    <3>9. CASE a = e
      <4>1. left # {}
        BY <2>3, <3>3, <3>5, <3>9
      <4> QED
        BY <2>11, <3>3, <3>4, <3>5, <3>7, <3>8, <4>1
    <3>10. CASE a # e
      <4>1. entry[a].channel # c
        BY <3>5, <3>6, <3>10
      <4> QED
        BY <2>11, <3>3, <3>4, <3>5, <3>7, <3>8, <4>1
    <3> QED
      BY <3>9, <3>10
  <2>17. Hub!Watched' \subseteq Hub!Watched
    BY <2>11 DEF Hub!Watched
  <2>18. \A q \in polls' : entry'[q.entry] # Null
    BY <1>0, <1>2, <2>6, <2>10 DEF HubInv, HubType
  <2> QED
    BY <2>12, <2>14, <2>15, <2>16, <2>17, <2>18, FewerWatched DEF HubInv
<1> QED
  BY <1>8, <1>9

(* Every step of the hub keeps its invariant. *)
LEMMA HubStep ==
    ASSUME HubConstants, HubInv, [Hub!Next]_hubvars
    PROVE  HubInv'
<1>1. CASE UNCHANGED hubvars
  <2>1. UNCHANGED <<posted, hub, entry, stream, polls>>
    BY <1>1 DEF hubvars
  <2>2. HubType'
    BY <2>1 DEF HubInv, HubType
  <2>3. \A d \in Streams : SameEntry(d) /\ SameStream(d) /\ Listens(d)'
    BY <2>1 DEF HubInv, SameEntry, SameStream, Listens
  <2> QED
    BY <2>1, <2>2, <2>3, SignalsKeep DEF HubInv
<1> QED
  BY <1>1, SubscribeFirstKeeps, SubscribeOverCapKeeps, SubscribeNextKeeps, PrimeReadKeeps,
     PrimeDoneKeeps, PrimeFailsKeeps, PollReadKeeps, StopKeeps, PollDoneKeeps, PollFailsKeeps,
     ChangeChannelKeeps
  DEF Hub!Next

(* The invariant has the parts of HubServesStreams. *)
LEMMA HubSafe ==
    ASSUME HubConstants, HubInv
    PROVE  Hub!HubServesStreams
<1>0. HubType
  BY DEF HubInv
<1>1. Hub!PollersHaveListeners
  <2>1. \A e \in Hub!Created : entry[e].timer <=> entry[e].listeners # {}
    BY DEF HubInv, EntryStands, Hub!Created
  <2>2. \A c \in Hub!Watched : entry[hub[c]].channel = c /\ entry[hub[c]].timer
    BY DEF HubInv, WatchStands, Hub!Watched
  <2> QED
    BY <2>1, <2>2, HubCardinality DEF Hub!PollersHaveListeners, HubInv, WithinCap
<1>2. Hub!StreamsAreServed
  BY DEF HubInv, OnTheHub, Listens, Hub!StreamsAreServed, Hub!Attached, Hub!EntryOf
<1>3. Hub!NobodyIsBehind
  BY DEF HubInv, Listens, Hub!NobodyIsBehind, Hub!Attached, Hub!EntryOf
<1> QED
  BY <1>1, <1>2, <1>3 DEF Hub!HubServesStreams

-----------------------------------------------------------------------------
(* Versioned content *)

Open == {"draft", "review"}

ContentNull == Null \notin VersionRow \cup ContentRow \cup EditCall

ContentType ==
    /\ kind \in {"answer", "article"}
    /\ content \in {Null} \cup ContentRow
    /\ version \in [Content!Numbers -> {Null} \cup VersionRow]
    /\ edits \in [Callers -> {Null} \cup EditCall]
    /\ outdated \in BOOLEAN

Unwritten ==
    content = Null => /\ \A n \in Content!Numbers : version[n] = Null
                      /\ \A c \in Callers : edits[c] = Null

NoGaps ==
    \A j, k \in Content!Numbers : j < k /\ version[k] # Null => version[j] # Null

EditsFound ==
    \A c \in Callers : edits[c] # Null =>
        /\ version[edits[c].number] # Null
        /\ edits[c].row.status \in Content!Sought(edits[c].op)
        /\ edits[c].op = "revise" => edits[c].number + 1 \in Content!Numbers

NoneOpen == \A n \in Content!Numbers : version[n] # Null => version[n].status \notin Open

RevisionsNext ==
    ~outdated => \A c \in Callers :
        edits[c] # Null /\ edits[c].op = "revise" /\ version[edits[c].number + 1] = Null
            => NoneOpen

(* What the property says, version by version. *)
LiveIsShown ==
    content # Null /\ ~outdated =>
        /\ content.status = "live" =>
              /\ version[content.current] # Null
              /\ version[content.current].status = "live"
              /\ content.shown = version[content.current].text
        /\ content.status # "archived" => \A n \in Content!Numbers :
              version[n] # Null /\ version[n].status = "live" =>
                  content.status = "live" /\ n = content.current

OneIsOpen ==
    ~outdated => \A n, k \in Content!Numbers :
        /\ version[n] # Null /\ version[n].status \in Open
        /\ version[k] # Null /\ version[k].status \in Open
        => n = k

ContentInv ==
    ContentType /\ Unwritten /\ NoGaps /\ EditsFound /\ RevisionsNext /\ LiveIsShown /\ OneIsOpen

(* Nothing is written: the invariant of versioned content holds. *)
LEMMA ContentInit ==
    ASSUME Content!Init
    PROVE  ContentInv
BY DEF Content!Init, ContentInv, ContentType, Unwritten, NoGaps, EditsFound, RevisionsNext, LiveIsShown, OneIsOpen

(* The greatest of some version numbers is one of them: there are finitely *)
(* many.                                                                   *)
LEMMA GreatestFound ==
    ASSUME MaxContentVersions \in Nat, NEW S \in SUBSET Content!Numbers, S # {}
    PROVE  Content!Greatest(S) \in S
<1>1. S \in SUBSET (0 .. MaxContentVersions)
  BY DEF Content!Numbers
<1> QED
  BY <1>1, GreatestNatural DEF Content!Greatest

(* What a transaction keeps, if it ends its call. *)
LEMMA WrittenKeeps ==
    ASSUME ContentInv, NEW c \in Callers, edits[c] # Null, Content!Written(c),
           content' \in ContentRow, content' # Null,
           version' \in [Content!Numbers -> {Null} \cup VersionRow],
           \A n \in Content!Numbers : version[n] # Null => version'[n] # Null,
           NoGaps',
           ~outdated' => \A d \in Callers \ {c} :
               edits[d] # Null /\ edits[d].op = "revise" /\ version'[edits[d].number + 1] = Null
                   => NoneOpen',
           LiveIsShown', OneIsOpen'
    PROVE  ContentInv'
<1>1. /\ edits' = [edits EXCEPT ![c] = Null]
      /\ kind' = kind
      /\ outdated' \in BOOLEAN
  BY DEF Content!Written, ContentInv, ContentType
<1>2. edits \in [Callers -> {Null} \cup EditCall] /\ kind \in {"answer", "article"}
  BY DEF ContentInv, ContentType
<1>3. \A d \in Callers : edits'[d] # Null => d # c /\ edits'[d] = edits[d]
  BY <1>1, <1>2
<1>4. ContentType'
  BY <1>1, <1>2 DEF ContentType
<1>5. Unwritten'
  BY DEF Unwritten
<1>6. EditsFound'
  <2>1. ASSUME NEW d \in Callers, edits'[d] # Null
        PROVE  /\ version'[edits[d].number] # Null
               /\ edits[d].row.status \in Content!Sought(edits[d].op)
               /\ edits[d].op = "revise" => edits[d].number + 1 \in Content!Numbers
               /\ edits'[d] = edits[d]
    <3>1. d # c /\ edits'[d] = edits[d] /\ edits[d] # Null /\ edits[d] \in EditCall
      BY <1>2, <1>3, <2>1
    <3>2. edits[d].number \in Content!Numbers
      BY <3>1 DEF EditCall
    <3> QED
      BY <3>1, <3>2 DEF ContentInv, EditsFound
  <2>2. \A op : Content!Sought(op)' = Content!Sought(op)
    BY <1>1 DEF Content!Sought, Content!Editable
  <2> QED
    BY <2>1, <2>2 DEF EditsFound
<1>7. RevisionsNext'
  BY <1>3 DEF RevisionsNext
<1> QED
  BY <1>4, <1>5, <1>6, <1>7 DEF ContentInv

(* What a call has read, if it is not outdated. *)
LEMMA Current ==
    ASSUME ContentInv, ContentNull, NEW c \in Callers, NEW op, Content!Writing(c, op), Content!Written(c)
    PROVE  /\ edits[c] \in EditCall /\ edits[c] # Null /\ edits[c].op = op
           /\ edits[c].number \in Content!Numbers /\ edits[c].row \in VersionRow
           /\ version[edits[c].number] \in VersionRow
           /\ edits[c].row.status \in Content!Sought(op)
           /\ content \in ContentRow
           /\ outdated' \in BOOLEAN
           /\ ~outdated' => ~outdated
           /\ ~outdated' /\ op \in {"update", "submit", "approve"} =>
                 content.status = edits[c].status /\ version[edits[c].number] = edits[c].row
<1>1. edits[c] \in EditCall /\ edits[c] # Null /\ edits[c].op = op
  BY DEF Content!Writing, ContentInv, ContentType
<1>2. edits[c].number \in Content!Numbers /\ edits[c].row \in VersionRow
  BY <1>1 DEF EditCall
<1>3. version[edits[c].number] # Null /\ edits[c].row.status \in Content!Sought(op)
  BY <1>1 DEF ContentInv, EditsFound
<1>4. version[edits[c].number] \in VersionRow
  BY <1>2, <1>3 DEF ContentInv, ContentType
<1>5. content \in ContentRow
  BY <1>1 DEF ContentInv, ContentType, Unwritten
<1> QED
  BY <1>1, <1>2, <1>3, <1>4, <1>5 DEF Content!Written, ContentInv, ContentType

(* The first draft is the only version (domain/answers.ts:89-105,          *)
(* domain/knowledge.ts).                                                   *)
LEMMA CreateKeeps ==
    ASSUME ContentInv, ContentNull, MaxContentVersions \in Nat \ {0}, NEW t \in Texts, Content!Create(t)
    PROVE  ContentInv'
<1>1. /\ content = Null
      /\ content' = [status |-> "draft", shown |-> Null, current |-> 1]
      /\ version' = [version EXCEPT ![1] = [status |-> "draft", text |-> t]]
      /\ kind' = kind /\ edits' = edits /\ outdated' = outdated
  BY DEF Content!Create
<1>2. 1 \in Content!Numbers
  BY DEF Content!Numbers
<1>3. content' \in ContentRow /\ content' # Null /\ content'.status = "draft"
  BY <1>1, <1>2 DEF ContentRow, Content!AllStatuses, ContentNull
<1>4. [status |-> "draft", text |-> t] \in VersionRow
  BY DEF VersionRow, Content!AllStatuses
<1>5. /\ version \in [Content!Numbers -> {Null} \cup VersionRow]
      /\ \A n \in Content!Numbers : version[n] = Null
      /\ \A c \in Callers : edits[c] = Null
  BY <1>1 DEF ContentInv, ContentType, Unwritten
<1>6. /\ version' \in [Content!Numbers -> {Null} \cup VersionRow]
      /\ version'[1] = [status |-> "draft", text |-> t]
      /\ \A n \in Content!Numbers : version'[n] # Null => n = 1
  BY <1>1, <1>2, <1>4, <1>5
<1>7. ContentType'
  BY <1>1, <1>3, <1>6 DEF ContentInv, ContentType
<1>8. NoGaps'
  BY <1>6 DEF NoGaps, Content!Numbers
<1>9. LiveIsShown'
  BY <1>1, <1>3, <1>6 DEF LiveIsShown
<1>10. OneIsOpen'
  BY <1>6 DEF OneIsOpen
<1> QED
  BY <1>1, <1>3, <1>5, <1>7, <1>8, <1>9, <1>10 DEF ContentInv, Unwritten, EditsFound, RevisionsNext

(* A call finds the version it is about, in a status it asks for           *)
(* (domain/answers.ts:107-119).                                            *)
LEMMA BeginKeeps ==
    ASSUME ContentInv, ContentNull, MaxContentVersions \in Nat \ {0}, NEW c \in Callers,
           NEW op \in {"update", "revise", "submit", "approve", "end"},
           NEW t \in Texts \cup {Null}, Content!Begin(c, op, t)
    PROVE  ContentInv'
<1> DEFINE found == Content!In(Content!Sought(op))
           n == Content!Greatest(found)
<1>1. /\ content # Null /\ content.status # "archived"
      /\ found # {}
      /\ op = "revise" => Content!In({"draft", "review"}) = {} /\ n < MaxContentVersions
      /\ edits' = [edits EXCEPT ![c] = [op |-> op, number |-> n, status |-> content.status,
                                        row |-> version[n], text |-> t]]
      /\ kind' = kind /\ content' = content /\ version' = version /\ outdated' = outdated
  BY DEF Content!Begin
<1>2. n \in found
  BY <1>1, GreatestFound DEF Content!In
<1>3. n \in Content!Numbers /\ version[n] # Null /\ version[n].status \in Content!Sought(op)
  BY <1>2 DEF Content!In
<1>4. version[n] \in VersionRow /\ content \in ContentRow
  BY <1>1, <1>3 DEF ContentInv, ContentType
<1>5. content.status \in Content!AllStatuses
  BY <1>1, <1>4 DEF ContentRow
<1>6. PICK e : e = [op |-> op, number |-> n, status |-> content.status,
                    row |-> version[n], text |-> t]
  OBVIOUS
<1>7. e \in EditCall
  BY <1>3, <1>4, <1>5, <1>6 DEF EditCall
<1>8. e # Null
  BY <1>7 DEF ContentNull
<1>9. edits \in [Callers -> {Null} \cup EditCall]
  BY DEF ContentInv, ContentType
<1>10. /\ edits' \in [Callers -> {Null} \cup EditCall]
       /\ edits'[c] = e
       /\ \A d \in Callers : d # c => edits'[d] = edits[d]
  BY <1>1, <1>6, <1>7, <1>9
<1>11. ContentType'
  BY <1>1, <1>10 DEF ContentInv, ContentType
<1>12. EditsFound'
  <2>1. \A o : Content!Sought(o)' = Content!Sought(o)
    BY <1>1 DEF Content!Sought, Content!Editable
  <2>2. /\ e.number = n /\ version'[e.number] # Null
        /\ e.row.status \in Content!Sought(e.op)
        /\ e.op = "revise" => e.number + 1 \in Content!Numbers
    BY <1>1, <1>3, <1>6 DEF Content!Numbers
  <2>3. ASSUME NEW d \in Callers, d # c, edits'[d] # Null
        PROVE  /\ version'[edits'[d].number] # Null
               /\ edits'[d].row.status \in Content!Sought(edits'[d].op)
               /\ edits'[d].op = "revise" => edits'[d].number + 1 \in Content!Numbers
    BY <1>1, <1>10, <2>3 DEF ContentInv, EditsFound
  <2> QED
    BY <1>10, <2>1, <2>2, <2>3 DEF EditsFound
<1>13. RevisionsNext'
  <2>1. op = "revise" => NoneOpen'
    BY <1>1 DEF NoneOpen, Content!In, Open
  <2>2. NoneOpen' = NoneOpen
    BY <1>1 DEF NoneOpen
  <2>3. e.op = op
    BY <1>6
  <2> QED
    BY <1>1, <1>10, <2>1, <2>2, <2>3 DEF ContentInv, RevisionsNext
<1>14. NoGaps' /\ Unwritten'
  BY <1>1 DEF ContentInv, NoGaps, Unwritten
<1>15. LiveIsShown' /\ OneIsOpen'
  BY <1>1 DEF ContentInv, LiveIsShown, OneIsOpen
<1> QED
  BY <1>11, <1>12, <1>13, <1>14, <1>15 DEF ContentInv

(* The words of a version change: of the live one only if it was approved  *)
(* since they were begun (domain/knowledge.ts:112-125).                    *)
LEMMA UpdateKeeps ==
    ASSUME ContentInv, ContentNull, NEW c \in Callers, Content!Update(c)
    PROVE  ContentInv'
<1>1. PICK n : n = edits[c].number
  OBVIOUS
<1>2. /\ Content!Writing(c, "update") /\ Content!Written(c)
      /\ version' = [version EXCEPT ![n].text = edits[c].text]
      /\ content' = content
  BY <1>1 DEF Content!Update
<1>3. /\ edits[c] \in EditCall /\ edits[c] # Null
      /\ n \in Content!Numbers
      /\ edits[c].row \in VersionRow /\ version[n] \in VersionRow
      /\ edits[c].row.status \in Content!Sought("update")
      /\ content \in ContentRow
      /\ ~outdated' => ~outdated /\ version[n] = edits[c].row
  BY <1>1, <1>2, Current
<1>4. edits[c].text \in Texts \cup {Null}
  BY <1>3 DEF EditCall
<1>5. PICK row : row = [version[n] EXCEPT !.text = edits[c].text]
  OBVIOUS
<1>6. row \in VersionRow /\ row.status = version[n].status /\ row # Null
  BY <1>3, <1>4, <1>5 DEF VersionRow, ContentNull
<1>7. version \in [Content!Numbers -> {Null} \cup VersionRow]
  BY DEF ContentInv, ContentType
<1>8. /\ version' \in [Content!Numbers -> {Null} \cup VersionRow]
      /\ version'[n] = row
      /\ \A k \in Content!Numbers : k # n => version'[k] = version[k]
  BY <1>2, <1>3, <1>5, <1>6, <1>7
<1>9. \A k \in Content!Numbers :
         /\ version'[k] # Null <=> version[k] # Null
         /\ version[k] # Null => version'[k].status = version[k].status
  BY <1>3, <1>6, <1>8 DEF ContentNull
<1>10. ~outdated' => version[n].status # "live"
  BY <1>3 DEF Content!Sought, Content!Editable
<1>11. NoGaps' /\ OneIsOpen' /\ (NoneOpen => NoneOpen')
  BY <1>3, <1>9 DEF ContentInv, NoGaps, OneIsOpen, NoneOpen
<1>12. LiveIsShown'
  <2> SUFFICES ASSUME ~outdated'
               PROVE  /\ content.status = "live" =>
                            /\ version'[content.current] # Null
                            /\ version'[content.current].status = "live"
                            /\ content.shown = version'[content.current].text
                      /\ content.status # "archived" => \A k \in Content!Numbers :
                            version'[k] # Null /\ version'[k].status = "live" =>
                                content.status = "live" /\ k = content.current
    BY <1>2 DEF LiveIsShown
  <2>1. content # Null /\ content.current \in Content!Numbers
    BY <1>3 DEF ContentNull, ContentRow
  <2>2. content.status = "live" => content.current # n
    BY <1>3, <1>10, <2>1 DEF ContentInv, LiveIsShown
  <2> QED
    BY <1>3, <1>8, <1>9, <2>1, <2>2 DEF ContentInv, LiveIsShown
<1>13. ~outdated' => \A d \in Callers \ {c} :
          edits[d] # Null /\ edits[d].op = "revise" /\ version'[edits[d].number + 1] = Null
              => NoneOpen'
  <2> SUFFICES ASSUME ~outdated', NEW d \in Callers, edits[d] # Null, edits[d].op = "revise",
                      version'[edits[d].number + 1] = Null
               PROVE  NoneOpen
    BY <1>11
  <2>1. edits[d].number + 1 \in Content!Numbers
    BY DEF ContentInv, EditsFound
  <2> QED
    BY <1>3, <1>9, <2>1 DEF ContentInv, RevisionsNext
<1>14. content' \in ContentRow /\ content' # Null
  BY <1>2, <1>3 DEF ContentNull
<1> QED
  BY <1>2, <1>3, <1>8, <1>9, <1>11, <1>12, <1>13, <1>14, WrittenKeeps

(* A revision takes the next number, and none is open besides it unless    *)
(* calls overlapped (domain/answers.ts:133-141).                           *)
LEMMA ReviseKeeps ==
    ASSUME ContentInv, ContentNull, MaxContentVersions \in Nat \ {0}, NEW c \in Callers,
           Content!Revise(c)
    PROVE  ContentInv'
<1>1. PICK n : n = edits[c].number + 1
  OBVIOUS
<1>2. /\ Content!Writing(c, "revise") /\ Content!Written(c)
      /\ version' = IF version[n] = Null
                    THEN [version EXCEPT ![n] = [status |-> "draft", text |-> edits[c].text]]
                    ELSE version
      /\ content' = content
  BY <1>1 DEF Content!Revise
<1>3. /\ edits[c] \in EditCall /\ edits[c] # Null /\ edits[c].op = "revise"
      /\ edits[c].number \in Content!Numbers
      /\ content \in ContentRow
      /\ ~outdated' => ~outdated
  BY <1>2, Current
<1>4. n \in Content!Numbers /\ version[edits[c].number] # Null
  BY <1>1, <1>3 DEF ContentInv, EditsFound
<1>5. content' \in ContentRow /\ content' # Null
  BY <1>2, <1>3 DEF ContentNull
<1>6. version \in [Content!Numbers -> {Null} \cup VersionRow]
  BY DEF ContentInv, ContentType
<1>7. CASE version[n] # Null
  <2>1. version' = version
    BY <1>2, <1>7
  <2>2. NoGaps' /\ LiveIsShown' /\ OneIsOpen' /\ NoneOpen' = NoneOpen
    BY <1>2, <1>3, <2>1 DEF ContentInv, NoGaps, LiveIsShown, OneIsOpen, NoneOpen
  <2>3. ~outdated' => \A d \in Callers \ {c} :
          edits[d] # Null /\ edits[d].op = "revise" /\ version'[edits[d].number + 1] = Null
              => NoneOpen'
    BY <1>3, <2>1, <2>2 DEF ContentInv, RevisionsNext
  <2> QED
    BY <1>2, <1>3, <1>5, <1>6, <2>1, <2>2, <2>3, WrittenKeeps
<1>8. CASE version[n] = Null
  <2>1. PICK row : row = [status |-> "draft", text |-> edits[c].text]
    OBVIOUS
  <2>2. row \in VersionRow /\ row # Null /\ row.status = "draft"
    BY <1>3, <2>1 DEF VersionRow, EditCall, Content!AllStatuses, ContentNull
  <2>3. /\ version' \in [Content!Numbers -> {Null} \cup VersionRow]
        /\ version'[n] = row
        /\ \A k \in Content!Numbers : k # n => version'[k] = version[k]
    BY <1>2, <1>4, <1>6, <1>8, <2>1, <2>2
  <2>4. NoGaps'
    <3> SUFFICES ASSUME NEW j \in Content!Numbers, NEW k \in Content!Numbers, j < k,
                        version'[k] # Null
                 PROVE  version'[j] # Null
      BY DEF NoGaps
    <3>1. CASE j = n \/ (k # n /\ j # n)
      BY <2>2, <2>3, <3>1 DEF ContentInv, NoGaps
    <3>2. CASE k = n /\ j # n
      <4>1. j = edits[c].number \/ j < edits[c].number
        BY <1>1, <1>3, <3>2 DEF Content!Numbers
      <4>2. version[j] # Null
        BY <1>3, <1>4, <4>1 DEF ContentInv, NoGaps
      <4> QED
        BY <2>3, <3>2, <4>2
    <3> QED
      BY <3>1, <3>2
  <2>5. ~outdated' => NoneOpen
    BY <1>1, <1>3, <1>8 DEF ContentInv, RevisionsNext
  <2>6. OneIsOpen'
    BY <2>3, <2>5 DEF OneIsOpen, NoneOpen
  <2>7. LiveIsShown'
    <3> SUFFICES ASSUME ~outdated'
                 PROVE  /\ content.status = "live" =>
                              /\ version'[content.current] # Null
                              /\ version'[content.current].status = "live"
                              /\ content.shown = version'[content.current].text
                        /\ content.status # "archived" => \A k \in Content!Numbers :
                              version'[k] # Null /\ version'[k].status = "live" =>
                                  content.status = "live" /\ k = content.current
      BY <1>2 DEF LiveIsShown
    <3>1. content # Null /\ content.current \in Content!Numbers
      BY <1>3 DEF ContentNull, ContentRow
    <3>2. content.status = "live" => content.current # n
      BY <1>3, <1>8, <3>1 DEF ContentInv, LiveIsShown
    <3> QED
      BY <1>3, <2>2, <2>3, <3>1, <3>2 DEF ContentInv, LiveIsShown
  <2>8. ASSUME NEW d \in Callers \ {c}, edits[d] # Null, edits[d].op = "revise",
               version'[edits[d].number + 1] = Null
        PROVE  FALSE
    <3>1. /\ edits[d] \in EditCall
          /\ version[edits[d].number] # Null
          /\ edits[d].number + 1 \in Content!Numbers
      BY <2>8 DEF ContentInv, ContentType, EditsFound
    <3>2. edits[d].number \in Content!Numbers
      BY <3>1 DEF EditCall
    <3>3. edits[d].number + 1 # n /\ version[edits[d].number + 1] = Null
      BY <2>2, <2>3, <2>8, <3>1
    <3>4. ~(edits[d].number + 1 <= edits[c].number) /\ ~(n <= edits[d].number)
      <4>1. ~(edits[d].number + 1 < edits[c].number) /\ edits[d].number + 1 # edits[c].number
        BY <1>3, <1>4, <3>1, <3>3 DEF ContentInv, NoGaps
      <4>2. ~(n < edits[d].number) /\ n # edits[d].number
        BY <1>4, <1>8, <3>1, <3>2 DEF ContentInv, NoGaps
      <4> QED
        BY <1>3, <1>4, <3>1, <3>2, <4>1, <4>2 DEF Content!Numbers
    <3> QED
      BY <1>1, <1>3, <3>2, <3>3, <3>4 DEF Content!Numbers
  <2>9. \A k \in Content!Numbers : version[k] # Null => version'[k] # Null
    BY <2>2, <2>3
  <2> QED
    BY <1>2, <1>3, <1>5, <2>3, <2>4, <2>6, <2>7, <2>8, <2>9, WrittenKeeps
<1> QED
  BY <1>7, <1>8

(* A draft that goes into review stays the only open version               *)
(* (domain/answers.ts:143-153).                                            *)
LEMMA SubmitKeeps ==
    ASSUME ContentInv, ContentNull, NEW c \in Callers, Content!Submit(c)
    PROVE  ContentInv'
<1>1. PICK n : n = edits[c].number
  OBVIOUS
<1>2. PICK s : s = IF edits[c].status = "live" THEN "live" ELSE "review"
  OBVIOUS
<1>3. /\ Content!Writing(c, "submit") /\ Content!Written(c)
      /\ version' = [version EXCEPT ![n].status = "review"]
      /\ content' = [content EXCEPT !.status = s]
  BY <1>1, <1>2 DEF Content!Submit
<1>4. /\ edits[c] \in EditCall /\ edits[c] # Null
      /\ n \in Content!Numbers
      /\ edits[c].row \in VersionRow /\ version[n] \in VersionRow
      /\ edits[c].row.status \in Content!Sought("submit")
      /\ content \in ContentRow
      /\ ~outdated' => ~outdated /\ content.status = edits[c].status /\ version[n] = edits[c].row
  BY <1>1, <1>3, Current
<1>5. PICK row : row = [version[n] EXCEPT !.status = "review"]
  OBVIOUS
<1>6. row \in VersionRow /\ row.status = "review" /\ row # Null
  BY <1>4, <1>5 DEF VersionRow, Content!AllStatuses, ContentNull
<1>7. version \in [Content!Numbers -> {Null} \cup VersionRow]
  BY DEF ContentInv, ContentType
<1>8. /\ version' \in [Content!Numbers -> {Null} \cup VersionRow]
      /\ version'[n] = row
      /\ \A k \in Content!Numbers : k # n => version'[k] = version[k]
  BY <1>3, <1>4, <1>5, <1>6, <1>7
<1>9. ~outdated' => version[n].status = "draft"
  BY <1>4 DEF Content!Sought
<1>10. /\ content' \in ContentRow /\ content' # Null
       /\ content'.status = s /\ content'.shown = content.shown /\ content'.current = content.current
  BY <1>2, <1>3, <1>4 DEF ContentRow, Content!AllStatuses, ContentNull
<1>11. version[n] # Null
  BY <1>4 DEF ContentNull
<1>12. NoGaps' /\ \A k \in Content!Numbers : version[k] # Null => version'[k] # Null
  BY <1>4, <1>6, <1>8, <1>11 DEF ContentInv, NoGaps
<1>13. OneIsOpen' /\ (~outdated' => ~NoneOpen)
  BY <1>4, <1>8, <1>9, <1>11 DEF ContentInv, OneIsOpen, NoneOpen, Open
<1>14. LiveIsShown'
  <2> SUFFICES ASSUME ~outdated'
               PROVE  /\ s = "live" =>
                            /\ version'[content.current] # Null
                            /\ version'[content.current].status = "live"
                            /\ content.shown = version'[content.current].text
                      /\ \A k \in Content!Numbers :
                            version'[k] # Null /\ version'[k].status = "live" =>
                                s = "live" /\ k = content.current
    BY <1>10 DEF LiveIsShown
  <2>1. content # Null /\ content.current \in Content!Numbers
    BY <1>4 DEF ContentNull, ContentRow
  <2>2. s = "live" <=> content.status = "live"
    BY <1>2, <1>4
  <2>3. content.status # "archived"
    BY <1>4 DEF EditCall, Content!AllStatuses
  <2>4. content.status = "live" => content.current # n
    BY <1>4, <1>9, <2>1 DEF ContentInv, LiveIsShown
  <2> QED
    BY <1>4, <1>6, <1>8, <2>1, <2>2, <2>3, <2>4 DEF ContentInv, LiveIsShown
<1>15. ~outdated' => \A d \in Callers \ {c} :
          edits[d] # Null /\ edits[d].op = "revise" /\ version'[edits[d].number + 1] = Null
              => NoneOpen'
  <2> SUFFICES ASSUME ~outdated', NEW d \in Callers, edits[d] # Null, edits[d].op = "revise",
                      version'[edits[d].number + 1] = Null
               PROVE  NoneOpen
    BY <1>13
  <2>1. edits[d].number + 1 \in Content!Numbers
    BY DEF ContentInv, EditsFound
  <2> QED
    BY <1>4, <1>12, <2>1 DEF ContentInv, RevisionsNext
<1> QED
  BY <1>3, <1>4, <1>8, <1>10, <1>12, <1>13, <1>14, <1>15, WrittenKeeps

(* The version that is approved becomes the live one and is shown, and the *)
(* one before it is past (domain/answers.ts:160-173).                      *)
LEMMA ApproveKeeps ==
    ASSUME ContentInv, ContentNull, NEW c \in Callers, Content!Approve(c)
    PROVE  ContentInv'
<1>1. PICK n : n = edits[c].number
  OBVIOUS
<1>2. /\ Content!Writing(c, "approve") /\ Content!Written(c)
      /\ version' = [k \in Content!Numbers |->
                     IF k = n THEN [version[k] EXCEPT !.status = "live"]
                     ELSE IF k \in Content!In({"live"}) THEN [version[k] EXCEPT !.status = "past"]
                     ELSE version[k]]
      /\ content' = [status |-> "live", shown |-> edits[c].row.text, current |-> n]
  BY <1>1 DEF Content!Approve
<1>3. /\ edits[c] \in EditCall /\ edits[c] # Null
      /\ n \in Content!Numbers
      /\ edits[c].row \in VersionRow /\ version[n] \in VersionRow
      /\ edits[c].row.status \in Content!Sought("approve")
      /\ ~outdated' => ~outdated /\ content.status = edits[c].status /\ version[n] = edits[c].row
  BY <1>1, <1>2, Current
<1>4. version \in [Content!Numbers -> {Null} \cup VersionRow]
  BY DEF ContentInv, ContentType
<1>5. version[n] # Null
  BY <1>3 DEF ContentNull
<1>6. ASSUME NEW k \in Content!Numbers
      PROVE  /\ version'[k] \in {Null} \cup VersionRow
             /\ version[k] # Null <=> version'[k] # Null
             /\ version[k] # Null => version'[k].text = version[k].text
             /\ version[k] # Null => version'[k].status =
                    IF k = n THEN "live" ELSE IF version[k].status = "live" THEN "past" ELSE version[k].status
  <2>1. version'[k] = IF k = n THEN [version[k] EXCEPT !.status = "live"]
                     ELSE IF k \in Content!In({"live"}) THEN [version[k] EXCEPT !.status = "past"]
                     ELSE version[k]
    BY <1>2, <1>6
  <2>2. CASE version[k] = Null
    BY <1>5, <2>1, <2>2 DEF Content!In
  <2>3. CASE version[k] # Null
    <3>1. version[k] \in VersionRow
      BY <1>4, <1>6, <2>3
    <3>2. k \in Content!In({"live"}) <=> version[k].status = "live"
      BY <1>6, <2>3 DEF Content!In
    <3>3. PICK a, b : a = [version[k] EXCEPT !.status = "live"] /\ b = [version[k] EXCEPT !.status = "past"]
      OBVIOUS
    <3>4. /\ a \in VersionRow /\ a.status = "live" /\ a.text = version[k].text /\ a # Null
          /\ b \in VersionRow /\ b.status = "past" /\ b.text = version[k].text /\ b # Null
      BY <3>1, <3>3 DEF VersionRow, Content!AllStatuses, ContentNull
    <3> QED
      BY <2>1, <2>3, <3>1, <3>2, <3>3, <3>4
  <2> QED
    BY <2>2, <2>3
<1>7. version' \in [Content!Numbers -> {Null} \cup VersionRow]
  BY <1>2, <1>6
<1>8. /\ content' \in ContentRow /\ content' # Null
      /\ content'.status = "live" /\ content'.shown = edits[c].row.text /\ content'.current = n
  BY <1>2, <1>3 DEF ContentRow, VersionRow, Content!AllStatuses, ContentNull
<1>9. NoGaps' /\ \A k \in Content!Numbers : version[k] # Null => version'[k] # Null
  BY <1>6 DEF ContentInv, NoGaps
<1>10. OneIsOpen' /\ (NoneOpen => NoneOpen')
  BY <1>3, <1>6 DEF ContentInv, OneIsOpen, NoneOpen, Open
<1>11. LiveIsShown'
  BY <1>3, <1>5, <1>6, <1>8 DEF LiveIsShown
<1>12. ~outdated' => \A d \in Callers \ {c} :
          edits[d] # Null /\ edits[d].op = "revise" /\ version'[edits[d].number + 1] = Null
              => NoneOpen'
  <2> SUFFICES ASSUME ~outdated', NEW d \in Callers, edits[d] # Null, edits[d].op = "revise",
                      version'[edits[d].number + 1] = Null
               PROVE  NoneOpen
    BY <1>10
  <2>1. edits[d].number + 1 \in Content!Numbers
    BY DEF ContentInv, EditsFound
  <2> QED
    BY <1>3, <1>6, <2>1 DEF ContentInv, RevisionsNext
<1> QED
  BY <1>2, <1>3, <1>7, <1>8, <1>9, <1>10, <1>11, <1>12, WrittenKeeps

(* Retiring an answer takes its live version with it                       *)
(* (domain/answers.ts:175-182).                                            *)
LEMMA RetireKeeps ==
    ASSUME ContentInv, ContentNull, NEW c \in Callers, Content!RetireAnswer(c)
    PROVE  ContentInv'
<1>1. /\ Content!Writing(c, "end") /\ Content!Written(c)
      /\ version' = [k \in Content!Numbers |->
                     IF k \in Content!In({"live"}) THEN [version[k] EXCEPT !.status = "past"]
                     ELSE version[k]]
      /\ content' = [content EXCEPT !.status = "past"]
  BY DEF Content!RetireAnswer
<1>2. /\ edits[c] \in EditCall /\ edits[c] # Null
      /\ content \in ContentRow
      /\ ~outdated' => ~outdated
  BY <1>1, Current
<1>3. version \in [Content!Numbers -> {Null} \cup VersionRow]
  BY DEF ContentInv, ContentType
<1>4. ASSUME NEW k \in Content!Numbers
      PROVE  /\ version'[k] \in {Null} \cup VersionRow
             /\ version[k] # Null <=> version'[k] # Null
             /\ version[k] # Null => version'[k].status =
                    IF version[k].status = "live" THEN "past" ELSE version[k].status
  <2>1. version'[k] = IF k \in Content!In({"live"}) THEN [version[k] EXCEPT !.status = "past"]
                     ELSE version[k]
    BY <1>1, <1>4
  <2>2. CASE version[k] = Null
    BY <2>1, <2>2 DEF Content!In
  <2>3. CASE version[k] # Null
    <3>1. version[k] \in VersionRow
      BY <1>3, <1>4, <2>3
    <3>2. k \in Content!In({"live"}) <=> version[k].status = "live"
      BY <1>4, <2>3 DEF Content!In
    <3>3. PICK b : b = [version[k] EXCEPT !.status = "past"]
      OBVIOUS
    <3>4. b \in VersionRow /\ b.status = "past" /\ b # Null
      BY <3>1, <3>3 DEF VersionRow, Content!AllStatuses, ContentNull
    <3> QED
      BY <2>1, <2>3, <3>1, <3>2, <3>3, <3>4
  <2> QED
    BY <2>2, <2>3
<1>5. version' \in [Content!Numbers -> {Null} \cup VersionRow]
  BY <1>1, <1>4
<1>6. content' \in ContentRow /\ content' # Null /\ content'.status = "past"
  BY <1>1, <1>2 DEF ContentRow, Content!AllStatuses, ContentNull
<1>7. NoGaps' /\ \A k \in Content!Numbers : version[k] # Null => version'[k] # Null
  BY <1>4 DEF ContentInv, NoGaps
<1>8. OneIsOpen' /\ (NoneOpen => NoneOpen')
  BY <1>2, <1>4 DEF ContentInv, OneIsOpen, NoneOpen, Open
<1>9. LiveIsShown'
  BY <1>4, <1>6 DEF LiveIsShown
<1>10. ~outdated' => \A d \in Callers \ {c} :
          edits[d] # Null /\ edits[d].op = "revise" /\ version'[edits[d].number + 1] = Null
              => NoneOpen'
  <2> SUFFICES ASSUME ~outdated', NEW d \in Callers, edits[d] # Null, edits[d].op = "revise",
                      version'[edits[d].number + 1] = Null
               PROVE  NoneOpen
    BY <1>8
  <2>1. edits[d].number + 1 \in Content!Numbers
    BY DEF ContentInv, EditsFound
  <2> QED
    BY <1>2, <1>4, <2>1 DEF ContentInv, RevisionsNext
<1> QED
  BY <1>1, <1>2, <1>5, <1>6, <1>7, <1>8, <1>9, <1>10, WrittenKeeps

(* Archiving an article leaves its versions, of which nothing is promised  *)
(* then (domain/knowledge.ts:165-169).                                     *)
LEMMA ArchiveKeeps ==
    ASSUME ContentInv, ContentNull, NEW c \in Callers, Content!ArchiveArticle(c)
    PROVE  ContentInv'
<1>1. /\ Content!Writing(c, "end") /\ Content!Written(c)
      /\ content' = [content EXCEPT !.status = "archived"]
      /\ version' = version
  BY DEF Content!ArchiveArticle
<1>2. /\ edits[c] # Null
      /\ content \in ContentRow
      /\ ~outdated' => ~outdated
  BY <1>1, Current
<1>3. content' \in ContentRow /\ content' # Null /\ content'.status = "archived"
  BY <1>1, <1>2 DEF ContentRow, ContentNull
<1>4. NoGaps' /\ OneIsOpen' /\ NoneOpen' = NoneOpen /\ LiveIsShown'
  BY <1>1, <1>2, <1>3 DEF ContentInv, NoGaps, OneIsOpen, NoneOpen, LiveIsShown
<1>5. version' \in [Content!Numbers -> {Null} \cup VersionRow]
  BY <1>1 DEF ContentInv, ContentType
<1> QED
  BY <1>1, <1>2, <1>3, <1>4, <1>5, WrittenKeeps DEF ContentInv, RevisionsNext

(* Every step of versioned content keeps its invariant. *)
LEMMA ContentStep ==
    ASSUME ContentInv, ContentNull, MaxContentVersions \in Nat \ {0}, [Content!Next]_contentvars
    PROVE  ContentInv'
<1>1. CASE UNCHANGED contentvars
  <2>1. \A o : Content!Sought(o)' = Content!Sought(o)
    BY <1>1 DEF contentvars, Content!Sought, Content!Editable
  <2>2. EditsFound'
    BY <1>1, <2>1 DEF contentvars, ContentInv, EditsFound
  <2> QED
    BY <1>1, <2>2 DEF contentvars, ContentInv, ContentType, Unwritten, NoGaps, RevisionsNext,
                      NoneOpen, LiveIsShown, OneIsOpen
<1>2. ASSUME NEW t \in Texts, Content!Create(t)
      PROVE  ContentInv'
  BY <1>2, CreateKeeps
<1>3. ASSUME NEW c \in Callers, NEW op \in {"update", "revise"}, NEW t \in Texts, Content!Begin(c, op, t)
      PROVE  ContentInv'
  BY <1>3, BeginKeeps
<1>4. ASSUME NEW c \in Callers, NEW op \in {"submit", "approve", "end"}, Content!Begin(c, op, Null)
      PROVE  ContentInv'
  BY <1>4, BeginKeeps
<1> QED
  BY <1>1, <1>2, <1>3, <1>4, UpdateKeeps, ReviseKeeps, SubmitKeeps, ApproveKeeps, RetireKeeps,
     ArchiveKeeps DEF Content!Next

(* The invariant, said version by version, is what OneLiveVersion says. *)
LEMMA ContentSafe ==
    ASSUME ContentInv, ContentNull
    PROVE  Content!OneLiveVersion
<1> SUFFICES ASSUME content # Null, ~outdated
             PROVE  Content!ShowsItsLiveVersion /\ Content!AtMostOneOpen
  BY DEF Content!OneLiveVersion
<1>1. content \in ContentRow /\ content.current \in Content!Numbers
  BY DEF ContentInv, ContentType, ContentRow
<1>2. Content!ShowsItsLiveVersion
  <2>1. ASSUME content.status = "live"
        PROVE  /\ Content!In({"live"}) = {content.current}
               /\ content.shown = version[content.current].text
    BY <1>1, <2>1 DEF ContentInv, LiveIsShown, Content!In
  <2>2. ASSUME content.status \notin {"live", "archived"}
        PROVE  Content!In({"live"}) = {}
    BY <2>2 DEF ContentInv, LiveIsShown, Content!In
  <2> QED
    BY <2>1, <2>2 DEF Content!ShowsItsLiveVersion
<1>3. Content!AtMostOneOpen
  BY DEF ContentInv, OneIsOpen, Open, Content!AtMostOneOpen, Content!In
<1> QED
  BY <1>2, <1>3

-----------------------------------------------------------------------------
(* Daily checks *)

ItemRow == [done : BOOLEAN, note : BOOLEAN, link : BOOLEAN, file : BOOLEAN]

ChecksConstants ==
    /\ Filling \subseteq Assigned /\ Callers # {} /\ IsFiniteSet(Items)
    /\ Null \notin InstanceRow \cup ItemCall \cup EvidenceCall \cup SubmitCall

GeneratorRun ==
    [stage : {"new", "next", "create", "success", "failed"}, left : SUBSET Assigned,
     user : Assigned \cup {Null}]

ChecksType ==
    /\ instance \in [Assigned -> {Null} \cup InstanceRow]
    /\ item \in [Assigned -> [Items -> ItemRow]]
    /\ editing \in [Callers -> {Null} \cup ItemCall \cup EvidenceCall \cup SubmitCall]
    /\ generating \in [Callers -> GeneratorRun]

Backed(i, row) == row.done => Checks!Evidenced(i, row.note, row.link, row.file)

ItemsAreBacked == \A u \in Assigned, i \in Items : Backed(i, item[u][i])

(* What a tab has checked still holds when it writes. *)
CallsAreBacked ==
    \A t \in Callers : editing[t] # Null =>
        /\ instance[editing[t].user] # Null
        /\ editing[t].op = "item" /\ editing[t].done =>
              Checks!Evidenced(editing[t].item, editing[t].note, editing[t].link,
                               item[editing[t].user][editing[t].item].file)

Everyone == \A u \in Assigned : instance[u] # Null

(* A run has left nobody out so far. *)
RunsLeaveNobodyOut ==
    /\ \A g \in Callers :
          /\ generating[g].stage \in {"next", "create"} =>
                \A u \in Assigned \ generating[g].left :
                    instance[u] # Null \/ (generating[g].stage = "create" /\ u = generating[g].user)
          /\ generating[g].stage = "create" => generating[g].user \in Assigned
          /\ generating[g].stage = "success" => Everyone
    /\ jobStatus = "success" => Everyone

(* One run can still come through: no other has created the checklist that *)
(* it is about to create.                                                  *)
OneComesThrough ==
    \E g \in Callers :
        \/ generating[g].stage \in {"new", "next", "success"}
        \/ generating[g].stage = "create" /\ instance[generating[g].user] = Null

ChecksInv ==
    ChecksType /\ ItemsAreBacked /\ CallsAreBacked /\ RunsLeaveNobodyOut /\ OneComesThrough

(* No checklist, nobody at work: the invariant of the daily checks holds. *)
LEMMA ChecksInit ==
    ASSUME Checks!Init, ChecksConstants
    PROVE  ChecksInv
<1> USE DEF Checks!Init
<1>1. Checks!NewItem \in ItemRow /\ Checks!NewItem.done = FALSE
  BY DEF Checks!NewItem, ItemRow
<1>2. Checks!AtRest("new") \in GeneratorRun /\ Checks!AtRest("new").stage = "new"
  BY DEF Checks!AtRest, GeneratorRun
<1>3. ChecksType
  BY <1>1, <1>2 DEF ChecksType
<1>4. ItemsAreBacked /\ CallsAreBacked
  BY <1>1 DEF ItemsAreBacked, CallsAreBacked, Backed
<1>5. RunsLeaveNobodyOut /\ OneComesThrough
  BY <1>2 DEF RunsLeaveNobodyOut, OneComesThrough, ChecksConstants
<1> QED
  BY <1>3, <1>4, <1>5 DEF ChecksInv

(* What calls of one kind keep. *)
LEMMA GeneratorsKeep ==
    ASSUME ChecksInv, generating' \in [Callers -> GeneratorRun],
           UNCHANGED <<requires, instance, item, editing>>, RunsLeaveNobodyOut', OneComesThrough'
    PROVE  ChecksInv'
<1>1. ChecksType'
  BY DEF ChecksInv, ChecksType
<1>2. \A i, note, link, doc :
        Checks!Evidenced(i, note, link, doc)' = Checks!Evidenced(i, note, link, doc)
  BY DEF Checks!Evidenced
<1>3. ItemsAreBacked' /\ CallsAreBacked'
  BY <1>2 DEF ChecksInv, ItemsAreBacked, CallsAreBacked, Backed
<1> QED
  BY <1>1, <1>3 DEF ChecksInv

(* A generator that starts has everyone left to look at (domain/daily-     *)
(* checks.ts:233-247).                                                     *)
LEMMA StartRunKeeps ==
    ASSUME ChecksInv, ChecksConstants, NEW g \in Callers, Checks!StartRun(g)
    PROVE  ChecksInv'
<1>1. PICK run : run = [stage |-> "next", left |-> Assigned, user |-> Null]
  OBVIOUS
<1>2. /\ generating' = [generating EXCEPT ![g] = run]
      /\ jobStatus' = "running"
      /\ UNCHANGED <<requires, instance, item, editing>>
  BY <1>1 DEF Checks!StartRun
<1>3. run \in GeneratorRun /\ run.stage = "next" /\ run.left = Assigned
  BY <1>1 DEF GeneratorRun
<1>4. /\ generating' \in [Callers -> GeneratorRun] /\ generating'[g] = run
      /\ \A h \in Callers : h # g => generating'[h] = generating[h]
  BY <1>2, <1>3 DEF ChecksInv, ChecksType
<1>5. RunsLeaveNobodyOut'
  BY <1>2, <1>3, <1>4 DEF ChecksInv, RunsLeaveNobodyOut, Everyone
<1>6. OneComesThrough'
  BY <1>3, <1>4 DEF OneComesThrough
<1> QED
  BY <1>2, <1>4, <1>5, <1>6, GeneratorsKeep

(* Looking a user up leaves the user out only if a checklist is there      *)
(* (:249-262).                                                             *)
LEMMA LookUpKeeps ==
    ASSUME ChecksInv, ChecksConstants, NEW g \in Callers, NEW u \in Assigned, Checks!LookUp(g, u)
    PROVE  ChecksInv'
<1>1. PICK old : old = generating[g]
  OBVIOUS
<1>2. PICK run : run = [old EXCEPT !.left = @ \ {u},
                                   !.stage = IF instance[u] = Null THEN "create" ELSE "next",
                                   !.user = IF instance[u] = Null THEN u ELSE Null]
  OBVIOUS
<1>3. /\ old.stage = "next" /\ old \in GeneratorRun
      /\ generating' = [generating EXCEPT ![g] = run]
      /\ UNCHANGED <<requires, instance, item, editing, jobStatus>>
  BY <1>1, <1>2 DEF Checks!LookUp, ChecksInv, ChecksType
<1>4. /\ run \in GeneratorRun
      /\ run.left = old.left \ {u}
      /\ run.stage = IF instance[u] = Null THEN "create" ELSE "next"
      /\ run.user = IF instance[u] = Null THEN u ELSE Null
  BY <1>2, <1>3 DEF GeneratorRun
<1>5. /\ generating' \in [Callers -> GeneratorRun] /\ generating'[g] = run
      /\ \A h \in Callers : h # g => generating'[h] = generating[h]
  BY <1>3, <1>4 DEF ChecksInv, ChecksType
<1>6. RunsLeaveNobodyOut'
  <2>1. \A v \in Assigned \ old.left : instance[v] # Null
    BY <1>1, <1>3 DEF ChecksInv, RunsLeaveNobodyOut
  <2>2. \A v \in Assigned \ run.left : instance[v] # Null \/ (run.stage = "create" /\ v = run.user)
    BY <1>4, <2>1
  <2> QED
    BY <1>3, <1>4, <1>5, <2>2 DEF ChecksInv, RunsLeaveNobodyOut, Everyone
<1>7. OneComesThrough'
  BY <1>3, <1>4, <1>5 DEF OneComesThrough
<1> QED
  BY <1>3, <1>5, <1>6, <1>7, GeneratorsKeep

(* A run may end in success when nobody is left, and fails only over a     *)
(* checklist that somebody else has created; then that one still comes     *)
(* through.                                                                *)
LEMMA RunEndsKeeps ==
    ASSUME ChecksInv, NEW g \in Callers, NEW stage \in {"success", "failed"},
           generating' = [generating EXCEPT ![g] = Checks!AtRest(stage)],
           jobStatus' = stage,
           UNCHANGED <<requires, instance, item, editing>>,
           stage = "success" => generating[g].stage = "next" /\ generating[g].left = {},
           stage = "failed" => generating[g].stage = "create" /\ instance[generating[g].user] # Null
    PROVE  ChecksInv'
<1>1. Checks!AtRest(stage) \in GeneratorRun /\ Checks!AtRest(stage).stage = stage
  BY DEF Checks!AtRest, GeneratorRun
<1>2. /\ generating' \in [Callers -> GeneratorRun] /\ generating'[g].stage = stage
      /\ \A h \in Callers : h # g => generating'[h] = generating[h]
  BY <1>1 DEF ChecksInv, ChecksType
<1>3. stage = "success" => Everyone
  BY DEF ChecksInv, RunsLeaveNobodyOut, Everyone
<1>4. Everyone' = Everyone
  BY DEF Everyone
<1>5. RunsLeaveNobodyOut'
  BY <1>2, <1>3, <1>4 DEF ChecksInv, RunsLeaveNobodyOut
<1>6. OneComesThrough'
  BY <1>2 DEF ChecksInv, OneComesThrough
<1> QED
  BY <1>2, <1>5, <1>6, GeneratorsKeep

(* Creating the checklist of a user takes from a rival at most what it has *)
(* done itself (domain/daily-checks.ts:263-272).                           *)
LEMMA CreateInstanceKeeps ==
    ASSUME ChecksInv, ChecksConstants, NEW g \in Callers, Checks!CreateInstance(g)
    PROVE  ChecksInv'
<1>1. PICK old : old = generating[g]
  OBVIOUS
<1>2. PICK run : run = [old EXCEPT !.stage = "next", !.user = Null]
  OBVIOUS
<1>3. PICK u : u = old.user
  OBVIOUS
<1>4. /\ old.stage = "create" /\ old \in GeneratorRun /\ u \in Assigned
      /\ instance[u] = Null
      /\ instance' = [instance EXCEPT ![u] = Checks!NewInstance]
      /\ item' = [item EXCEPT ![u] = [i \in Items |-> Checks!NewItem]]
      /\ generating' = [generating EXCEPT ![g] = run]
      /\ UNCHANGED <<requires, editing, jobStatus>>
  BY <1>1, <1>2, <1>3 DEF Checks!CreateInstance, ChecksInv, ChecksType, RunsLeaveNobodyOut
<1>5. run \in GeneratorRun /\ run.stage = "next" /\ run.left = old.left
  BY <1>2, <1>4 DEF GeneratorRun
<1>6. Checks!NewInstance \in InstanceRow /\ Checks!NewInstance # Null
  <2>1. Checks!NewInstance \in InstanceRow
    BY DEF Checks!NewInstance, InstanceRow
  <2> QED
    BY <2>1 DEF ChecksConstants
<1>7. Checks!NewItem \in ItemRow /\ Checks!NewItem.done = FALSE
  BY DEF Checks!NewItem, ItemRow
<1>8. /\ generating' \in [Callers -> GeneratorRun] /\ generating'[g] = run
      /\ \A h \in Callers : h # g => generating'[h] = generating[h]
  BY <1>4, <1>5 DEF ChecksInv, ChecksType
<1>9. /\ instance' \in [Assigned -> {Null} \cup InstanceRow]
      /\ instance'[u] # Null
      /\ \A v \in Assigned : v # u => instance'[v] = instance[v]
  BY <1>4, <1>6 DEF ChecksInv, ChecksType
<1>10. /\ item' \in [Assigned -> [Items -> ItemRow]]
       /\ \A i \in Items : item'[u][i].done = FALSE
       /\ \A v \in Assigned : v # u => item'[v] = item[v]
  BY <1>4, <1>7 DEF ChecksInv, ChecksType
<1>11. ChecksType'
  BY <1>4, <1>8, <1>9, <1>10 DEF ChecksInv, ChecksType
<1>12. \A i, note, link, doc :
        Checks!Evidenced(i, note, link, doc)' = Checks!Evidenced(i, note, link, doc)
  BY <1>4 DEF Checks!Evidenced
<1>13. ItemsAreBacked'
  BY <1>10, <1>12 DEF ChecksInv, ItemsAreBacked, Backed
<1>14. CallsAreBacked'
  <2>1. ASSUME NEW t \in Callers, editing[t] # Null
        PROVE  editing[t].user # u /\ editing[t].user \in Assigned
    <3>1. instance[editing[t].user] # Null
      BY <2>1 DEF ChecksInv, CallsAreBacked
    <3>2. editing[t] \in ItemCall \cup EvidenceCall \cup SubmitCall
      BY <2>1 DEF ChecksInv, ChecksType
    <3> QED
      BY <1>4, <3>1, <3>2 DEF ItemCall, EvidenceCall, SubmitCall, ChecksConstants
  <2> QED
    BY <1>4, <1>9, <1>10, <1>12, <2>1 DEF ChecksInv, CallsAreBacked
<1>15. RunsLeaveNobodyOut'
  <2>1. ASSUME NEW v \in Assigned, instance[v] # Null
        PROVE  instance'[v] # Null
    BY <1>9, <2>1
  <2>2. Everyone => Everyone'
    BY <2>1 DEF Everyone
  <2>3. \A v \in Assigned \ run.left : instance'[v] # Null
    BY <1>1, <1>3, <1>4, <1>5, <1>9 DEF ChecksInv, RunsLeaveNobodyOut
  <2> QED
    BY <1>4, <1>5, <1>8, <2>1, <2>2, <2>3 DEF ChecksInv, RunsLeaveNobodyOut
<1>16. OneComesThrough'
  BY <1>5, <1>8 DEF OneComesThrough
<1> QED
  BY <1>11, <1>13, <1>14, <1>15, <1>16 DEF ChecksInv

(* A tab begins or ends a call, or a checklist is written again. *)
LEMMA TabsKeep ==
    ASSUME ChecksInv, ChecksConstants,
           editing' \in [Callers -> {Null} \cup ItemCall \cup EvidenceCall \cup SubmitCall],
           item' \in [Assigned -> [Items -> ItemRow]],
           instance' \in [Assigned -> {Null} \cup InstanceRow],
           \A u \in Assigned : instance'[u] = Null <=> instance[u] = Null,
           UNCHANGED <<generating, jobStatus>>, ItemsAreBacked', CallsAreBacked'
    PROVE  ChecksInv'
<1>1. ChecksType'
  BY DEF ChecksInv, ChecksType
<1>2. Everyone' = Everyone
  BY DEF Everyone
<1>3. RunsLeaveNobodyOut'
  BY <1>2 DEF ChecksInv, RunsLeaveNobodyOut
<1>4. OneComesThrough'
  BY DEF ChecksInv, OneComesThrough, RunsLeaveNobodyOut
<1> QED
  BY <1>1, <1>3, <1>4 DEF ChecksInv

(* A call may begin on a checklist that is there, and with the evidence it *)
(* has checked.                                                            *)
LEMMA BeginsKeep ==
    ASSUME ChecksInv, ChecksConstants, NEW t \in Callers,
           NEW e \in ItemCall \cup EvidenceCall \cup SubmitCall,
           editing' = [editing EXCEPT ![t] = e],
           UNCHANGED <<requires, instance, item, generating, jobStatus>>,
           instance[e.user] # Null,
           e.op = "item" /\ e.done =>
               Checks!Evidenced(e.item, e.note, e.link, item[e.user][e.item].file)
    PROVE  ChecksInv'
<1>1. /\ editing' \in [Callers -> {Null} \cup ItemCall \cup EvidenceCall \cup SubmitCall]
      /\ editing'[t] = e
      /\ \A s \in Callers : s # t => editing'[s] = editing[s]
  BY DEF ChecksInv, ChecksType
<1>2. \A i, note, link, doc :
        Checks!Evidenced(i, note, link, doc)' = Checks!Evidenced(i, note, link, doc)
  BY DEF Checks!Evidenced
<1>3. ItemsAreBacked'
  BY <1>2 DEF ChecksInv, ItemsAreBacked, Backed
<1>4. CallsAreBacked'
  BY <1>1, <1>2 DEF ChecksInv, CallsAreBacked
<1> QED
  BY <1>1, <1>3, <1>4, TabsKeep DEF ChecksInv, ChecksType

(* A write may end a call if it leaves the items backed, removes no        *)
(* checklist and loses no file: what other tabs have checked holds still.  *)
LEMMA EndsKeep ==
    ASSUME ChecksInv, ChecksConstants, NEW t \in Callers, NEW op, Checks!Ends(t, op),
           item' \in [Assigned -> [Items -> ItemRow]],
           instance' \in [Assigned -> {Null} \cup InstanceRow],
           \A u \in Assigned : instance'[u] = Null <=> instance[u] = Null,
           ItemsAreBacked,
           \A u \in Assigned, i \in Items :
               /\ item[u][i].file => item'[u][i].file
               /\ Backed(i, item'[u][i])
    PROVE  ChecksInv'
<1>1. /\ editing' = [editing EXCEPT ![t] = Null]
      /\ UNCHANGED <<requires, generating, jobStatus>>
  BY DEF Checks!Ends
<1>2. /\ editing' \in [Callers -> {Null} \cup ItemCall \cup EvidenceCall \cup SubmitCall]
      /\ \A s \in Callers : editing'[s] # Null => editing'[s] = editing[s]
  BY <1>1 DEF ChecksInv, ChecksType
<1>3. \A i, note, link, doc :
        Checks!Evidenced(i, note, link, doc)' = Checks!Evidenced(i, note, link, doc)
  BY <1>1 DEF Checks!Evidenced
<1>4. ItemsAreBacked'
  BY <1>3 DEF ItemsAreBacked, Backed
<1>5. ASSUME NEW s \in Callers, editing'[s] # Null
      PROVE  /\ instance'[editing'[s].user] # Null
             /\ editing'[s].op = "item" /\ editing'[s].done =>
                   Checks!Evidenced(editing'[s].item, editing'[s].note, editing'[s].link,
                                    item'[editing'[s].user][editing'[s].item].file)
  <2>1. PICK e : e = editing[s]
    OBVIOUS
  <2>2. editing'[s] = e /\ e # Null /\ e \in ItemCall \cup EvidenceCall \cup SubmitCall
    BY <1>2, <1>5, <2>1 DEF ChecksInv, ChecksType
  <2>3. e.user \in Assigned /\ instance[e.user] # Null
    BY <2>1, <2>2 DEF ChecksInv, CallsAreBacked, ItemCall, EvidenceCall, SubmitCall, ChecksConstants
  <2>4. ASSUME e.op = "item", e.done
        PROVE  Checks!Evidenced(e.item, e.note, e.link, item'[e.user][e.item].file)
    <3>1. e.item \in Items
      BY <2>2, <2>4 DEF ItemCall, EvidenceCall, SubmitCall
    <3>2. Checks!Evidenced(e.item, e.note, e.link, item[e.user][e.item].file)
      BY <2>1, <2>2, <2>4 DEF ChecksInv, CallsAreBacked
    <3> QED
      BY <2>3, <3>1, <3>2 DEF Checks!Evidenced
  <2> QED
    BY <2>2, <2>3, <2>4
<1>6. CallsAreBacked'
  BY <1>3, <1>5 DEF CallsAreBacked
<1> QED
  BY <1>1, <1>2, <1>4, <1>6, TabsKeep

(* The check of completeChecklistItem is one that holds when it writes     *)
(* (domain/daily-checks.ts:109-128).                                       *)
LEMMA BeginItemKeeps ==
    ASSUME ChecksInv, ChecksConstants, NEW t \in Callers, NEW u \in Filling, NEW i \in Items,
           NEW done \in BOOLEAN, NEW note \in BOOLEAN, NEW link \in BOOLEAN,
           Checks!BeginItem(t, u, i, done, note, link)
    PROVE  ChecksInv'
<1>1. PICK e : e = [op |-> "item", user |-> u, item |-> i, done |-> done, note |-> note, link |-> link]
  OBVIOUS
<1>2. /\ e \in ItemCall /\ e.user = u /\ e.item = i /\ (e.done <=> done)
      /\ e.note = note /\ e.link = link
  BY <1>1 DEF ItemCall
<1>3. /\ instance[u] # Null
      /\ done => Checks!Evidenced(i, note, link, item[u][i].file)
      /\ editing' = [editing EXCEPT ![t] = e]
      /\ UNCHANGED <<requires, instance, item, generating, jobStatus>>
  BY <1>1 DEF Checks!BeginItem
<1> QED
  BY <1>2, <1>3, BeginsKeep

(* addChecklistItemEvidence begins on a checklist that is there            *)
(* (domain/daily-checks.ts:148-165).                                       *)
LEMMA BeginEvidenceKeeps ==
    ASSUME ChecksInv, ChecksConstants, NEW t \in Callers, NEW u \in Filling, NEW i \in Items,
           Checks!BeginEvidence(t, u, i)
    PROVE  ChecksInv'
<1>1. PICK e : e = [op |-> "evidence", user |-> u, item |-> i]
  OBVIOUS
<1>2. e \in EvidenceCall /\ e.user = u /\ e.op # "item"
  BY <1>1 DEF EvidenceCall
<1>3. /\ instance[u] # Null
      /\ editing' = [editing EXCEPT ![t] = e]
      /\ UNCHANGED <<requires, instance, item, generating, jobStatus>>
  BY <1>1 DEF Checks!BeginEvidence
<1> QED
  BY <1>2, <1>3, BeginsKeep

(* submitChecklistInstance begins on a checklist that is there             *)
(* (domain/daily-checks.ts:172-176).                                       *)
LEMMA BeginSubmitKeeps ==
    ASSUME ChecksInv, ChecksConstants, NEW t \in Callers, NEW u \in Filling, Checks!BeginSubmit(t, u)
    PROVE  ChecksInv'
<1>1. PICK count : count = Cardinality({i \in Items : item[u][i].done})
  OBVIOUS
<1>2. count \in Nat
  <2>1. {i \in Items : item[u][i].done} \subseteq Items
    OBVIOUS
  <2> QED
    BY <1>1, <2>1, FS_Subset, FS_CardinalityType DEF ChecksConstants
<1>3. PICK e : e = [op |-> "submit", user |-> u, count |-> count]
  OBVIOUS
<1>4. e \in SubmitCall /\ e.user = u /\ e.op # "item"
  BY <1>2, <1>3 DEF SubmitCall
<1>5. \A S : Checks!Cardinality(S) = Cardinality(S)
  BY DEF Checks!Cardinality, Cardinality
<1>6. /\ instance[u] # Null
      /\ editing' = [editing EXCEPT ![t] = [op |-> "submit", user |-> u,
                       count |-> Checks!Cardinality({i \in Items : item[u][i].done})]]
      /\ UNCHANGED <<requires, instance, item, generating, jobStatus>>
  BY DEF Checks!BeginSubmit
<1>7. editing' = [editing EXCEPT ![t] = e]
  BY <1>1, <1>3, <1>5, <1>6
<1> QED
  BY <1>4, <1>6, <1>7, BeginsKeep

(* An item is marked done with what its tab has checked, whatever files    *)
(* came meanwhile (domain/daily-checks.ts:130-140).                        *)
LEMMA CompleteItemKeeps ==
    ASSUME ChecksInv, ChecksConstants, NEW t \in Callers, Checks!CompleteItem(t)
    PROVE  ChecksInv'
<1>1. PICK e : e = editing[t]
  OBVIOUS
<1>2. /\ Checks!Ends(t, "item") /\ e # Null /\ e.op = "item"
      /\ item' = [item EXCEPT ![e.user][e.item] =
                    [done |-> e.done, note |-> e.note, link |-> e.link, file |-> @.file]]
      /\ instance' = instance
  BY <1>1 DEF Checks!CompleteItem, Checks!Ends
<1>3. e \in ItemCall /\ e.user \in Assigned /\ e.item \in Items
  BY <1>1, <1>2 DEF ChecksInv, ChecksType, ItemCall, EvidenceCall, SubmitCall, ChecksConstants
<1>4. item[e.user][e.item] \in ItemRow
  BY <1>3 DEF ChecksInv, ChecksType
<1>5. PICK row : row = [done |-> e.done, note |-> e.note, link |-> e.link,
                        file |-> item[e.user][e.item].file]
  OBVIOUS
<1>6. e.done \in BOOLEAN /\ e.note \in BOOLEAN /\ e.link \in BOOLEAN /\ item[e.user][e.item].file \in BOOLEAN
  BY <1>3, <1>4 DEF ItemCall, ItemRow
<1>7. /\ row \in ItemRow /\ row.done = e.done /\ row.note = e.note /\ row.link = e.link
      /\ row.file = item[e.user][e.item].file
  BY <1>5, <1>6 DEF ItemRow
<1>8. item' = [item EXCEPT ![e.user][e.item] = row]
  BY <1>2, <1>5
<1>9. /\ item' \in [Assigned -> [Items -> ItemRow]]
      /\ item'[e.user][e.item] = row
      /\ \A u \in Assigned, i \in Items : u # e.user \/ i # e.item => item'[u][i] = item[u][i]
  BY <1>3, <1>7, <1>8 DEF ChecksInv, ChecksType
<1>10. Backed(e.item, row)
  <2>1. e.done => Checks!Evidenced(e.item, e.note, e.link, item[e.user][e.item].file)
    BY <1>1, <1>2 DEF ChecksInv, CallsAreBacked
  <2> QED
    BY <1>7, <2>1 DEF Backed
<1>11. \A u \in Assigned, i \in Items : Backed(i, item'[u][i]) /\ (item[u][i].file => item'[u][i].file)
  <2> SUFFICES ASSUME NEW u \in Assigned, NEW i \in Items
               PROVE  Backed(i, item'[u][i]) /\ (item[u][i].file => item'[u][i].file)
    OBVIOUS
  <2>1. CASE u = e.user /\ i = e.item
    BY <1>7, <1>9, <1>10, <2>1
  <2>2. CASE u # e.user \/ i # e.item
    BY <1>9, <2>2 DEF ChecksInv, ItemsAreBacked
  <2> QED
    BY <2>1, <2>2
<1> QED
  BY <1>2, <1>9, <1>11, EndsKeep DEF ChecksInv, ChecksType

(* A file is attached and the item with it done: it is evidence itself     *)
(* (domain/daily-checks.ts:166-170).                                       *)
LEMMA AddEvidenceKeeps ==
    ASSUME ChecksInv, ChecksConstants, NEW t \in Callers, Checks!AddEvidence(t)
    PROVE  ChecksInv'
<1>1. PICK e : e = editing[t]
  OBVIOUS
<1>2. /\ Checks!Ends(t, "evidence") /\ e # Null /\ e.op = "evidence"
      /\ item' = [item EXCEPT ![e.user][e.item].file = TRUE]
      /\ instance' = instance
  BY <1>1 DEF Checks!AddEvidence, Checks!Ends
<1>3. e \in EvidenceCall /\ e.user \in Assigned /\ e.item \in Items
  BY <1>1, <1>2 DEF ChecksInv, ChecksType, ItemCall, EvidenceCall, SubmitCall, ChecksConstants
<1>4. PICK old : old = item[e.user][e.item]
  OBVIOUS
<1>5. PICK row : row = [old EXCEPT !.file = TRUE]
  OBVIOUS
<1>6. old \in ItemRow
  BY <1>3, <1>4 DEF ChecksInv, ChecksType
<1>7. /\ row \in ItemRow /\ row.done = old.done /\ row.note = old.note /\ row.link = old.link
      /\ row.file
  BY <1>5, <1>6 DEF ItemRow
<1>8. item' = [item EXCEPT ![e.user][e.item] = row]
  BY <1>2, <1>4, <1>5
<1>9. /\ item' \in [Assigned -> [Items -> ItemRow]]
      /\ item'[e.user][e.item] = row
      /\ \A u \in Assigned, i \in Items : u # e.user \/ i # e.item => item'[u][i] = item[u][i]
  BY <1>3, <1>7, <1>8 DEF ChecksInv, ChecksType
<1>10. Backed(e.item, old) => Backed(e.item, row)
  BY <1>7 DEF Backed, Checks!Evidenced
<1>11. \A u \in Assigned, i \in Items : Backed(i, item'[u][i]) /\ (item[u][i].file => item'[u][i].file)
  <2> SUFFICES ASSUME NEW u \in Assigned, NEW i \in Items
               PROVE  Backed(i, item'[u][i]) /\ (item[u][i].file => item'[u][i].file)
    OBVIOUS
  <2>1. CASE u = e.user /\ i = e.item
    BY <1>4, <1>7, <1>9, <1>10, <2>1 DEF ChecksInv, ItemsAreBacked
  <2>2. CASE u # e.user \/ i # e.item
    BY <1>9, <2>2 DEF ChecksInv, ItemsAreBacked
  <2> QED
    BY <2>1, <2>2
<1> QED
  BY <1>2, <1>9, <1>11, EndsKeep DEF ChecksInv, ChecksType

(* Handing a checklist in leaves its items alone (domain/daily-            *)
(* checks.ts:177-188).                                                     *)
LEMMA SubmitChecklistKeeps ==
    ASSUME ChecksInv, ChecksConstants, NEW t \in Callers, NEW late \in BOOLEAN, Checks!Submit(t, late)
    PROVE  ChecksInv'
<1>1. PICK e : e = editing[t]
  OBVIOUS
<1>2. PICK all : all = (e.count = Checks!Cardinality(Items))
  OBVIOUS
<1>3. PICK u : u = e.user
  OBVIOUS
<1>4. PICK row : row = [instance[u] EXCEPT
                          !.status = IF late THEN "late" ELSE IF all THEN "complete" ELSE "pending",
                          !.completed = all, !.score = e.count]
  OBVIOUS
<1>5. /\ Checks!Ends(t, "submit") /\ e # Null /\ e.op = "submit"
      /\ instance' = [instance EXCEPT ![u] = row]
      /\ item' = item
  BY <1>1, <1>2, <1>3, <1>4 DEF Checks!Submit, Checks!Ends
<1>6. e \in SubmitCall /\ u \in Assigned /\ instance[u] # Null /\ all \in BOOLEAN
  BY <1>1, <1>2, <1>3, <1>5 DEF ChecksInv, ChecksType, CallsAreBacked, ItemCall, EvidenceCall, SubmitCall, ChecksConstants
<1>7. instance[u] \in InstanceRow
  BY <1>6 DEF ChecksInv, ChecksType
<1>8. row \in InstanceRow
  BY <1>4, <1>6, <1>7 DEF InstanceRow, SubmitCall
<1>9. row # Null
  BY <1>8 DEF ChecksConstants
<1>10. /\ instance' \in [Assigned -> {Null} \cup InstanceRow]
       /\ \A v \in Assigned : instance'[v] = Null <=> instance[v] = Null
  BY <1>5, <1>6, <1>8, <1>9 DEF ChecksInv, ChecksType
<1>11. \A v \in Assigned, i \in Items : Backed(i, item'[v][i]) /\ (item[v][i].file => item'[v][i].file)
  BY <1>5 DEF ChecksInv, ItemsAreBacked
<1> QED
  BY <1>5, <1>10, <1>11, EndsKeep DEF ChecksInv, ChecksType

(* A manager's verification leaves the items alone (domain/daily-          *)
(* checks.ts:190-197).                                                     *)
LEMMA VerifyKeeps ==
    ASSUME ChecksInv, ChecksConstants, NEW u \in Filling, Checks!Verify(u)
    PROVE  ChecksInv'
<1>1. PICK row : row = [instance[u] EXCEPT !.verified = TRUE]
  OBVIOUS
<1>2. /\ instance[u] # Null /\ u \in Assigned
      /\ instance' = [instance EXCEPT ![u] = row]
      /\ UNCHANGED <<requires, editing, item, generating, jobStatus>>
  BY <1>1 DEF Checks!Verify, ChecksConstants
<1>3. row \in InstanceRow
  <2>1. instance[u] \in InstanceRow
    BY <1>2 DEF ChecksInv, ChecksType
  <2> QED
    BY <1>1, <2>1 DEF InstanceRow
<1>4. row # Null
  BY <1>3 DEF ChecksConstants
<1>5. /\ instance' \in [Assigned -> {Null} \cup InstanceRow]
      /\ \A v \in Assigned : instance'[v] = Null <=> instance[v] = Null
  BY <1>2, <1>3, <1>4 DEF ChecksInv, ChecksType
<1>6. \A i, note, link, doc :
        Checks!Evidenced(i, note, link, doc)' = Checks!Evidenced(i, note, link, doc)
  BY <1>2 DEF Checks!Evidenced
<1>7. ItemsAreBacked'
  BY <1>2, <1>6 DEF ChecksInv, ItemsAreBacked, Backed
<1>8. CallsAreBacked'
  <2>1. \A t \in Callers : editing[t] # Null => editing[t].user \in Assigned
    BY DEF ChecksInv, ChecksType, ItemCall, EvidenceCall, SubmitCall, ChecksConstants
  <2> QED
    BY <1>2, <1>5, <1>6, <2>1 DEF ChecksInv, CallsAreBacked
<1> QED
  BY <1>2, <1>5, <1>7, <1>8, TabsKeep DEF ChecksInv, ChecksType

(* Every step of the daily checks keeps their invariant. *)
LEMMA ChecksStep ==
    ASSUME ChecksInv, ChecksConstants, [Checks!Next]_checkvars
    PROVE  ChecksInv'
<1>1. CASE UNCHANGED checkvars
  <2>1. \A i, note, link, doc :
        Checks!Evidenced(i, note, link, doc)' = Checks!Evidenced(i, note, link, doc)
    BY <1>1 DEF Checks!Evidenced, checkvars
  <2>2. ItemsAreBacked' /\ CallsAreBacked'
    BY <1>1, <2>1 DEF checkvars, ChecksInv, ItemsAreBacked, CallsAreBacked, Backed
  <2> QED
    BY <1>1, <2>2, TabsKeep DEF checkvars, ChecksInv, ChecksType
<1>2. ASSUME NEW g \in Callers, Checks!Collide(g)
      PROVE  ChecksInv'
  BY <1>2, RunEndsKeeps DEF Checks!Collide
<1>3. ASSUME NEW g \in Callers, Checks!FinishRun(g)
      PROVE  ChecksInv'
  BY <1>3, RunEndsKeeps DEF Checks!FinishRun
<1>4. ASSUME NEW t \in Callers, Checks!LoseEvidence(t)
      PROVE  ChecksInv'
  BY <1>4, EndsKeep DEF Checks!LoseEvidence, ChecksInv, ChecksType, ItemsAreBacked
<1> QED
  BY <1>1, <1>2, <1>3, <1>4, StartRunKeeps, LookUpKeeps, CreateInstanceKeeps, BeginItemKeeps,
     BeginEvidenceKeeps, BeginSubmitKeeps, CompleteItemKeeps, AddEvidenceKeeps, SubmitChecklistKeeps,
     VerifyKeeps
  DEF Checks!Next

(* The invariant says what ChecksAreBacked says: with nobody outstanding   *)
(* after a success, and a run that can still come through while all are    *)
(* under way or have failed.                                               *)
LEMMA ChecksSafe ==
    ASSUME ChecksInv
    PROVE  Checks!ChecksAreBacked
<1>1. Checks!DoneItemsHaveEvidence
  BY DEF ChecksInv, ItemsAreBacked, Backed, Checks!DoneItemsHaveEvidence
<1>2. Checks!SuccessMeansAll
  BY DEF ChecksInv, RunsLeaveNobodyOut, Everyone, Checks!SuccessMeansAll
<1>3. Checks!NobodyStays
  BY DEF ChecksInv, OneComesThrough, Checks!NobodyStays
<1> QED
  BY <1>1, <1>2, <1>3 DEF Checks!ChecksAreBacked

-----------------------------------------------------------------------------
(* Reminders *)

RemindConstants == MaxDay \in Nat /\ MaxTerms \in Nat \ {0} /\ Thresholds \subseteq Nat

Row == [renewalDate : Remind!Dates, sent : SUBSET Thresholds, active : BOOLEAN]

Reading ==
    [stage : {"read", "told"}, row : Row, now : Remind!Dates, term : Remind!Terms, fresh : BOOLEAN]

RemindType ==
    /\ day \in Remind!Dates
    /\ subscription \in [renewalDate : Remind!Dates \cup {Null}, sent : SUBSET Thresholds,
                         active : BOOLEAN]
    /\ reminding \in [Callers -> {Remind!NotRunning} \cup Reading]
    /\ term \in Remind!Terms
    /\ told \in [Remind!Terms -> [Thresholds -> 0 .. 2]]
    /\ lateWrite \in BOOLEAN /\ crashed \in BOOLEAN /\ concurrent \in BOOLEAN

Idle(r) == reminding[r].stage = "idle"

(* The thresholds that a run finds reached, and the one it tells of. *)
Due(read) == Remind!Reached(read.row, read.now)
Urgent(read) == Remind!Smallest(Due(read))

Upward(S) == \A t \in S, u \in Thresholds : t <= u => u \in S

(* What a run has read is of its term, and current while it is fresh. *)
ReadsAreOfTheirTerm ==
    \A r \in Callers : ~Idle(r) =>
        /\ reminding[r].term <= term
        /\ reminding[r].fresh => reminding[r].row = subscription /\ reminding[r].term = term

NothingToldAhead ==
    \A n \in Remind!Terms, t \in Thresholds : n > term => told[n][t] = 0

TellersTold ==
    \A r \in Callers : reminding[r].stage = "told" =>
        /\ Due(reminding[r]) # {}
        /\ told[reminding[r].term][Urgent(reminding[r])] > 0

SentUpward ==
    /\ Upward(subscription.sent)
    /\ \A r \in Callers : ~Idle(r) => Upward(reminding[r].row.sent)

MarksAreTold ==
    ~lateWrite => \A t \in subscription.sent : \E u \in Thresholds : told[term][u] > 0 /\ u <= t

ToldAreMarked ==
    ~lateWrite /\ ~crashed => \A u \in Thresholds : told[term][u] > 0 =>
        \/ u \in subscription.sent
        \/ \E r \in Callers : /\ reminding[r].stage = "told" /\ reminding[r].term = term
                              /\ u = Urgent(reminding[r])

OneRuns ==
    ~concurrent => \A q, r \in Callers : q # r => Idle(q) \/ Idle(r)

(* What the only run knows of what was told. *)
KnowsWhatWasTold ==
    ~concurrent /\ ~crashed =>
        /\ \A r \in Callers, t \in Thresholds :
              ~Idle(r) /\ told[reminding[r].term][t] > 0 =>
                  \/ t \in reminding[r].row.sent
                  \/ reminding[r].stage = "told" /\ t \in Due(reminding[r])
        /\ \A r \in Callers, n \in Remind!Terms, t \in Thresholds :
              ~Idle(r) /\ n > reminding[r].term => told[n][t] = 0
        /\ \A t \in Thresholds : told[term][t] > 0 =>
              \/ t \in subscription.sent
              \/ \E r \in Callers : reminding[r].stage = "told" /\ reminding[r].term = term

ToldOnce ==
    ~concurrent /\ ~crashed => \A n \in Remind!Terms, t \in Thresholds : told[n][t] <= 1

RemindInv ==
    /\ RemindType /\ ReadsAreOfTheirTerm /\ NothingToldAhead /\ TellersTold /\ SentUpward
    /\ MarksAreTold /\ ToldAreMarked /\ OneRuns /\ KnowsWhatWasTold /\ ToldOnce

(* A subscription nobody has been reminded of: the invariant of the        *)
(* reminders holds.                                                        *)
LEMMA RemindInit ==
    ASSUME Remind!Init, RemindConstants
    PROVE  RemindInv
<1> USE DEF Remind!Init, Remind!NotRunning, RemindConstants
<1>1. RemindType
  <2>1. 0 \in Remind!Dates /\ 1 \in Remind!Terms
    BY DEF Remind!Dates, Remind!Terms
  <2>2. subscription \in [renewalDate : Remind!Dates \cup {Null}, sent : SUBSET Thresholds,
                         active : BOOLEAN]
    OBVIOUS
  <2>3. reminding \in [Callers -> {Remind!NotRunning} \cup Reading]
    OBVIOUS
  <2>4. told \in [Remind!Terms -> [Thresholds -> 0 .. 2]]
    OBVIOUS
  <2> QED
    BY <2>1, <2>2, <2>3, <2>4 DEF RemindType
<1>2. 1 \in Remind!Terms
  BY DEF Remind!Terms
<1>3. \A r \in Callers : Idle(r) /\ reminding[r].stage # "told"
  BY DEF Idle
<1>4. \A n \in Remind!Terms, t \in Thresholds : told[n][t] = 0
  OBVIOUS
<1>5. subscription.sent = {}
  OBVIOUS
<1> QED
  BY <1>1, <1>2, <1>3, <1>4, <1>5 DEF RemindInv, ReadsAreOfTheirTerm, NothingToldAhead, TellersTold,
     SentUpward, Upward, MarksAreTold, ToldAreMarked, OneRuns, KnowsWhatWasTold, ToldOnce

(* The smallest of some naturals is one of them and no greater than any. *)
LEMMA SmallestIs ==
    ASSUME NEW S, S \subseteq Nat, S # {}
    PROVE  Remind!Smallest(S) \in S /\ \A u \in S : Remind!Smallest(S) <= u
<1>1. \E t \in S : \A u \in S : t <= u
  BY LeastNatural
<1> QED
  BY <1>1 DEF Remind!Smallest

(* The thresholds that are reached are upward closed, and the one a run    *)
(* tells of is the smallest of them.                                       *)
LEMMA DueIs ==
    ASSUME RemindConstants, NEW read \in Reading
    PROVE  /\ Due(read) \subseteq Thresholds
           /\ Upward(Due(read))
           /\ Due(read) # {} => /\ Urgent(read) \in Due(read)
                                /\ \A u \in Due(read) : Urgent(read) <= u
<1>1. PICK left \in Int : left = read.row.renewalDate - read.now
  BY DEF Reading, Row, Remind!Dates, RemindConstants
<1>2. Due(read) = {t \in Thresholds : t >= left}
  BY <1>1 DEF Due, Remind!Reached, Remind!DaysLeft
<1>3. Upward(Due(read)) /\ Due(read) \subseteq Thresholds
  <2>1. ASSUME NEW t \in Due(read), NEW u \in Thresholds, t <= u
        PROVE  u \in Due(read)
    <3>1. t \in Nat /\ u \in Nat /\ t >= left
      BY <1>2, <2>1 DEF RemindConstants
    <3> QED
      BY <1>1, <1>2, <2>1, <3>1
  <2> QED
    BY <1>2, <2>1 DEF Upward
<1> QED
  BY <1>3, SmallestIs DEF Urgent, RemindConstants

(* A run that is not idle has read something. *)
LEMMA ReadingIs ==
    ASSUME RemindType, NEW r \in Callers
    PROVE  /\ reminding[r] \in Reading <=> ~Idle(r)
           /\ Idle(r) => reminding[r] = Remind!NotRunning
           /\ Idle(r) <=> reminding[r].stage \notin {"read", "told"}
<1>1. reminding[r] \in {Remind!NotRunning} \cup Reading
  BY DEF RemindType
<1> QED
  BY <1>1 DEF Idle, Reading, Remind!NotRunning

(* What a run reads is current (domain/subscriptions.ts:90-198). *)
LEMMA ListKeeps ==
    ASSUME RemindInv, RemindConstants, NEW r \in Callers, Remind!List(r)
    PROVE  RemindInv'
<1>1. /\ Idle(r) /\ subscription.renewalDate # Null
      /\ reminding' = [reminding EXCEPT ![r] =
                       [stage |-> "read", row |-> subscription, now |-> day,
                        term |-> term, fresh |-> TRUE]]
      /\ concurrent' = (concurrent \/ \E q \in Callers : ~Idle(q))
      /\ UNCHANGED <<day, subscription, term, told, lateWrite, crashed>>
  BY DEF Remind!List, Idle
<1>2. RemindType
  BY DEF RemindInv
<1>3. PICK read : read = [stage |-> "read", row |-> subscription, now |-> day,
                          term |-> term, fresh |-> TRUE]
  OBVIOUS
<1>4. subscription \in Row
  BY <1>1, <1>2 DEF RemindType, Row
<1>5. /\ read \in Reading /\ read.stage = "read" /\ read.row = subscription
      /\ read.term = term /\ read.fresh
  BY <1>2, <1>3, <1>4 DEF RemindType, Reading
<1>6. /\ reminding' \in [Callers -> {Remind!NotRunning} \cup Reading]
      /\ reminding'[r] = read
      /\ \A q \in Callers : q # r => reminding'[q] = reminding[q]
  BY <1>1, <1>2, <1>3, <1>5 DEF RemindType
<1>7. RemindType'
  BY <1>1, <1>2, <1>6 DEF RemindType
<1>8. term \in Nat /\ \A q \in Callers : ~Idle(q) => reminding[q].term \in Nat
  BY <1>2, ReadingIs DEF RemindType, Reading, Remind!Terms, RemindConstants
<1>9. ReadsAreOfTheirTerm' /\ NothingToldAhead' /\ TellersTold' /\ SentUpward'
  <2>1. ReadsAreOfTheirTerm'
    BY <1>1, <1>5, <1>6, <1>8 DEF RemindInv, ReadsAreOfTheirTerm, Idle
  <2>2. NothingToldAhead'
    BY <1>1 DEF RemindInv, NothingToldAhead
  <2>3. TellersTold'
    BY <1>1, <1>5, <1>6 DEF RemindInv, TellersTold
  <2>4. SentUpward'
    BY <1>1, <1>5, <1>6 DEF RemindInv, SentUpward, Idle
  <2> QED
    BY <2>1, <2>2, <2>3, <2>4
<1>10. MarksAreTold' /\ ToldAreMarked' /\ ToldOnce'
  <2>1. \A q \in Callers : reminding[q].stage = "told" => reminding'[q] = reminding[q]
    BY <1>1, <1>6 DEF Idle
  <2>2. MarksAreTold'
    BY <1>1 DEF RemindInv, MarksAreTold
  <2>3. ToldAreMarked'
    BY <1>1, <2>1 DEF RemindInv, ToldAreMarked
  <2>4. ToldOnce'
    BY <1>1 DEF RemindInv, ToldOnce
  <2> QED
    BY <2>2, <2>3, <2>4
<1>11. ASSUME ~concurrent'
       PROVE  ~concurrent /\ \A q \in Callers : q # r => Idle(q)' /\ Idle(q)
  BY <1>1, <1>6, <1>11 DEF Idle
<1>12. OneRuns'
  BY <1>11 DEF OneRuns
<1>13. KnowsWhatWasTold'
  <2> SUFFICES ASSUME ~concurrent', ~crashed'
               PROVE  /\ \A q \in Callers, t \in Thresholds :
                            ~Idle(q)' /\ told'[reminding'[q].term][t] > 0 =>
                                t \in reminding'[q].row.sent
                      /\ \A q \in Callers, n \in Remind!Terms, t \in Thresholds :
                            ~Idle(q)' /\ n > reminding'[q].term => told'[n][t] = 0
                      /\ \A t \in Thresholds : told'[term'][t] > 0 => t \in subscription'.sent
    BY DEF KnowsWhatWasTold
  <2>1. \A q \in Callers : Idle(q) /\ (~Idle(q)' => q = r)
    BY <1>1, <1>11
  <2>2. \A t \in Thresholds : told[term][t] > 0 => t \in subscription.sent
    BY <1>1, <1>11, <2>1 DEF RemindInv, KnowsWhatWasTold, Idle
  <2> QED
    BY <1>1, <1>5, <1>6, <2>1, <2>2 DEF RemindInv, NothingToldAhead
<1> QED
  BY <1>7, <1>9, <1>10, <1>12, <1>13 DEF RemindInv

(* A run tells of a threshold it has found reached and unmarked. *)
LEMMA RemindKeeps ==
    ASSUME RemindInv, RemindConstants, NEW r \in Callers, Remind!Remind(r)
    PROVE  RemindInv'
<1>1. PICK read : read = reminding[r]
  OBVIOUS
<1>2. PICK first : first = Urgent(read)
  OBVIOUS
<1>3. /\ read.stage = "read" /\ Remind!Unsent(r) # {}
      /\ told' = [told EXCEPT ![read.term][first] = IF @ = 0 THEN 1 ELSE 2]
      /\ reminding' = [reminding EXCEPT ![r].stage = "told"]
      /\ UNCHANGED <<day, subscription, term, lateWrite, crashed, concurrent>>
  BY <1>1, <1>2 DEF Remind!Remind, Urgent, Due
<1>4. RemindType
  BY DEF RemindInv
<1>5. read \in Reading /\ ~Idle(r)
  BY <1>1, <1>3, <1>4, ReadingIs
<1>6. /\ read.row \in Row /\ read.term \in Remind!Terms /\ read.term \in Nat
      /\ term \in Nat /\ read.term <= term
  BY <1>1, <1>4, <1>5 DEF Reading, RemindType, Remind!Terms, RemindConstants, RemindInv, ReadsAreOfTheirTerm
<1>7. \E t \in Due(read) : t \notin read.row.sent
  BY <1>1, <1>3 DEF Remind!Unsent, Due
<1>8. /\ first \in Due(read) /\ first \in Thresholds /\ Due(read) \subseteq Thresholds
      /\ \A u \in Due(read) : first <= u
  BY <1>2, <1>5, <1>7, DueIs
<1>9. first \notin read.row.sent
  BY <1>1, <1>5, <1>7, <1>8 DEF RemindInv, SentUpward, Upward
<1>10. PICK teller : teller = [read EXCEPT !.stage = "told"]
  OBVIOUS
<1>11. /\ teller \in Reading /\ teller.stage = "told" /\ teller.row = read.row
       /\ teller.now = read.now /\ teller.term = read.term /\ teller.fresh = read.fresh
  BY <1>5, <1>10 DEF Reading
<1>12. Due(teller) = Due(read) /\ Urgent(teller) = first
  BY <1>2, <1>11 DEF Due, Urgent
<1>13. /\ reminding' \in [Callers -> {Remind!NotRunning} \cup Reading]
       /\ reminding'[r] = teller
       /\ \A q \in Callers : q # r => reminding'[q] = reminding[q]
  BY <1>1, <1>3, <1>4, <1>10, <1>11 DEF RemindType
<1>14. \A q \in Callers : /\ Idle(q)' <=> Idle(q)
                          /\ reminding'[q].term = reminding[q].term
                          /\ reminding'[q].row = reminding[q].row
                          /\ reminding'[q].fresh = reminding[q].fresh
                          /\ Due(reminding'[q]) = Due(reminding[q])
  BY <1>1, <1>5, <1>11, <1>12, <1>13 DEF Idle
<1>15. /\ told' \in [Remind!Terms -> [Thresholds -> 0 .. 2]]
       /\ told'[read.term][first] = IF told[read.term][first] = 0 THEN 1 ELSE 2
       /\ \A n \in Remind!Terms, t \in Thresholds :
             n # read.term \/ t # first => told'[n][t] = told[n][t]
  BY <1>3, <1>4, <1>6, <1>8 DEF RemindType
<1>16. \A n \in Remind!Terms, t \in Thresholds :
          told'[n][t] > 0 <=> (told[n][t] > 0 \/ (n = read.term /\ t = first))
  BY <1>4, <1>15 DEF RemindType
<1>17. \A n \in Remind!Terms, t \in Thresholds : told[n][t] \in 0 .. 2 /\ told'[n][t] \in 0 .. 2
  BY <1>4, <1>15 DEF RemindType
<1>18. term \in Remind!Terms /\ term' = term
  BY <1>3, <1>4 DEF RemindType
<1>19. RemindType'
  BY <1>3, <1>4, <1>13, <1>15 DEF RemindType
<1>20. ReadsAreOfTheirTerm' /\ OneRuns'
  BY <1>3, <1>14 DEF RemindInv, ReadsAreOfTheirTerm, OneRuns
<1>21. NothingToldAhead'
  <2> SUFFICES ASSUME NEW n \in Remind!Terms, NEW t \in Thresholds, n > term
               PROVE  told'[n][t] = 0
    BY <1>18 DEF NothingToldAhead
  <2>1. n # read.term
    BY <1>6 DEF Remind!Terms, RemindConstants
  <2> QED
    BY <1>15, <2>1 DEF RemindInv, NothingToldAhead
<1>22. TellersTold'
  <2> SUFFICES ASSUME NEW q \in Callers, reminding'[q].stage = "told"
               PROVE  /\ Due(reminding'[q]) # {}
                      /\ told'[reminding'[q].term][Urgent(reminding'[q])] > 0
    BY DEF TellersTold
  <2>1. CASE q = r
    BY <1>6, <1>8, <1>11, <1>12, <1>13, <1>16, <2>1
  <2>2. CASE q # r
    <3>1. reminding'[q] = reminding[q] /\ reminding[q].stage = "told"
      BY <1>13, <2>2
    <3>2. reminding[q] \in Reading /\ reminding[q].term \in Remind!Terms
      BY <1>4, <3>1, ReadingIs DEF Reading
    <3>3. /\ Due(reminding[q]) # {}
          /\ told[reminding[q].term][Urgent(reminding[q])] > 0
          /\ Urgent(reminding[q]) \in Thresholds
      BY <3>1, <3>2, DueIs DEF RemindInv, TellersTold
    <3> QED
      BY <1>16, <3>1, <3>2, <3>3
  <2> QED
    BY <2>1, <2>2
<1>23. SentUpward'
  BY <1>3, <1>14 DEF RemindInv, SentUpward
<1>24. MarksAreTold'
  BY <1>3, <1>16, <1>18 DEF RemindInv, MarksAreTold
<1>25. ToldAreMarked'
  <2> SUFFICES ASSUME ~lateWrite, ~crashed, NEW u \in Thresholds, told'[term][u] > 0
               PROVE  \/ u \in subscription.sent
                      \/ \E q \in Callers : /\ reminding'[q].stage = "told" /\ reminding'[q].term = term
                                            /\ u = Urgent(reminding'[q])
    BY <1>3, <1>18 DEF ToldAreMarked
  <2>1. CASE term = read.term /\ u = first
    BY <1>11, <1>12, <1>13, <2>1
  <2>2. CASE told[term][u] > 0
    <3>1. CASE u \in subscription.sent
      BY <3>1
    <3>2. ASSUME NEW q \in Callers, reminding[q].stage = "told", reminding[q].term = term,
                 u = Urgent(reminding[q])
          PROVE  /\ reminding'[q].stage = "told" /\ reminding'[q].term = term
                 /\ u = Urgent(reminding'[q])
      BY <1>1, <1>3, <1>13, <3>2
    <3> QED
      BY <2>2, <3>1, <3>2 DEF RemindInv, ToldAreMarked
  <2> QED
    BY <1>16, <1>18, <2>1, <2>2
<1>26. ASSUME ~concurrent, ~crashed
       PROVE  /\ told[read.term][first] = 0
              /\ \A q \in Callers : q # r => Idle(q)
              /\ \A n \in Remind!Terms, t \in Thresholds : n > read.term => told[n][t] = 0
  <2>1. ~(told[read.term][first] > 0)
    BY <1>1, <1>3, <1>5, <1>8, <1>9, <1>26 DEF RemindInv, KnowsWhatWasTold
  <2>2. told[read.term][first] = 0
    BY <1>6, <1>8, <1>17, <2>1
  <2> QED
    BY <1>1, <1>5, <1>26, <2>2 DEF RemindInv, OneRuns, KnowsWhatWasTold
<1>27. KnowsWhatWasTold'
  <2> SUFFICES ASSUME ~concurrent, ~crashed
               PROVE  /\ \A q \in Callers, t \in Thresholds :
                            ~Idle(q)' /\ told'[reminding'[q].term][t] > 0 =>
                                \/ t \in reminding'[q].row.sent
                                \/ reminding'[q].stage = "told" /\ t \in Due(reminding'[q])
                      /\ \A q \in Callers, n \in Remind!Terms, t \in Thresholds :
                            ~Idle(q)' /\ n > reminding'[q].term => told'[n][t] = 0
                      /\ \A t \in Thresholds : told'[term][t] > 0 =>
                            \/ t \in subscription.sent
                            \/ \E q \in Callers : reminding'[q].stage = "told" /\ reminding'[q].term = term
    BY <1>3 DEF KnowsWhatWasTold
  <2>1. \A q \in Callers : ~Idle(q)' => q = r
    BY <1>14, <1>26
  <2>2. \A t \in Thresholds : told[read.term][t] > 0 => t \in read.row.sent
    BY <1>1, <1>3, <1>5 DEF RemindInv, KnowsWhatWasTold
  <2>3. \A t \in Thresholds : told'[read.term][t] > 0 =>
            t \in read.row.sent \/ t \in Due(read)
    BY <1>6, <1>8, <1>16, <2>2
  <2>4. \A n \in Remind!Terms, t \in Thresholds : n > read.term => told'[n][t] = 0
    BY <1>6, <1>15, <1>26 DEF Remind!Terms, RemindConstants
  <2>5. \A t \in Thresholds : told'[term][t] > 0 /\ term # read.term => t \in subscription.sent
    BY <1>6, <1>17, <1>18, <2>4
  <2> QED
    BY <1>11, <1>12, <1>13, <2>1, <2>3, <2>4, <2>5
<1>28. ToldOnce'
  <2> SUFFICES ASSUME ~concurrent, ~crashed, NEW n \in Remind!Terms, NEW t \in Thresholds
               PROVE  told'[n][t] <= 1
    BY <1>3 DEF ToldOnce
  <2>1. CASE n = read.term /\ t = first
    BY <1>15, <1>26, <2>1
  <2>2. CASE n # read.term \/ t # first
    BY <1>15, <2>2 DEF RemindInv, ToldOnce
  <2> QED
    BY <2>1, <2>2
<1> QED
  BY <1>19, <1>20, <1>21, <1>22, <1>23, <1>24, <1>25, <1>27, <1>28 DEF RemindInv

(* After a write of the row, what a run has read is what it was, but not   *)
(* fresh any more.                                                         *)
LEMMA OutdateIs ==
    ASSUME RemindType, NEW keep \in SUBSET Callers, reminding' = Remind!Outdate(keep)
    PROVE  /\ reminding' \in [Callers -> {Remind!NotRunning} \cup Reading]
           /\ \A q \in keep : Idle(q)'
           /\ \A q \in Callers \ keep :
                 /\ Idle(q)' <=> Idle(q)
                 /\ reminding'[q].stage = reminding[q].stage
                 /\ ~Idle(q) => /\ reminding'[q].row = reminding[q].row
                                /\ reminding'[q].term = reminding[q].term
                                /\ reminding'[q].fresh = FALSE
                                /\ Due(reminding'[q]) = Due(reminding[q])
                                /\ Urgent(reminding'[q]) = Urgent(reminding[q])
<1>1. ASSUME NEW q \in keep
      PROVE  reminding'[q] = Remind!NotRunning /\ Idle(q)'
  BY DEF Remind!Outdate, Idle, Remind!NotRunning
<1>2. ASSUME NEW q \in Callers \ keep
      PROVE  /\ reminding'[q] \in {Remind!NotRunning} \cup Reading
             /\ Idle(q)' <=> Idle(q)
             /\ reminding'[q].stage = reminding[q].stage
             /\ ~Idle(q) => /\ reminding'[q].row = reminding[q].row
                            /\ reminding'[q].term = reminding[q].term
                            /\ reminding'[q].fresh = FALSE
                            /\ Due(reminding'[q]) = Due(reminding[q])
                            /\ Urgent(reminding'[q]) = Urgent(reminding[q])
  <2>1. reminding[q] \in {Remind!NotRunning} \cup Reading
    BY DEF RemindType
  <2>2. CASE Idle(q)
    <3>1. reminding'[q] = reminding[q]
      BY <2>2 DEF Remind!Outdate, Idle
    <3> QED
      BY <2>1, <2>2, <3>1 DEF Idle
  <2>3. CASE ~Idle(q)
    <3>1. PICK read : read = reminding[q]
      OBVIOUS
    <3>2. reminding'[q] = [read EXCEPT !.fresh = FALSE] /\ read \in Reading
      BY <2>3, <3>1, ReadingIs DEF Remind!Outdate, Idle
    <3>3. /\ reminding'[q] \in Reading /\ reminding'[q].stage = read.stage
          /\ reminding'[q].row = read.row /\ reminding'[q].now = read.now
          /\ reminding'[q].term = read.term /\ reminding'[q].fresh = FALSE
      BY <3>2 DEF Reading
    <3> QED
      BY <3>1, <3>3 DEF Due, Urgent, Idle
  <2> QED
    BY <2>2, <2>3
<1>3. reminding' \in [Callers -> {Remind!NotRunning} \cup Reading]
  BY <1>1, <1>2 DEF Remind!Outdate
<1> QED
  BY <1>1, <1>2, <1>3

(* A run marks what it has told of, with what it found marked. *)
LEMMA MarkSentKeeps ==
    ASSUME RemindInv, RemindConstants, NEW r \in Callers, Remind!MarkSent(r)
    PROVE  RemindInv'
<1>1. PICK read : read = reminding[r]
  OBVIOUS
<1>2. /\ read.stage = "told"
      /\ subscription' = [subscription EXCEPT !.sent = read.row.sent \cup Due(read)]
      /\ lateWrite' = (lateWrite \/ ~read.fresh)
      /\ reminding' = Remind!Outdate({r})
      /\ UNCHANGED <<day, term, told, crashed, concurrent>>
  BY <1>1 DEF Remind!MarkSent, Due
<1>3. RemindType
  BY DEF RemindInv
<1>4. read \in Reading /\ ~Idle(r)
  BY <1>1, <1>2, <1>3, ReadingIs
<1>5. /\ read.row \in Row /\ read.row.sent \subseteq Thresholds /\ read.term \in Remind!Terms
      /\ term \in Nat /\ read.term \in Nat /\ read.term <= term
      /\ read.fresh \in BOOLEAN
      /\ read.fresh => read.row = subscription /\ read.term = term
  BY <1>1, <1>3, <1>4 DEF Reading, Row, RemindType, Remind!Terms, RemindConstants, RemindInv, ReadsAreOfTheirTerm
<1>6. /\ Due(read) \subseteq Thresholds /\ Upward(Due(read))
      /\ Urgent(read) \in Due(read)
      /\ \A u \in Due(read) : Urgent(read) <= u
      /\ told[read.term][Urgent(read)] > 0
  BY <1>1, <1>2, <1>4, DueIs DEF RemindInv, TellersTold
<1>7. PICK sent : sent = read.row.sent \cup Due(read)
  OBVIOUS
<1>8. /\ subscription' \in [renewalDate : Remind!Dates \cup {Null}, sent : SUBSET Thresholds,
                            active : BOOLEAN]
      /\ subscription'.sent = sent
  BY <1>2, <1>3, <1>5, <1>6, <1>7 DEF RemindType
<1>9. /\ reminding' \in [Callers -> {Remind!NotRunning} \cup Reading]
      /\ Idle(r)'
      /\ \A q \in Callers : q # r =>
            /\ Idle(q)' <=> Idle(q)
            /\ reminding'[q].stage = reminding[q].stage
            /\ ~Idle(q) => /\ reminding'[q].row = reminding[q].row
                           /\ reminding'[q].term = reminding[q].term
                           /\ reminding'[q].fresh = FALSE
                           /\ Due(reminding'[q]) = Due(reminding[q])
                           /\ Urgent(reminding'[q]) = Urgent(reminding[q])
  <2>1. PICK keep : keep = {r}
    OBVIOUS
  <2>2. keep \in SUBSET Callers /\ reminding' = Remind!Outdate(keep)
    BY <1>2, <2>1
  <2> QED
    BY <1>3, <2>1, <2>2, OutdateIs
<1>10. RemindType'
  BY <1>2, <1>3, <1>5, <1>8, <1>9 DEF RemindType
<1>11. ReadsAreOfTheirTerm' /\ NothingToldAhead' /\ OneRuns' /\ ToldOnce'
  BY <1>2, <1>9 DEF RemindInv, ReadsAreOfTheirTerm, NothingToldAhead, OneRuns, ToldOnce
<1>12. \A q \in Callers : reminding'[q].stage = "told" => q # r /\ ~Idle(q) /\ reminding[q].stage = "told"
  BY <1>9 DEF Idle
<1>13. TellersTold'
  BY <1>2, <1>9, <1>12 DEF RemindInv, TellersTold
<1>14. SentUpward'
  <2>1. Upward(sent)
    BY <1>1, <1>4, <1>6, <1>7 DEF RemindInv, SentUpward, Upward
  <2> QED
    BY <1>8, <1>9, <2>1 DEF RemindInv, SentUpward
<1>15. MarksAreTold'
  <2> SUFFICES ASSUME ~lateWrite', NEW t \in sent
               PROVE  \E u \in Thresholds : told[term][u] > 0 /\ u <= t
    BY <1>2, <1>8 DEF MarksAreTold
  <2>1. read.row = subscription /\ read.term = term /\ ~lateWrite
    BY <1>2, <1>5
  <2>2. CASE t \in Due(read)
    BY <1>6, <2>1, <2>2
  <2>3. CASE t \in subscription.sent
    BY <2>1, <2>3 DEF RemindInv, MarksAreTold
  <2> QED
    BY <1>7, <2>1, <2>2, <2>3
<1>16. ToldAreMarked'
  <2> SUFFICES ASSUME ~lateWrite', ~crashed, NEW u \in Thresholds, told[term][u] > 0
               PROVE  \/ u \in sent
                      \/ \E q \in Callers : /\ reminding'[q].stage = "told" /\ reminding'[q].term = term
                                            /\ u = Urgent(reminding'[q])
    BY <1>2, <1>8 DEF ToldAreMarked
  <2>1. read.row = subscription /\ read.term = term /\ ~lateWrite
    BY <1>2, <1>5
  <2>2. CASE u \in subscription.sent
    BY <1>7, <2>1, <2>2
  <2>3. ASSUME NEW q \in Callers, reminding[q].stage = "told", reminding[q].term = term,
               u = Urgent(reminding[q])
        PROVE  \/ u \in sent
               \/ /\ reminding'[q].stage = "told" /\ reminding'[q].term = term
                  /\ u = Urgent(reminding'[q])
    <3>1. CASE q = r
      BY <1>1, <1>6, <1>7, <2>3, <3>1
    <3>2. CASE q # r
      BY <1>9, <2>3, <3>2 DEF Idle
    <3> QED
      BY <3>1, <3>2
  <2> QED
    BY <2>1, <2>2, <2>3 DEF RemindInv, ToldAreMarked
<1>17. KnowsWhatWasTold'
  <2> SUFFICES ASSUME ~concurrent, ~crashed
               PROVE  /\ \A q \in Callers : Idle(q)'
                      /\ \A t \in Thresholds : told[term][t] > 0 => t \in sent
    BY <1>2, <1>8 DEF KnowsWhatWasTold
  <2>1. \A q \in Callers : Idle(q)'
    BY <1>4, <1>9 DEF RemindInv, OneRuns
  <2>2. ASSUME NEW t \in Thresholds, told[term][t] > 0
        PROVE  t \in sent
    <3>1. CASE read.term = term
      BY <1>1, <1>4, <1>7, <2>2, <3>1 DEF RemindInv, KnowsWhatWasTold
    <3>2. CASE read.term # term
      <4>1. term > read.term /\ term \in Remind!Terms
        BY <1>3, <1>5, <3>2 DEF RemindType
      <4>2. told[term][t] = 0
        BY <1>1, <1>4, <2>2, <4>1 DEF RemindInv, KnowsWhatWasTold
      <4> QED
        BY <2>2, <4>2
    <3> QED
      BY <3>1, <3>2
  <2> QED
    BY <2>1, <2>2
<1> QED
  BY <1>10, <1>11, <1>13, <1>14, <1>15, <1>16, <1>17 DEF RemindInv

(* A run that ends without a write: nothing to send, or its death. *)
LEMMA EndOfRunKeeps ==
    ASSUME RemindInv, RemindConstants, NEW r \in Callers,
           reminding' = [reminding EXCEPT ![r] = Remind!NotRunning],
           UNCHANGED <<day, subscription, term, told, lateWrite, concurrent>>,
           crashed' \in BOOLEAN,
           ~crashed' => ~crashed /\ reminding[r].stage # "told"
    PROVE  RemindInv'
<1>1. /\ reminding' \in [Callers -> {Remind!NotRunning} \cup Reading]
      /\ Idle(r)' /\ reminding'[r].stage # "told"
      /\ \A q \in Callers : q # r => reminding'[q] = reminding[q]
  BY DEF RemindInv, RemindType, Idle, Remind!NotRunning
<1>2. \A q \in Callers : q # r => (Idle(q)' <=> Idle(q))
  BY <1>1 DEF Idle
<1>3. RemindType'
  BY <1>1 DEF RemindInv, RemindType
<1>4. ReadsAreOfTheirTerm' /\ NothingToldAhead' /\ OneRuns' /\ ToldOnce'
  BY <1>1, <1>2 DEF RemindInv, ReadsAreOfTheirTerm, NothingToldAhead, OneRuns, ToldOnce
<1>5. TellersTold' /\ SentUpward' /\ MarksAreTold'
  BY <1>1, <1>2 DEF RemindInv, TellersTold, SentUpward, MarksAreTold
<1>6. ToldAreMarked'
  BY <1>1 DEF RemindInv, ToldAreMarked
<1>7. KnowsWhatWasTold'
  BY <1>1, <1>2 DEF RemindInv, KnowsWhatWasTold
<1> QED
  BY <1>3, <1>4, <1>5, <1>6, <1>7 DEF RemindInv

(* A change of the renewal date begins a term in which nothing is marked   *)
(* and nothing was told.                                                   *)
LEMMA RescheduleKeeps ==
    ASSUME RemindInv, RemindConstants, NEW date \in Remind!Dates \cup {Null}, NEW active \in BOOLEAN,
           Remind!Reschedule(date, active)
    PROVE  RemindInv'
<1>1. /\ term < MaxTerms
      /\ subscription' = [renewalDate |-> date, sent |-> {}, active |-> active]
      /\ term' = term + 1
      /\ reminding' = Remind!Outdate({})
      /\ UNCHANGED <<day, told, lateWrite, crashed, concurrent>>
  BY DEF Remind!Reschedule
<1>2. RemindType
  BY DEF RemindInv
<1>3. /\ reminding' \in [Callers -> {Remind!NotRunning} \cup Reading]
      /\ \A q \in Callers :
            /\ Idle(q)' <=> Idle(q)
            /\ reminding'[q].stage = reminding[q].stage
            /\ ~Idle(q) => /\ reminding'[q].row = reminding[q].row
                           /\ reminding'[q].term = reminding[q].term
                           /\ reminding'[q].fresh = FALSE
                           /\ Due(reminding'[q]) = Due(reminding[q])
                           /\ Urgent(reminding'[q]) = Urgent(reminding[q])
  <2>1. PICK keep : keep = {}
    OBVIOUS
  <2>2. keep \in SUBSET Callers /\ reminding' = Remind!Outdate(keep)
    BY <1>1, <2>1
  <2> QED
    BY <1>2, <2>1, <2>2, OutdateIs
<1>4. /\ term \in Remind!Terms /\ term \in Nat /\ term' \in Remind!Terms /\ term' > term
      /\ subscription'.sent = {}
      /\ \A n \in Remind!Terms : n > term' => n > term
      /\ \A q \in Callers : ~Idle(q) => reminding[q].term \in Nat
  BY <1>1, <1>2, ReadingIs DEF RemindType, Reading, Remind!Terms, RemindConstants
<1>5. RemindType'
  <2>1. subscription' \in [renewalDate : Remind!Dates \cup {Null}, sent : SUBSET Thresholds,
                           active : BOOLEAN]
    BY <1>1
  <2> QED
    BY <1>1, <1>2, <1>3, <1>4, <2>1 DEF RemindType
<1>6. \A t \in Thresholds : told[term'][t] = 0
  BY <1>4 DEF RemindInv, NothingToldAhead
<1>7. ReadsAreOfTheirTerm'
  BY <1>1, <1>3, <1>4 DEF RemindInv, ReadsAreOfTheirTerm
<1>8. NothingToldAhead' /\ OneRuns' /\ ToldOnce'
  BY <1>1, <1>3, <1>4 DEF RemindInv, NothingToldAhead, OneRuns, ToldOnce
<1>9. TellersTold'
  BY <1>1, <1>3 DEF RemindInv, TellersTold, Idle
<1>10. SentUpward' /\ MarksAreTold'
  BY <1>1, <1>3, <1>4 DEF RemindInv, SentUpward, MarksAreTold, Upward
<1>11. ToldAreMarked'
  BY <1>1, <1>6 DEF ToldAreMarked
<1>12. KnowsWhatWasTold'
  BY <1>1, <1>3, <1>6 DEF RemindInv, KnowsWhatWasTold
<1> QED
  BY <1>5, <1>7, <1>8, <1>9, <1>10, <1>11, <1>12 DEF RemindInv

(* A subscription that is cancelled keeps its marks. *)
LEMMA CancelKeeps ==
    ASSUME RemindInv, RemindConstants, Remind!CancelSubscription
    PROVE  RemindInv'
<1>1. /\ subscription' = [subscription EXCEPT !.active = FALSE]
      /\ reminding' = Remind!Outdate({})
      /\ UNCHANGED <<day, term, told, lateWrite, crashed, concurrent>>
  BY DEF Remind!CancelSubscription
<1>2. RemindType
  BY DEF RemindInv
<1>3. /\ reminding' \in [Callers -> {Remind!NotRunning} \cup Reading]
      /\ \A q \in Callers :
            /\ Idle(q)' <=> Idle(q)
            /\ reminding'[q].stage = reminding[q].stage
            /\ ~Idle(q) => /\ reminding'[q].row = reminding[q].row
                           /\ reminding'[q].term = reminding[q].term
                           /\ reminding'[q].fresh = FALSE
                           /\ Due(reminding'[q]) = Due(reminding[q])
                           /\ Urgent(reminding'[q]) = Urgent(reminding[q])
  <2>1. PICK keep : keep = {}
    OBVIOUS
  <2>2. keep \in SUBSET Callers /\ reminding' = Remind!Outdate(keep)
    BY <1>1, <2>1
  <2> QED
    BY <1>2, <2>1, <2>2, OutdateIs
<1>4. /\ subscription' \in [renewalDate : Remind!Dates \cup {Null}, sent : SUBSET Thresholds,
                            active : BOOLEAN]
      /\ subscription'.sent = subscription.sent
  BY <1>1, <1>2 DEF RemindType
<1>5. RemindType'
  BY <1>1, <1>2, <1>3, <1>4 DEF RemindType
<1>6. ReadsAreOfTheirTerm' /\ NothingToldAhead' /\ OneRuns' /\ ToldOnce'
  BY <1>1, <1>3 DEF RemindInv, ReadsAreOfTheirTerm, NothingToldAhead, OneRuns, ToldOnce
<1>7. TellersTold' /\ ToldAreMarked'
  BY <1>1, <1>3, <1>4 DEF RemindInv, TellersTold, ToldAreMarked, Idle
<1>8. SentUpward' /\ MarksAreTold'
  BY <1>1, <1>3, <1>4 DEF RemindInv, SentUpward, MarksAreTold
<1>9. KnowsWhatWasTold'
  BY <1>1, <1>3, <1>4 DEF RemindInv, KnowsWhatWasTold, Idle
<1> QED
  BY <1>5, <1>6, <1>7, <1>8, <1>9 DEF RemindInv

(* Every step of the reminders keeps their invariant. *)
LEMMA RemindStep ==
    ASSUME RemindInv, RemindConstants, [Remind!Next]_remindervars
    PROVE  RemindInv'
<1>1. ASSUME UNCHANGED <<subscription, reminding, term, told, lateWrite, crashed, concurrent>>,
             day' \in Remind!Dates
      PROVE  RemindInv'
  <2>1. RemindType'
    BY <1>1 DEF RemindInv, RemindType
  <2>2. \A q \in Callers : Idle(q)' = Idle(q)
    BY <1>1 DEF Idle
  <2>3. ReadsAreOfTheirTerm' /\ NothingToldAhead' /\ OneRuns' /\ ToldOnce'
    BY <1>1, <2>2 DEF RemindInv, ReadsAreOfTheirTerm, NothingToldAhead, OneRuns, ToldOnce
  <2>4. TellersTold' /\ ToldAreMarked' /\ SentUpward' /\ MarksAreTold'
    BY <1>1, <2>2 DEF RemindInv, TellersTold, ToldAreMarked, SentUpward, MarksAreTold
  <2>5. KnowsWhatWasTold'
    BY <1>1, <2>2 DEF RemindInv, KnowsWhatWasTold
  <2> QED
    BY <2>1, <2>3, <2>4, <2>5 DEF RemindInv
<1>2. CASE UNCHANGED remindervars
  BY <1>1, <1>2 DEF remindervars, RemindInv, RemindType
<1>3. CASE Remind!PassDay
  BY <1>1, <1>3 DEF Remind!PassDay, RemindInv, RemindType, Remind!Dates, RemindConstants
<1>4. ASSUME NEW r \in Callers, Remind!Skip(r)
      PROVE  RemindInv'
  BY <1>4, EndOfRunKeeps DEF Remind!Skip, RemindInv, RemindType
<1>5. ASSUME NEW r \in Callers, Remind!Crash(r)
      PROVE  RemindInv'
  BY <1>5, EndOfRunKeeps DEF Remind!Crash
<1>6. ASSUME NEW date \in Remind!Dates \cup {Null}, Remind!UpdateSubscription(date)
      PROVE  RemindInv'
  BY <1>6, RescheduleKeeps DEF Remind!UpdateSubscription, RemindInv, RemindType
<1>7. ASSUME NEW date \in Remind!Dates \cup {Null}, Remind!RenewSubscription(date)
      PROVE  RemindInv'
  BY <1>7, RescheduleKeeps DEF Remind!RenewSubscription
<1> QED
  BY <1>2, <1>3, <1>4, <1>5, <1>6, <1>7, ListKeeps, RemindKeeps, MarkSentKeeps, CancelKeeps
  DEF Remind!Next

(* The invariant has the parts of OncePerThreshold. *)
LEMMA RemindSafe ==
    ASSUME RemindInv
    PROVE  Remind!OncePerThreshold
<1>1. term \in Remind!Terms /\ subscription.sent \subseteq Thresholds
  BY DEF RemindInv, RemindType
<1>2. \A u : u \in Remind!Told(term) <=> u \in Thresholds /\ told[term][u] > 0
  BY DEF Remind!Told
<1>3. ~lateWrite => Remind!MarkedIsTold
  BY <1>2 DEF RemindInv, MarksAreTold, Remind!MarkedIsTold
<1>4. ~lateWrite /\ ~crashed => Remind!ToldIsMarked
  BY <1>2 DEF RemindInv, ToldAreMarked, Remind!ToldIsMarked
<1>5. ~concurrent /\ ~crashed => Remind!NeverTwice
  BY DEF RemindInv, ToldOnce, Remind!NeverTwice
<1> QED
  BY <1>3, <1>4, <1>5 DEF Remind!OncePerThreshold

-----------------------------------------------------------------------------
(* Versions of files *)

FileConstants ==
    /\ MaxKeys \in Nat /\ ScanLimit \in Nat
    /\ Null \notin FileRow \cup FileVersionRow \cup Upload \cup Bodies

FilesType ==
    /\ file \in {Null} \cup FileRow
    /\ fileVersion \in [1 .. MaxKeys -> {Null} \cup FileVersionRow]
    /\ blob \in [1 .. MaxKeys -> {Null} \cup Bodies]
    /\ issued \in 0 .. MaxKeys
    /\ uploads \in [Callers -> {Null} \cup Upload]
    /\ scan \in [step : {"idle", "scan"}, left : SUBSET (1 .. MaxKeys),
                 missing : SUBSET (1 .. MaxKeys), mismatch : SUBSET (1 .. MaxKeys),
                 before : SUBSET (1 .. MaxKeys)]
    /\ damaged \in SUBSET (1 .. MaxKeys)
    /\ unreachable \in BOOLEAN

(* What an upload has stored, and what it knows. *)
UploadStands(c) ==
    /\ uploads[c].key <= issued
    /\ uploads[c].step = "put" =>
          blob[uploads[c].key] = Null /\ uploads[c].key \notin damaged
    /\ uploads[c].step # "put" =>
          (uploads[c].key \in damaged <=> blob[uploads[c].key] # uploads[c].body)
    /\ uploads[c].step = "create" => uploads[c].first
    /\ uploads[c].step \in {"number", "commit"} => ~uploads[c].first
    /\ uploads[c].number \in 1 .. Files!Last + 1
    /\ uploads[c].first <=> file = Null
    /\ \A n \in Files!VersionNumbers : fileVersion[n].key # uploads[c].key
    /\ \A d \in Callers \ {c} :
          uploads[d] # Null => uploads[d].key # uploads[c].key /\ ~uploads[c].first

(* What a version stands for. *)
VersionStands(n) ==
    /\ fileVersion[n].key <= issued
    /\ fileVersion[n].key \in damaged <=>
          blob[fileVersion[n].key] # fileVersion[n].checksum
    /\ \A k \in Files!VersionNumbers \ {n} : fileVersion[k].key # fileVersion[n].key

BeforeDamaged == \A n \in scan.before : fileVersion[n].key \in damaged

ScanStands ==
    /\ BeforeDamaged
    /\ scan.left \cup Files!Reported \cup scan.before \subseteq Files!VersionNumbers
    /\ Files!ScanFindsDamage

FilesInv ==
    /\ FilesType
    /\ Files!Last \in 0 .. MaxKeys /\ Files!NumberedInOrder
    /\ file = Null => Files!Last = 0
    /\ \A k \in 1 .. MaxKeys : k > issued => blob[k] = Null /\ k \notin damaged
    /\ \A c \in Callers : uploads[c] # Null => UploadStands(c)
    /\ \A n \in Files!VersionNumbers : VersionStands(n)
    /\ ScanStands

(* The greatest of the numbers up to m is m. *)
LEMMA LastOfInterval ==
    ASSUME NEW m \in Nat
    PROVE  (IF 1 .. m = {} THEN 0
            ELSE CHOOSE n \in 1 .. m : \A k \in 1 .. m : n >= k) = m
<1>1. CASE m = 0
  <2>1. 1 .. m = {}
    BY <1>1
  <2> QED
    BY <1>1, <2>1
<1>2. CASE m # 0
  <2>1. m \in 1 .. m /\ 1 .. m # {}
    BY <1>2
  <2>2. \A k \in 1 .. m : m >= k
    OBVIOUS
  <2>3. \A n \in 1 .. m : (\A k \in 1 .. m : n >= k) => n = m
    BY <2>1
  <2>4. (CHOOSE n \in 1 .. m : \A k \in 1 .. m : n >= k) = m
    BY <2>1, <2>2, <2>3
  <2> QED
    BY <2>1, <2>4
<1> QED
  BY <1>1, <1>2

(* A key that no version has leaves room for one more. *)
LEMMA RoomForVersion ==
    ASSUME NEW N \in Nat, NEW m \in 0 .. N, NEW key \in 1 .. N,
           NEW f \in [1 .. m -> 1 .. N],
           \A n \in 1 .. m : f[n] # key,
           \A n, k \in 1 .. m : f[n] = f[k] => n = k
    PROVE  m < N
<1>1. f \in Injection(1 .. m, (1 .. N) \ {key})
  BY DEF Injection, IsInjective
<1>2. IsFiniteSet(1 .. N) /\ Cardinality(1 .. N) = N
  BY FS_Interval
<1>3. IsFiniteSet((1 .. N) \ {key}) /\ Cardinality((1 .. N) \ {key}) = N - 1
  BY <1>2, FS_RemoveElement
<1>4. Cardinality(1 .. m) = m
  BY FS_Interval
<1>5. Cardinality(1 .. m) <= Cardinality((1 .. N) \ {key})
  BY <1>1, <1>3, FS_Injection
<1> QED
  BY <1>3, <1>4, <1>5

(* An empty store and no rows: the invariant of the files holds. *)
LEMMA FilesInit ==
    ASSUME FileConstants, Files!Init
    PROVE  FilesInv
<1> USE DEF Files!Init
<1>1. FilesType
  <2>1. fileVersion \in [1 .. MaxKeys -> {Null} \cup FileVersionRow]
    BY DEF Files!Keys
  <2>2. blob \in [1 .. MaxKeys -> {Null} \cup Bodies]
    BY DEF Files!Keys
  <2>3. uploads \in [Callers -> {Null} \cup Upload]
    OBVIOUS
  <2>4. issued \in 0 .. MaxKeys
    BY DEF FileConstants
  <2> QED
    BY <2>1, <2>2, <2>3, <2>4 DEF FilesType
<1>2. Files!VersionNumbers = {}
  BY DEF Files!VersionNumbers, Files!Keys
<1>3. Files!Last = 0
  BY <1>2 DEF Files!Last
<1>4. Files!NumberedInOrder
  BY <1>2, <1>3 DEF Files!NumberedInOrder
<1>5. \A k \in 1 .. MaxKeys : blob[k] = Null /\ k \notin damaged
  BY DEF Files!Keys
<1>6. ScanStands
  BY <1>2 DEF ScanStands, Files!ScanFindsDamage, Files!Reported, BeforeDamaged
<1>7. Files!Last \in 0 .. MaxKeys
  BY <1>3 DEF FileConstants
<1> QED
  BY <1>1, <1>2, <1>3, <1>4, <1>5, <1>6, <1>7 DEF FilesInv

(* What leaves rows, objects and scans alone keeps what they stand for. *)
LEMMA SameVersions ==
    ASSUME UNCHANGED fileVersion
    PROVE  Files!VersionNumbers' = Files!VersionNumbers /\ Files!Last' = Files!Last
BY DEF Files!VersionNumbers, Files!Last

(* An upload begins with a key that nobody has                             *)
(* (lib/storage/index.ts:38-46).                                           *)
LEMMA BeginUploadKeeps ==
    ASSUME FileConstants, FilesInv, NEW c \in Callers, NEW first \in BOOLEAN, NEW body \in Bodies,
           Files!BeginUpload(c, first, body), first <=> file = Null,
           first => \A d \in Callers : uploads[d] = Null
    PROVE  FilesInv'
<1>0. FilesType /\ uploads[c] = Null
  BY DEF FilesInv, Files!BeginUpload
<1>1. PICK u : u = [step |-> "put", first |-> first, body |-> body,
                    key |-> issued + 1, number |-> 1]
  OBVIOUS
<1>2. /\ issued < MaxKeys /\ issued' = issued + 1
      /\ uploads' = [uploads EXCEPT ![c] = u]
      /\ UNCHANGED <<file, fileVersion, blob, scan, damaged, unreachable>>
  BY <1>1 DEF Files!BeginUpload
<1>3. issued + 1 \in 1 .. MaxKeys
  BY <1>0, <1>2 DEF FilesType, FileConstants
<1>4. u \in Upload
  BY <1>1, <1>3 DEF Upload
<1>5. FilesType'
  BY <1>0, <1>2, <1>3, <1>4 DEF FilesType, FileConstants
<1>6. Files!VersionNumbers' = Files!VersionNumbers /\ Files!Last' = Files!Last
  BY <1>2, SameVersions
<1>7. u # Null
  BY <1>4 DEF FileConstants
<1>8. UploadStands(c)'
  <2>1. uploads'[c] = u
    BY <1>0, <1>2 DEF FilesType
  <2>2. blob[issued + 1] = Null /\ issued + 1 \notin damaged
    BY <1>0, <1>3 DEF FilesInv, FilesType
  <2>3. \A n \in Files!VersionNumbers : fileVersion[n].key # issued + 1
    <3>1. \A n \in Files!VersionNumbers : fileVersion[n].key <= issued
      BY DEF FilesInv, VersionStands
    <3>2. \A n \in Files!VersionNumbers : fileVersion[n].key \in Nat
      BY <1>0 DEF FilesType, Files!VersionNumbers, Files!Keys, FileVersionRow
    <3> QED
      BY <1>0, <3>1, <3>2 DEF FilesType
  <2>4. \A d \in Callers \ {c} :
           uploads'[d] # Null => uploads'[d].key # issued + 1 /\ ~first
    <3>1. \A d \in Callers : uploads[d] # Null => uploads[d].key <= issued
      BY DEF FilesInv, UploadStands
    <3>2. \A d \in Callers : uploads[d] # Null => uploads[d].key \in Nat
      BY <1>0 DEF FilesType, Upload
    <3>3. \A d \in Callers \ {c} : uploads'[d] = uploads[d]
      BY <1>0, <1>2 DEF FilesType
    <3> QED
      BY <1>0, <3>1, <3>2, <3>3 DEF FilesType
  <2>5. 1 \in 1 .. Files!Last + 1
    BY DEF FilesInv
  <2> QED
    BY <1>1, <1>2, <1>6, <2>1, <2>2, <2>3, <2>4, <2>5, <1>0 DEF UploadStands, FilesType
<1>9. ASSUME NEW d \in Callers \ {c}, uploads'[d] # Null
      PROVE  UploadStands(d)'
  <2>1. uploads'[d] = uploads[d] /\ uploads'[c] = u
    BY <1>0, <1>2 DEF FilesType
  <2>2. UploadStands(d)
    BY <1>9, <2>1 DEF FilesInv
  <2>3. uploads[d].key <= issued + 1
    BY <1>0, <1>9, <2>1, <2>2 DEF UploadStands, FilesType, Upload
  <2>4. u.key # uploads[d].key
    BY <1>0, <1>1, <1>9, <2>1, <2>2 DEF UploadStands, FilesType, Upload
  <2>5. ~uploads[d].first
    BY <1>9, <2>1, <2>2 DEF UploadStands
  <2>6. \A e \in Callers \ {d} : uploads'[e] # Null =>
           uploads'[e].key # uploads[d].key
    <3>1. \A e \in Callers \ {c} : uploads'[e] = uploads[e]
      BY <1>0, <1>2 DEF FilesType
    <3> QED
      BY <2>1, <2>2, <2>4, <3>1 DEF UploadStands
  <2> QED
    BY <1>2, <1>6, <2>1, <2>2, <2>3, <2>5, <2>6 DEF UploadStands
<1>10. ASSUME NEW n \in Files!VersionNumbers'
       PROVE  VersionStands(n)'
  <2>1. VersionStands(n) /\ fileVersion[n] \in FileVersionRow
    BY <1>0, <1>6 DEF FilesInv, FilesType, Files!VersionNumbers, Files!Keys
  <2>2. fileVersion[n].key <= issued + 1
    BY <1>0, <2>1 DEF VersionStands, FileVersionRow, FilesType
  <2> QED
    BY <1>2, <1>6, <2>1, <2>2 DEF VersionStands
<1>11. ScanStands'
  BY <1>2, <1>6 DEF FilesInv, ScanStands, Files!ScanFindsDamage, Files!Reported, BeforeDamaged
<1>12. \A k \in 1 .. MaxKeys : k > issued' => blob'[k] = Null /\ k \notin damaged'
  BY <1>0, <1>2 DEF FilesInv, FilesType
<1>13. Files!NumberedInOrder'
  BY <1>2, <1>6 DEF FilesInv, Files!NumberedInOrder
<1>14. Files!Last' \in 0 .. MaxKeys /\ (file' = Null => Files!Last' = 0)
  BY <1>2, <1>6 DEF FilesInv
<1> QED
  BY <1>5, <1>8, <1>9, <1>10, <1>11, <1>12, <1>13, <1>14 DEF FilesInv

(* A step that changes one upload, which then stands, and nothing else. *)
LEMMA UploadKeeps ==
    ASSUME FileConstants, FilesInv, NEW c \in Callers, NEW u \in {Null} \cup Upload,
           uploads' = [uploads EXCEPT ![c] = u],
           UNCHANGED <<file, fileVersion, blob, issued, scan, damaged, unreachable>>,
           u # Null => UploadStands(c)'
    PROVE  FilesInv'
<1>0. FilesType
  BY DEF FilesInv
<1>1. FilesType'
  BY <1>0 DEF FilesType
<1>2. Files!VersionNumbers' = Files!VersionNumbers /\ Files!Last' = Files!Last
  BY SameVersions
<1>3. ASSUME NEW d \in Callers \ {c}, uploads'[d] # Null
      PROVE  UploadStands(d)'
  <2>1. uploads'[d] = uploads[d] /\ uploads'[c] = u
    BY <1>0 DEF FilesType
  <2>2. UploadStands(d)
    BY <1>3, <2>1 DEF FilesInv
  <2>3. \A e \in Callers \ {d} : uploads'[e] # Null =>
           uploads'[e].key # uploads[d].key /\ ~uploads[d].first
    <3>1. CASE u = Null
      <4>1. \A e \in Callers \ {d} : uploads'[e] # Null => uploads'[e] = uploads[e]
        BY <1>0, <2>1, <3>1 DEF FilesType
      <4> QED
        BY <2>2, <4>1 DEF UploadStands
    <3>2. CASE u # Null
      <4>1. uploads'[d].key # uploads'[c].key /\ ~uploads'[c].first
            /\ (uploads'[c].first <=> file' = Null)
        BY <1>3, <3>2 DEF UploadStands
      <4>2. ~uploads[d].first
        BY <2>2, <4>1 DEF UploadStands
      <4>3. \A e \in Callers \ {c} : uploads'[e] = uploads[e]
        BY <1>0 DEF FilesType
      <4> QED
        BY <2>1, <2>2, <4>1, <4>2, <4>3 DEF UploadStands
    <3> QED
      BY <3>1, <3>2
  <2> QED
    BY <1>2, <2>1, <2>2, <2>3 DEF UploadStands
<1>4. uploads'[c] # Null => UploadStands(c)'
  BY <1>0 DEF FilesType
<1>5. \A n \in Files!VersionNumbers' : VersionStands(n)'
  BY <1>2 DEF FilesInv, VersionStands
<1>6. ScanStands'
  BY <1>2 DEF FilesInv, ScanStands, Files!ScanFindsDamage, Files!Reported, BeforeDamaged
<1>7. Files!NumberedInOrder'
  BY <1>2 DEF FilesInv, Files!NumberedInOrder
<1> QED
  BY <1>1, <1>2, <1>3, <1>4, <1>5, <1>6, <1>7 DEF FilesInv

(* The number an upload computes is that of the next version or of one     *)
(* that is there (domain/files.ts:191-193).                                *)
LEMMA NumberVersionKeeps ==
    ASSUME FileConstants, FilesInv, NEW c \in Callers, Files!NumberVersion(c)
    PROVE  FilesInv'
<1>0. FilesType /\ uploads[c] # Null /\ uploads[c].step = "number"
  BY DEF FilesInv, Files!NumberVersion, Files!Uploading
<1>1. PICK u : u = [uploads[c] EXCEPT !.step = "commit", !.number = Files!Last + 1]
  OBVIOUS
<1>2. /\ uploads' = [uploads EXCEPT ![c] = u]
      /\ UNCHANGED <<file, fileVersion, blob, issued, scan, damaged, unreachable>>
  BY <1>0, <1>1 DEF Files!NumberVersion, FilesType
<1>3. uploads[c] \in Upload /\ Files!Last \in Nat
  BY <1>0 DEF FilesType, FilesInv
<1>4. u \in Upload
  <2>1. PICK m \in Nat : m = Files!Last + 1
    BY <1>3
  <2>2. u = [uploads[c] EXCEPT !.step = "commit", !.number = m]
    BY <1>1, <2>1
  <2> QED
    BY <1>3, <2>2 DEF Upload
<1>5. u.step = "commit" /\ u.number = Files!Last + 1
      /\ u.key = uploads[c].key /\ u.first = uploads[c].first /\ u.body = uploads[c].body
  BY <1>1, <1>3 DEF Upload
<1>6. uploads'[c] = u /\ \A d \in Callers \ {c} : uploads'[d] = uploads[d]
  BY <1>0, <1>2 DEF FilesType
<1>7. Files!VersionNumbers' = Files!VersionNumbers /\ Files!Last' = Files!Last
  BY <1>2, SameVersions
<1>8. UploadStands(c)
  BY <1>0 DEF FilesInv
<1>9. UploadStands(c)'
  BY <1>0, <1>2, <1>3, <1>5, <1>6, <1>7, <1>8 DEF UploadStands
<1> QED
  BY <1>2, <1>4, <1>9, UploadKeeps

(* An upload that stops leaves at most bytes without a row. *)
LEMMA StopUploadKeeps ==
    ASSUME FileConstants, FilesInv, NEW c \in Callers, Files!StopUpload(c)
    PROVE  FilesInv'
BY UploadKeeps DEF Files!StopUpload

(* Bytes are put under the upload's own key, of which no version knows     *)
(* (domain/files.ts:189).                                                  *)
LEMMA PutKeeps ==
    ASSUME FileConstants, FilesInv, NEW c \in Callers, Files!Put(c)
    PROVE  FilesInv'
<1>0. FilesType /\ uploads[c] # Null /\ uploads[c].step = "put" /\ UploadStands(c)
  BY DEF FilesInv, Files!Put, Files!Uploading
<1>1. PICK u : u = [uploads[c] EXCEPT !.step = IF uploads[c].first THEN "create" ELSE "number"]
  OBVIOUS
<1>2. /\ uploads' = [uploads EXCEPT ![c] = u]
      /\ blob' = [blob EXCEPT ![uploads[c].key] = uploads[c].body]
      /\ UNCHANGED <<file, fileVersion, issued, scan, damaged, unreachable>>
  BY <1>0, <1>1 DEF Files!Put, FilesType
<1>3. uploads[c] \in Upload
  BY <1>0 DEF FilesType
<1>4. u \in Upload
  <2>1. CASE uploads[c].first
    BY <1>1, <1>3, <2>1 DEF Upload
  <2>2. CASE ~uploads[c].first
    BY <1>1, <1>3, <2>2 DEF Upload
  <2> QED
    BY <2>1, <2>2
<1>5. /\ u.step = IF uploads[c].first THEN "create" ELSE "number"
      /\ u.key = uploads[c].key /\ u.first = uploads[c].first /\ u.body = uploads[c].body
      /\ u.number = uploads[c].number
  BY <1>1, <1>3 DEF Upload
<1>6. FilesType'
  BY <1>0, <1>2, <1>3, <1>4 DEF FilesType, Upload
<1>7. uploads'[c] = u /\ \A d \in Callers \ {c} : uploads'[d] = uploads[d]
  BY <1>0, <1>2 DEF FilesType
<1>8. Files!VersionNumbers' = Files!VersionNumbers /\ Files!Last' = Files!Last
  BY <1>2, SameVersions
<1>9. \A k \in 1 .. MaxKeys : k # u.key => blob'[k] = blob[k]
  BY <1>0, <1>2, <1>5 DEF FilesType
<1>10. blob'[u.key] = u.body
  BY <1>0, <1>2, <1>3, <1>5 DEF FilesType, Upload
<1>11. UploadStands(c)'
  <2>1. u.key \notin damaged
    BY <1>0, <1>5 DEF UploadStands
  <2>2. \A d \in Callers \ {c} :
          uploads'[d] # Null => uploads'[d].key # u.key /\ ~u.first
    BY <1>0, <1>5, <1>7 DEF UploadStands
  <2>3. u.step \in {"number", "create"} /\ (u.step = "create" <=> u.first)
    BY <1>3, <1>5 DEF Upload
  <2> QED
    BY <1>0, <1>2, <1>5, <1>7, <1>8, <1>10, <2>1, <2>2, <2>3 DEF UploadStands
<1>12. ASSUME NEW d \in Callers \ {c}, uploads'[d] # Null
       PROVE  UploadStands(d)'
  <2>1. UploadStands(d) /\ uploads'[d] = uploads[d] /\ uploads[d] \in Upload
    BY <1>0, <1>7, <1>12 DEF FilesInv, FilesType
  <2>2. uploads[d].key # u.key /\ uploads[d].key \in 1 .. MaxKeys
    BY <1>0, <1>5, <1>7, <1>12, <2>1 DEF UploadStands, Upload
  <2>3. blob'[uploads[d].key] = blob[uploads[d].key]
    BY <1>9, <2>2
  <2>4. \A e \in Callers \ {d} : uploads'[e] # Null =>
           uploads'[e].key # uploads[d].key /\ ~uploads[d].first
    BY <1>0, <1>5, <1>7, <2>1 DEF UploadStands
  <2> QED
    BY <1>2, <1>8, <2>1, <2>3, <2>4 DEF UploadStands
<1>13. ASSUME NEW n \in Files!VersionNumbers'
       PROVE  VersionStands(n)'
  <2>1. VersionStands(n) /\ fileVersion[n] \in FileVersionRow
    BY <1>0, <1>8 DEF FilesInv, FilesType, Files!VersionNumbers, Files!Keys
  <2>2. fileVersion[n].key # u.key /\ fileVersion[n].key \in 1 .. MaxKeys
    BY <1>0, <1>5, <1>8, <2>1 DEF UploadStands, FileVersionRow
  <2> QED
    BY <1>2, <1>8, <1>9, <2>1, <2>2 DEF VersionStands
<1>14. ScanStands'
  BY <1>2, <1>8 DEF FilesInv, ScanStands, Files!ScanFindsDamage, Files!Reported, BeforeDamaged
<1>15. \A k \in 1 .. MaxKeys : k > issued' => blob'[k] = Null /\ k \notin damaged'
  <2>1. u.key <= issued
    BY <1>0, <1>5 DEF UploadStands
  <2>2. \A k \in 1 .. MaxKeys : k > issued => k # u.key
    BY <1>0, <1>4, <2>1 DEF FilesType, Upload
  <2> QED
    BY <1>2, <1>9, <2>2 DEF FilesInv
<1>16. Files!NumberedInOrder'
  BY <1>2, <1>8 DEF FilesInv, Files!NumberedInOrder
<1>17. \A d \in Callers : uploads'[d] # Null => UploadStands(d)'
  BY <1>11, <1>12
<1>18. Files!Last' \in 0 .. MaxKeys /\ (file' = Null => Files!Last' = 0)
  BY <1>2, <1>8 DEF FilesInv
<1> QED
  BY <1>6, <1>13, <1>14, <1>15, <1>16, <1>17, <1>18 DEF FilesInv

(* A version created with the next number, from an upload that is done. *)
LEMMA CreateVersionKeeps ==
    ASSUME FileConstants, FilesInv, NEW c \in Callers, NEW archived \in BOOLEAN,
           uploads[c] # Null, uploads[c].step # "put",
           Files!CreateVersion(c, Files!Last + 1, archived),
           uploads' = [uploads EXCEPT ![c] = Null],
           UNCHANGED <<blob, issued, scan, damaged, unreachable>>
    PROVE  FilesInv'
<1>0. FilesType /\ UploadStands(c) /\ uploads[c] \in Upload /\ Files!Last \in Nat
  BY DEF FilesInv, FilesType
<1>1. PICK n : n = Files!Last + 1
  OBVIOUS
<1>2. PICK v : v = [key |-> uploads[c].key, checksum |-> uploads[c].body]
  OBVIOUS
<1>3. v \in FileVersionRow /\ v # Null
  BY <1>0, <1>2 DEF FileVersionRow, Upload, FileConstants
<1>4. Files!VersionNumbers = 1 .. Files!Last
  BY DEF FilesInv, Files!NumberedInOrder
<1>5. n \in 1 .. MaxKeys
  <2>1. PICK f \in [1 .. Files!Last -> 1 .. MaxKeys] :
          \A k \in 1 .. Files!Last : f[k] = fileVersion[k].key
    <3>1. \A k \in 1 .. Files!Last : fileVersion[k].key \in 1 .. MaxKeys
      BY <1>0, <1>4 DEF FilesType, FileVersionRow, Files!VersionNumbers, Files!Keys
    <3>2. [k \in 1 .. Files!Last |-> fileVersion[k].key] \in [1 .. Files!Last -> 1 .. MaxKeys]
      BY <3>1
    <3> QED
      BY <3>2
  <2>2. \A k \in 1 .. Files!Last : f[k] # uploads[c].key
    BY <1>0, <1>4, <2>1 DEF UploadStands
  <2>3. \A k, j \in 1 .. Files!Last : f[k] = f[j] => k = j
    BY <1>4, <2>1 DEF FilesInv, VersionStands
  <2>4. uploads[c].key \in 1 .. MaxKeys /\ Files!Last \in 0 .. MaxKeys
    BY <1>0 DEF Upload, FilesInv
  <2>5. Files!Last < MaxKeys
    BY <2>1, <2>2, <2>3, <2>4, RoomForVersion DEF FileConstants
  <2> QED
    BY <1>0, <1>1, <2>5 DEF FileConstants
<1>6. /\ fileVersion' = [fileVersion EXCEPT ![n] = v]
      /\ file' = [current |-> n, key |-> v.key, archived |-> archived]
  BY <1>1, <1>2 DEF Files!CreateVersion
<1>7. file' \in FileRow /\ file' # Null
  BY <1>3, <1>5, <1>6 DEF FileRow, FileVersionRow, FileConstants
<1>8. FilesType'
  BY <1>0, <1>3, <1>5, <1>6, <1>7 DEF FilesType
<1>9. fileVersion'[n] = v /\ \A k \in (1 .. MaxKeys) \ {n} : fileVersion'[k] = fileVersion[k]
  BY <1>0, <1>5, <1>6 DEF FilesType
<1>10. Files!VersionNumbers' = 1 .. n
  <2>1. Files!VersionNumbers' = {k \in 1 .. MaxKeys : fileVersion'[k] # Null}
    BY DEF Files!VersionNumbers, Files!Keys
  <2>2. \A k \in 1 .. MaxKeys : fileVersion[k] # Null <=> k \in 1 .. Files!Last
    BY <1>4 DEF Files!VersionNumbers, Files!Keys
  <2>3. \A k \in 1 .. MaxKeys : fileVersion'[k] # Null <=> k \in 1 .. n
    BY <1>0, <1>1, <1>3, <1>9, <2>2
  <2>4. 1 .. n \subseteq 1 .. MaxKeys
    BY <1>5 DEF FileConstants
  <2> QED
    BY <2>1, <2>3, <2>4
<1>11. Files!Last' = n
  <2>1. n \in Nat
    BY <1>0, <1>1
  <2> QED
    BY <1>10, <2>1, LastOfInterval DEF Files!Last
<1>12. \A d \in Callers : uploads'[d] # Null => d # c /\ uploads'[d] = uploads[d]
  BY <1>0 DEF FilesType
<1>13. ASSUME NEW d \in Callers, uploads'[d] # Null
       PROVE  UploadStands(d)'
  <2>1. UploadStands(d) /\ uploads[d] \in Upload /\ d # c /\ uploads'[d] = uploads[d]
    BY <1>0, <1>12, <1>13 DEF FilesInv, FilesType
  <2>2. ~uploads[c].first /\ ~uploads[d].first /\ uploads[d].key # v.key
    BY <1>0, <1>2, <1>13, <2>1 DEF UploadStands
  <2>3. uploads[d].number \in 1 .. n + 1
    BY <1>0, <1>1, <2>1 DEF UploadStands, Upload
  <2>4. \A k \in 1 .. n : fileVersion'[k].key # uploads[d].key
    <3>1. \A k \in 1 .. n : k = n \/ k \in 1 .. Files!Last
      BY <1>0, <1>1
    <3>2. \A k \in 1 .. Files!Last : fileVersion[k].key # uploads[d].key
      BY <1>4, <2>1 DEF UploadStands
    <3>3. \A k \in 1 .. Files!Last : k \in (1 .. MaxKeys) \ {n}
      BY <1>0, <1>1, <1>5 DEF FileConstants
    <3> QED
      BY <1>9, <2>2, <3>1, <3>2, <3>3
  <2>5. \A e \in Callers \ {d} : uploads'[e] # Null =>
           uploads'[e].key # uploads[d].key /\ ~uploads[d].first
    BY <1>12, <2>1 DEF UploadStands
  <2> QED
    BY <1>7, <1>10, <1>11, <2>1, <2>2, <2>3, <2>4, <2>5 DEF UploadStands
<1>14. ASSUME NEW k \in Files!VersionNumbers'
       PROVE  VersionStands(k)'
  <2>1. CASE k = n
    <3>1. \A j \in 1 .. n : j # n =>
             j \in Files!VersionNumbers /\ j \in (1 .. MaxKeys) \ {n}
      BY <1>0, <1>1, <1>4, <1>5 DEF FileConstants
    <3>2. \A j \in 1 .. n : j # n => fileVersion'[j].key # v.key
      BY <1>0, <1>2, <1>9, <3>1 DEF UploadStands
    <3>3. v.key <= issued /\ (v.key \in damaged <=> blob[v.key] # v.checksum)
      BY <1>0, <1>2 DEF UploadStands
    <3> QED
      BY <1>9, <1>10, <2>1, <3>2, <3>3 DEF VersionStands
  <2>2. CASE k # n
    <3>1. \A j \in 1 .. n : j # n => j \in Files!VersionNumbers /\ j \in (1 .. MaxKeys) \ {n}
      BY <1>0, <1>1, <1>4, <1>5 DEF FileConstants
    <3>2. fileVersion'[k] = fileVersion[k] /\ VersionStands(k) /\ fileVersion[k].key # v.key
      BY <1>0, <1>2, <1>9, <1>10, <2>2, <3>1 DEF FilesInv, UploadStands
    <3>3. \A j \in 1 .. n \ {k} : fileVersion'[j].key # fileVersion[k].key
      BY <1>9, <3>1, <3>2 DEF VersionStands
    <3> QED
      BY <1>10, <3>2, <3>3 DEF VersionStands
  <2> QED
    BY <2>1, <2>2
<1>15. Files!VersionNumbers \subseteq Files!VersionNumbers'
       /\ \A k \in Files!VersionNumbers : fileVersion'[k] = fileVersion[k]
  <2>1. \A k \in 1 .. Files!Last : k \in 1 .. n /\ k \in (1 .. MaxKeys) \ {n}
    BY <1>0, <1>1, <1>5 DEF FileConstants
  <2> QED
    BY <1>4, <1>9, <1>10, <2>1
<1>16. ScanStands'
  <2>1. Files!Reported \subseteq Files!VersionNumbers
    BY DEF FilesInv, ScanStands
  <2> QED
    BY <1>15, <2>1 DEF FilesInv, ScanStands, Files!ScanFindsDamage, Files!Reported, BeforeDamaged
<1>17. Files!NumberedInOrder'
  BY <1>6, <1>9, <1>10, <1>11 DEF Files!NumberedInOrder
<1>18. n \in 0 .. MaxKeys
  BY <1>5
<1> QED
  BY <1>7, <1>8, <1>11, <1>13, <1>14, <1>16, <1>17, <1>18 DEF FilesInv

(* The first version brings the file, with the bytes of its upload         *)
(* (domain/files.ts:147-165).                                              *)
LEMMA CreateFileKeeps ==
    ASSUME FileConstants, FilesInv, NEW c \in Callers, Files!CreateFile(c)
    PROVE  FilesInv'
<1>1. uploads[c] # Null /\ uploads[c].step = "create"
  BY DEF Files!CreateFile, Files!Uploading
<1>2. Files!Last = 0
  BY <1>1 DEF FilesInv, UploadStands
<1>3. Files!CreateVersion(c, Files!Last + 1, FALSE)
  <2>1. Files!Last + 1 = 1
    BY <1>2
  <2>2. Files!CreateVersion(c, 1, FALSE)
    BY DEF Files!CreateFile
  <2> QED
    BY <2>1, <2>2
<1> QED
  BY <1>1, <1>3, CreateVersionKeeps DEF Files!CreateFile

(* A version is committed under the number that was computed only if       *)
(* nobody else took it, and the file points at it                          *)
(* (domain/files.ts:194-205).                                              *)
LEMMA CommitVersionKeeps ==
    ASSUME FileConstants, FilesInv, NEW c \in Callers, Files!CommitVersion(c)
    PROVE  FilesInv'
<1>1. /\ uploads[c] # Null /\ uploads[c].step = "commit"
      /\ uploads' = [uploads EXCEPT ![c] = Null]
      /\ UNCHANGED <<blob, issued, scan, damaged, unreachable>>
  BY DEF Files!CommitVersion, Files!Uploading
<1>2. UploadStands(c) /\ file # Null /\ file.archived \in BOOLEAN
  BY <1>1 DEF FilesInv, FilesType, UploadStands, FileRow
<1>3. CASE fileVersion[uploads[c].number] = Null
  <2>1. Files!CreateVersion(c, uploads[c].number, file.archived)
    BY <1>3 DEF Files!CommitVersion
  <2>2. uploads[c].number = Files!Last + 1
    <3>1. uploads[c].number \notin 1 .. Files!Last
      BY <1>3 DEF FilesInv, Files!NumberedInOrder, Files!VersionNumbers
    <3> QED
      BY <1>2, <3>1 DEF UploadStands, FilesInv
  <2> QED
    BY <1>1, <1>2, <2>1, <2>2, CreateVersionKeeps
<1>4. CASE fileVersion[uploads[c].number] # Null
  <2>1. UNCHANGED <<file, fileVersion>>
    BY <1>4 DEF Files!CommitVersion
  <2> QED
    BY <1>1, <2>1, UploadKeeps
<1> QED
  BY <1>3, <1>4

(* Archiving and restoring touch no version (domain/files.ts:286-297). *)
LEMMA SetArchivedKeeps ==
    ASSUME FileConstants, FilesInv, NEW archived \in BOOLEAN, Files!SetArchived(archived)
    PROVE  FilesInv'
<1>0. FilesType /\ file \in FileRow
  BY DEF FilesInv, FilesType, Files!SetArchived
<1>1. /\ file' = [file EXCEPT !.archived = archived]
      /\ UNCHANGED <<fileVersion, blob, issued, uploads, scan, damaged, unreachable>>
  BY DEF Files!SetArchived
<1>2. file' \in FileRow /\ file' # Null /\ file # Null
  BY <1>0, <1>1 DEF FileRow, FileConstants
<1>3. file'.current = file.current /\ file'.key = file.key
  BY <1>0, <1>1 DEF FileRow
<1>4. FilesType'
  BY <1>0, <1>1, <1>2 DEF FilesType
<1>5. Files!VersionNumbers' = Files!VersionNumbers /\ Files!Last' = Files!Last
  BY <1>1, SameVersions
<1>6. \A c \in Callers : uploads'[c] # Null => UploadStands(c)'
  BY <1>1, <1>2, <1>5 DEF FilesInv, UploadStands
<1>7. \A n \in Files!VersionNumbers' : VersionStands(n)'
  BY <1>1, <1>5 DEF FilesInv, VersionStands
<1>8. ScanStands'
  BY <1>1, <1>5 DEF FilesInv, ScanStands, Files!ScanFindsDamage, Files!Reported, BeforeDamaged
<1>9. Files!NumberedInOrder'
  BY <1>1, <1>2, <1>3, <1>5 DEF FilesInv, Files!NumberedInOrder
<1> QED
  BY <1>1, <1>2, <1>4, <1>5, <1>6, <1>7, <1>8, <1>9 DEF FilesInv

(* A step of the scan alone. *)
LEMMA ScanKeeps ==
    ASSUME FileConstants, FilesInv,
           UNCHANGED <<file, fileVersion, blob, issued, uploads, damaged>>,
           FilesType', ScanStands'
    PROVE  FilesInv'
<1>1. Files!VersionNumbers' = Files!VersionNumbers /\ Files!Last' = Files!Last
  BY SameVersions
<1>2. \A c \in Callers : uploads'[c] # Null => UploadStands(c)'
  BY <1>1 DEF FilesInv, UploadStands
<1>3. \A n \in Files!VersionNumbers' : VersionStands(n)'
  BY <1>1 DEF FilesInv, VersionStands
<1>4. Files!NumberedInOrder'
  BY <1>1 DEF FilesInv, Files!NumberedInOrder
<1> QED
  BY <1>1, <1>2, <1>3, <1>4 DEF FilesInv

(* A scan takes on versions that are there (domain/storage-                *)
(* integrity.ts:37-43).                                                    *)
LEMMA StartScanKeeps ==
    ASSUME FileConstants, FilesInv, Files!StartScan
    PROVE  FilesInv'
<1>0. FilesType
  BY DEF FilesInv
<1>1. PICK latest : latest = {n \in Files!VersionNumbers : n + ScanLimit > Files!Last}
  OBVIOUS
<1>2. PICK before : before = {n \in latest : fileVersion[n].key \in damaged}
  OBVIOUS
<1>3. /\ scan' = [step |-> "scan", left |-> latest, missing |-> {}, mismatch |-> {},
                  before |-> before]
      /\ unreachable' = FALSE
      /\ UNCHANGED <<file, fileVersion, blob, issued, uploads, damaged>>
  BY <1>1, <1>2 DEF Files!StartScan
<1>4. latest \subseteq Files!VersionNumbers /\ before \subseteq latest
      /\ Files!VersionNumbers \subseteq 1 .. MaxKeys
  BY <1>1, <1>2 DEF Files!VersionNumbers, Files!Keys
<1>5. FilesType'
  BY <1>0, <1>3, <1>4 DEF FilesType
<1>6. Files!VersionNumbers' = Files!VersionNumbers
  BY <1>3, SameVersions
<1>7. Files!Reported' = {}
  BY <1>3 DEF Files!Reported
<1>8. ScanStands'
  BY <1>2, <1>3, <1>4, <1>6, <1>7 DEF ScanStands, Files!ScanFindsDamage, BeforeDamaged
<1> QED
  BY <1>3, <1>5, <1>8, ScanKeeps

(* A scan that ends leaves its report as it was (domain/storage-           *)
(* integrity.ts:54-62).                                                    *)
LEMMA EndScanKeeps ==
    ASSUME FileConstants, FilesInv, Files!EndScan
    PROVE  FilesInv'
<1>0. FilesType
  BY DEF FilesInv
<1>1. /\ scan' = [scan EXCEPT !.step = "idle"]
      /\ UNCHANGED <<file, fileVersion, blob, issued, uploads, damaged, unreachable>>
  BY DEF Files!EndScan
<1>2. FilesType'
  BY <1>0, <1>1 DEF FilesType
<1>3. scan'.left = scan.left /\ scan'.missing = scan.missing
      /\ scan'.mismatch = scan.mismatch /\ scan'.before = scan.before
  BY <1>0, <1>1 DEF FilesType
<1>4. Files!VersionNumbers' = Files!VersionNumbers
  BY <1>1, SameVersions
<1>5. ScanStands'
  BY <1>1, <1>3, <1>4 DEF FilesInv, ScanStands, Files!ScanFindsDamage, Files!Reported, BeforeDamaged
<1> QED
  BY <1>1, <1>2, <1>5, ScanKeeps

(* What a scan reports of a version is damage (domain/storage-             *)
(* integrity.ts:16-23).                                                    *)
LEMMA VerifyVersionKeeps ==
    ASSUME FileConstants, FilesInv, NEW n \in Files!VersionNumbers, Files!VerifyVersion(n)
    PROVE  FilesInv'
<1>0. FilesType /\ n \in 1 .. MaxKeys
  BY DEF FilesInv, Files!VersionNumbers, Files!Keys
<1>1. PICK v : v = fileVersion[n]
  OBVIOUS
<1>2. PICK missing \in SUBSET (1 .. MaxKeys) :
        missing = IF blob[v.key] = Null THEN scan.missing \cup {n} ELSE scan.missing
  BY <1>0 DEF FilesType
<1>3. PICK mismatch \in SUBSET (1 .. MaxKeys) :
        mismatch = IF blob[v.key] \notin {Null, v.checksum} THEN scan.mismatch \cup {n}
                                                           ELSE scan.mismatch
  BY <1>0 DEF FilesType
<1>4. scan' = [scan EXCEPT !.left = scan.left \ {n}, !.missing = missing, !.mismatch = mismatch]
      /\ UNCHANGED <<file, fileVersion, blob, issued, uploads, damaged, unreachable>>
  BY <1>0, <1>1, <1>2, <1>3 DEF Files!VerifyVersion, FilesType
<1>5. FilesType'
  BY <1>0, <1>4 DEF FilesType
<1>6. scan'.left = scan.left \ {n} /\ scan'.missing = missing
      /\ scan'.mismatch = mismatch /\ scan'.before = scan.before
  BY <1>0, <1>4 DEF FilesType
<1>7. Files!VersionNumbers' = Files!VersionNumbers
  BY <1>4, SameVersions
<1>8. v.key \in damaged <=> blob[v.key] # v.checksum
  BY <1>1 DEF FilesInv, VersionStands
<1>9. v.checksum # Null
  <2>1. v \in FileVersionRow
    BY <1>0, <1>1 DEF FilesType, Files!VersionNumbers
  <2> QED
    BY <2>1 DEF FileVersionRow, FileConstants
<1>10. Files!Reported' = IF v.key \in damaged THEN Files!Reported \cup {n} ELSE Files!Reported
  <2>1. CASE blob[v.key] = Null
    BY <1>2, <1>3, <1>6, <1>8, <1>9, <2>1 DEF Files!Reported
  <2>2. CASE blob[v.key] # Null /\ blob[v.key] # v.checksum
    BY <1>2, <1>3, <1>6, <1>8, <2>2 DEF Files!Reported
  <2>3. CASE blob[v.key] = v.checksum
    BY <1>2, <1>3, <1>6, <1>8, <1>9, <2>3 DEF Files!Reported
  <2> QED
    BY <2>1, <2>2, <2>3
<1>11. ScanStands'
  <2>1. scan'.left \cup Files!Reported' \cup scan'.before \subseteq Files!VersionNumbers
    BY <1>6, <1>10 DEF FilesInv, ScanStands
  <2>2. ~unreachable => \A k \in Files!Reported' : fileVersion[k].key \in damaged
    BY <1>1, <1>10 DEF FilesInv, ScanStands, Files!ScanFindsDamage
  <2>3. n \in scan.before => v.key \in damaged
    BY <1>1 DEF FilesInv, ScanStands, BeforeDamaged
  <2>4. scan'.before \subseteq Files!Reported' \cup scan'.left
    BY <1>6, <1>10, <2>3 DEF FilesInv, ScanStands, Files!ScanFindsDamage
  <2> QED
    BY <1>4, <1>6, <1>7, <2>1, <2>2, <2>4
    DEF FilesInv, ScanStands, Files!ScanFindsDamage, BeforeDamaged
<1> QED
  BY <1>4, <1>5, <1>11, ScanKeeps

(* A version that could not be reached is reported missing, and that the   *)
(* store was out of reach is remembered (domain/storage-                   *)
(* integrity.ts:44-52).                                                    *)
LEMMA VerifyFailsKeeps ==
    ASSUME FileConstants, FilesInv, NEW n \in Files!VersionNumbers, Files!VerifyFails(n)
    PROVE  FilesInv'
<1>0. FilesType /\ n \in 1 .. MaxKeys
  BY DEF FilesInv, Files!VersionNumbers, Files!Keys
<1>1. /\ scan' = [scan EXCEPT !.left = scan.left \ {n}, !.missing = scan.missing \cup {n}]
      /\ unreachable' = TRUE
      /\ UNCHANGED <<file, fileVersion, blob, issued, uploads, damaged>>
  BY DEF Files!VerifyFails
<1>2. FilesType'
  BY <1>0, <1>1 DEF FilesType
<1>3. scan'.left = scan.left \ {n} /\ scan'.missing = scan.missing \cup {n}
      /\ scan'.mismatch = scan.mismatch /\ scan'.before = scan.before
  BY <1>0, <1>1 DEF FilesType
<1>4. Files!VersionNumbers' = Files!VersionNumbers
  BY <1>1, SameVersions
<1>5. Files!Reported' = Files!Reported \cup {n}
  BY <1>3 DEF Files!Reported
<1>6. ScanStands'
  <2>1. scan'.left \cup Files!Reported' \cup scan'.before \subseteq Files!VersionNumbers
    BY <1>3, <1>5 DEF FilesInv, ScanStands
  <2>2. scan'.before \subseteq Files!Reported' \cup scan'.left
    BY <1>3, <1>5 DEF FilesInv, ScanStands, Files!ScanFindsDamage
  <2>3. BeforeDamaged'
    BY <1>1, <1>3 DEF FilesInv, ScanStands, BeforeDamaged
  <2> QED
    BY <1>1, <1>4, <2>1, <2>2, <2>3 DEF ScanStands, Files!ScanFindsDamage
<1> QED
  BY <1>1, <1>2, <1>6, ScanKeeps

(* Damage to the bytes under a key is remembered as such. *)
LEMMA DamageKeeps ==
    ASSUME FileConstants, FilesInv, NEW k \in 1 .. MaxKeys, NEW rest \in Bodies \cup {Null},
           Files!Damage(k, rest)
    PROVE  FilesInv'
<1>0. FilesType
  BY DEF FilesInv
<1>1. /\ damaged = {} /\ blob[k] # Null /\ rest # blob[k]
      /\ blob' = [blob EXCEPT ![k] = rest]
      /\ damaged' = {k}
      /\ UNCHANGED <<file, fileVersion, issued, uploads, scan, unreachable>>
  BY DEF Files!Damage
<1>2. FilesType'
  BY <1>0, <1>1 DEF FilesType
<1>3. Files!VersionNumbers' = Files!VersionNumbers /\ Files!Last' = Files!Last
  BY <1>1, SameVersions
<1>4. blob'[k] = rest /\ \A j \in (1 .. MaxKeys) \ {k} : blob'[j] = blob[j]
  BY <1>0, <1>1 DEF FilesType
<1>5. ASSUME NEW c \in Callers, uploads'[c] # Null
      PROVE  UploadStands(c)'
  <2>1. UploadStands(c) /\ uploads[c] \in Upload
    BY <1>0, <1>1, <1>5 DEF FilesInv, FilesType
  <2>2. uploads[c].key \in 1 .. MaxKeys
    BY <2>1 DEF Upload
  <2>3. uploads[c].step = "put" =>
           blob'[uploads[c].key] = Null /\ uploads[c].key \notin damaged'
    BY <1>1, <1>4, <2>1, <2>2 DEF UploadStands
  <2>4. uploads[c].step # "put" =>
           (uploads[c].key \in damaged' <=> blob'[uploads[c].key] # uploads[c].body)
    BY <1>1, <1>4, <2>1, <2>2 DEF UploadStands
  <2> QED
    BY <1>1, <1>3, <2>1, <2>3, <2>4 DEF UploadStands
<1>6. ASSUME NEW n \in Files!VersionNumbers'
      PROVE  VersionStands(n)'
  <2>1. VersionStands(n) /\ fileVersion[n] \in FileVersionRow
    BY <1>0, <1>3 DEF FilesInv, FilesType, Files!VersionNumbers, Files!Keys
  <2>2. fileVersion[n].key \in 1 .. MaxKeys
    BY <2>1 DEF FileVersionRow
  <2>3. fileVersion[n].key \in damaged' <=> blob'[fileVersion[n].key] # fileVersion[n].checksum
    BY <1>1, <1>4, <2>1, <2>2 DEF VersionStands
  <2> QED
    BY <1>1, <1>3, <2>1, <2>3 DEF VersionStands
<1>7. ScanStands'
  BY <1>1, <1>3 DEF FilesInv, ScanStands, Files!ScanFindsDamage, Files!Reported, BeforeDamaged
<1>8. Files!NumberedInOrder'
  BY <1>1, <1>3 DEF FilesInv, Files!NumberedInOrder
<1>9. \A j \in 1 .. MaxKeys : j > issued' => blob'[j] = Null /\ j \notin damaged'
  BY <1>1, <1>4 DEF FilesInv
<1> QED
  BY <1>1, <1>2, <1>3, <1>5, <1>6, <1>7, <1>8, <1>9 DEF FilesInv

(* Every step of the files keeps their invariant. *)
LEMMA FilesStep ==
    ASSUME FileConstants, FilesInv, [Files!Next]_filevars
    PROVE  FilesInv'
<1>1. CASE UNCHANGED filevars
  <2>1. UNCHANGED <<file, fileVersion, blob, issued, uploads, scan, damaged, unreachable>>
    BY <1>1 DEF filevars
  <2>2. FilesType' /\ ScanStands'
    BY <2>1, SameVersions DEF FilesInv, FilesType, ScanStands, Files!ScanFindsDamage,
          Files!Reported, BeforeDamaged
  <2> QED
    BY <2>1, <2>2, ScanKeeps
<1>2. ASSUME NEW c \in Callers, NEW body \in Bodies, Files!UploadFile(c, body)
      PROVE  FilesInv'
  BY <1>2, BeginUploadKeeps DEF Files!UploadFile
<1>3. ASSUME NEW c \in Callers, NEW body \in Bodies, Files!AddFileVersion(c, body)
      PROVE  FilesInv'
  BY <1>3, BeginUploadKeeps DEF Files!AddFileVersion
<1> QED
  BY <1>1, <1>2, <1>3, PutKeeps, StopUploadKeeps, CreateFileKeeps, NumberVersionKeeps,
     CommitVersionKeeps, SetArchivedKeeps, StartScanKeeps, EndScanKeeps, VerifyVersionKeeps,
     VerifyFailsKeeps, DamageKeeps
  DEF Files!Next, Files!Keys

(* The invariant has the parts of VersionsAreBacked. *)
LEMMA FilesSafe ==
    ASSUME FilesInv
    PROVE  Files!VersionsAreBacked
<1>1. Files!BytesAreThere
  BY DEF FilesInv, VersionStands, Files!BytesAreThere
<1> QED
  BY <1>1 DEF FilesInv, ScanStands, Files!VersionsAreBacked

-----------------------------------------------------------------------------
(* Recurring posts *)

PlannedItem == [day : Recur!Elsewhere .. Days, status : {"idea", "approved"}]

(* The days of the items have an item each as far as a generator has come. *)
FilledUpTo(p, n) == \A d \in 1 .. n : \E k \in DOMAIN p : p[k].day = d

RecurType ==
    /\ planned \in Seq(PlannedItem)
    /\ generator \in [Callers -> [at : {"rest", "look", "create"}, day : 1 .. Days]]
    /\ \A g \in Callers : generator[g].at = "rest" => generator[g].day = 1
    /\ together \in BOOLEAN /\ moved \in BOOLEAN /\ covered \in BOOLEAN

OneGenerates ==
    ~together => \A g, h \in Callers :
        g # h => generator[g].at = "rest" \/ generator[h].at = "rest"

CoveredSoFar ==
    ~moved => /\ \A g \in Callers : generator[g].at # "rest" => FilledUpTo(planned, generator[g].day - 1)
              /\ covered => FilledUpTo(planned, Days)

OneItemADay ==
    ~moved /\ ~together =>
        /\ \A j, k \in DOMAIN planned : planned[j].day = planned[k].day => j = k
        /\ \A g \in Callers : generator[g].at = "create" =>
              \A k \in DOMAIN planned : planned[k].day # generator[g].day

RecurInv == RecurType /\ OneGenerates /\ CoveredSoFar /\ OneItemADay

(* A recurrence without items: its invariant holds. *)
LEMMA RecurInit ==
    ASSUME Recur!Init, Days \in Nat \ {0}
    PROVE  RecurInv
<1> USE DEF Recur!Init, Recur!Resting
<1>1. RecurType
  <2>1. planned \in Seq(PlannedItem)
    OBVIOUS
  <2>2. generator \in [Callers -> [at : {"rest", "look", "create"}, day : 1 .. Days]]
    BY 1 \in 1 .. Days
  <2> QED
    BY <2>1, <2>2 DEF RecurType
<1>2. OneGenerates /\ CoveredSoFar /\ OneItemADay
  BY DEF OneGenerates, CoveredSoFar, OneItemADay
<1> QED
  BY <1>1, <1>2 DEF RecurInv

(* A step of a generator to its next day, when its day has an item. *)
LEMMA NextDayKeeps ==
    ASSUME RecurInv, Days \in Nat \ {0}, NEW g \in Callers, Recur!NextDay(g),
           generator[g].at # "rest",
           planned' \in Seq(PlannedItem),
           UNCHANGED <<together, moved>>,
           ~moved => /\ \A d \in 1 .. Days : (\E k \in DOMAIN planned : planned[k].day = d)
                              => \E k \in DOMAIN planned' : planned'[k].day = d
                     /\ \E k \in DOMAIN planned' : planned'[k].day = generator[g].day,
           ~moved /\ ~together =>
               \A j, k \in DOMAIN planned' : planned'[j].day = planned'[k].day => j = k
    PROVE  RecurInv'
<1> DEFINE here == generator[g].day
<1>1. /\ generator \in [Callers -> [at : {"rest", "look", "create"}, day : 1 .. Days]]
      /\ here \in 1 .. Days
  BY DEF RecurInv, RecurType
<1>2. /\ generator' = [generator EXCEPT ![g] =
                       IF here = Days THEN Recur!Resting ELSE [at |-> "look", day |-> here + 1]]
      /\ covered' = (covered \/ here = Days)
  BY DEF Recur!NextDay
<1>3. RecurType'
  <2>1. (IF here = Days THEN Recur!Resting ELSE [at |-> "look", day |-> here + 1])
           \in [at : {"rest", "look", "create"}, day : 1 .. Days]
    BY <1>1 DEF Recur!Resting
  <2>2. generator' \in [Callers -> [at : {"rest", "look", "create"}, day : 1 .. Days]]
    BY <1>1, <1>2, <2>1
  <2>3. \A h \in Callers : generator'[h].at = "rest" => generator'[h].day = 1
    BY <1>1, <1>2 DEF RecurInv, RecurType, Recur!Resting
  <2> QED
    BY <1>2, <2>2, <2>3 DEF RecurInv, RecurType
<1>4. OneGenerates'
  BY <1>1, <1>2 DEF RecurInv, OneGenerates, Recur!Resting
<1>5. CoveredSoFar'
  <2> SUFFICES ASSUME ~moved
               PROVE  /\ \A h \in Callers : generator'[h].at # "rest" =>
                            FilledUpTo(planned', generator'[h].day - 1)
                      /\ covered' => FilledUpTo(planned', Days)
    BY DEF CoveredSoFar
  <2>1. ASSUME NEW n \in 0 .. Days, FilledUpTo(planned, n)
        PROVE  FilledUpTo(planned', n)
    BY <2>1 DEF FilledUpTo
  <2>2. FilledUpTo(planned, here - 1)
    BY DEF RecurInv, CoveredSoFar
  <2>3. FilledUpTo(planned', here)
    <3>1. FilledUpTo(planned', here - 1)
      BY <1>1, <2>1, <2>2
    <3> QED
      BY <1>1, <3>1 DEF FilledUpTo
  <2>4. ASSUME NEW h \in Callers, generator'[h].at # "rest"
        PROVE  FilledUpTo(planned', generator'[h].day - 1)
    <3>1. CASE h = g
      <4>1. generator'[h].day = here + 1
        BY <1>1, <1>2, <2>4, <3>1 DEF Recur!Resting
      <4> QED
        BY <1>1, <2>3, <4>1 DEF FilledUpTo
    <3>2. CASE h # g
      <4>1. generator'[h] = generator[h] /\ generator[h].day \in 1 .. Days
        BY <1>1, <1>2, <3>2
      <4>2. FilledUpTo(planned, generator[h].day - 1)
        BY <2>4, <4>1 DEF RecurInv, CoveredSoFar
      <4>3. PICK n : n = generator[h].day - 1
        OBVIOUS
      <4>4. FilledUpTo(planned', n)
        BY <2>1, <4>1, <4>2, <4>3
      <4> QED
        BY <4>1, <4>3, <4>4 DEF FilledUpTo
    <3> QED
      BY <3>1, <3>2
  <2>5. ASSUME covered'
        PROVE  FilledUpTo(planned', Days)
    <3>1. CASE covered
      BY <2>1, <3>1 DEF RecurInv, CoveredSoFar
    <3>2. CASE here = Days
      BY <2>3, <3>2
    <3> QED
      BY <1>2, <2>5, <3>1, <3>2
  <2> QED
    BY <2>4, <2>5
<1>6. OneItemADay'
  <2> SUFFICES ASSUME ~moved, ~together, NEW h \in Callers, generator'[h].at = "create"
               PROVE  FALSE
    BY DEF OneItemADay
  <2>1. h # g
    BY <1>1, <1>2 DEF Recur!Resting
  <2>2. generator[h].at = "create"
    BY <1>1, <1>2, <2>1
  <2> QED
    BY <2>1, <2>2 DEF RecurInv, OneGenerates
<1> QED
  BY <1>3, <1>4, <1>5, <1>6 DEF RecurInv

(* What keeps the days of the items keeps the invariant. *)
LEMMA SameDaysKeep ==
    ASSUME RecurInv, Days \in Nat \ {0}, planned' \in Seq(PlannedItem), moved' \in BOOLEAN,
           UNCHANGED <<generator, together, covered>>,
           ~moved' => /\ ~moved
                      /\ DOMAIN planned' = DOMAIN planned
                      /\ \A k \in DOMAIN planned : planned'[k].day = planned[k].day
    PROVE  RecurInv'
<1>1. RecurType' /\ OneGenerates'
  BY DEF RecurInv, RecurType, OneGenerates
<1>2. CoveredSoFar'
  <2>1. \A n \in Nat : ~moved' /\ FilledUpTo(planned, n) => FilledUpTo(planned', n)
    BY DEF FilledUpTo
  <2>2. \A g \in Callers : generator[g].day - 1 \in Nat
    BY DEF RecurInv, RecurType
  <2> QED
    BY <2>1, <2>2 DEF RecurInv, CoveredSoFar
<1>3. OneItemADay'
  BY DEF RecurInv, OneItemADay
<1> QED
  BY <1>1, <1>2, <1>3 DEF RecurInv

(* Every step of a recurrence keeps its invariant. *)
LEMMA RecurStep ==
    ASSUME RecurInv, [Recur!Next]_recurrencevars, Days \in Nat \ {0}
    PROVE  RecurInv'
<1>1. CASE UNCHANGED recurrencevars
  BY <1>1 DEF recurrencevars, RecurInv, RecurType, OneGenerates, CoveredSoFar, FilledUpTo, OneItemADay
<1>2. ASSUME NEW g \in Callers, Recur!Launch(g)
      PROVE  RecurInv'
  <2>1. generator \in [Callers -> [at : {"rest", "look", "create"}, day : 1 .. Days]]
    BY DEF RecurInv, RecurType
  <2>2. /\ generator[g].at = "rest"
        /\ generator' = [generator EXCEPT ![g].at = "look"]
        /\ together' = (together \/ \E h \in Callers \ {g} : generator[h].at # "rest")
        /\ planned' = planned /\ moved' = moved /\ covered' = covered
    BY <1>2 DEF Recur!Launch
  <2>3. RecurType'
    BY <2>1, <2>2 DEF RecurInv, RecurType
  <2>4. OneGenerates'
    BY <2>1, <2>2 DEF RecurInv, OneGenerates
  <2>5. CoveredSoFar'
    <3>1. generator[g].day = 1
      BY <2>2 DEF RecurInv, RecurType
    <3> QED
      BY <2>1, <2>2, <3>1 DEF RecurInv, CoveredSoFar, FilledUpTo
  <2>6. OneItemADay'
    BY <2>1, <2>2 DEF RecurInv, OneItemADay
  <2> QED
    BY <2>3, <2>4, <2>5, <2>6 DEF RecurInv
<1>3. ASSUME NEW g \in Callers, Recur!LookUp(g)
      PROVE  RecurInv'
  <2>1. /\ generator[g].at = "look"
        /\ planned' = planned /\ together' = together /\ moved' = moved
    BY <1>3 DEF Recur!LookUp
  <2>2. CASE \E k \in DOMAIN planned : planned[k].day = generator[g].day
    <3>1. Recur!NextDay(g)
      BY <1>3, <2>2 DEF Recur!LookUp
    <3> QED
      BY <2>1, <2>2, <3>1, NextDayKeeps DEF RecurInv, RecurType, OneItemADay
  <2>3. CASE ~ \E k \in DOMAIN planned : planned[k].day = generator[g].day
    <3>1. generator' = [generator EXCEPT ![g].at = "create"] /\ covered' = covered
      BY <1>3, <2>3 DEF Recur!LookUp
    <3>2. generator \in [Callers -> [at : {"rest", "look", "create"}, day : 1 .. Days]]
      BY DEF RecurInv, RecurType
    <3>3. RecurType'
      BY <2>1, <3>1, <3>2 DEF RecurInv, RecurType
    <3>4. OneGenerates'
      BY <2>1, <3>1, <3>2 DEF RecurInv, OneGenerates
    <3>5. CoveredSoFar'
      BY <2>1, <3>1, <3>2 DEF RecurInv, CoveredSoFar, FilledUpTo
    <3>6. OneItemADay'
      BY <2>1, <2>3, <3>1, <3>2 DEF RecurInv, OneItemADay
    <3> QED
      BY <3>3, <3>4, <3>5, <3>6 DEF RecurInv
  <2> QED
    BY <2>2, <2>3
<1>4. ASSUME NEW g \in Callers, Recur!Materialize(g)
      PROVE  RecurInv'
  <2>1. /\ generator[g].at = "create"
        /\ planned' = Append(planned, Recur!NewItem(generator[g].day))
        /\ Recur!NextDay(g)
        /\ together' = together /\ moved' = moved
    BY <1>4 DEF Recur!Materialize
  <2>2. planned \in Seq(PlannedItem) /\ generator[g].day \in 1 .. Days
    BY DEF RecurInv, RecurType
  <2>3. Recur!NewItem(generator[g].day) \in PlannedItem /\ Recur!NewItem(generator[g].day).day = generator[g].day
    BY <2>2 DEF Recur!NewItem, PlannedItem, Recur!Elsewhere
  <2>4. /\ planned' \in Seq(PlannedItem)
        /\ DOMAIN planned = 1 .. Len(planned) /\ Len(planned) \in Nat
        /\ DOMAIN planned' = 1 .. Len(planned) + 1
        /\ \A k \in DOMAIN planned : planned'[k] = planned[k]
        /\ planned'[Len(planned) + 1].day = generator[g].day
    BY <2>1, <2>2, <2>3
  <2>5. ~moved => /\ \A d \in 1 .. Days : (\E k \in DOMAIN planned : planned[k].day = d)
                              => \E k \in DOMAIN planned' : planned'[k].day = d
                  /\ \E k \in DOMAIN planned' : planned'[k].day = generator[g].day
    BY <2>4
  <2>6. ~moved /\ ~together =>
               \A j, k \in DOMAIN planned' : planned'[j].day = planned'[k].day => j = k
    BY <2>1, <2>4 DEF RecurInv, OneItemADay
  <2>7. generator[g].at # "rest"
    BY <2>1
  <2> QED
    BY <2>1, <2>4, <2>5, <2>6, <2>7, NextDayKeeps
<1>5. ASSUME NEW g \in Callers, Recur!StopGenerating(g)
      PROVE  RecurInv'
  <2>1. generator \in [Callers -> [at : {"rest", "look", "create"}, day : 1 .. Days]]
    BY DEF RecurInv, RecurType
  <2>2. /\ generator' = [generator EXCEPT ![g] = [at |-> "rest", day |-> 1]]
        /\ planned' = planned /\ moved' = moved /\ covered' = covered /\ together' = together
    BY <1>5 DEF Recur!StopGenerating, Recur!Resting
  <2> QED
    BY <2>1, <2>2 DEF RecurInv, RecurType, OneGenerates, CoveredSoFar, FilledUpTo, OneItemADay
<1>6. ASSUME NEW d \in Recur!Elsewhere .. Days, Recur!UpdatePublishingItem(d)
      PROVE  RecurInv'
  <2>1. /\ planned # <<>> /\ planned' = [planned EXCEPT ![1] = [planned[1] EXCEPT !.day = d]]
        /\ moved' = (moved \/ d # planned[1].day)
        /\ UNCHANGED <<generator, together, covered>>
    BY <1>6 DEF Recur!UpdatePublishingItem, Recur!Edit
  <2>2. planned \in Seq(PlannedItem) /\ 1 \in DOMAIN planned /\ planned[1] \in PlannedItem
    BY <2>1 DEF RecurInv, RecurType
  <2>3. [planned[1] EXCEPT !.day = d] \in PlannedItem
    BY <2>2 DEF PlannedItem
  <2>4. planned' \in Seq(PlannedItem) /\ DOMAIN planned' = DOMAIN planned
    BY <2>1, <2>2, <2>3
  <2>5. ~moved' => \A k \in DOMAIN planned : planned'[k].day = planned[k].day
    BY <2>1, <2>2 DEF PlannedItem
  <2> QED
    BY <2>1, <2>4, <2>5, SameDaysKeep DEF RecurInv, RecurType
<1>7. ASSUME NEW s \in {"idea", "approved"}, Recur!SetPublishingStatus(s)
      PROVE  RecurInv'
  <2>1. /\ planned # <<>> /\ planned' = [planned EXCEPT ![1] = [planned[1] EXCEPT !.status = s]]
        /\ UNCHANGED <<generator, together, covered, moved>>
    BY <1>7 DEF Recur!SetPublishingStatus, Recur!Edit
  <2>2. planned \in Seq(PlannedItem) /\ 1 \in DOMAIN planned /\ planned[1] \in PlannedItem
    BY <2>1 DEF RecurInv, RecurType
  <2>3. [planned[1] EXCEPT !.status = s] \in PlannedItem
    BY <2>2 DEF PlannedItem
  <2>4. planned' \in Seq(PlannedItem) /\ DOMAIN planned' = DOMAIN planned
    BY <2>1, <2>2, <2>3
  <2>5. \A k \in DOMAIN planned : planned'[k].day = planned[k].day
    BY <2>1, <2>2 DEF PlannedItem
  <2> QED
    BY <2>1, <2>4, <2>5, SameDaysKeep DEF RecurInv, RecurType
<1> QED
  BY <1>1, <1>2, <1>3, <1>4, <1>5, <1>6, <1>7 DEF Recur!Next, Recur!CreateRecurrence, Recur!Generate

(* The invariant has the parts of CalendarIsFilled. *)
LEMMA RecurSafe ==
    ASSUME RecurInv, Days \in Nat \ {0}
    PROVE  Recur!CalendarIsFilled
<1>1. ASSUME ~moved, covered, NEW d \in 1 .. Days
      PROVE  Recur!Of(d) # {}
  BY <1>1 DEF RecurInv, CoveredSoFar, FilledUpTo, Recur!Of
<1>2. ASSUME ~moved, ~together, NEW d \in 1 .. Days
      PROVE  Cardinality(Recur!Of(d)) <= 1
  <2>1. CASE Recur!Of(d) = {}
    BY <2>1, FS_EmptySet
  <2>2. CASE Recur!Of(d) # {}
    <3>1. PICK k : k \in Recur!Of(d)
      BY <2>2
    <3>2. Recur!Of(d) = {k}
      BY <1>2, <3>1 DEF RecurInv, OneItemADay, Recur!Of
    <3> QED
      BY <3>2, FS_Singleton
  <2> QED
    BY <2>1, <2>2
<1>3. ~moved /\ covered => \A d \in 1 .. Days : Recur!Of(d) # {}
  BY <1>1
<1>4. \A S : Recur!Cardinality(S) = Cardinality(S)
  BY DEF Recur!Cardinality, Cardinality
<1>5. ~moved /\ ~together => \A d \in 1 .. Days : Recur!Cardinality(Recur!Of(d)) <= 1
  BY <1>2, <1>4
<1> QED
  BY <1>3, <1>5 DEF Recur!CalendarIsFilled

-----------------------------------------------------------------------------
(* Confirmations of publishing *)

Post == [status : Confirm!Statuses, scheduled : Callers \cup {Null}, published : BOOLEAN,
         url : Callers \cup {Null}]

ConfirmInv ==
    /\ post \in Post
    /\ confirming \in [Callers -> {Confirm!NotConfirming} \cup
                                  [call : {"scheduled", "published"}, read : Post]]
    /\ evidence \in [scheduled : Callers \cup {Null}, url : Callers \cup {Null}]
    /\ rushed \in BOOLEAN
    /\ \A c \in Callers : confirming[c].call = "published" => post.scheduled # Null
    /\ Confirm!EvidenceStands

(* An item nobody has confirmed: the invariant of the confirmations holds. *)
LEMMA ConfirmInit ==
    ASSUME Confirm!Init
    PROVE  ConfirmInv
BY DEF Confirm!Init, ConfirmInv, Post, Confirm!Statuses, Confirm!NotConfirming, Confirm!EvidenceStands

(* Every step of the confirmations keeps their invariant                   *)
(* (domain/social.ts:133-248).                                             *)
LEMMA ConfirmStep ==
    ASSUME ConfirmInv, [Confirm!Next]_confirmationvars, Null \notin Callers
    PROVE  ConfirmInv'
<1> USE DEF ConfirmInv, Post, Confirm!Statuses, Confirm!NotConfirming, Confirm!EvidenceStands
<1>1. CASE UNCHANGED confirmationvars
  BY <1>1 DEF confirmationvars
<1>2. ASSUME NEW s \in Confirm!Statuses, Confirm!SetPublishingStatus(s)
      PROVE  ConfirmInv'
  BY <1>2 DEF Confirm!SetPublishingStatus
<1>3. ASSUME NEW c \in Callers, Confirm!ReadForScheduled(c)
      PROVE  ConfirmInv'
  BY <1>3 DEF Confirm!ReadForScheduled, Confirm!Begin
<1>4. ASSUME NEW c \in Callers, Confirm!ReadForPublished(c)
      PROVE  ConfirmInv'
  BY <1>4 DEF Confirm!ReadForPublished, Confirm!Begin
<1>5. ASSUME NEW c \in Callers, Confirm!Fail(c)
      PROVE  ConfirmInv'
  BY <1>5 DEF Confirm!Fail
<1>6. ASSUME NEW c \in Callers, Confirm!ConfirmScheduled(c)
      PROVE  ConfirmInv'
  <2> DEFINE read == confirming[c].read
  <2>1. confirming[c] \in [call : {"scheduled", "published"}, read : Post] /\ read \in Post
    BY <1>6 DEF Confirm!ConfirmScheduled
  <2>2. post' \in Post /\ post'.scheduled # Null /\ post'.published = post.published
                      /\ post'.url = post.url
                      /\ post'.scheduled = IF read.scheduled = Null THEN c ELSE read.scheduled
    BY <1>6, <2>1 DEF Confirm!ConfirmScheduled
  <2>3. confirming' \in [Callers -> {Confirm!NotConfirming} \cup
                                    [call : {"scheduled", "published"}, read : Post]]
    BY <1>6 DEF Confirm!ConfirmScheduled
  <2>4. /\ evidence' \in [scheduled : Callers \cup {Null}, url : Callers \cup {Null}]
        /\ evidence'.url = evidence.url
        /\ evidence'.scheduled = IF evidence.scheduled = Null THEN c ELSE evidence.scheduled
    BY <1>6 DEF Confirm!ConfirmScheduled
  <2>5. rushed' \in BOOLEAN /\ (~rushed' => ~rushed /\ post.scheduled = read.scheduled)
    BY <1>6 DEF Confirm!ConfirmScheduled
  <2>6. \A d \in Callers : confirming'[d].call = "published" => post'.scheduled # Null
    BY <2>2
  <2> QED
    BY <2>2, <2>3, <2>4, <2>5, <2>6
<1>7. ASSUME NEW c \in Callers, NEW captured \in BOOLEAN, Confirm!ConfirmPublished(c, captured)
      PROVE  ConfirmInv'
  <2> DEFINE read == confirming[c].read
  <2>1. confirming[c] \in [call : {"scheduled", "published"}, read : Post] /\ read \in Post
    BY <1>7 DEF Confirm!ConfirmPublished
  <2>2. post' \in Post /\ post'.scheduled = post.scheduled
                      /\ post'.url = IF captured THEN c ELSE read.url
    BY <1>7, <2>1 DEF Confirm!ConfirmPublished
  <2>3. confirming' \in [Callers -> {Confirm!NotConfirming} \cup
                                    [call : {"scheduled", "published"}, read : Post]]
    BY <1>7 DEF Confirm!ConfirmPublished
  <2>4. /\ evidence' \in [scheduled : Callers \cup {Null}, url : Callers \cup {Null}]
        /\ evidence'.scheduled = evidence.scheduled
        /\ evidence'.url = IF captured THEN c ELSE evidence.url
    BY <1>7 DEF Confirm!ConfirmPublished
  <2>5. rushed' \in BOOLEAN /\ (~rushed' => ~rushed /\ (captured \/ post.url = read.url))
    BY <1>7 DEF Confirm!ConfirmPublished
  <2>6. post.scheduled # Null
    BY <1>7 DEF Confirm!ConfirmPublished
  <2> QED
    BY <2>2, <2>3, <2>4, <2>5, <2>6
<1> QED
  BY <1>1, <1>2, <1>3, <1>4, <1>5, <1>6, <1>7 DEF Confirm!Next

-----------------------------------------------------------------------------
(* Design review *)

DesignStatuses == DOMAIN Design!DESIGN_NEXT

Briefed == {"requested", "brief_review", "assigned"}

ReviewCalls ==
    {Design!NotReviewing} \cup
    [call : {"status"}, read : DesignStatuses, next : DesignStatuses] \cup
    [call : {"version"}, read : DesignStatuses] \cup
    [call : {"approve"}, version : Nat, seen : SUBSET Nat]

DesignType ==
    /\ design \in DesignStatuses
    /\ artwork \in Seq([approved : BOOLEAN, rejected : BOOLEAN])
    /\ reviewing \in [Callers -> ReviewCalls]
    /\ unaware \in BOOLEAN /\ misplaced \in BOOLEAN

DesignInv ==
    /\ DesignType
    /\ \A n \in DOMAIN artwork : ~(artwork[n].approved /\ artwork[n].rejected)
    /\ ~unaware => \A m, n \in Design!Approved : m = n
    /\ ~misplaced /\ artwork # <<>> => design \notin Briefed
    /\ \A c \in Callers : reviewing[c].call = "status" =>
          reviewing[c].next = reviewing[c].read
          \/ reviewing[c].next \in Design!DESIGN_NEXT[reviewing[c].read]

(* The kind of a call tells what it carries. *)
LEMMA StatusCalls ==
    ASSUME NEW r \in ReviewCalls
    PROVE  /\ r.call = "status" =>
                 r \in [call : {"status"}, read : DesignStatuses, next : DesignStatuses]
           /\ r.call = "version" => r \in [call : {"version"}, read : DesignStatuses]
           /\ r.call = "approve" => r \in [call : {"approve"}, version : Nat, seen : SUBSET Nat]
BY DEF ReviewCalls, Design!NotReviewing

(* No status is followed by one of the briefing but in the briefing. *)
LEMMA BriefedOnce ==
    ASSUME NEW s \in DesignStatuses, NEW t \in Design!DESIGN_NEXT[s]
    PROVE  t \in DesignStatuses /\ (t \in Briefed => s \in Briefed)
BY DEF DesignStatuses, Design!DESIGN_NEXT, Briefed

(* A design that has just been asked for has no version: the invariant of  *)
(* the review holds.                                                       *)
LEMMA DesignInit ==
    ASSUME Design!Init
    PROVE  DesignInv
<1> USE DEF Design!Init
<1>1. DesignType
  <2>1. design \in DesignStatuses
    BY DEF DesignStatuses, Design!DESIGN_NEXT
  <2>2. artwork \in Seq([approved : BOOLEAN, rejected : BOOLEAN])
    OBVIOUS
  <2>3. reviewing \in [Callers -> ReviewCalls]
    BY DEF ReviewCalls
  <2> QED
    BY <2>1, <2>2, <2>3 DEF DesignType
<1>2. Design!Approved = {}
  BY DEF Design!Approved
<1> QED
  BY <1>1, <1>2 DEF DesignInv, Design!NotReviewing

(* Every step of a design's review keeps its invariant                     *)
(* (domain/design.ts:52-253).                                              *)
LEMMA DesignStep ==
    ASSUME DesignInv, [Design!Next]_designvars
    PROVE  DesignInv'
<1>0. DesignType
  BY DEF DesignInv
<1>1. CASE UNCHANGED designvars
  BY <1>1 DEF designvars, DesignInv, DesignType, Design!Approved
<1>2. ASSUME NEW c \in Callers, NEW r \in ReviewCalls, Design!Take(c, r),
             r.call = "status" => r.next = r.read \/ r.next \in Design!DESIGN_NEXT[r.read]
      PROVE  DesignInv'
  <2>1. /\ reviewing' = [reviewing EXCEPT ![c] = r]
        /\ UNCHANGED <<design, artwork, unaware, misplaced>>
    BY <1>2 DEF Design!Take
  <2>2. DesignType'
    BY <1>0, <2>1 DEF DesignType
  <2>3. Design!Approved' = Design!Approved
    BY <2>1 DEF Design!Approved
  <2> QED
    BY <1>0, <1>2, <2>1, <2>2, <2>3 DEF DesignInv, DesignType
<1>3. ASSUME NEW c \in Callers, NEW s \in DesignStatuses, Design!ReadForStatus(c, s)
      PROVE  DesignInv'
  <2>1. [call |-> "status", read |-> design, next |-> s] \in ReviewCalls
    BY <1>0 DEF DesignType, ReviewCalls
  <2> QED
    BY <1>2, <1>3, <2>1 DEF Design!ReadForStatus
<1>4. ASSUME NEW c \in Callers, Design!ReadForVersion(c)
      PROVE  DesignInv'
  <2>1. [call |-> "version", read |-> design] \in ReviewCalls
    BY <1>0 DEF DesignType, ReviewCalls
  <2> QED
    BY <1>2, <1>4, <2>1 DEF Design!ReadForVersion
<1>5. ASSUME NEW c \in Callers, NEW n \in 1 .. MaxArtwork, Design!Supersede(c, n)
      PROVE  DesignInv'
  <2>1. Design!Approved \in SUBSET Nat /\ n \in Nat
    BY <1>0 DEF DesignType, Design!Approved
  <2>2. [call |-> "approve", version |-> n, seen |-> Design!Approved] \in ReviewCalls
    BY <2>1 DEF ReviewCalls
  <2> QED
    BY <1>2, <1>5, <2>2 DEF Design!Supersede
<1>6. ASSUME NEW c \in Callers, Design!Done(c), DesignType', design' \in DesignStatuses,
             \A n \in DOMAIN artwork' : ~(artwork'[n].approved /\ artwork'[n].rejected),
             ~unaware' => \A m, n \in Design!Approved' : m = n,
             ~misplaced' /\ artwork' # <<>> => design' \notin Briefed
      PROVE  DesignInv'
  <2>1. reviewing' = [reviewing EXCEPT ![c] = [call |-> "none"]]
    BY <1>6 DEF Design!Done, Design!NotReviewing
  <2>2. \A d \in Callers : reviewing'[d].call = "status" =>
            d # c /\ reviewing'[d] = reviewing[d]
    BY <1>0, <2>1 DEF DesignType
  <2> QED
    BY <1>6, <2>2 DEF DesignInv
<1>7. ASSUME NEW c \in Callers, Design!Done(c)
      PROVE  reviewing' \in [Callers -> ReviewCalls]
  BY <1>0, <1>7 DEF Design!Done, DesignType, ReviewCalls
<1>8. ASSUME NEW c \in Callers, Design!SetDesignStatus(c)
      PROVE  DesignInv'
  <2>1. /\ reviewing[c].call = "status"
        /\ design' = reviewing[c].next
        /\ misplaced' = (misplaced \/ design # reviewing[c].read)
        /\ Design!Done(c)
        /\ UNCHANGED <<artwork, unaware>>
    BY <1>8 DEF Design!SetDesignStatus
  <2>2. reviewing[c] \in [call : {"status"}, read : DesignStatuses, next : DesignStatuses]
    BY <1>0, <2>1, StatusCalls DEF DesignType
  <2>3. reviewing[c].next = reviewing[c].read
        \/ reviewing[c].next \in Design!DESIGN_NEXT[reviewing[c].read]
    BY <2>1 DEF DesignInv
  <2>4. ~misplaced' /\ artwork' # <<>> => design' \notin Briefed
    BY <2>1, <2>2, <2>3, BriefedOnce DEF DesignInv
  <2>5. DesignType'
    BY <1>0, <1>7, <2>1, <2>2 DEF DesignType
  <2>6. Design!Approved' = Design!Approved
    BY <2>1 DEF Design!Approved
  <2> QED
    BY <1>6, <2>1, <2>2, <2>4, <2>5, <2>6 DEF DesignInv
<1>9. ASSUME NEW c \in Callers, Design!AddDesignVersion(c)
      PROVE  DesignInv'
  <2>1. /\ artwork' = Append(artwork, [approved |-> FALSE, rejected |-> FALSE])
        /\ design' = IF reviewing[c].read \in {"internal_review", "waiting_approval"}
                     THEN design ELSE "internal_review"
        /\ misplaced' = (misplaced \/ design # reviewing[c].read)
        /\ Design!Done(c)
        /\ unaware' = unaware
    BY <1>9 DEF Design!AddDesignVersion
  <2>2. artwork \in Seq([approved : BOOLEAN, rejected : BOOLEAN])
    BY <1>0 DEF DesignType
  <2>3. /\ artwork' \in Seq([approved : BOOLEAN, rejected : BOOLEAN])
        /\ DOMAIN artwork' = DOMAIN artwork \cup {Len(artwork) + 1}
        /\ \A n \in DOMAIN artwork : artwork'[n] = artwork[n]
        /\ artwork'[Len(artwork) + 1] = [approved |-> FALSE, rejected |-> FALSE]
    BY <2>1, <2>2
  <2>4. Design!Approved' = Design!Approved
    BY <2>3 DEF Design!Approved
  <2>5. design' \in DesignStatuses
    BY <1>0, <2>1 DEF DesignType, DesignStatuses, Design!DESIGN_NEXT
  <2>6. ~misplaced' => design' \notin Briefed
    BY <2>1 DEF Briefed
  <2>7. DesignType'
    BY <1>0, <1>7, <2>1, <2>3, <2>5 DEF DesignType
  <2>8. \A n \in DOMAIN artwork' : ~(artwork'[n].approved /\ artwork'[n].rejected)
    BY <2>3 DEF DesignInv
  <2> QED
    BY <1>6, <2>1, <2>4, <2>5, <2>6, <2>7, <2>8 DEF DesignInv
<1>10. ASSUME NEW c \in Callers, Design!ApproveDesignVersion(c)
      PROVE  DesignInv'
  <2> DEFINE tx == reviewing[c]
  <2>1. /\ artwork' = [n \in DOMAIN artwork |->
                          IF n = tx.version THEN [approved |-> TRUE, rejected |-> FALSE]
                          ELSE IF n \in tx.seen THEN [artwork[n] EXCEPT !.approved = FALSE]
                          ELSE artwork[n]]
        /\ design' = "approved"
        /\ unaware' = (unaware \/ ~(Design!Approved \ {tx.version} \subseteq tx.seen))
        /\ Design!Done(c)
        /\ misplaced' = misplaced
    BY <1>10 DEF Design!ApproveDesignVersion
  <2>2. artwork \in Seq([approved : BOOLEAN, rejected : BOOLEAN])
    BY <1>0 DEF DesignType
  <2>3. /\ DOMAIN artwork' = 1 .. Len(artwork) /\ Len(artwork) \in Nat
        /\ \A n \in DOMAIN artwork : artwork'[n] \in [approved : BOOLEAN, rejected : BOOLEAN]
    <3>1. DOMAIN artwork' = 1 .. Len(artwork) /\ Len(artwork) \in Nat
      BY <2>1, <2>2
    <3>2. ASSUME NEW n \in DOMAIN artwork
          PROVE  artwork'[n] \in [approved : BOOLEAN, rejected : BOOLEAN]
      <4>1. artwork[n] \in [approved : BOOLEAN, rejected : BOOLEAN]
        BY <2>2, <3>2, ElementOf
      <4>2. artwork'[n] = IF n = tx.version THEN [approved |-> TRUE, rejected |-> FALSE]
                          ELSE IF n \in tx.seen THEN [artwork[n] EXCEPT !.approved = FALSE]
                          ELSE artwork[n]
        BY <2>1, <3>2
      <4>3. [approved |-> TRUE, rejected |-> FALSE] \in [approved : BOOLEAN, rejected : BOOLEAN]
        OBVIOUS
      <4>4. [artwork[n] EXCEPT !.approved = FALSE] \in [approved : BOOLEAN, rejected : BOOLEAN]
        BY <4>1
      <4> QED
        BY <4>1, <4>2, <4>3, <4>4, Zenon
    <3> QED
      BY <3>1, <3>2
  <2>4. artwork' \in Seq([approved : BOOLEAN, rejected : BOOLEAN])
    BY <2>1, <2>2, <2>3
  <2>5. \A n \in DOMAIN artwork' : ~(artwork'[n].approved /\ artwork'[n].rejected)
    BY <2>1, <2>2 DEF DesignInv
  <2>6. ASSUME ~unaware', NEW n \in Design!Approved'
        PROVE  n = tx.version
    <3>1. n \in DOMAIN artwork /\ artwork'[n].approved
      BY <2>1, <2>6 DEF Design!Approved
    <3>2. artwork[n] \in [approved : BOOLEAN, rejected : BOOLEAN]
      BY <2>2, <3>1, ElementOf
    <3>3. n # tx.version => n \notin tx.seen /\ artwork[n].approved
      BY <2>1, <3>1, <3>2
    <3> QED
      BY <2>1, <2>6, <3>1, <3>3 DEF Design!Approved
  <2>7. design' \in DesignStatuses /\ design' \notin Briefed
    BY <2>1 DEF DesignStatuses, Design!DESIGN_NEXT, Briefed
  <2>8. DesignType'
    BY <1>0, <1>7, <2>1, <2>4, <2>7 DEF DesignType
  <2>9. ~unaware' => \A m, n \in Design!Approved' : m = n
    BY <2>6
  <2> QED
    BY <1>6, <2>1, <2>5, <2>7, <2>8, <2>9
<1>11. ASSUME NEW c \in Callers, Design!Fail(c)
      PROVE  DesignInv'
  <2>1. Design!Done(c) /\ UNCHANGED <<design, artwork, unaware, misplaced>>
    BY <1>11 DEF Design!Fail
  <2>2. DesignType' /\ Design!Approved' = Design!Approved
    BY <1>0, <1>7, <2>1 DEF DesignType, Design!Approved
  <2> QED
    BY <1>0, <1>6, <2>1, <2>2 DEF DesignInv, DesignType
<1>12. ASSUME NEW n \in 1 .. MaxArtwork, Design!RejectDesignVersion(n)
      PROVE  DesignInv'
  <2>1. /\ artwork' = [artwork EXCEPT ![n] = [approved |-> FALSE, rejected |-> TRUE]]
        /\ design' = "revision"
        /\ UNCHANGED <<reviewing, unaware, misplaced>>
    BY <1>12 DEF Design!RejectDesignVersion
  <2>2. artwork \in Seq([approved : BOOLEAN, rejected : BOOLEAN])
    BY <1>0 DEF DesignType
  <2>3. artwork' \in Seq([approved : BOOLEAN, rejected : BOOLEAN]) /\ DOMAIN artwork' = DOMAIN artwork
    <3>1. [approved |-> FALSE, rejected |-> TRUE] \in [approved : BOOLEAN, rejected : BOOLEAN]
      OBVIOUS
    <3>2. n \in DOMAIN artwork
      BY <1>12 DEF Design!RejectDesignVersion
    <3> QED
      BY <2>1, <2>2, <3>1, <3>2, ElementReplaced
  <2>4. \A k \in DOMAIN artwork' : ~(artwork'[k].approved /\ artwork'[k].rejected)
    BY <2>1, <2>2 DEF DesignInv
  <2>5. Design!Approved' \subseteq Design!Approved
    BY <2>1, <2>2 DEF Design!Approved
  <2>6. design' \in DesignStatuses /\ design' \notin Briefed
    BY <2>1 DEF DesignStatuses, Design!DESIGN_NEXT, Briefed
  <2>7. DesignType'
    BY <1>0, <2>1, <2>3, <2>6 DEF DesignType
  <2> QED
    BY <2>1, <2>4, <2>5, <2>6, <2>7 DEF DesignInv
<1> QED
  BY <1>1, <1>3, <1>4, <1>5, <1>8, <1>9, <1>10, <1>11, <1>12 DEF Design!Next, DesignStatuses

(* The invariant is as strong as ReviewIsExclusive. *)
LEMMA DesignSafe ==
    ASSUME DesignInv
    PROVE  Design!ReviewIsExclusive
<1>1. ASSUME ~unaware
      PROVE  Cardinality(Design!Approved) <= 1
  <2>1. CASE Design!Approved = {}
    BY <2>1, FS_EmptySet
  <2>2. CASE Design!Approved # {}
    <3>1. PICK n : n \in Design!Approved
      BY <2>2
    <3>2. Design!Approved = {n}
      BY <1>1, <3>1 DEF DesignInv
    <3> QED
      BY <3>2, FS_Singleton
  <2> QED
    BY <2>1, <2>2
<1>2. \A S : Design!Cardinality(S) = Cardinality(S)
  BY DEF Design!Cardinality, Cardinality
<1>3. ~unaware => Design!Cardinality(Design!Approved) <= 1
  BY <1>1, <1>2
<1> QED
  BY <1>3 DEF Design!ReviewIsExclusive, DesignInv, Briefed

-----------------------------------------------------------------------------
(* The inbox *)

Notification == [state : {"unread", "read", "archived"}, events : SUBSET Nat]

Sending == [at : {"look", "renew", "add"}, event : Nat]

ToldType ==
    /\ rows \in Seq(Notification)
    /\ muted \in BOOLEAN
    /\ notifying \in [Callers -> {Told!NotSending} \cup Sending]
    /\ happened \in Nat
    /\ pending \in SUBSET (1 .. happened) /\ silenced \in SUBSET (1 .. happened)
    /\ dismissed \in BOOLEAN /\ crowded \in BOOLEAN /\ revived \in BOOLEAN

(* An event is told, silenced or pending, and no two of these. *)
EventsAreSomewhere ==
    /\ ~dismissed => 1 .. happened \subseteq Told!Told \cup silenced \cup pending
    /\ Told!Told \cap (silenced \cup pending) = {} /\ silenced \cap pending = {}
    /\ Told!Told \subseteq 1 .. happened

(* What a sender tells has happened and is told by nobody else. *)
SendersStand ==
    /\ \A s \in Callers : notifying[s] # Told!NotSending => notifying[s].event \in pending
    /\ \A r, s \in Callers :
          notifying[r] # Told!NotSending /\ notifying[s] # Told!NotSending /\ r # s =>
              crowded /\ notifying[r].event # notifying[s].event

(* A sender that renews finds a row, and one that adds finds none. *)
LooksStand ==
    \A s \in Callers :
        /\ notifying[s].at = "renew" /\ ~dismissed => Told!Live # {}
        /\ notifying[s].at = "add" /\ ~crowded /\ ~revived => Told!Live = {}

OneRow == ~crowded /\ ~revived => \A j, k \in Told!Live : j = k

ToldInv == ToldType /\ EventsAreSomewhere /\ SendersStand /\ LooksStand /\ OneRow

(* The inbox counts sets as everybody does. *)
LEMMA ToldCardinality == \A S : Told!Cardinality(S) = Cardinality(S)
BY DEF Told!Cardinality, Cardinality

(* Calls of a sender: those that are not under way have no event. *)
LEMMA SendingCalls ==
    ASSUME NEW x \in {Told!NotSending} \cup Sending
    PROVE  /\ x.at \in {"look", "renew", "add"} => x \in Sending /\ x # Told!NotSending
           /\ x # Told!NotSending => x \in Sending /\ x.at \in {"look", "renew", "add"}
           /\ x = Told!NotSending => x.at = "idle"
BY DEF Sending, Told!NotSending

(* An empty inbox: its invariant holds. *)
LEMMA ToldInit ==
    ASSUME Told!Init
    PROVE  ToldInv
<1> USE DEF Told!Init
<1>1. ToldType
  <2>1. rows \in Seq(Notification)
    OBVIOUS
  <2>2. notifying \in [Callers -> {Told!NotSending} \cup Sending]
    OBVIOUS
  <2>3. happened \in Nat /\ muted \in BOOLEAN
    OBVIOUS
  <2> QED
    BY <2>1, <2>2, <2>3 DEF ToldType
<1>2. Told!Told = {} /\ Told!Live = {}
  BY DEF Told!Told, Told!Live
<1>3. \A s \in Callers : notifying[s] = Told!NotSending /\ notifying[s].at = "idle"
  BY DEF Told!NotSending
<1> QED
  BY <1>1, <1>2, <1>3 DEF ToldInv, EventsAreSomewhere, SendersStand, LooksStand, OneRow

(* An event is under way, or suppressed as its user asked                  *)
(* (domain/mutation.ts:64-78).                                             *)
LEMMA NotifyKeeps ==
    ASSUME ToldInv, NEW s \in Callers, Told!Notify(s)
    PROVE  ToldInv'
<1>0. ToldType /\ notifying[s] = Told!NotSending /\ happened' = happened + 1
      /\ UNCHANGED <<rows, muted, dismissed, revived>>
      /\ crowded' = (crowded \/ \E r \in Callers : notifying[r] # Told!NotSending)
  BY DEF ToldInv, Told!Notify
<1>1. Told!Told' = Told!Told /\ Told!Live' = Told!Live
  BY <1>0 DEF Told!Told, Told!Live
<1>2. PICK n \in Nat : n = happened + 1
  BY <1>0 DEF ToldType
<1>3. /\ 1 .. n = (1 .. happened) \cup {n} /\ n \notin 1 .. happened /\ happened' = n
  BY <1>0, <1>2 DEF ToldType
<1>4. n \notin Told!Told \cup silenced \cup pending
  BY <1>0, <1>3 DEF ToldInv, ToldType, EventsAreSomewhere
<1>5. crowded' \in BOOLEAN
  BY <1>0 DEF ToldType
<1>6. CASE muted
  <2>1. silenced' = silenced \cup {n} /\ UNCHANGED <<notifying, pending>>
    BY <1>2, <1>6 DEF Told!Notify
  <2>2. ToldType'
    BY <1>0, <1>3, <1>5, <2>1 DEF ToldType
  <2>3. EventsAreSomewhere'
    BY <1>0, <1>1, <1>3, <1>4, <2>1 DEF ToldInv, EventsAreSomewhere
  <2>4. SendersStand' /\ LooksStand' /\ OneRow'
    BY <1>0, <1>1, <2>1 DEF ToldInv, SendersStand, LooksStand, OneRow
  <2> QED
    BY <2>2, <2>3, <2>4 DEF ToldInv
<1>7. CASE ~muted
  <2>1. PICK c : c = [at |-> "look", event |-> n]
    OBVIOUS
  <2>2. /\ notifying' = [notifying EXCEPT ![s] = c]
        /\ pending' = pending \cup {n} /\ UNCHANGED silenced
    BY <1>2, <1>7, <2>1 DEF Told!Notify
  <2>3. c \in Sending /\ c # Told!NotSending
    BY <2>1 DEF Sending, Told!NotSending
  <2>4. notifying'[s] = c /\ \A r \in Callers \ {s} : notifying'[r] = notifying[r]
    BY <1>0, <2>2 DEF ToldType
  <2>5. ToldType'
    BY <1>0, <1>3, <1>5, <2>2, <2>3 DEF ToldType
  <2>6. EventsAreSomewhere'
    BY <1>0, <1>1, <1>3, <1>4, <2>2 DEF ToldInv, EventsAreSomewhere
  <2>7. SendersStand'
    <3>1. \A r \in Callers \ {s} : notifying[r] # Told!NotSending =>
             crowded' /\ notifying[r].event # n
      BY <1>0, <1>4 DEF ToldInv, SendersStand
    <3> QED
      BY <1>0, <2>1, <2>2, <2>4, <3>1 DEF ToldInv, SendersStand
  <2>8. LooksStand'
    <3>1. ~crowded' => ~crowded
      BY <1>0
    <3>2. \A r \in Callers : notifying'[r].at # "look" => notifying'[r] = notifying[r]
      BY <2>1, <2>4
    <3>3. ASSUME NEW r \in Callers
          PROVE  /\ notifying'[r].at = "renew" /\ ~dismissed' => Told!Live' # {}
                 /\ notifying'[r].at = "add" /\ ~crowded' /\ ~revived' => Told!Live' = {}
      BY <1>0, <1>1, <3>1, <3>2 DEF ToldInv, LooksStand
    <3> QED
      BY <3>3 DEF LooksStand
  <2>9. OneRow'
    BY <1>0, <1>1 DEF ToldInv, OneRow
  <2> QED
    BY <2>5, <2>6, <2>7, <2>8, <2>9 DEF ToldInv
<1> QED
  BY <1>6, <1>7

(* A sender remembers the rows it has found (domain/mutation.ts:92-97). *)
LEMMA LookKeeps ==
    ASSUME ToldInv, NEW s \in Callers, Told!Look(s)
    PROVE  ToldInv'
<1>0. ToldType /\ notifying[s] \in Sending /\ notifying[s] # Told!NotSending
  BY SendingCalls DEF ToldInv, ToldType, Told!Look
<1>1. PICK at \in {"renew", "add"} : at = IF Told!Live # {} THEN "renew" ELSE "add"
  OBVIOUS
<1>2. PICK c : c = [notifying[s] EXCEPT !.at = at]
  OBVIOUS
<1>3. /\ notifying' = [notifying EXCEPT ![s] = c]
      /\ UNCHANGED <<rows, muted, happened, pending, silenced, dismissed, crowded, revived>>
  BY <1>0, <1>1, <1>2 DEF Told!Look, ToldType
<1>4. c \in Sending /\ c.at = at /\ c.event = notifying[s].event
  BY <1>0, <1>2 DEF Sending
<1>5. c # Told!NotSending
  BY <1>1, <1>4 DEF Told!NotSending
<1>6. notifying'[s] = c /\ \A r \in Callers \ {s} : notifying'[r] = notifying[r]
  BY <1>0, <1>3 DEF ToldType
<1>7. Told!Told' = Told!Told /\ Told!Live' = Told!Live
  BY <1>3 DEF Told!Told, Told!Live
<1>8. ToldType'
  BY <1>0, <1>3, <1>4 DEF ToldType
<1>9. EventsAreSomewhere' /\ OneRow'
  BY <1>3, <1>7 DEF ToldInv, EventsAreSomewhere, OneRow
<1>10. SendersStand'
  BY <1>0, <1>3, <1>4, <1>6 DEF ToldInv, SendersStand
<1>11. LooksStand'
  BY <1>1, <1>3, <1>4, <1>6, <1>7 DEF ToldInv, LooksStand
<1> QED
  BY <1>8, <1>9, <1>10, <1>11 DEF ToldInv

(* A sender that comes to its end. *)
LEMMA FinishKeeps ==
    ASSUME ToldInv, NEW s \in Callers, notifying[s] # Told!NotSending, Told!Finish(s)
    PROVE  /\ notifying' \in [Callers -> {Told!NotSending} \cup Sending]
           /\ pending' = pending \ {notifying[s].event}
           /\ notifying[s].event \in pending
           /\ \A r \in Callers :
                 /\ r = s => notifying'[r] = Told!NotSending
                 /\ r # s => notifying'[r] = notifying[r]
           /\ UNCHANGED <<happened, crowded>> => SendersStand'
<1>0. ToldType
  BY DEF ToldInv
<1>1. /\ notifying' = [notifying EXCEPT ![s] = Told!NotSending]
      /\ pending' = pending \ {notifying[s].event}
  BY DEF Told!Finish
<1>2. \A r \in Callers :
          /\ r = s => notifying'[r] = Told!NotSending
          /\ r # s => notifying'[r] = notifying[r]
  BY <1>0, <1>1 DEF ToldType
<1>3. notifying[s].event \in pending
  BY DEF ToldInv, SendersStand
<1>4. UNCHANGED <<happened, crowded>> => SendersStand'
  BY <1>1, <1>2 DEF ToldInv, SendersStand
<1>5. notifying' \in [Callers -> {Told!NotSending} \cup Sending]
  BY <1>0, <1>1 DEF ToldType
<1> QED
  BY <1>1, <1>2, <1>3, <1>4, <1>5

(* The rows a sender has found carry its event to the top                  *)
(* (domain/mutation.ts:98-103).                                            *)
LEMMA RenewKeeps ==
    ASSUME ToldInv, NEW s \in Callers, Told!Renew(s)
    PROVE  ToldInv'
<1>0. /\ ToldType /\ notifying[s].at = "renew" /\ Told!Finish(s)
      /\ notifying[s] # Told!NotSending /\ notifying[s] \in Sending
      /\ UNCHANGED <<muted, happened, silenced, dismissed, crowded, revived>>
  BY SendingCalls DEF ToldInv, ToldType, Told!Renew
<1>1. PICK e \in Nat : e = notifying[s].event
  BY <1>0 DEF Sending
<1>2. /\ notifying' \in [Callers -> {Told!NotSending} \cup Sending]
      /\ pending' = pending \ {e} /\ e \in pending
      /\ \A r \in Callers :
            /\ r = s => notifying'[r] = Told!NotSending
            /\ r # s => notifying'[r] = notifying[r]
      /\ SendersStand'
  BY <1>0, <1>1, FinishKeeps
<1>3. rows' = [k \in DOMAIN rows |->
          IF k \in Told!Live THEN [state |-> "unread", events |-> rows[k].events \cup {e}]
                             ELSE rows[k]]
  BY <1>1 DEF Told!Renew
<1>4. \A k \in DOMAIN rows : rows[k] \in Notification
  BY <1>0, ElementOf DEF ToldType
<1>5. ASSUME NEW k \in DOMAIN rows
      PROVE  /\ rows'[k] \in Notification
             /\ k \in Told!Live => rows'[k].state = "unread"
                                   /\ rows'[k].events = rows[k].events \cup {e}
             /\ k \notin Told!Live => rows'[k] = rows[k] /\ rows[k].state = "archived"
  <2>1. CASE k \in Told!Live
    <3>1. rows'[k] = [state |-> "unread", events |-> rows[k].events \cup {e}]
      BY <1>3, <2>1
    <3>2. rows[k].events \cup {e} \in SUBSET Nat
      BY <1>4 DEF Notification
    <3> QED
      BY <2>1, <3>1, <3>2 DEF Notification
  <2>2. CASE k \notin Told!Live
    BY <1>3, <1>4, <2>2 DEF Told!Live
  <2> QED
    BY <2>1, <2>2
<1>6. DOMAIN rows' = DOMAIN rows
  BY <1>3
<1>7. rows' \in Seq(Notification)
  <2>1. rows' \in [1 .. Len(rows) -> Notification] /\ Len(rows) \in Nat
    BY <1>0, <1>3, <1>5, <1>6 DEF ToldType
  <2> QED
    BY <2>1
<1>8. Told!Live' = Told!Live
  BY <1>5, <1>6 DEF Told!Live
<1>9. Told!Told' = IF Told!Live # {} THEN Told!Told \cup {e} ELSE Told!Told
  <2>1. Told!Live \subseteq DOMAIN rows
    BY DEF Told!Live
  <2>2. \A k \in DOMAIN rows : rows'[k].events =
           IF k \in Told!Live THEN rows[k].events \cup {e} ELSE rows[k].events
    BY <1>5
  <2>3. \A x : x \in Told!Told' <=> \E k \in DOMAIN rows : x \in rows'[k].events
    BY <1>6 DEF Told!Told
  <2>4. \A x : x \in Told!Told <=> \E k \in DOMAIN rows : x \in rows[k].events
    BY DEF Told!Told
  <2>5. CASE Told!Live = {}
    BY <2>2, <2>3, <2>4, <2>5
  <2>6. CASE Told!Live # {}
    <3>1. PICK k \in DOMAIN rows : k \in Told!Live
      BY <2>1, <2>6
    <3>2. ASSUME NEW x \in Told!Told' PROVE x \in Told!Told \cup {e}
      <4>1. PICK j \in DOMAIN rows : x \in rows'[j].events
        BY <2>3
      <4>2. x \in rows[j].events \cup {e}
        BY <2>2, <4>1
      <4> QED
        BY <2>4, <4>2
    <3>3. \A x : x \in Told!Told => x \in Told!Told'
      BY <2>2, <2>3, <2>4
    <3>4. e \in Told!Told'
      BY <2>2, <2>3, <3>1
    <3> QED
      BY <2>6, <3>2, <3>3, <3>4
  <2> QED
    BY <2>5, <2>6
<1>10. ToldType'
  BY <1>0, <1>2, <1>7 DEF ToldType
<1>11. EventsAreSomewhere'
  <2>1. ~dismissed => Told!Live # {}
    BY <1>0 DEF ToldInv, LooksStand
  <2>2. e \notin silenced /\ e \in 1 .. happened
    BY <1>0, <1>2 DEF ToldInv, EventsAreSomewhere, ToldType
  <2> QED
    BY <1>0, <1>2, <1>9, <2>1, <2>2 DEF ToldInv, EventsAreSomewhere
<1>12. LooksStand'
  BY <1>0, <1>2, <1>8, SendingCalls DEF ToldInv, LooksStand
<1>13. OneRow'
  BY <1>0, <1>8 DEF ToldInv, OneRow
<1> QED
  BY <1>2, <1>10, <1>11, <1>12, <1>13 DEF ToldInv

(* A sender that has found no row adds one, the only one unless senders    *)
(* overlapped (domain/mutation.ts:104-106).                                *)
LEMMA AddKeeps ==
    ASSUME ToldInv, NEW s \in Callers, Told!Add(s)
    PROVE  ToldInv'
<1>0. /\ ToldType /\ notifying[s].at = "add" /\ Told!Finish(s)
      /\ notifying[s] # Told!NotSending /\ notifying[s] \in Sending
      /\ UNCHANGED <<muted, happened, silenced, dismissed, crowded, revived>>
  BY SendingCalls DEF ToldInv, ToldType, Told!Add
<1>1. PICK e \in Nat : e = notifying[s].event
  BY <1>0 DEF Sending
<1>2. /\ notifying' \in [Callers -> {Told!NotSending} \cup Sending]
      /\ pending' = pending \ {e} /\ e \in pending
      /\ \A r \in Callers :
            /\ r = s => notifying'[r] = Told!NotSending
            /\ r # s => notifying'[r] = notifying[r]
      /\ SendersStand'
  BY <1>0, <1>1, FinishKeeps
<1>3. PICK n : n = [state |-> "unread", events |-> {e}]
  OBVIOUS
<1>4. n \in Notification
  <2>1. {e} \in SUBSET Nat
    OBVIOUS
  <2> QED
    BY <1>3, <2>1 DEF Notification
<1>5. rows' = Append(rows, n)
  BY <1>1, <1>3 DEF Told!Add
<1>6. /\ rows' \in Seq(Notification)
      /\ DOMAIN rows' = DOMAIN rows \cup {Len(rows) + 1}
      /\ rows'[Len(rows) + 1] = n
      /\ \A k \in DOMAIN rows : rows'[k] = rows[k]
  BY <1>0, <1>4, <1>5 DEF ToldType
<1>7. Told!Told' = Told!Told \cup {e}
  <2>1. \A x : x \in Told!Told' <=> \E k \in DOMAIN rows' : x \in rows'[k].events
    BY DEF Told!Told
  <2>2. \A x : x \in Told!Told <=> \E k \in DOMAIN rows : x \in rows[k].events
    BY DEF Told!Told
  <2>3. rows'[Len(rows) + 1].events = {e}
    BY <1>3, <1>6
  <2> QED
    BY <1>6, <2>1, <2>2, <2>3
<1>8. Told!Live' = Told!Live \cup {Len(rows) + 1}
  BY <1>3, <1>6 DEF Told!Live
<1>9. ToldType'
  BY <1>0, <1>2, <1>6 DEF ToldType
<1>10. EventsAreSomewhere'
  <2>1. e \notin silenced /\ e \in 1 .. happened
    BY <1>0, <1>2 DEF ToldInv, EventsAreSomewhere, ToldType
  <2> QED
    BY <1>0, <1>2, <1>7, <2>1 DEF ToldInv, EventsAreSomewhere
<1>11. LooksStand'
  <2>1. Told!Live' # {}
    BY <1>8
  <2>2. \A r \in Callers : notifying'[r].at = "add" => crowded
    BY <1>0, <1>2, SendingCalls DEF ToldInv, SendersStand, ToldType
  <2> QED
    BY <1>0, <2>1, <2>2 DEF LooksStand
<1>12. OneRow'
  <2>1. ~crowded /\ ~revived => Told!Live = {}
    BY <1>0 DEF ToldInv, LooksStand
  <2> QED
    BY <1>0, <1>8, <2>1 DEF OneRow
<1> QED
  BY <1>2, <1>9, <1>10, <1>11, <1>12 DEF ToldInv

(* A sender that dies leaves its event pending for ever. *)
LEMMA DieKeeps ==
    ASSUME ToldInv, NEW s \in Callers, Told!Die(s)
    PROVE  ToldInv'
<1>0. /\ ToldType
      /\ notifying' = [notifying EXCEPT ![s] = Told!NotSending]
      /\ UNCHANGED <<rows, muted, happened, pending, silenced, dismissed, crowded, revived>>
  BY DEF ToldInv, Told!Die
<1>1. \A r \in Callers :
          /\ r = s => notifying'[r] = Told!NotSending
          /\ r # s => notifying'[r] = notifying[r]
  BY <1>0 DEF ToldType
<1>2. Told!Told' = Told!Told /\ Told!Live' = Told!Live
  BY <1>0 DEF Told!Told, Told!Live
<1>3. ToldType'
  BY <1>0 DEF ToldType
<1>4. SendersStand'
  BY <1>0, <1>1 DEF ToldInv, SendersStand
<1>5. LooksStand'
  BY <1>0, <1>1, <1>2, SendingCalls DEF ToldInv, LooksStand
<1>6. EventsAreSomewhere' /\ OneRow'
  BY <1>0, <1>2 DEF ToldInv, EventsAreSomewhere, OneRow
<1> QED
  BY <1>3, <1>4, <1>5, <1>6 DEF ToldInv

(* A row of which the state changes: the events stay. *)
LEMMA StateKeeps ==
    ASSUME ToldInv, NEW k \in DOMAIN rows, NEW state \in {"unread", "read", "archived"},
           rows' = [rows EXCEPT ![k].state = state]
    PROVE  /\ rows' \in Seq(Notification) /\ Told!Told' = Told!Told
           /\ state # "archived" => Told!Live' = Told!Live \cup {k}
           /\ state = "archived" => Told!Live' = Told!Live \ {k}
<1>1. rows \in Seq(Notification) /\ rows[k] \in Notification
  BY ElementOf DEF ToldInv, ToldType
<1>2. PICK n : n = [rows[k] EXCEPT !.state = state]
  OBVIOUS
<1>3. n \in Notification /\ n.state = state /\ n.events = rows[k].events
  BY <1>1, <1>2 DEF Notification
<1>4. rows' = [rows EXCEPT ![k] = n]
  BY <1>1, <1>2
<1>5. rows' \in Seq(Notification)
  BY <1>1, <1>3, <1>4, ElementReplaced
<1>6. /\ DOMAIN rows' = DOMAIN rows /\ rows'[k] = n
      /\ \A j \in DOMAIN rows \ {k} : rows'[j] = rows[j]
  BY <1>1, <1>4
<1>7. \A j \in DOMAIN rows : rows'[j].events = rows[j].events
  BY <1>3, <1>6
<1>8. Told!Told' = Told!Told
  <2>1. \A x : x \in Told!Told' <=> \E j \in DOMAIN rows : x \in rows'[j].events
    BY <1>6 DEF Told!Told
  <2>2. \A x : x \in Told!Told <=> \E j \in DOMAIN rows : x \in rows[j].events
    BY DEF Told!Told
  <2> QED
    BY <1>7, <2>1, <2>2
<1>9. state # "archived" => Told!Live' = Told!Live \cup {k}
  BY <1>3, <1>6 DEF Told!Live
<1>10. state = "archived" => Told!Live' = Told!Live \ {k}
  BY <1>3, <1>6 DEF Told!Live
<1> QED
  BY <1>5, <1>8, <1>9, <1>10

(* A row changes between read and unread and carries what it carried       *)
(* (domain/notifications.ts:97-102).                                       *)
LEMMA MarkReadKeeps ==
    ASSUME ToldInv, NEW k, NEW state \in {"unread", "read"}, Told!MarkRead(k, state)
    PROVE  ToldInv'
<1>0. /\ ToldType /\ k \in DOMAIN rows
      /\ rows' = [rows EXCEPT ![k].state = state]
      /\ revived' = (revived \/ rows[k].state = "archived")
      /\ UNCHANGED <<muted, notifying, happened, pending, silenced, dismissed, crowded>>
  BY DEF ToldInv, Told!MarkRead
<1>1. rows' \in Seq(Notification) /\ Told!Told' = Told!Told /\ Told!Live' = Told!Live \cup {k}
  BY <1>0, StateKeeps
<1>2. ~revived' => ~revived /\ Told!Live' = Told!Live
  BY <1>0, <1>1 DEF Told!Live
<1>3. ToldType'
  BY <1>0, <1>1 DEF ToldType
<1>4. EventsAreSomewhere' /\ SendersStand'
  BY <1>0, <1>1 DEF ToldInv, EventsAreSomewhere, SendersStand
<1>5. LooksStand'
  BY <1>0, <1>1, <1>2 DEF ToldInv, LooksStand
<1>6. OneRow'
  BY <1>0, <1>2 DEF ToldInv, OneRow
<1> QED
  BY <1>3, <1>4, <1>5, <1>6 DEF ToldInv

(* Archiving a row takes it from under a sender that was to renew it,      *)
(* which is remembered (domain/notifications.ts:104-106).                  *)
LEMMA ArchiveNotificationsKeeps ==
    ASSUME ToldInv, NEW k, Told!ArchiveNotifications(k)
    PROVE  ToldInv'
<1>0. /\ ToldType /\ k \in DOMAIN rows
      /\ rows' = [rows EXCEPT ![k].state = "archived"]
      /\ dismissed' = (dismissed \/ \E s \in Callers : notifying[s].at = "renew")
      /\ UNCHANGED <<muted, notifying, happened, pending, silenced, crowded, revived>>
  BY DEF ToldInv, Told!ArchiveNotifications
<1>1. rows' \in Seq(Notification) /\ Told!Told' = Told!Told /\ Told!Live' = Told!Live \ {k}
  BY <1>0, StateKeeps
<1>2. ToldType'
  BY <1>0, <1>1 DEF ToldType
<1>3. EventsAreSomewhere' /\ SendersStand'
  BY <1>0, <1>1 DEF ToldInv, EventsAreSomewhere, SendersStand
<1>4. LooksStand'
  BY <1>0, <1>1 DEF ToldInv, LooksStand
<1>5. OneRow'
  BY <1>0, <1>1 DEF ToldInv, OneRow
<1> QED
  BY <1>2, <1>3, <1>4, <1>5 DEF ToldInv

(* All rows are read and carry what they carried                           *)
(* (domain/notifications.ts:108-110).                                      *)
LEMMA MarkAllReadKeeps ==
    ASSUME ToldInv, Told!MarkAllRead
    PROVE  ToldInv'
<1>0. /\ ToldType
      /\ rows' = [k \in DOMAIN rows |->
            IF rows[k].state = "unread" THEN [rows[k] EXCEPT !.state = "read"] ELSE rows[k]]
      /\ UNCHANGED <<muted, notifying, happened, pending, silenced, dismissed, crowded, revived>>
  BY DEF ToldInv, Told!MarkAllRead
<1>1. \A k \in DOMAIN rows : rows[k] \in Notification
  BY <1>0, ElementOf DEF ToldType
<1>2. ASSUME NEW k \in DOMAIN rows
      PROVE  /\ rows'[k] \in Notification /\ rows'[k].events = rows[k].events
             /\ rows'[k].state = "archived" <=> rows[k].state = "archived"
  <2>1. CASE rows[k].state = "unread"
    <3>1. rows'[k] = [rows[k] EXCEPT !.state = "read"]
      BY <1>0, <2>1
    <3> QED
      BY <1>1, <2>1, <3>1 DEF Notification
  <2>2. CASE rows[k].state # "unread"
    BY <1>0, <1>1, <2>2
  <2> QED
    BY <2>1, <2>2
<1>3. DOMAIN rows' = DOMAIN rows
  BY <1>0
<1>4. rows' \in Seq(Notification)
  <2>1. rows' \in [1 .. Len(rows) -> Notification] /\ Len(rows) \in Nat
    BY <1>0, <1>2, <1>3 DEF ToldType
  <2> QED
    BY <2>1
<1>5. Told!Live' = Told!Live
  BY <1>2, <1>3 DEF Told!Live
<1>6. Told!Told' = Told!Told
  <2>1. \A x : x \in Told!Told' <=> \E j \in DOMAIN rows : x \in rows'[j].events
    BY <1>3 DEF Told!Told
  <2>2. \A x : x \in Told!Told <=> \E j \in DOMAIN rows : x \in rows[j].events
    BY DEF Told!Told
  <2> QED
    BY <1>2, <2>1, <2>2
<1>7. ToldType'
  BY <1>0, <1>4 DEF ToldType
<1> QED
  BY <1>0, <1>5, <1>6, <1>7 DEF ToldInv, EventsAreSomewhere, SendersStand, LooksStand, OneRow

(* Every step of the inbox keeps its invariant. *)
LEMMA ToldStep ==
    ASSUME ToldInv, [Told!Next]_inboxvars
    PROVE  ToldInv'
<1>1. ASSUME UNCHANGED <<rows, notifying, happened, pending, silenced, dismissed, crowded,
                         revived>>, muted' \in BOOLEAN
      PROVE  ToldInv'
  <2>1. Told!Told' = Told!Told /\ Told!Live' = Told!Live
    BY <1>1 DEF Told!Told, Told!Live
  <2>2. ToldType'
    BY <1>1 DEF ToldInv, ToldType
  <2> QED
    BY <1>1, <2>1, <2>2 DEF ToldInv, EventsAreSomewhere, SendersStand, LooksStand, OneRow
<1>2. CASE UNCHANGED inboxvars
  BY <1>1, <1>2 DEF inboxvars, ToldInv, ToldType
<1>3. CASE Told!SetPreference
  BY <1>1, <1>3 DEF Told!SetPreference
<1> QED
  BY <1>2, <1>3, NotifyKeeps, LookKeeps, RenewKeeps, AddKeeps, DieKeeps, MarkReadKeeps,
     ArchiveNotificationsKeeps, MarkAllReadKeeps
  DEF Told!Next

(* The invariant has the parts of EventsSurface. *)
LEMMA ToldSafe ==
    ASSUME ToldInv
    PROVE  Told!EventsSurface
<1>1. ~crowded /\ ~revived => Told!Cardinality(Told!Live) <= 1
  BY AtMostOne, ToldCardinality DEF ToldInv, OneRow
<1> QED
  BY <1>1 DEF ToldInv, EventsAreSomewhere, Told!EventsSurface

-----------------------------------------------------------------------------
(* The properties of the services *)

(* The constants are as the lemmas of the services ask. *)
LEMMA ServiceConstants ==
    /\ HubConstants /\ ContentNull /\ ChecksConstants /\ RemindConstants /\ FileConstants
    /\ MaxContentVersions \in Nat \ {0} /\ Days \in Nat \ {0} /\ Null \notin Callers
BY BoundsAssumption, PeopleAssumption, MissingAssumption
DEF HubConstants, ContentNull, ChecksConstants, FileConstants, RemindConstants

(* PeopleAreTold holds in every reachable state: the hub serves its        *)
(* streams (lib/realtime/channel-hub.ts:42-95) and events surface in the   *)
(* inbox (domain/mutation.ts:64-108), whatever the steps in between.       *)
THEOREM PeopleToldAsPromised == ServicesSpec => []PeopleAreTold
<1> DEFINE Inv == HubInv /\ ToldInv
<1>1. ServicesInit => Inv
  BY ServiceConstants, HubInit, ToldInit DEF ServicesInit
<1>2. Inv /\ [ServicesNext]_services => Inv'
  BY ServiceConstants, EachServiceSteps, HubStep, ToldStep
<1>3. Inv => PeopleAreTold
  BY ServiceConstants, HubSafe, ToldSafe DEF PeopleAreTold, Running
<1> QED
  BY <1>1, <1>2, <1>3, PTL DEF ServicesSpec

(* ChecksAreBacked holds in every reachable state: what is done has its    *)
(* evidence, and of generators that collide one comes through              *)
(* (domain/daily-checks.ts:109-188, 233-293).                              *)
THEOREM ChecksBackedAlways == ServicesSpec => []ChecksAreBacked
<1>1. ServicesInit => ChecksInv
  BY ServiceConstants, ChecksInit DEF ServicesInit
<1>2. ChecksInv /\ [ServicesNext]_services => ChecksInv'
  BY ServiceConstants, EachServiceSteps, ChecksStep
<1>3. ChecksInv => ChecksAreBacked
  BY ChecksSafe DEF ChecksAreBacked, Running
<1> QED
  BY <1>1, <1>2, <1>3, PTL DEF ServicesSpec

(* OncePerThreshold holds in every reachable state: marks and what was     *)
(* told agree, and nobody is told twice (domain/subscriptions.ts:90-198).  *)
THEOREM ToldOncePerThreshold == ServicesSpec => []OncePerThreshold
<1>1. ServicesInit => RemindInv
  BY ServiceConstants, RemindInit DEF ServicesInit
<1>2. RemindInv /\ [ServicesNext]_services => RemindInv'
  BY ServiceConstants, EachServiceSteps, RemindStep
<1>3. RemindInv => OncePerThreshold
  BY RemindSafe DEF OncePerThreshold, Running
<1> QED
  BY <1>1, <1>2, <1>3, PTL DEF ServicesSpec

(* VersionsAreBacked holds in every reachable state: versions have no gaps *)
(* and their own bytes, and a scan reports damage and nothing else         *)
(* (domain/files.ts:137-212, domain/storage-integrity.ts:16-58).           *)
THEOREM VersionsBackedAlways == ServicesSpec => []VersionsAreBacked
<1>1. ServicesInit => FilesInv
  BY ServiceConstants, FilesInit DEF ServicesInit
<1>2. FilesInv /\ [ServicesNext]_services => FilesInv'
  BY ServiceConstants, EachServiceSteps, FilesStep
<1>3. FilesInv => VersionsAreBacked
  BY FilesSafe DEF VersionsAreBacked, Running
<1> QED
  BY <1>1, <1>2, <1>3, PTL DEF ServicesSpec

(* ContentWorkIsKept holds in every reachable state: one live version, one *)
(* approved artwork, filled calendars and standing evidence                *)
(* (domain/answers.ts:88-182, domain/knowledge.ts:81-169,                  *)
(* domain/design.ts:52-253, domain/social.ts:133-248).                     *)
THEOREM ContentWorkKept == ServicesSpec => []ContentWorkIsKept
<1> DEFINE Inv == ContentInv /\ RecurInv /\ ConfirmInv /\ DesignInv
<1>1. ServicesInit => Inv
  BY ServiceConstants, ContentInit, RecurInit, ConfirmInit, DesignInit DEF ServicesInit
<1>2. Inv /\ [ServicesNext]_services => Inv'
  BY ServiceConstants, EachServiceSteps, ContentStep, RecurStep, ConfirmStep, DesignStep
<1>3. Inv => ContentWorkIsKept
  BY ServiceConstants, ContentSafe, RecurSafe, DesignSafe
  DEF ContentWorkIsKept, Running, ConfirmInv
<1> QED
  BY <1>1, <1>2, <1>3, PTL DEF ServicesSpec

=============================================================================
