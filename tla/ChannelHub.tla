----------------------------- MODULE ChannelHub -----------------------------
(***************************************************************************)
(* The live signal of discussion channels: one poller per watched channel, *)
(* shared by its streams (lib/realtime/channel-hub.ts), and the life of a  *)
(* stream (app/api/v1/discussions/[id]/live/route.ts).  A signal is the    *)
(* number of changes of the channel, 0 the empty string.  An entry of the  *)
(* hub bears the name of the stream that created it.                       *)
(***************************************************************************)
EXTENDS Naturals, FiniteSets

CONSTANTS
    Streams,     \* connections
    Channels,    \* discussion channels
    MaxChannels, \* MAX_CHANNELS
    MaxChanges,  \* bound on the changes of each channel
    MaxPolls,    \* bound on the polls under way
    MaxStops,    \* bound on how often each is stopped: on cancel and on abort
    Nobody       \* undefined

VARIABLES
    posted,  \* what the database says of each channel
    hub,     \* Map from channels to entries
    entry,   \* the Entry objects, Nobody before they are created
    stream,  \* the streams
    polls    \* polls that await their write-back

hubvars == <<posted, hub, entry, stream, polls>>

NewStream ==
    [stage |-> "new", captured |-> Nobody, stops |-> 0, heard |-> 0, late |-> FALSE]

Watched == {c \in Channels : hub[c] # Nobody}

Attached(s) == stream[s].captured # Nobody

EntryOf(s) == entry[stream[s].captured]

-----------------------------------------------------------------------------
(* subscribeChannelSignal, in the start of a stream *)

Open(s, e, heard, late) ==
    /\ stream[s].stage = "new"
    /\ stream' = [stream EXCEPT ![s] = [stage |-> "open", captured |-> e, stops |-> 0,
                                        heard |-> heard, late |-> late]]
    /\ UNCHANGED <<posted, polls>>

(* The first to watch the channel starts its poller. *)
SubscribeFirst(s, c) ==
    /\ hub[c] = Nobody
    /\ Cardinality(Watched) < MaxChannels
    /\ Open(s, s, 0, FALSE)
    /\ hub' = [hub EXCEPT ![c] = s]
    /\ entry' = [entry EXCEPT ![s] = [channel |-> c, signal |-> 0, listeners |-> {s},
                                      timer |-> TRUE, prime |-> "asked", read |-> 0]]

(* Over the cap: primed once, never updated. *)
SubscribeOverCap(s, c) ==
    /\ hub[c] = Nobody
    /\ Cardinality(Watched) >= MaxChannels
    /\ Open(s, Nobody, 0, FALSE)
    /\ UNCHANGED <<hub, entry>>

(* A later one gets the signal as it stands, which is empty while the      *)
(* first is still being primed.                                            *)
SubscribeNext(s, c) ==
    LET e == hub[c] IN
    /\ e # Nobody
    /\ Open(s, e, entry[e].signal, entry[e].prime # "done")
    /\ entry' = [entry EXCEPT ![e].listeners = @ \cup {s}]
    /\ UNCHANGED hub

(* The aggregate of the first subscriber is read, then stored and sent to  *)
(* that subscriber alone, whatever the poller has stored meanwhile.        *)
PrimeRead(e) ==
    /\ entry[e] # Nobody /\ entry[e].prime = "asked"
    /\ entry' = [entry EXCEPT ![e].prime = "read", ![e].read = posted[entry[e].channel]]
    /\ UNCHANGED <<posted, hub, stream, polls>>

PrimeDone(e) ==
    /\ entry[e] # Nobody /\ entry[e].prime = "read"
    /\ entry' = [entry EXCEPT ![e].prime = "done", ![e].signal = entry[e].read,
                                      ![e].read = 0]
    /\ stream' = [stream EXCEPT ![e].heard =
                    IF stream[e].stage = "open" THEN entry[e].read ELSE @]
    /\ UNCHANGED <<posted, hub, polls>>

PrimeFails(e) ==
    /\ entry[e] # Nobody /\ entry[e].prime # "done"
    /\ entry' = [entry EXCEPT ![e].prime = "done", ![e].read = 0]
    /\ UNCHANGED <<posted, hub, stream, polls>>

-----------------------------------------------------------------------------
(* pollChannelNow *)

(* A timer fires.  It looks its channel up: the entry it polls for need    *)
(* not be the one it was started for.                                      *)
PollRead(t) ==
    /\ entry[t] # Nobody /\ entry[t].timer
    /\ hub[entry[t].channel] # Nobody
    /\ Cardinality(polls) < MaxPolls
    /\ polls' = polls \cup {[entry |-> hub[entry[t].channel],
                             read |-> posted[entry[t].channel]]}
    /\ UNCHANGED <<posted, hub, entry, stream>>

(* A changed signal is stored and fanned out. *)
PollDone(q) ==
    /\ polls' = polls \ {q}
    /\ entry' = [entry EXCEPT ![q.entry].signal = q.read]
    /\ stream' = [s \in Streams |->
                    IF q.read # entry[q.entry].signal /\ s \in entry[q.entry].listeners
                    THEN [stream[s] EXCEPT !.heard = q.read] ELSE stream[s]]
    /\ UNCHANGED <<posted, hub>>

PollFails(q) ==
    /\ polls' = polls \ {q}
    /\ UNCHANGED <<posted, hub, entry, stream>>

-----------------------------------------------------------------------------
(* Variant: whoever leaves takes the channel off the hub. *)
UnsubscribeAll(e, s) ==
    LET left == entry[e].listeners \ {s} IN
    /\ entry' = [entry EXCEPT ![e].listeners = left, ![e].timer = @ /\ left # {}]
    /\ hub' = [hub EXCEPT ![entry[e].channel] = Nobody]

(* unsubscribe, as stop calls it: once for a cancelled stream, and again   *)
(* for the aborted request.                                                *)
Unsubscribe(e, s) ==
    LET left == entry[e].listeners \ {s} IN
    /\ entry' = [entry EXCEPT ![e].listeners = left, ![e].timer = @ /\ left # {}]
    /\ hub' = IF left = {} THEN [hub EXCEPT ![entry[e].channel] = Nobody] ELSE hub

Stop(s) ==
    /\ stream[s].stage # "new" /\ stream[s].stops < MaxStops[s]
    /\ stream' = [stream EXCEPT ![s].stage = "closed", ![s].stops = @ + 1,
                                    ![s].heard = 0, ![s].late = FALSE]
    /\ IF Attached(s) THEN Unsubscribe(stream[s].captured, s) ELSE UNCHANGED <<hub, entry>>
    /\ UNCHANGED <<posted, polls>>

(* A message is sent, edited or removed. *)
ChangeChannel(c) ==
    /\ posted[c] < MaxChanges[c]
    /\ posted' = [posted EXCEPT ![c] = @ + 1]
    /\ UNCHANGED <<hub, entry, stream, polls>>

-----------------------------------------------------------------------------

Init ==
    /\ posted = [c \in Channels |-> 1]
    /\ hub = [c \in Channels |-> Nobody]
    /\ entry = [s \in Streams |-> Nobody]
    /\ stream = [s \in Streams |-> NewStream]
    /\ polls = {}

Next ==
    \/ \E s \in Streams, c \in Channels :
          SubscribeFirst(s, c) \/ SubscribeOverCap(s, c) \/ SubscribeNext(s, c)
    \/ \E s \in Streams :
          PrimeRead(s) \/ PrimeDone(s) \/ PrimeFails(s) \/ PollRead(s) \/ Stop(s)
    \/ \E q \in polls : PollDone(q) \/ PollFails(q)
    \/ \E c \in Channels : ChangeChannel(c)

Spec == Init /\ [][Next]_hubvars

-----------------------------------------------------------------------------

Created == {e \in Streams : entry[e] # Nobody}

PollersHaveListeners ==
    /\ \A e \in Created : entry[e].timer <=> entry[e].listeners # {}
    /\ \A c \in Watched : entry[hub[c]].channel = c /\ entry[hub[c]].timer
    /\ Cardinality(Watched) <= MaxChannels

StreamsAreServed ==
    (\A s \in Streams : stream[s].stops <= 1) =>
    \A s \in Streams : stream[s].stage = "open" /\ Attached(s) =>
        /\ hub[EntryOf(s).channel] = stream[s].captured
        /\ s \in EntryOf(s).listeners

NobodyIsBehind ==
    \A s \in Streams :
        stream[s].stage = "open" /\ Attached(s) /\ ~stream[s].late
        => stream[s].heard = EntryOf(s).signal

(* The hub keeps its books: a poller runs exactly while its entry has      *)
(* listeners and the hub polls at most MaxChannels channels; unless a      *)
(* stream was stopped twice, every open stream hangs on the one entry that *)
(* the hub polls for its channel; and who subscribed to a primed channel   *)
(* has been told whatever the hub has learnt of it since                   *)
(* (lib/realtime/channel-hub.ts:42-95).                                    *)
HubServesStreams == PollersHaveListeners /\ StreamsAreServed /\ NobodyIsBehind

=============================================================================
