-------------------------- MODULE EventLedgerMemory --------------------------
(***************************************************************************)
(* InMemoryEventLedger: a dict by idempotency key and a list per stream,   *)
(* both guarded by one threading.Lock.  Threads are preempted between the  *)
(* statements of append_event; the lock is what keeps the two structures   *)
(* in step for everyone else.  A session is a thread in append_event.       *)
(***************************************************************************)
EXTENDS LedgerEvents, Sequences

CONSTANTS
    Reader,     \* threads calling read_stream
    Limit       \* read_stream's limit

ASSUME LimitAssumption == Limit \in Nat \ {0}
ASSUME NoneAssumption == None \notin Row /\ None \notin Session

VARIABLES
    byKey,      \* _events_by_idempotency
    streams,    \* _streams
    lock,       \* _lock: the thread that holds it, or None
    phase,      \* phase[s]: where thread s is in append_event
    request,    \* request[s]: the event thread s appends
    answer,     \* answer[s]: what append_event returned or raised
    calls,      \* append calls made so far, also the event ids given out
    read        \* read[r]: the stream r last read and what it got

vars == <<byKey, streams, lock, phase, request, answer, calls, read>>

\* The phases are "idle", "waiting" at "with self._lock", "holding" inside it,
\* "indexed" when the event is in the dict and not yet in its stream's list,
\* and "answered".
Init ==
    /\ byKey = [k \in Key |-> None]
    /\ streams = [st \in Stream |-> <<>>]
    /\ lock = None
    /\ phase = [s \in Session |-> "idle"]
    /\ request = [s \in Session |-> None]
    /\ answer = [s \in Session |-> None]
    /\ calls = 0
    /\ read = [r \in Reader |-> None]

Ask(s, e) ==
    /\ phase[s] = "idle"
    /\ calls < MaxCalls
    /\ calls' = calls + 1
    /\ phase' = [phase EXCEPT ![s] = "waiting"]
    /\ request' = [request EXCEPT ![s] = [id |-> calls + 1, event |-> e]]
    /\ UNCHANGED <<byKey, streams, lock, answer, read>>

\* Mutant of Acquire: does not wait for the lock.
AcquireAnyway(s) ==
    /\ phase[s] = "waiting"
    /\ lock' = s
    /\ phase' = [phase EXCEPT ![s] = "holding"]
    /\ UNCHANGED <<byKey, streams, request, answer, calls, read>>

Acquire(s) ==
    /\ phase[s] = "waiting"
    /\ lock = None
    /\ lock' = s
    /\ phase' = [phase EXCEPT ![s] = "holding"]
    /\ UNCHANGED <<byKey, streams, request, answer, calls, read>>

\* Mutant of IndexEvent: overwrites the entry of a key that is taken.
IndexEventUnchecked(s) ==
    /\ phase[s] = "holding"
    /\ byKey' = [byKey EXCEPT ![request[s].event.key] = request[s]]
    /\ phase' = [phase EXCEPT ![s] = "indexed"]
    /\ UNCHANGED <<streams, lock, request, answer, calls, read>>

IndexEvent(s) ==
    /\ phase[s] = "holding"
    /\ byKey[request[s].event.key] = None
    /\ byKey' = [byKey EXCEPT ![request[s].event.key] = request[s]]
    /\ phase' = [phase EXCEPT ![s] = "indexed"]
    /\ UNCHANGED <<streams, lock, request, answer, calls, read>>

\* Mutant of Leave: an acquire without its release.
LeaveLocked(s, a) ==
    /\ phase' = [phase EXCEPT ![s] = "answered"]
    /\ answer' = [answer EXCEPT ![s] = a]
    /\ UNCHANGED lock

\* Leaving the "with" block, by return or by raise, releases the lock.
Leave(s, a) ==
    /\ lock' = None
    /\ phase' = [phase EXCEPT ![s] = "answered"]
    /\ answer' = [answer EXCEPT ![s] = a]

\* Mutant of AppendToStream: newest first.
PrependToStream(s) ==
    /\ phase[s] = "indexed"
    /\ streams' = [streams EXCEPT ![request[s].event.stream] = <<request[s]>> \o @]
    /\ Leave(s, [status |-> "appended", id |-> request[s].id])
    /\ UNCHANGED <<byKey, request, calls, read>>

AppendToStream(s) ==
    /\ phase[s] = "indexed"
    /\ streams' = [streams EXCEPT ![request[s].event.stream] = Append(@, request[s])]
    /\ Leave(s, [status |-> "appended", id |-> request[s].id])
    /\ UNCHANGED <<byKey, request, calls, read>>

CompareExisting(s) ==
    /\ phase[s] = "holding"
    /\ byKey[request[s].event.key] # None
    /\ Leave(s, Verdict(byKey[request[s].event.key], request[s].event))
    /\ UNCHANGED <<byKey, streams, request, calls, read>>

Return(s) ==
    /\ phase[s] = "answered"
    /\ phase' = [phase EXCEPT ![s] = "idle"]
    /\ request' = [request EXCEPT ![s] = None]
    /\ answer' = [answer EXCEPT ![s] = None]
    /\ UNCHANGED <<byKey, streams, lock, calls, read>>

\* The list is copied and cut inside the lock, in one step for the others.
ReadStream(r, st) ==
    /\ lock = None
    /\ read' = [read EXCEPT ![r] =
            [stream |-> st,
             rows |-> SubSeq(streams[st], 1,
                             IF Len(streams[st]) < Limit
                             THEN Len(streams[st]) ELSE Limit)]]
    /\ UNCHANGED <<byKey, streams, lock, phase, request, answer, calls>>

Run(s) ==
    \/ Acquire(s)
    \/ IndexEvent(s)
    \/ AppendToStream(s)
    \/ CompareExisting(s)
    \/ Return(s)

Next ==
    \/ \E s \in Session : Run(s) \/ \E e \in Event : Ask(s, e)
    \/ \E r \in Reader, st \in Stream : ReadStream(r, st)

Spec == Init /\ [][Next]_vars

\* Threads inside append_event are scheduled.  threading.Lock is not fair,
\* but MaxCalls lets only finitely many others overtake.
FairSpec == Spec /\ \A s \in Session : WF_vars(Run(s))
-----------------------------------------------------------------------------
\* An event exists once it is in its stream.
StreamRows == UNION {{streams[st][i] : i \in 1..Len(streams[st])} : st \in Stream}

LedgerPhase ==
    [s \in Session |->
        IF phase[s] \in {"idle", "answered"} THEN phase[s] ELSE "asked"]

L == INSTANCE Ledger WITH rows <- StreamRows, phase <- LedgerPhase

\* append_event is atomic for its callers although the dict and the list
\* are updated one after the other.
ImplementsLedger == L!Spec

\* Whenever the lock is free, the dict and the lists hold the same events:
\* each in its own stream, once.
IndexMatchesStreams ==
    lock = None =>
        /\ StreamRows = {byKey[k] : k \in Key} \ {None}
        /\ \A st \in Stream : \A i, j \in 1..Len(streams[st]) :
            /\ streams[st][i].event.stream = st
            /\ streams[st][i] = streams[st][j] => i = j

\* What append_event told a thread, by the dict, is true of the lists, which are
\* what readers see, and stays true while the others go on: "appended" names
\* its own event, "duplicate" one of the same content under its key, and a
\* refusal the event of other content that has the key.
AnswersAreTrue == L!AnswersAreTrue

\* A reader that reads a stream again gets what it got before, in the same
\* order and in front: nothing is inserted below what was read.
ReadsExtend ==
    [][\A r \in Reader :
        read[r] # None /\ read'[r].stream = read[r].stream =>
            SubSeq(read'[r].rows, 1, Len(read[r].rows)) = read[r].rows]_read

\* Every append_event returns: no path out of the lock keeps it.
EveryCallEnds == \A s \in Session : phase[s] # "idle" ~> phase[s] = "idle"
=============================================================================
