----------------------- MODULE EventLedgerMemoryProofs -----------------------
(***************************************************************************)
(* InMemoryEventLedger, whatever the number of threads, readers and calls: *)
(* the dict and the lists agree whenever the lock is free, append_event is *)
(* atomic, and a reader never sees its past change.                        *)
(***************************************************************************)
EXTENDS EventLedgerMemory, TLAPS

Phases == {"idle", "waiting", "holding", "indexed", "answered"}

MemoryTypeOK ==
    /\ byKey \in [Key -> Row \cup {None}]
    /\ streams \in [Stream -> Seq(Row)]
    /\ lock \in Session \cup {None}
    /\ phase \in [Session -> Phases]
    /\ request \in [Session -> Row \cup {None}]
    /\ answer \in [Session -> Answer \cup {None}]
    /\ calls \in 0..MaxCalls
    /\ read \in [Reader -> [stream : Stream, rows : Seq(Row)] \cup {None}]

\* A thread past the lock holds it, and a thread in a call has its event.
LockIsHeld ==
    \A s \in Session :
        /\ phase[s] \in {"holding", "indexed"} => lock = s
        /\ phase[s] # "idle" => request[s] \in Row

\* The dict is filed by key, the lists by stream, and what is listed is what
\* the dict holds, once.
ListsAreIndexed ==
    /\ \A k \in Key : byKey[k] # None => byKey[k].event.key = k
    /\ \A st \in Stream : \A i \in 1..Len(streams[st]) :
        /\ streams[st][i].event.stream = st
        /\ byKey[streams[st][i].event.key] = streams[st][i]
    /\ \A st \in Stream : \A i, j \in 1..Len(streams[st]) :
        streams[st][i] = streams[st][j] => i = j

\* The dict runs ahead of the lists by the event of the thread that is
\* between its two statements, and by no other.
IndexRunsAhead ==
    /\ \A s \in Session : phase[s] = "indexed" =>
        /\ byKey[request[s].event.key] = request[s]
        /\ request[s] \notin StreamRows
    /\ \A k \in Key : byKey[k] # None =>
        \/ byKey[k] \in StreamRows
        \/ \E s \in Session : phase[s] = "indexed" /\ byKey[k] = request[s]

\* What a reader got is the front of its stream, cut at the limit.
ReadsArePrefixes ==
    \A r \in Reader : read[r] # None =>
        /\ Len(read[r].rows) <= Limit
        /\ Len(read[r].rows) <= Len(streams[read[r].stream])
        /\ \A i \in 1..Len(read[r].rows) : read[r].rows[i] = streams[read[r].stream][i]

\* The inductive invariant.
IInv == MemoryTypeOK /\ LockIsHeld /\ ListsAreIndexed /\ IndexRunsAhead /\ ReadsArePrefixes

\* Membership in StreamRows, by position.
LEMMA StreamRowsByPosition ==
    \A x : x \in StreamRows <=>
            \E st \in Stream : \E i \in 1..Len(streams[st]) : x = streams[st][i]
BY DEF StreamRows

LEMMA InitIInv == Init => IInv
BY MaxCallsAssumption
   DEF Init, IInv, MemoryTypeOK, Phases, LockIsHeld, ListsAreIndexed, IndexRunsAhead,
       ReadsArePrefixes, StreamRows

\* A new call touches neither structure.
LEMMA AskIInv ==
    ASSUME IInv, NEW s \in Session, NEW e \in Event, Ask(s, e)
    PROVE  IInv'
<1> USE DEF IInv, Ask
<1>1. calls' \in 0..MaxCalls /\ [id |-> calls + 1, event |-> e] \in Row
  BY MaxCallsAssumption DEF MemoryTypeOK, Row
<1>2. MemoryTypeOK' /\ LockIsHeld'
  BY <1>1 DEF MemoryTypeOK, Phases, LockIsHeld
<1>3. ListsAreIndexed' /\ ReadsArePrefixes'
  BY DEF ListsAreIndexed, ReadsArePrefixes
<1>4. IndexRunsAhead'
  <2>1. StreamRows' = StreamRows
    BY DEF StreamRows
  <2>2. \A q \in Session : (phase'[q] = "indexed" <=> phase[q] = "indexed")
                         /\ (phase[q] = "indexed" => request'[q] = request[q])
    BY DEF MemoryTypeOK
  <2> QED
    BY <2>1, <2>2, SMTT(30) DEF IndexRunsAhead
<1> QED
  BY <1>2, <1>3, <1>4

\* Taking the lock changes no structure; nobody else is past it.
LEMMA AcquireIInv ==
    ASSUME IInv, NEW s \in Session, Acquire(s)
    PROVE  IInv'
<1> USE DEF IInv, Acquire
<1>1. MemoryTypeOK'
  BY DEF MemoryTypeOK, Phases
<1>2. LockIsHeld'
  BY NoneAssumption DEF LockIsHeld, MemoryTypeOK
<1>3. ListsAreIndexed' /\ ReadsArePrefixes'
  BY DEF ListsAreIndexed, ReadsArePrefixes
<1>4. IndexRunsAhead'
  BY DEF IndexRunsAhead, MemoryTypeOK, StreamRows
<1> QED
  BY <1>1, <1>2, <1>3, <1>4

\* The dict gets an event whose key no list holds.
LEMMA IndexEventIInv ==
    ASSUME IInv, NEW s \in Session, IndexEvent(s)
    PROVE  IInv'
<1> DEFINE row == request[s]
           key == row.event.key
<1> USE DEF IInv
<1>1. /\ phase[s] = "holding" /\ byKey[key] = None
      /\ byKey' = [byKey EXCEPT ![key] = row]
      /\ phase' = [phase EXCEPT ![s] = "indexed"]
      /\ UNCHANGED <<streams, lock, request, answer, calls, read>>
  BY DEF IndexEvent
<1>2. row \in Row /\ lock = s /\ row # None
  BY <1>1, NoneAssumption DEF LockIsHeld
<1>3. key \in Key
  BY <1>2, EventAssumption DEF Row
<1>4. MemoryTypeOK'
  BY <1>1, <1>2 DEF MemoryTypeOK, Phases
<1>5. LockIsHeld'
  BY <1>1, <1>2 DEF LockIsHeld, MemoryTypeOK
<1>6. \A st \in Stream : \A i \in 1..Len(streams[st]) :
        streams[st][i] \in Row /\ streams[st][i] # None /\ streams[st][i].event.key # key
  <2> TAKE st \in Stream
  <2>1. streams[st] \in Seq(Row)
    BY DEF MemoryTypeOK
  <2> TAKE i \in 1..Len(streams[st])
  <2>2. streams[st][i] \in Row
    BY <2>1
  <2> QED
    BY <1>1, <2>2, NoneAssumption DEF ListsAreIndexed
<1>7. row \notin StreamRows
  BY <1>6, StreamRowsByPosition
<1>8. ListsAreIndexed'
  BY <1>1, <1>3, <1>6 DEF ListsAreIndexed, MemoryTypeOK
<1>9. IndexRunsAhead'
  <2>1. \A t \in Session : phase'[t] = "indexed" => t = s
    BY <1>1, <1>2 DEF LockIsHeld, MemoryTypeOK
  <2>2. UNCHANGED StreamRows
    BY <1>1 DEF StreamRows
  <2>3. \A t \in Session : phase[t] # "indexed"
    BY <1>1, <1>2 DEF LockIsHeld
  <2>4. phase'[s] = "indexed" /\ byKey'[key] = row
    BY <1>1, <1>3 DEF MemoryTypeOK
  <2>5. \A k \in Key \ {key} : byKey'[k] = byKey[k]
    BY <1>1 DEF MemoryTypeOK
  <2> QED
    BY <1>1, <1>7, <2>1, <2>2, <2>3, <2>4, <2>5 DEF IndexRunsAhead
<1>10. ReadsArePrefixes'
  BY <1>1 DEF ReadsArePrefixes
<1> QED
  BY <1>4, <1>5, <1>8, <1>9, <1>10

\* What appending a row to one stream makes of the streams.
LEMMA AppendedRow ==
    ASSUME streams \in [Stream -> Seq(Row)], NEW st \in Stream, NEW row \in Row,
           streams' = [streams EXCEPT ![st] = Append(@, row)]
    PROVE  /\ streams' \in [Stream -> Seq(Row)]
           /\ Len(streams'[st]) = Len(streams[st]) + 1
           /\ streams'[st][Len(streams[st]) + 1] = row
           /\ \A i \in 1..Len(streams[st]) : streams'[st][i] = streams[st][i]
           /\ \A t \in Stream \ {st} : streams'[t] = streams[t]
           /\ StreamRows' = StreamRows \cup {row}
<1>1. streams[st] \in Seq(Row) /\ Len(streams[st]) \in Nat
  OBVIOUS
<1>2. streams'[st] = Append(streams[st], row)
  OBVIOUS
<1>3. /\ streams' \in [Stream -> Seq(Row)]
      /\ \A t \in Stream \ {st} : streams'[t] = streams[t]
  BY <1>1
<1>4. /\ Len(streams'[st]) = Len(streams[st]) + 1
      /\ streams'[st][Len(streams[st]) + 1] = row
      /\ \A i \in 1..Len(streams[st]) : streams'[st][i] = streams[st][i]
  BY <1>1, <1>2
<1>5. StreamRows' = StreamRows \cup {row}
  <2>1. ASSUME NEW x \in StreamRows'
        PROVE  x \in StreamRows \cup {row}
    <3>0. PICK t \in Stream : \E i \in 1..Len(streams'[t]) : x = streams'[t][i]
      BY <2>1 DEF StreamRows
    <3>1. PICK i \in 1..Len(streams'[t]) : x = streams'[t][i]
      BY <3>0
    <3>2. CASE t = st
      BY <3>1, <3>2, <1>1, <1>4 DEF StreamRows
    <3>3. CASE t # st
      BY <3>1, <3>3, <1>3 DEF StreamRows
    <3> QED
      BY <3>2, <3>3
  <2>2. ASSUME NEW x \in StreamRows
        PROVE  x \in StreamRows'
    <3>0. PICK t \in Stream : \E i \in 1..Len(streams[t]) : x = streams[t][i]
      BY <2>2 DEF StreamRows
    <3>1. PICK i \in 1..Len(streams[t]) : x = streams[t][i]
      BY <3>0
    <3>2. i \in 1..Len(streams'[t]) /\ x = streams'[t][i]
      BY <3>1, <1>1, <1>3, <1>4
    <3> QED
      BY <3>2 DEF StreamRows
  <2>3. row \in StreamRows'
    <3>1. Len(streams[st]) + 1 \in 1..Len(streams'[st])
      BY <1>1, <1>4
    <3> QED
      BY <3>1, <1>4 DEF StreamRows
  <2> QED
    BY <2>1, <2>2, <2>3
<1> QED
  BY <1>3, <1>4, <1>5

\* The list gets the event the dict already holds, and the lock is released.
LEMMA AppendToStreamIInv ==
    ASSUME IInv, NEW s \in Session, AppendToStream(s)
    PROVE  IInv' /\ StreamRows' = StreamRows \cup {request[s]}
<1> DEFINE row == request[s]
           st == row.event.stream
<1> USE DEF IInv
<1>1. /\ phase[s] = "indexed"
      /\ streams' = [streams EXCEPT ![st] = Append(@, row)]
      /\ lock' = None
      /\ phase' = [phase EXCEPT ![s] = "answered"]
      /\ answer' = [answer EXCEPT ![s] = [status |-> "appended", id |-> row.id]]
      /\ UNCHANGED <<byKey, request, calls, read>>
  BY DEF AppendToStream, Leave
<1>2. row \in Row /\ lock = s /\ st \in Stream /\ row.event.key \in Key
  BY <1>1, EventAssumption DEF LockIsHeld, Row
<1>3. streams \in [Stream -> Seq(Row)]
  BY DEF MemoryTypeOK
<1>4. /\ streams' \in [Stream -> Seq(Row)]
      /\ Len(streams'[st]) = Len(streams[st]) + 1
      /\ streams'[st][Len(streams[st]) + 1] = row
      /\ \A i \in 1..Len(streams[st]) : streams'[st][i] = streams[st][i]
      /\ \A t \in Stream \ {st} : streams'[t] = streams[t]
      /\ StreamRows' = StreamRows \cup {row}
  BY <1>1, <1>2, <1>3, AppendedRow
<1>5. Len(streams[st]) \in Nat
  BY <1>2, <1>3
<1>own. row = request[s] /\ row.event.stream = st
  OBVIOUS
<1> HIDE DEF row, st
<1>6. MemoryTypeOK'
  <2>1. [status |-> "appended", id |-> row.id] \in Answer
    BY <1>2 DEF Answer, Statuses, Row
  <2> QED
    BY <1>1, <1>4, <2>1 DEF MemoryTypeOK, Phases
<1>7. LockIsHeld'
  BY <1>1, <1>2 DEF LockIsHeld, MemoryTypeOK
<1>8. ListsAreIndexed'
  <2>1. byKey[row.event.key] = row /\ row \notin StreamRows
    BY <1>1, <1>own DEF IndexRunsAhead
  <2>2. \A i \in 1..Len(streams[st]) : streams[st][i] # row
    BY <1>2, <2>1, StreamRowsByPosition
  <2>3. ASSUME NEW t \in Stream, NEW i \in 1..Len(streams'[t])
        PROVE  streams'[t][i].event.stream = t /\ byKey[streams'[t][i].event.key] = streams'[t][i]
    <3>1. CASE t = st /\ i = Len(streams[st]) + 1
      BY <3>1, <1>4, <1>own, <2>1
    <3>2. CASE t = st /\ i # Len(streams[st]) + 1
      <4>1. i \in 1..Len(streams[st])
        BY <3>2, <1>4, <1>5
      <4> QED
        BY <4>1, <3>2, <1>2, <1>4 DEF ListsAreIndexed
    <3>3. CASE t # st
      BY <3>3, <1>4 DEF ListsAreIndexed
    <3> QED
      BY <3>1, <3>2, <3>3
  <2>4. ASSUME NEW t \in Stream, NEW i \in 1..Len(streams'[t]), NEW j \in 1..Len(streams'[t]),
               streams'[t][i] = streams'[t][j]
        PROVE  i = j
    <3>1. CASE t = st
      <4>1. i \in 1..Len(streams[st]) \/ i = Len(streams[st]) + 1
        BY <3>1, <1>4, <1>5
      <4>2. j \in 1..Len(streams[st]) \/ j = Len(streams[st]) + 1
        BY <3>1, <1>4, <1>5
      <4> QED
        BY <4>1, <4>2, <3>1, <2>4, <2>2, <1>2, <1>4 DEF ListsAreIndexed
    <3>2. CASE t # st
      BY <3>2, <2>4, <1>4 DEF ListsAreIndexed
    <3> QED
      BY <3>1, <3>2
  <2> QED
    BY <1>1, <2>3, <2>4 DEF ListsAreIndexed
<1>9. IndexRunsAhead'
  <2>1. \A t \in Session : phase'[t] # "indexed"
    BY <1>1, <1>2 DEF LockIsHeld, MemoryTypeOK
  <2>2. \A t \in Session : phase[t] = "indexed" => t = s
    BY <1>2 DEF LockIsHeld
  <2> QED
    BY <1>1, <1>4, <1>own, <2>1, <2>2 DEF IndexRunsAhead
<1>10. ReadsArePrefixes'
  <2> SUFFICES ASSUME NEW r \in Reader, read[r] # None
               PROVE  ReadsArePrefixes!(r)!2'
    BY <1>1 DEF ReadsArePrefixes
  <2>1. read[r].stream \in Stream /\ read[r].rows \in Seq(Row)
    BY DEF MemoryTypeOK
  <2>2. CASE read[r].stream = st
    <3>1. /\ Len(read[r].rows) <= Limit /\ Len(read[r].rows) <= Len(streams[st])
          /\ \A i \in 1..Len(read[r].rows) : read[r].rows[i] = streams[st][i]
      BY <2>2 DEF ReadsArePrefixes
    <3>2. Len(read[r].rows) \in Nat
      BY <2>1
    <3>3. \A i \in 1..Len(read[r].rows) : i \in 1..Len(streams[st])
      BY <3>1, <3>2, <1>5
    <3> QED
      BY <2>2, <3>1, <3>2, <3>3, <1>1, <1>4, <1>5
  <2>3. CASE read[r].stream # st
    BY <2>1, <2>3, <1>1, <1>4 DEF ReadsArePrefixes
  <2> QED
    BY <2>2, <2>3
<1> QED
  BY <1>4, <1>6, <1>7, <1>8, <1>9, <1>10, <1>own

\* A judged call changes no structure.
LEMMA CompareExistingIInv ==
    ASSUME IInv, NEW s \in Session, CompareExisting(s)
    PROVE  IInv'
<1> USE DEF IInv
<1>1. /\ phase[s] = "holding" /\ byKey[request[s].event.key] # None
      /\ lock' = None
      /\ phase' = [phase EXCEPT ![s] = "answered"]
      /\ answer' = [answer EXCEPT ![s] = Verdict(byKey[request[s].event.key], request[s].event)]
      /\ UNCHANGED <<byKey, streams, request, calls, read>>
  BY DEF CompareExisting, Leave
<1>2. request[s].event.key \in Key /\ lock = s
  BY <1>1, EventAssumption DEF LockIsHeld, Row
<1>3. Verdict(byKey[request[s].event.key], request[s].event) \in Answer
  BY <1>1, <1>2 DEF Verdict, Answer, Statuses, MemoryTypeOK, Row
<1>4. MemoryTypeOK'
  BY <1>1, <1>3 DEF MemoryTypeOK, Phases
<1>5. LockIsHeld'
  BY <1>1, <1>2 DEF LockIsHeld, MemoryTypeOK
<1>6. ListsAreIndexed' /\ ReadsArePrefixes'
  BY <1>1 DEF ListsAreIndexed, ReadsArePrefixes
<1>7. IndexRunsAhead'
  BY <1>1 DEF IndexRunsAhead, MemoryTypeOK, StreamRows
<1> QED
  BY <1>4, <1>5, <1>6, <1>7

LEMMA ReturnIInv ==
    ASSUME IInv, NEW s \in Session, Return(s)
    PROVE  IInv'
<1> USE DEF IInv, Return
<1>1. MemoryTypeOK' /\ LockIsHeld'
  BY DEF MemoryTypeOK, Phases, LockIsHeld
<1>2. ListsAreIndexed' /\ ReadsArePrefixes'
  BY DEF ListsAreIndexed, ReadsArePrefixes
<1>3. IndexRunsAhead'
  <2>1. \A t \in Session : phase'[t] = "indexed" <=> phase[t] = "indexed"
    BY DEF MemoryTypeOK
  <2>2. \A t \in Session : phase[t] = "indexed" => request'[t] = request[t]
    BY DEF MemoryTypeOK
  <2>3. UNCHANGED <<StreamRows, byKey>>
    BY DEF StreamRows
  <2> QED
    BY <2>1, <2>2, <2>3 DEF IndexRunsAhead
<1> QED
  BY <1>1, <1>2, <1>3

\* What SubSeq(streams[st], 1, least of its length and the limit) is.
LEMMA FrontOfStream ==
    ASSUME NEW q \in Seq(Row), NEW n, n = (IF Len(q) < Limit THEN Len(q) ELSE Limit)
    PROVE  /\ n \in Nat /\ n <= Limit /\ n <= Len(q)
           /\ SubSeq(q, 1, n) \in Seq(Row) /\ Len(SubSeq(q, 1, n)) = n
           /\ \A i \in 1..n : SubSeq(q, 1, n)[i] = q[i]
<1>1. n \in Nat /\ n <= Limit /\ n <= Len(q)
  BY LimitAssumption
<1> QED
  BY <1>1

\* A read takes the front of a list.
LEMMA ReadStreamIInv ==
    ASSUME IInv, NEW r \in Reader, NEW st \in Stream, ReadStream(r, st)
    PROVE  IInv'
<1> DEFINE n == IF Len(streams[st]) < Limit THEN Len(streams[st]) ELSE Limit
           got == [stream |-> st, rows |-> SubSeq(streams[st], 1, n)]
<1> USE DEF IInv
<1>1. /\ read' = [read EXCEPT ![r] = got]
      /\ UNCHANGED <<byKey, streams, lock, phase, request, answer, calls>>
  BY DEF ReadStream
<1>2. streams[st] \in Seq(Row)
  BY DEF MemoryTypeOK
<1>3. /\ n \in Nat /\ n <= Limit /\ n <= Len(streams[st])
      /\ got.rows \in Seq(Row) /\ Len(got.rows) = n
      /\ \A i \in 1..n : got.rows[i] = streams[st][i]
  BY <1>2, FrontOfStream
<1>4. MemoryTypeOK'
  BY <1>1, <1>3 DEF MemoryTypeOK
<1>5. LockIsHeld' /\ ListsAreIndexed'
  BY <1>1 DEF LockIsHeld, ListsAreIndexed
<1>6. IndexRunsAhead'
  BY <1>1 DEF IndexRunsAhead, StreamRows
<1>7. ReadsArePrefixes'
  <2> SUFFICES ASSUME NEW u \in Reader, read'[u] # None
               PROVE  ReadsArePrefixes!(u)!2'
    BY DEF ReadsArePrefixes
  <2>1. CASE u = r
    <3>1. read'[u] = got /\ got.stream = st
      BY <1>1, <2>1 DEF MemoryTypeOK
    <3> HIDE DEF got, n
    <3> QED
      BY <1>1, <1>3, <3>1
  <2>2. CASE u # r
    BY <1>1, <2>2 DEF ReadsArePrefixes, MemoryTypeOK
  <2> QED
    BY <2>1, <2>2
<1> QED
  BY <1>4, <1>5, <1>6, <1>7

\* Every step keeps the invariant.
LEMMA NextIInv == IInv /\ [Next]_vars => IInv'
<1> SUFFICES ASSUME IInv, [Next]_vars
             PROVE  IInv'
  OBVIOUS
<1>1. CASE UNCHANGED vars
  BY <1>1 DEF vars, IInv, MemoryTypeOK, LockIsHeld, ListsAreIndexed, IndexRunsAhead,
              ReadsArePrefixes, StreamRows
<1>2. CASE Next
  BY <1>2, AskIInv, AcquireIInv, IndexEventIInv, AppendToStreamIInv, CompareExistingIInv,
     ReturnIInv, ReadStreamIInv DEF Next, Run
<1> QED
  BY <1>1, <1>2

-----------------------------------------------------------------------------
\* The inductive invariant holds of every behaviour.
THEOREM MemoryInvariant == Spec => []IInv
BY InitIInv, NextIInv, PTL DEF Spec

\* Whenever the lock is free, the dict and the lists hold the same events,
\* each in its own stream, once: nobody is between the two statements.
THEOREM MemoryIndexMatchesStreams == Spec => []IndexMatchesStreams
<1>1. ASSUME IInv
      PROVE  IndexMatchesStreams
  <2> SUFFICES ASSUME lock = None
               PROVE  IndexMatchesStreams!2
    BY DEF IndexMatchesStreams
  <2>1. \A s \in Session : phase[s] # "indexed"
    BY <1>1, NoneAssumption DEF IInv, LockIsHeld
  <2>2. \A k \in Key : byKey[k] # None => byKey[k] \in StreamRows
    BY <1>1, <2>1 DEF IInv, IndexRunsAhead
  <2>3. ASSUME NEW x \in StreamRows
        PROVE  \E k \in Key : x = byKey[k] /\ x # None
    <3>0. PICK st \in Stream : \E i \in 1..Len(streams[st]) : x = streams[st][i]
      BY <2>3, StreamRowsByPosition
    <3>1. PICK i \in 1..Len(streams[st]) : x = streams[st][i]
      BY <3>0
    <3>2. streams[st] \in Seq(Row)
      BY <1>1 DEF IInv, MemoryTypeOK
    <3>3. x \in Row
      BY <3>1, <3>2
    <3>4. x.event.key \in Key /\ byKey[x.event.key] = x
      BY <1>1, <3>1, <3>3, EventAssumption DEF IInv, ListsAreIndexed, Row
    <3> QED
      BY <3>3, <3>4, NoneAssumption
  <2>4. StreamRows = {byKey[k] : k \in Key} \ {None}
    BY <2>2, <2>3
  <2> QED
    BY <1>1, <2>4 DEF IInv, ListsAreIndexed
<1> QED
  BY <1>1, MemoryInvariant, PTL

\* No reader sees its past change: both reads are fronts of one growing list,
\* cut at one limit.
THEOREM MemoryReadsExtend == Spec => ReadsExtend
<1>1. ASSUME IInv, IInv', [Next]_vars
      PROVE  [\A r \in Reader :
                read[r] # None /\ read'[r].stream = read[r].stream =>
                    SubSeq(read'[r].rows, 1, Len(read[r].rows)) = read[r].rows]_read
  <2> SUFFICES ASSUME read' # read, NEW r \in Reader,
                      read[r] # None, read'[r].stream = read[r].stream
               PROVE  SubSeq(read'[r].rows, 1, Len(read[r].rows)) = read[r].rows
    OBVIOUS
  <2>1. PICK u \in Reader, st \in Stream : ReadStream(u, st)
    BY <1>1 DEF Next, Run, vars, Ask, Acquire, IndexEvent, AppendToStream, CompareExisting,
                Return
  <2> DEFINE old == read[r].rows
             new == read'[r].rows
  <2>2. streams' = streams /\ old \in Seq(Row)
    BY <1>1, <2>1 DEF ReadStream, IInv, MemoryTypeOK
  <2>3. /\ new \in Seq(Row) /\ Len(old) <= Len(new)
        /\ \A i \in 1..Len(old) : new[i] = old[i]
    <3>1. CASE u = r
      <4> DEFINE q == streams[st]
                 n == IF Len(q) < Limit THEN Len(q) ELSE Limit
      <4>1. q \in Seq(Row)
        BY <1>1 DEF IInv, MemoryTypeOK
      <4>2. read' = [read EXCEPT ![r] = [stream |-> st, rows |-> SubSeq(q, 1, n)]]
        BY <2>1, <3>1 DEF ReadStream
      <4>3. new = SubSeq(q, 1, n) /\ read[r].stream = st
        BY <1>1, <4>2 DEF IInv, MemoryTypeOK
      <4>4. /\ Len(old) <= Limit /\ Len(old) <= Len(q)
            /\ \A i \in 1..Len(old) : old[i] = q[i]
        BY <1>1, <4>3 DEF IInv, ReadsArePrefixes
      <4>5. /\ n \in Nat /\ Len(SubSeq(q, 1, n)) = n /\ SubSeq(q, 1, n) \in Seq(Row)
            /\ \A i \in 1..n : SubSeq(q, 1, n)[i] = q[i]
        BY <4>1, FrontOfStream
      <4>6. Len(old) <= n /\ Len(old) \in Nat
        BY <2>2, <4>4
      <4> HIDE DEF n, q
      <4> QED
        BY <2>2, <4>3, <4>4, <4>5, <4>6
    <3>2. CASE u # r
      <4>1. read'[r] = read[r]
        BY <1>1, <2>1, <3>2 DEF ReadStream, IInv, MemoryTypeOK
      <4> QED
        BY <2>2, <4>1
    <3> QED
      BY <3>1, <3>2
  <2> QED
    BY <2>2, <2>3
<1> QED
  BY <1>1, MemoryInvariant, PTL DEF Spec, ReadsExtend

-----------------------------------------------------------------------------
(***************************************************************************)
(* The refinement: AppendToStream is AppendRow, CompareExisting is Judge,  *)
(* Return is End, and taking the lock, filling the dict and reading are    *)
(* invisible.                                                              *)
(***************************************************************************)
LEMMA InitRefines == Init => L!Init
BY DEF Init, L!Init, StreamRows, LedgerPhase

\* Every statement of append_event is a step of the ledger, or invisible.
LEMMA StepRefines == IInv /\ [Next]_vars => [L!Next]_(L!vars)
<1> SUFFICES ASSUME IInv, [Next]_vars
             PROVE  L!Next \/ UNCHANGED L!vars
  OBVIOUS
<1> USE DEF IInv
<1>1. ASSUME NEW s \in Session, NEW e \in Event, Ask(s, e)
      PROVE  L!Ask(s, e)
  <2>1. LedgerPhase[s] = "idle" /\ LedgerPhase' = [LedgerPhase EXCEPT ![s] = "asked"]
    BY <1>1 DEF Ask, LedgerPhase, MemoryTypeOK
  <2> QED
    BY <1>1, <2>1 DEF Ask, L!Ask, StreamRows
<1>2. ASSUME NEW s \in Session, Acquire(s) \/ IndexEvent(s)
      PROVE  UNCHANGED L!vars
  BY <1>2 DEF Acquire, IndexEvent, L!vars, StreamRows, LedgerPhase, MemoryTypeOK
<1>3. ASSUME NEW s \in Session, AppendToStream(s)
      PROVE  L!AppendRow(s)
  <2>1. /\ phase[s] = "indexed" /\ UNCHANGED <<request, calls>>
        /\ phase' = [phase EXCEPT ![s] = "answered"]
        /\ answer' = [answer EXCEPT ![s] = [status |-> "appended", id |-> request[s].id]]
    BY <1>3 DEF AppendToStream, Leave
  <2>2. StreamRows' = StreamRows \cup {request[s]}
    BY <1>3, AppendToStreamIInv
  <2>3. ASSUME NEW r \in StreamRows
        PROVE  r.event.key # request[s].event.key
    BY <2>1, StreamRowsByPosition DEF ListsAreIndexed, IndexRunsAhead
  <2>4. LedgerPhase[s] = "asked" /\ LedgerPhase' = [LedgerPhase EXCEPT ![s] = "answered"]
    BY <2>1 DEF LedgerPhase, MemoryTypeOK
  <2> QED
    BY <2>1, <2>2, <2>3, <2>4 DEF L!AppendRow, L!Tell
<1>4. ASSUME NEW s \in Session, CompareExisting(s)
      PROVE  L!Judge(s)
  <2> DEFINE r == byKey[request[s].event.key]
  <2>1. /\ phase[s] = "holding" /\ r # None
        /\ phase' = [phase EXCEPT ![s] = "answered"]
        /\ answer' = [answer EXCEPT ![s] = Verdict(r, request[s].event)]
        /\ UNCHANGED <<streams, request, calls>>
    BY <1>4 DEF CompareExisting, Leave
  <2>2. request[s].event.key \in Key /\ lock = s
    BY <2>1, EventAssumption DEF LockIsHeld, Row
  <2>3. \A t \in Session : phase[t] # "indexed"
    BY <2>1, <2>2 DEF LockIsHeld
  <2>4. r \in StreamRows /\ r.event.key = request[s].event.key
    BY <2>1, <2>2, <2>3 DEF IndexRunsAhead, ListsAreIndexed
  <2>5. LedgerPhase[s] = "asked" /\ LedgerPhase' = [LedgerPhase EXCEPT ![s] = "answered"]
    BY <2>1 DEF LedgerPhase, MemoryTypeOK
  <2>6. UNCHANGED StreamRows
    BY <2>1 DEF StreamRows
  <2>7. L!Tell(s, L!Verdict(r, request[s].event))
    BY <2>1, <2>5 DEF L!Tell, L!Verdict, L!SameContent, Verdict, SameContent
  <2> HIDE DEF r
  <2> QED
    BY <2>1, <2>4, <2>5, <2>6, <2>7 DEF L!Judge
<1>5. ASSUME NEW s \in Session, Return(s)
      PROVE  L!End(s)
  <2>1. LedgerPhase[s] # "idle" /\ LedgerPhase' = [LedgerPhase EXCEPT ![s] = "idle"]
    BY <1>5 DEF Return, LedgerPhase, MemoryTypeOK
  <2> QED
    BY <1>5, <2>1 DEF Return, L!End, StreamRows
<1>6. ASSUME NEW r \in Reader, NEW st \in Stream, ReadStream(r, st)
      PROVE  UNCHANGED L!vars
  BY <1>6 DEF ReadStream, L!vars, StreamRows, LedgerPhase
<1>7. CASE UNCHANGED vars
  BY <1>7 DEF vars, L!vars, StreamRows, LedgerPhase
<1> QED
  BY <1>1, <1>2, <1>3, <1>4, <1>5, <1>6, <1>7 DEF Next, Run, L!Next

\* InMemoryEventLedger implements the abstract ledger: append_event is atomic.
THEOREM MemoryImplementsLedger == Spec => ImplementsLedger
BY InitRefines, StepRefines, MemoryInvariant, PTL
   DEF Spec, L!Spec, ImplementsLedger

(* What is proved of the ledger holds of the lists.                         *)

LP == INSTANCE LedgerProofs WITH rows <- StreamRows, phase <- LedgerPhase

\* The ledger of the proofs is the ledger that is implemented.
LEMMA SameLedger ==
    /\ L!Init => LP!Init
    /\ [L!Next]_(L!vars) => [LP!Next]_(LP!vars)
    /\ LP!AnswersAreTrue => AnswersAreTrue
<1>1. L!Init => LP!Init
  BY DEF L!Init, LP!Init
<1>2. \A s \in Session :
        /\ \A e \in Event : L!Ask(s, e) => LP!Ask(s, e)
        /\ L!AppendRow(s) => LP!AppendRow(s)
        /\ L!Judge(s) => LP!Judge(s)
        /\ L!End(s) => LP!End(s)
  BY DEF L!Ask, LP!Ask, L!AppendRow, LP!AppendRow, L!Judge, LP!Judge, L!End, LP!End,
         L!Tell, LP!Tell, L!Verdict, LP!Verdict, L!SameContent, LP!SameContent
<1>3. [L!Next]_(L!vars) => [LP!Next]_(LP!vars)
  BY <1>2 DEF L!Next, LP!Next, L!vars, LP!vars
<1>4. LP!AnswersAreTrue => AnswersAreTrue
  BY DEF AnswersAreTrue, L!AnswersAreTrue, LP!AnswersAreTrue,
         L!Verdict, LP!Verdict, L!SameContent, LP!SameContent
<1> QED
  BY <1>1, <1>3, <1>4

\* Whatever the number of threads, what append_event told a thread is true of
\* the lists and stays so.
THEOREM MemoryAnswersAreTrue == Spec => []AnswersAreTrue
<1>1. Init => LP!IInv
  BY InitRefines, SameLedger, LP!InitIInv, EventAssumption, MaxCallsAssumption
<1>2. LP!IInv /\ IInv /\ [Next]_vars => LP!IInv'
  BY StepRefines, SameLedger, LP!NextIInv, EventAssumption, MaxCallsAssumption
<1>3. LP!IInv => AnswersAreTrue
  BY SameLedger DEF LP!IInv
<1> QED
  BY <1>1, <1>2, <1>3, MemoryInvariant, PTL DEF Spec
=============================================================================
