---------------------- MODULE EventLedgerPostgresProofs ----------------------
(***************************************************************************)
(* PostgresEventLedger.append_event, whatever the number of connections    *)
(* and calls: one row per key, no conflict without a row, a sequence_id    *)
(* that orders the rows, and the implementation of the abstract Ledger.    *)
(***************************************************************************)
EXTENDS EventLedgerPostgres, TLAPS

\* A connection in use carries the row of its INSERT.
RequestsAreRows == \A s \in Session : phase[s] # "idle" => request[s] \in Row

\* The unique index: an inserted and uncommitted row is alone with its key,
\* among the committed rows and among the uncommitted ones.
InsertedIsAlone ==
    \A s \in Session : phase[s] = "insertedRow" =>
        /\ HoldersOf(request[s].event.key) = {}
        /\ \A t \in Session :
                /\ phase[t] = "insertedRow"
                /\ request[t].event.key = request[s].event.key
                => t = s

\* No number above lastSeq has been drawn.
DrawnUpToLast ==
    /\ \A r \in table : r.seq <= lastSeq
    /\ \A s \in Session : drawn[s] <= lastSeq
    /\ \A s \in Session : phase[s] \in {"probe", "insertedRow"} => drawn[s] > 0

\* The inductive invariant of the keys, and the one of the sequence.
KeyInv == TypeOK /\ RequestsAreRows /\ OneRowPerKey /\ InsertedIsAlone /\ ConflictHasRow
SeqInv == TypeOK /\ DrawnUpToLast /\ SequenceIsAnOrder

\* What the SELECT after a conflict makes append_event answer is an answer.
LEMMA VerdictIsAnswer ==
    ASSUME NEW r, r.id \in Nat, NEW e
    PROVE  Verdict(r, e) \in Answer
BY DEF Verdict, Answer, Statuses

\* Every statement keeps the types, and keeps requests rows in the making.
LEMMA TypeStep == TypeOK /\ RequestsAreRows /\ [Next]_vars => TypeOK' /\ RequestsAreRows'
<1> SUFFICES ASSUME TypeOK, RequestsAreRows, [Next]_vars
             PROVE  TypeOK' /\ RequestsAreRows'
  OBVIOUS
<1> USE DEF TypeOK, RequestsAreRows, Phases
<1>1. ASSUME NEW s \in Session, NEW e \in Event, Ask(s, e)
      PROVE  TypeOK' /\ RequestsAreRows'
  <2>1. calls' \in 0..MaxCalls /\ [id |-> calls + 1, event |-> e] \in Row
    BY <1>1, MaxCallsAssumption DEF Ask, Row
  <2> QED
    BY <1>1, <2>1 DEF Ask
<1>2. ASSUME NEW s \in Session, DrawSequence(s)
      PROVE  TypeOK' /\ RequestsAreRows'
  BY <1>2 DEF DrawSequence
<1>3. ASSUME NEW s \in Session, InsertRow(s)
      PROVE  TypeOK' /\ RequestsAreRows'
  BY <1>3 DEF InsertRow
<1>4. ASSUME NEW s \in Session, Conflict(s)
      PROVE  TypeOK' /\ RequestsAreRows'
  BY <1>4 DEF Conflict
<1>5. ASSUME NEW s \in Session, Commit(s)
      PROVE  TypeOK' /\ RequestsAreRows'
  <2>1. request[s] \in Row
    BY <1>5 DEF Commit
  <2>2. [seq |-> drawn[s], id |-> request[s].id, event |-> request[s].event] \in TableRow
    BY <2>1 DEF TableRow, Row
  <2>3. [status |-> "appended", id |-> request[s].id] \in Answer
    BY <2>1 DEF Answer, Statuses, Row
  <2> QED
    BY <1>5, <2>2, <2>3 DEF Commit, Tell
<1>6. ASSUME NEW s \in Session, SelectExisting(s)
      PROVE  TypeOK' /\ RequestsAreRows'
  <2>1. PICK a \in Answer \cup {NoExistingRow} : Tell(s, a)
    <3> DEFINE holders == HoldersOf(request[s].event.key)
    <3>1. CASE holders = {}
      BY <1>6, <3>1 DEF SelectExisting
    <3>2. CASE holders # {}
      <4>1. (CHOOSE r \in holders : TRUE) \in holders
        BY <3>2
      <4>2. (CHOOSE r \in holders : TRUE).id \in Nat
        BY <4>1 DEF HoldersOf, TableRow
      <4>3. Verdict(CHOOSE r \in holders : TRUE, request[s].event) \in Answer
        BY <4>2, VerdictIsAnswer
      <4> QED
        BY <1>6, <3>2, <4>3 DEF SelectExisting
    <3> QED
      BY <3>1, <3>2
  <2> QED
    BY <1>6, <2>1 DEF SelectExisting, Tell
<1>7. ASSUME NEW s \in Session, Lose(s) \/ Return(s)
      PROVE  TypeOK' /\ RequestsAreRows'
  BY <1>7 DEF Lose, Return, Close
<1>8. CASE UNCHANGED vars
  BY <1>8 DEF vars
<1> QED
  BY <1>1, <1>2, <1>3, <1>4, <1>5, <1>6, <1>7, <1>8 DEF Next, Run

\* An empty table with idle connections satisfies both invariants.
LEMMA InitInvs == Init => KeyInv /\ SeqInv
BY MaxCallsAssumption
   DEF Init, KeyInv, SeqInv, TypeOK, Phases, RequestsAreRows, OneRowPerKey,
       InsertedIsAlone, ConflictHasRow, DrawnUpToLast, SequenceIsAnOrder

\* Every statement keeps the keys in order: a commit meets no other row of its
\* key because no other connection was past the unique index with it.
LEMMA KeyStep == KeyInv /\ [Next]_vars => KeyInv'
<1> SUFFICES ASSUME KeyInv, [Next]_vars
             PROVE  OneRowPerKey' /\ InsertedIsAlone' /\ ConflictHasRow'
  BY TypeStep DEF KeyInv
<1> USE DEF KeyInv, TypeOK, OneRowPerKey, InsertedIsAlone, ConflictHasRow
<1>1. ASSUME NEW s \in Session, NEW e \in Event, Ask(s, e)
      PROVE  OneRowPerKey' /\ InsertedIsAlone' /\ ConflictHasRow'
  BY <1>1 DEF Ask, HoldersOf
<1>2. ASSUME NEW s \in Session, DrawSequence(s)
      PROVE  OneRowPerKey' /\ InsertedIsAlone' /\ ConflictHasRow'
  BY <1>2 DEF DrawSequence, HoldersOf
<1>3. ASSUME NEW s \in Session, InsertRow(s)
      PROVE  OneRowPerKey' /\ InsertedIsAlone' /\ ConflictHasRow'
  BY <1>3 DEF InsertRow, Waits, HoldersOf
<1>4. ASSUME NEW s \in Session, Conflict(s)
      PROVE  OneRowPerKey' /\ InsertedIsAlone' /\ ConflictHasRow'
  BY <1>4 DEF Conflict, HoldersOf
<1>5. ASSUME NEW s \in Session, Commit(s)
      PROVE  OneRowPerKey' /\ InsertedIsAlone' /\ ConflictHasRow'
  <2> DEFINE new == [seq |-> drawn[s], id |-> request[s].id, event |-> request[s].event]
  <2>1. table' = table \cup {new} /\ request' = request
        /\ phase[s] = "insertedRow" /\ phase' = [phase EXCEPT ![s] = "answered"]
    BY <1>5 DEF Commit, Tell
  <2>2. \A r \in table : r.event.key # new.event.key
    BY <2>1 DEF HoldersOf
  <2>3. OneRowPerKey'
    BY <2>1, <2>2
  <2>4. InsertedIsAlone'
    <3> SUFFICES ASSUME NEW t \in Session, phase'[t] = "insertedRow"
                 PROVE  /\ HoldersOf(request[t].event.key)' = {}
                        /\ \A u \in Session :
                            /\ phase'[u] = "insertedRow"
                            /\ request[u].event.key = request[t].event.key
                            => u = t
      BY <2>1
    <3>1. t # s /\ phase[t] = "insertedRow"
      BY <2>1
    <3>2. new.event.key # request[t].event.key
      BY <2>1, <3>1
    <3> QED
      BY <2>1, <3>1, <3>2 DEF HoldersOf
  <2>5. ConflictHasRow'
    BY <2>1 DEF HoldersOf
  <2> QED
    BY <2>3, <2>4, <2>5
<1>6. ASSUME NEW s \in Session, SelectExisting(s)
      PROVE  OneRowPerKey' /\ InsertedIsAlone' /\ ConflictHasRow'
  BY <1>6 DEF SelectExisting, Tell, HoldersOf
<1>7. ASSUME NEW s \in Session, Lose(s) \/ Return(s)
      PROVE  OneRowPerKey' /\ InsertedIsAlone' /\ ConflictHasRow'
  BY <1>7 DEF Lose, Return, Close, HoldersOf
<1>8. CASE UNCHANGED vars
  BY <1>8 DEF vars, HoldersOf
<1> QED
  BY <1>1, <1>2, <1>3, <1>4, <1>5, <1>6, <1>7, <1>8 DEF Next, Run

\* Every statement keeps the sequence in order: what nextval gives is above
\* everything drawn before.
LEMMA SeqStep == SeqInv /\ RequestsAreRows /\ [Next]_vars => SeqInv'
<1> SUFFICES ASSUME SeqInv, [Next]_vars
             PROVE  DrawnUpToLast' /\ SequenceIsAnOrder'
  BY TypeStep DEF SeqInv
<1> USE DEF SeqInv, TypeOK, DrawnUpToLast, SequenceIsAnOrder
<1>0. \A r \in table : r.seq \in Nat
  BY DEF TableRow
<1>1. ASSUME NEW s \in Session, NEW e \in Event, Ask(s, e)
      PROVE  DrawnUpToLast' /\ SequenceIsAnOrder'
  BY <1>1 DEF Ask
<1>2. ASSUME NEW s \in Session, DrawSequence(s)
      PROVE  DrawnUpToLast' /\ SequenceIsAnOrder'
  BY <1>2, <1>0 DEF DrawSequence
<1>3. ASSUME NEW s \in Session, InsertRow(s)
      PROVE  DrawnUpToLast' /\ SequenceIsAnOrder'
  BY <1>3 DEF InsertRow
<1>4. ASSUME NEW s \in Session, Conflict(s)
      PROVE  DrawnUpToLast' /\ SequenceIsAnOrder'
  BY <1>4 DEF Conflict
<1>5. ASSUME NEW s \in Session, Commit(s)
      PROVE  DrawnUpToLast' /\ SequenceIsAnOrder'
  <2> DEFINE new == [seq |-> drawn[s], id |-> request[s].id, event |-> request[s].event]
  <2>1. /\ table' = table \cup {new} /\ new.seq = drawn[s]
        /\ UNCHANGED <<lastSeq, drawn>>
        /\ phase[s] = "insertedRow" /\ phase' = [phase EXCEPT ![s] = "answered"]
    BY <1>5 DEF Commit, Tell
  <2>2. \A r \in table : r.seq # new.seq
    BY <2>1
  <2>3. \A t \in Session : phase'[t] \in {"probe", "insertedRow"} =>
            t # s /\ phase[t] = phase'[t]
    BY <2>1
  <2>4. \A t \in Session : phase'[t] \in {"probe", "insertedRow"} => new.seq # drawn[t]
    BY <2>1, <2>3
  <2> HIDE DEF new
  <2> QED
    BY <2>1, <2>2, <2>3, <2>4
<1>6. ASSUME NEW s \in Session, SelectExisting(s)
      PROVE  DrawnUpToLast' /\ SequenceIsAnOrder'
  BY <1>6 DEF SelectExisting, Tell
<1>7. ASSUME NEW s \in Session, Lose(s) \/ Return(s)
      PROVE  DrawnUpToLast' /\ SequenceIsAnOrder'
  BY <1>7 DEF Lose, Return, Close
<1>8. CASE UNCHANGED vars
  BY <1>8 DEF vars
<1> QED
  BY <1>1, <1>2, <1>3, <1>4, <1>5, <1>6, <1>7, <1>8 DEF Next, Run

\* Both inductive invariants hold of every behaviour.
THEOREM PostgresInvariants == Spec => [](KeyInv /\ SeqInv)
<1>1. KeyInv /\ SeqInv /\ [Next]_vars => (KeyInv /\ SeqInv)'
  BY KeyStep, SeqStep DEF KeyInv
<1> QED
  BY InitInvs, <1>1, PTL DEF Spec

\* The variables of the connections and of the table keep their types.
THEOREM PostgresTypeCorrect == Spec => []TypeOK
<1>1. KeyInv => TypeOK
  BY DEF KeyInv
<1> QED
  BY <1>1, PostgresInvariants, PTL

\* The table never has two rows of one idempotency key.
THEOREM PostgresOneRowPerKey == Spec => []OneRowPerKey
<1>1. KeyInv => OneRowPerKey
  BY DEF KeyInv
<1> QED
  BY <1>1, PostgresInvariants, PTL

\* append_event never raises "idempotency conflict without existing row".
THEOREM PostgresConflictHasRow == Spec => []ConflictHasRow
<1>1. KeyInv => ConflictHasRow
  BY DEF KeyInv
<1> QED
  BY <1>1, PostgresInvariants, PTL

\* sequence_id identifies a row, stored or about to be.
THEOREM PostgresSequenceIsAnOrder == Spec => []SequenceIsAnOrder
<1>1. SeqInv => SequenceIsAnOrder
  BY DEF SeqInv
<1> QED
  BY <1>1, PostgresInvariants, PTL

-----------------------------------------------------------------------------
(***************************************************************************)
(* The refinement: Commit is AppendRow, SelectExisting is Judge, Lose and  *)
(* Return are End, and the other statements are invisible.                 *)
(***************************************************************************)
LEMMA InitRefines == Init => L!Init
BY DEF Init, L!Init, LedgerRows, LedgerPhase

\* Every statement of append_event is a step of the ledger, or invisible.
LEMMA StepRefines == KeyInv /\ [Next]_vars => [L!Next]_(L!vars)
<1> SUFFICES ASSUME KeyInv, [Next]_vars
             PROVE  L!Next \/ UNCHANGED L!vars
  OBVIOUS
<1> USE DEF KeyInv, TypeOK
<1>1. ASSUME NEW s \in Session, NEW e \in Event, Ask(s, e)
      PROVE  L!Ask(s, e)
  BY <1>1 DEF Ask, L!Ask, LedgerRows, LedgerPhase
<1>2. ASSUME NEW s \in Session, DrawSequence(s) \/ InsertRow(s) \/ Conflict(s)
      PROVE  UNCHANGED L!vars
  BY <1>2 DEF DrawSequence, InsertRow, Conflict, L!vars, LedgerRows, LedgerPhase
<1>3. ASSUME NEW s \in Session, Commit(s)
      PROVE  L!AppendRow(s)
  <2> DEFINE new == [seq |-> drawn[s], id |-> request[s].id, event |-> request[s].event]
  <2>1. phase[s] = "insertedRow" /\ request[s] \in Row
    BY <1>3 DEF Commit, RequestsAreRows
  <2>2. \A r \in LedgerRows : r.event.key # request[s].event.key
    BY <2>1 DEF LedgerRows, InsertedIsAlone, HoldersOf
  <2>3. [id |-> new.id, event |-> new.event] = request[s]
    BY <2>1 DEF Row
  <2>4. LedgerRows' = LedgerRows \cup {request[s]}
    BY <1>3, <2>3 DEF Commit, LedgerRows
  <2> QED
    BY <1>3, <2>1, <2>2, <2>4 DEF Commit, Tell, L!AppendRow, L!Tell, LedgerPhase
<1>4. ASSUME NEW s \in Session, SelectExisting(s)
      PROVE  L!Judge(s)
  <2> DEFINE holders == HoldersOf(request[s].event.key)
             r == CHOOSE r \in holders : TRUE
             row == [id |-> r.id, event |-> r.event]
  <2>1. phase[s] = "select" /\ holders # {}
    BY <1>4 DEF SelectExisting, ConflictHasRow
  <2>2. r \in table /\ r.event.key = request[s].event.key
    BY <2>1 DEF HoldersOf
  <2>3. row \in LedgerRows /\ row.event.key = request[s].event.key
    BY <2>2 DEF LedgerRows
  <2>4. Verdict(row, request[s].event) = Verdict(r, request[s].event)
    BY DEF Verdict
  <2>5. Tell(s, Verdict(r, request[s].event))
    BY <1>4, <2>1 DEF SelectExisting
  <2>6. L!Tell(s, Verdict(row, request[s].event))
    BY <2>1, <2>4, <2>5 DEF Tell, L!Tell, LedgerPhase
  <2>7. UNCHANGED <<LedgerRows, request, calls>> /\ LedgerPhase[s] = "asked"
    BY <1>4, <2>1 DEF SelectExisting, LedgerRows, LedgerPhase
  <2> QED
    BY <2>3, <2>6, <2>7 DEF L!Judge, L!Verdict, L!SameContent, Verdict, SameContent
<1>5. ASSUME NEW s \in Session, Lose(s) \/ Return(s)
      PROVE  L!End(s)
  BY <1>5 DEF Lose, Return, Close, L!End, LedgerRows, LedgerPhase
<1>6. CASE UNCHANGED vars
  BY <1>6 DEF vars, L!vars, LedgerRows, LedgerPhase
<1> QED
  BY <1>1, <1>2, <1>3, <1>4, <1>5, <1>6 DEF Next, Run, L!Next

\* PostgresEventLedger implements the abstract ledger: append_event is atomic.
THEOREM PostgresImplementsLedger == Spec => ImplementsLedger
BY InitRefines, StepRefines, PostgresInvariants, PTL
   DEF Spec, L!Spec, ImplementsLedger
=============================================================================
