------------------------- MODULE EventLedgerPostgres -------------------------
(***************************************************************************)
(* PostgresEventLedger.append_event: two autocommit statements on a fresh  *)
(* connection.                                                             *)
(*   1. INSERT ... ON CONFLICT (idempotency_key) DO NOTHING RETURNING      *)
(*   2. when nothing was returned, SELECT the row that holds the key, and  *)
(*      answer "duplicate" or raise ReplayRejectedError.                   *)
(* Statements of different connections interleave.  The server side is     *)
(* that of PostgreSQL: the BIGSERIAL default is drawn before the unique    *)
(* index is consulted; an INSERT that meets an uncommitted row of the same *)
(* key waits for its transaction to end; a statement not yet committed can *)
(* vanish (connection or server lost).  A caller whose connection is lost  *)
(* after the commit learns nothing, which is Return without a reader.  A   *)
(* session is a connection.                                                *)
(***************************************************************************)
EXTENDS LedgerEvents

VARIABLES
    table,      \* committed rows of event_ledger, each with its sequence_id
    lastSeq,    \* last value drawn from the BIGSERIAL sequence
    phase,      \* phase[s]: where connection s is in append_event
    request,    \* request[s]: the parameters of the INSERT
    drawn,      \* drawn[s]: the sequence_id the INSERT of s has drawn
    answer,     \* answer[s]: the AppendResult, or the error raised
    calls       \* calls made so far, which are also the event ids given out

vars == <<table, lastSeq, phase, request, drawn, answer, calls>>

\* "insert": statement 1 sent; "probe": its defaults are computed and it
\* consults the unique index; "insertedRow": its row is in the index but not
\* committed; "select": statement 2 sent.
Phases == {"idle", "insert", "probe", "insertedRow", "select", "answered"}

\* RuntimeError("idempotency conflict without existing row")
NoExistingRow == [status |-> "conflict without row", id |-> 0]

TableRow == [seq : Nat, id : Nat, event : Event]

TypeOK ==
    /\ table \subseteq TableRow
    /\ lastSeq \in Nat
    /\ phase \in [Session -> Phases]
    /\ request \in [Session -> Row \cup {None}]
    /\ drawn \in [Session -> Nat]
    /\ answer \in [Session -> Answer \cup {NoExistingRow, None}]
    /\ calls \in 0..MaxCalls

Init ==
    /\ table = {}
    /\ lastSeq = 0
    /\ phase = [s \in Session |-> "idle"]
    /\ request = [s \in Session |-> None]
    /\ drawn = [s \in Session |-> 0]
    /\ answer = [s \in Session |-> None]
    /\ calls = 0

HoldersOf(key) == {r \in table : r.event.key = key}

\* append_event is called with a fresh event_id and sends the INSERT.
Ask(s, e) ==
    /\ phase[s] = "idle"
    /\ calls < MaxCalls
    /\ calls' = calls + 1
    /\ phase' = [phase EXCEPT ![s] = "insert"]
    /\ request' = [request EXCEPT ![s] = [id |-> calls + 1, event |-> e]]
    /\ UNCHANGED <<table, lastSeq, drawn, answer>>

\* Mutant of DrawSequence: an unused number, in no order.
DrawUnordered(s) ==
    /\ phase[s] = "insert"
    /\ \E n \in 1..MaxCalls :
        /\ \A r \in table : r.seq # n
        /\ \A t \in Session : drawn[t] # n
        /\ drawn' = [drawn EXCEPT ![s] = n]
    /\ phase' = [phase EXCEPT ![s] = "probe"]
    /\ UNCHANGED <<table, lastSeq, request, answer, calls>>

\* The BIGSERIAL default: values are never returned, so a refused or lost
\* INSERT leaves a gap.
DrawSequence(s) ==
    /\ phase[s] = "insert"
    /\ lastSeq' = lastSeq + 1
    /\ drawn' = [drawn EXCEPT ![s] = lastSeq + 1]
    /\ phase' = [phase EXCEPT ![s] = "probe"]
    /\ UNCHANGED <<table, request, answer, calls>>

\* Mutant of Waits: the index does not cover uncommitted rows.
WaitsForNobody(s) == FALSE

\* Mutant of Waits: waits for whoever is about to insert the key, too.
WaitsForProbes(s) ==
    \E t \in Session \ {s} : /\ phase[t] \in {"probe", "insertedRow"}
                            /\ request[t].event.key = request[s].event.key

\* The unique index makes an INSERT wait for one in progress of its key.
Waits(s) ==
    \E t \in Session : /\ phase[t] = "insertedRow"
                      /\ request[t].event.key = request[s].event.key

\* Neither a committed row nor an INSERT in progress has the key.
InsertRow(s) ==
    /\ phase[s] = "probe"
    /\ HoldersOf(request[s].event.key) = {}
    /\ ~ Waits(s)
    /\ phase' = [phase EXCEPT ![s] = "insertedRow"]
    /\ UNCHANGED <<table, lastSeq, request, drawn, answer, calls>>

\* Mutant of Conflict: gives up on a row that is not committed yet.
ConflictWithUncommitted(s) ==
    /\ phase[s] = "probe"
    /\ HoldersOf(request[s].event.key) # {} \/ Waits(s)
    /\ phase' = [phase EXCEPT ![s] = "select"]
    /\ UNCHANGED <<table, lastSeq, request, drawn, answer, calls>>

\* DO NOTHING: no row is returned, and the SELECT is sent.
Conflict(s) ==
    /\ phase[s] = "probe"
    /\ HoldersOf(request[s].event.key) # {}
    /\ phase' = [phase EXCEPT ![s] = "select"]
    /\ UNCHANGED <<table, lastSeq, request, drawn, answer, calls>>

Tell(s, a) ==
    /\ phase' = [phase EXCEPT ![s] = "answered"]
    /\ answer' = [answer EXCEPT ![s] = a]

\* The INSERT commits and returns the event_id.
Commit(s) ==
    /\ phase[s] = "insertedRow"
    /\ table' = table \cup {[seq |-> drawn[s], id |-> request[s].id,
                             event |-> request[s].event]}
    /\ Tell(s, [status |-> "appended", id |-> request[s].id])
    /\ UNCHANGED <<lastSeq, request, drawn, calls>>

\* Mutant of SelectExisting: takes every conflict for a duplicate.
SelectWithoutComparing(s) ==
    /\ phase[s] = "select"
    /\ \E r \in HoldersOf(request[s].event.key) :
            Tell(s, [status |-> "duplicate", id |-> r.id])
    /\ UNCHANGED <<table, lastSeq, request, drawn, calls>>

\* The SELECT returns the holder of the key, which the caller compares with
\* its event; no row at all is an error of its own.
SelectExisting(s) ==
    /\ phase[s] = "select"
    /\ LET holders == HoldersOf(request[s].event.key) IN
        Tell(s, IF holders = {}
                THEN NoExistingRow
                ELSE Verdict(CHOOSE r \in holders : TRUE, request[s].event))
    /\ UNCHANGED <<table, lastSeq, request, drawn, calls>>

Close(s) ==
    /\ phase' = [phase EXCEPT ![s] = "idle"]
    /\ request' = [request EXCEPT ![s] = None]
    /\ drawn' = [drawn EXCEPT ![s] = 0]
    /\ answer' = [answer EXCEPT ![s] = None]
    /\ UNCHANGED <<table, lastSeq, calls>>

\* The connection is lost before the running statement commits.
Lose(s) ==
    /\ phase[s] \in {"insert", "probe", "insertedRow", "select"}
    /\ Close(s)

Return(s) ==
    /\ phase[s] = "answered"
    /\ Close(s)

Run(s) ==
    \/ DrawSequence(s)
    \/ InsertRow(s)
    \/ Conflict(s)
    \/ Commit(s)
    \/ SelectExisting(s)

Next ==
    \E s \in Session :
        \/ \E e \in Event : Ask(s, e)
        \/ Run(s)
        \/ Lose(s)
        \/ Return(s)

Spec == Init /\ [][Next]_vars

\* The server keeps executing the statements it was sent, and append_event
\* returns once it has its answer.  Nothing obliges callers to call.
Fairness == \A s \in Session : WF_vars(Run(s) \/ Return(s))
-----------------------------------------------------------------------------
(***************************************************************************)
(* The refinement mapping: a row exists once committed, and a connection   *)
(* has been asked until its answer is determined.                          *)
(***************************************************************************)
LedgerRows == {[id |-> r.id, event |-> r.event] : r \in table}

LedgerPhase ==
    [s \in Session |->
        IF phase[s] \in {"idle", "answered"} THEN phase[s] ELSE "asked"]

L == INSTANCE Ledger WITH rows <- LedgerRows, phase <- LedgerPhase

\* append_event is atomic for its callers: the two-statement protocol, with
\* its conflicts, waits and losses, does only what the abstract ledger may.
ImplementsLedger == L!Spec

\* The UNIQUE constraint together with ON CONFLICT keep one row per key.
OneRowPerKey ==
    \A r1, r2 \in table : r1.event.key = r2.event.key => r1 = r2

\* The guard "conflict without existing row" (postgres.py) is never reached:
\* what made the INSERT conflict is still there when the SELECT looks, since
\* the INSERT conflicts only with committed rows and rows are never deleted.
ConflictHasRow ==
    \A s \in Session :
        phase[s] = "select" => HoldersOf(request[s].event.key) # {}

\* ORDER BY sequence_id (read_stream) is a total order of the rows, stored or
\* about to be: a sequence_id is drawn once, whatever is lost in between.
SequenceIsAnOrder ==
    /\ \A r1, r2 \in table : r1.seq = r2.seq => r1 = r2
    /\ \A s \in Session : phase[s] \in {"probe", "insertedRow"} =>
        /\ \A r \in table : r.seq # drawn[s]
        /\ \A t \in Session : drawn[t] = drawn[s] => t = s

\* A connection is not held forever by others that want the same key.
EveryCallEnds == \A s \in Session : phase[s] # "idle" ~> phase[s] = "idle"
=============================================================================
