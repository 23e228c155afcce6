------------------------------- MODULE Ledger -------------------------------
(***************************************************************************)
(* What an event ledger promises, whatever stores its rows: every call of  *)
(* append_event takes effect at one instant between its start and its      *)
(* answer.  At that instant the call either adds its row, because no row   *)
(* has its idempotency key, or is judged against the row that has it.      *)
(* Rows are never changed nor removed.  A call may also die without effect.*)
(*                                                                         *)
(* A session is one call in progress: a thread inside append_event, or a   *)
(* connection running its statements.  A caller that gives up and retries  *)
(* is a new session; the old one may still be running.                     *)
(***************************************************************************)
EXTENDS LedgerEvents

VARIABLES
    rows,       \* the rows of the ledger
    phase,      \* phase[s]: idle, asked or answered
    request,    \* request[s]: the row session s asks to append
    answer,     \* answer[s]: what session s has been told
    calls       \* calls made so far, which are also the ids given out

vars == <<rows, phase, request, answer, calls>>

TypeOK ==
    /\ rows \subseteq Row
    /\ phase \in [Session -> {"idle", "asked", "answered"}]
    /\ request \in [Session -> Row \cup {None}]
    /\ answer \in [Session -> Answer \cup {None}]
    /\ calls \in 0..MaxCalls

Init ==
    /\ rows = {}
    /\ phase = [s \in Session |-> "idle"]
    /\ request = [s \in Session |-> None]
    /\ answer = [s \in Session |-> None]
    /\ calls = 0

Ask(s, e) ==
    /\ phase[s] = "idle"
    /\ calls < MaxCalls
    /\ calls' = calls + 1
    /\ phase' = [phase EXCEPT ![s] = "asked"]
    /\ request' = [request EXCEPT ![s] = [id |-> calls + 1, event |-> e]]
    /\ UNCHANGED <<rows, answer>>

Tell(s, a) ==
    /\ phase' = [phase EXCEPT ![s] = "answered"]
    /\ answer' = [answer EXCEPT ![s] = a]

AppendRow(s) ==
    /\ phase[s] = "asked"
    /\ \A r \in rows : r.event.key # request[s].event.key
    /\ rows' = rows \cup {request[s]}
    /\ Tell(s, [status |-> "appended", id |-> request[s].id])
    /\ UNCHANGED <<request, calls>>

Judge(s) ==
    /\ phase[s] = "asked"
    /\ \E r \in rows :
        /\ r.event.key = request[s].event.key
        /\ Tell(s, Verdict(r, request[s].event))
    /\ UNCHANGED <<rows, request, calls>>

\* A call that dies before it takes effect, or an answered call that ends.
End(s) ==
    /\ phase[s] # "idle"
    /\ phase' = [phase EXCEPT ![s] = "idle"]
    /\ request' = [request EXCEPT ![s] = None]
    /\ answer' = [answer EXCEPT ![s] = None]
    /\ UNCHANGED <<rows, calls>>

Next ==
    \E s \in Session :
        \/ \E e \in Event : Ask(s, e)
        \/ AppendRow(s)
        \/ Judge(s)
        \/ End(s)

Spec == Init /\ [][Next]_vars
-----------------------------------------------------------------------------
(***************************************************************************)
(* Consequences of the promise.                                            *)
(***************************************************************************)

\* README of the ledger, "idempotencia forte": an idempotency key has at
\* most one row, whatever the calls and their interleaving.
OneRowPerKey ==
    \A r1, r2 \in rows : r1.event.key = r2.event.key => r1 = r2

\* Every answer a caller holds is true of the ledger, and stays true while
\* other calls go on: "appended" names the caller's own row, "duplicate" a
\* row of the same content, "rejected" a row that holds the key with
\* different content.
AnswersAreTrue ==
    \A s \in Session : phase[s] = "answered" =>
        \E r \in rows :
            /\ r.id = answer[s].id
            /\ r.event.key = request[s].event.key
            /\ \/ answer[s].status = "appended" /\ r = request[s]
               \/ /\ answer[s].status # "appended"
                  /\ answer[s] = Verdict(r, request[s].event)

\* Two callers are never both told that they appended the same key.
OneWinnerPerKey ==
    \A s, t \in Session :
        /\ phase[s] = "answered" /\ answer[s].status = "appended"
        /\ phase[t] = "answered" /\ answer[t].status = "appended"
        /\ request[s].event.key = request[t].event.key
        => s = t

\* The ledger is append-only: no step changes or removes a row.
AppendOnly == [][rows \subseteq rows']_vars
=============================================================================
