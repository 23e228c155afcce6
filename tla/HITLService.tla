----------------------------- MODULE HITLService -----------------------------
(***************************************************************************)
(* HITLService.handle_action (apps/ops-api): an operator's approve, reject *)
(* or kill becomes one ledger event, with the command_id as idempotency    *)
(* key.  Handlers run in threads of one or several processes over one      *)
(* ledger.  The ledger is the abstract one, so what is shown here holds    *)
(* over InMemoryEventLedger and PostgresEventLedger alike.                 *)
(*                                                                         *)
(* A digest is the record of what is hashed: it is equal when the hashed   *)
(* texts are equal.  Operator, challenge, proof, evidence and the optional *)
(* contract fields act only through the digest: they are one "content".    *)
(***************************************************************************)
EXTENDS Naturals

CONSTANTS
    Thread,     \* handlers that can be in progress at once
    Request,    \* what operators send: an action and its payload
    Counts,     \* readings of the contract-read counters
    MaxTime,    \* bound on the clock, in seconds
    MaxCalls,   \* bound on the ledger calls ever made
    None        \* an absent payload field

Actions == {"approve", "reject", "kill"}
KnownChannels == {"telegram", "slack"}

\* "complete": no required field is missing or blank; "at" is occurred_at.
RequestFields ==
    {"action", "decision", "command", "channel", "primary_unavailable",
     "fallback_channel", "financial", "approved", "content", "complete", "at"}

ASSUME RequestAssumption ==
    \A q \in Request :
        /\ DOMAIN q = RequestFields
        /\ q.action \in Actions
        /\ q.at = None \/ q.at \in Nat

ASSUME BoundsAssumption == MaxTime \in Nat /\ MaxCalls \in Nat

VARIABLES
    clock,      \* the second _iso_now() returns
    pc,         \* pc[t]: where handler t is in handle_action
    input,      \* input[t]: the request handler t serves
    told,       \* every outcome a handler has determined, heard or lost
    rows, phase, request, answer, calls     \* the ledger

ledgerVars == <<rows, phase, request, answer, calls>>
vars == <<clock, pc, input, told, ledgerVars>>

-----------------------------------------------------------------------------
\* _validate_payload
Valid(q) ==
    /\ q.complete
    /\ q.channel \in KnownChannels
    /\ q.financial => q.approved

\* The channel the event records: Telegram falls back when it is down.
EffectiveChannel(q) ==
    IF q.primary_unavailable /\ q.channel = "telegram"
    THEN IF q.fallback_channel = None THEN "slack" ELSE q.fallback_channel
    ELSE q.channel

OccurredAt(q) == IF q.at = None THEN clock ELSE q.at

\* Mutant of DigestOf: the counters stay in the hashed payload.
DigestWithCounters(q, at, count) ==
    [action |-> q.action, decision |-> q.decision, command |-> q.command,
     channel |-> EffectiveChannel(q), financial |-> q.financial,
     approved |-> q.approved, content |-> q.content, at |-> at, counts |-> count]

\* Mutant of DigestOf: the action is left out of the hashed payload.
DigestWithoutAction(q, at, count) ==
    [decision |-> q.decision, command |-> q.command,
     channel |-> EffectiveChannel(q), financial |-> q.financial,
     approved |-> q.approved, content |-> q.content, at |-> at]

\* digest_payload: the event payload, its two v2 contracts included, without
\* the contract-read counters.
DigestOf(q, at, count) ==
    [action |-> q.action, decision |-> q.decision, command |-> q.command,
     channel |-> EffectiveChannel(q), financial |-> q.financial,
     approved |-> q.approved, content |-> q.content, at |-> at]

EventOf(q, at, count) ==
    [key |-> q.command, stream |-> q.decision, command |-> q.command,
     digest |-> DigestOf(q, at, count),
     action |-> q.action, channel |-> EffectiveChannel(q),
     financial |-> q.financial, approved |-> q.approved, counts |-> count]

L == INSTANCE Ledger WITH
        Session <- Thread,
        Key <- {q.command : q \in Request},
        Stream <- {q.decision : q \in Request},
        Event <- {EventOf(q, at, n) : q \in Request, at \in Nat, n \in Counts}

-----------------------------------------------------------------------------
Init ==
    /\ clock = 0
    /\ pc = [t \in Thread |-> "idle"]
    /\ input = [t \in Thread |-> None]
    /\ told = {}
    /\ L!Init

Tick ==
    /\ clock < MaxTime
    /\ clock' = clock + 1
    /\ UNCHANGED <<pc, input, told, ledgerVars>>

\* A request arrives: new, a retry of one whose reply was lost, or a double
\* delivery.
Receive(t, q) ==
    /\ pc[t] = "idle"
    /\ pc' = [pc EXCEPT ![t] = "received"]
    /\ input' = [input EXCEPT ![t] = q]
    /\ UNCHANGED <<clock, told, ledgerVars>>

Finish(t, outcome) ==
    /\ pc' = [pc EXCEPT ![t] = "idle"]
    /\ input' = [input EXCEPT ![t] = None]
    /\ told' = told \cup {outcome}

\* ValueError, answered 422.
Refuse(t) ==
    /\ pc[t] = "received"
    /\ ~ Valid(input[t])
    /\ Finish(t, [request |-> input[t], status |-> "invalid", id |-> 0, call |-> 0])
    /\ UNCHANGED <<clock, ledgerVars>>

\* The payload is valid: the event is stamped and built, with whatever the
\* shared, unlocked counters read, and append_event is called.
CallLedger(t) ==
    /\ pc[t] = "received"
    /\ Valid(input[t])
    /\ \E n \in Counts :
            L!Ask(t, EventOf(input[t], OccurredAt(input[t]), n))
    /\ pc' = [pc EXCEPT ![t] = "appending"]
    /\ UNCHANGED <<clock, input, told>>

LedgerStep(t) ==
    /\ L!AppendRow(t) \/ L!Judge(t)
    /\ UNCHANGED <<clock, pc, input, told>>

\* Mutant of Respond: the action where the ledger's status belongs.
RespondWithAction(t) ==
    /\ pc[t] = "appending"
    /\ phase[t] = "answered"
    /\ Finish(t, [request |-> input[t], status |-> input[t].action,
                  id |-> answer[t].id, call |-> request[t].id])
    /\ L!End(t)
    /\ UNCHANGED clock

\* HITLResult, or ReplayRejectedError answered 409.
Respond(t) ==
    /\ pc[t] = "appending"
    /\ phase[t] = "answered"
    /\ Finish(t, [request |-> input[t], status |-> answer[t].status,
                  id |-> answer[t].id, call |-> request[t].id])
    /\ L!End(t)
    /\ UNCHANGED clock

\* The ledger call dies before it takes effect: answered 500.
LedgerLost(t) ==
    /\ pc[t] = "appending"
    /\ phase[t] = "asked"
    /\ Finish(t, [request |-> input[t], status |-> "failed", id |-> 0,
                  call |-> request[t].id])
    /\ L!End(t)
    /\ UNCHANGED clock

Handle(t) == Refuse(t) \/ CallLedger(t) \/ LedgerStep(t) \/ Respond(t)

Next ==
    \/ Tick
    \/ \E t \in Thread :
        \/ \E q \in Request : Receive(t, q)
        \/ Handle(t)
        \/ LedgerLost(t)

Spec == Init /\ [][Next]_vars
-----------------------------------------------------------------------------
Outcome ==
    [request : Request, id : Nat, call : Nat,
     status : {"appended", "duplicate", "rejected", "invalid", "failed"}]

TypeOK ==
    /\ clock \in 0..MaxTime
    /\ pc \in [Thread -> {"idle", "received", "appending"}]
    /\ input \in [Thread -> Request \cup {None}]
    /\ told \subseteq Outcome
    /\ calls \in 0..MaxCalls

Accepted(o) == o.status \in {"appended", "duplicate"}

\* A retry that carries its occurred_at is a no-op: once a request has been
\* accepted, every outcome of the same request that reaches the ledger is
\* accepted too and names the same event - whatever the second, the counters
\* or the thread that serves it.
RetryIsNoOp ==
    \A o, p \in told :
        /\ o.request = p.request
        /\ o.request.at # None
        /\ Accepted(o)
        /\ p.status # "failed"
        => Accepted(p) /\ p.id = o.id

\* The decision status told to the operator is the one recorded: the event
\* an accepted outcome names is of the operator's decision, action and
\* channel, and, when financial, explicitly approved.  (The reply takes its
\* status from the request, its event_id from the ledger.)
ReplyMatchesRecord ==
    \A o \in told : Accepted(o) =>
        \E r \in rows :
            /\ r.id = o.id
            /\ r.event.stream = o.request.decision
            /\ r.event.action = o.request.action
            /\ r.event.channel = EffectiveChannel(o.request)
            /\ r.event.financial => r.event.approved

-----------------------------------------------------------------------------
(***************************************************************************)
(* A claim of the repository that the code does not meet.                  *)
(***************************************************************************)

\* tests/e2e/test_hitl_flow.py: two handlers of one identical payload end
\* "appended" and "duplicate".  The payload of the test has no occurred_at.
DuplicateIsReconciled ==
    \A o, p \in told :
        o.request = p.request /\ o.status = "appended" => p.status # "rejected"
=============================================================================
