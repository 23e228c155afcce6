---------------------------- MODULE LedgerEvents ----------------------------
(***************************************************************************)
(* The vocabulary of the event ledger (platform/event-ledger): the events  *)
(* callers append, the rows the ledger keeps and the answers it gives.     *)
(* An event is reduced to the four fields append_event looks at: the       *)
(* idempotency key, and the triple it compares when the key is taken.      *)
(* Author, channel, evidence and payload travel inside the digest.         *)
(***************************************************************************)
EXTENDS Naturals

CONSTANTS
    Key,        \* idempotency keys
    Stream,     \* stream ids
    Event,      \* events callers may append: key, stream, command, digest
    None,       \* stands for Python's None
    Session,    \* calls of append_event that can be in progress at once
    MaxCalls    \* bound on the calls ever made

ASSUME EventAssumption == \A e \in Event : e.key \in Key /\ e.stream \in Stream
ASSUME MaxCallsAssumption == MaxCalls \in Nat

\* event_id is a fresh uuid4 for every call: a number never used before.
Row == [id : Nat, event : Event]

Statuses == {"appended", "duplicate", "rejected"}

\* AppendResult; "rejected" is ReplayRejectedError, which also names the
\* row that holds the key.
Answer == [status : Statuses, id : Nat]

\* The comparison that tells a duplicate from an unauthorized replay.
SameContent(e, f) ==
    /\ e.stream = f.stream
    /\ e.command = f.command
    /\ e.digest = f.digest

\* Mutant of Verdict: a refusal does not name the row that holds the key.
VerdictWithoutId(r, e) ==
    [status |-> IF SameContent(r.event, e) THEN "duplicate" ELSE "rejected",
     id |-> IF SameContent(r.event, e) THEN r.id ELSE None]

\* What a call for event e is told when row r already holds its key.
Verdict(r, e) ==
    [status |-> IF SameContent(r.event, e) THEN "duplicate" ELSE "rejected",
     id |-> r.id]
=============================================================================
