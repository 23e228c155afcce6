---------------------------- MODULE MCHITLService ----------------------------
(***************************************************************************)
(* Finite instances of HITLService.                                        *)
(***************************************************************************)
EXTENDS HITLService, TLC

CONSTANTS d1, d2, c1, c2, x, y

Plain ==
    [action |-> "approve", decision |-> d1, command |-> c1,
     channel |-> "telegram", primary_unavailable |-> FALSE,
     fallback_channel |-> None, financial |-> FALSE, approved |-> TRUE,
     content |-> x, complete |-> TRUE, at |-> 0]

\* Threads are interchangeable in the invariants.
MCSymmetry == Permutations(Thread)

\* An approval, and the requests that share its command_id: sent without
\* occurred_at, through the fallback channel, for another decision, with
\* another action; and the refusals: unapproved and incomplete.
MCRequest ==
    {Plain,
     [Plain EXCEPT !.at = None],
     [Plain EXCEPT !.primary_unavailable = TRUE],
     [Plain EXCEPT !.action = "kill"],
     [Plain EXCEPT !.decision = d2, !.content = y],
     [Plain EXCEPT !.financial = TRUE, !.approved = FALSE],
     [Plain EXCEPT !.command = c2, !.channel = "slack", !.complete = FALSE]}

\* Two approvals of one decision that differ in their command_id, and the
\* first with an unknown fallback channel.
FindingRequest ==
    {[Plain EXCEPT !.at = None],
     [Plain EXCEPT !.command = c2, !.action = "kill"],
     [Plain EXCEPT !.primary_unavailable = TRUE, !.fallback_channel = "email"]}
=============================================================================
