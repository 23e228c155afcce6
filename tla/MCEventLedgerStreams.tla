------------------------ MODULE MCEventLedgerStreams ------------------------
(***************************************************************************)
(* Finite instance of EventLedgerStreams, and of EventLedgerPostgres in    *)
(* it.                                                                     *)
(***************************************************************************)
EXTENDS EventLedgerStreams

CONSTANTS k1, k2, k3, s1, s2, c1, d1, d2

MCKey == {k1, k2, k3}
MCStream == {s1, s2}

Base == [key |-> k1, stream |-> s1, command |-> c1, digest |-> d1]

\* Distinct keys on one stream, so that every call may append to it, and events
\* that differ from one of them in one compared field each.
MCEvent ==
    {[Base EXCEPT !.key = k] : k \in MCKey}
    \cup {[Base EXCEPT !.stream = s2], [Base EXCEPT !.digest = d2]}
=============================================================================
