------------------------ MODULE MCEventLedgerMemory ------------------------
(***************************************************************************)
(* Finite instances of EventLedgerMemory.                                *)
(***************************************************************************)
EXTENDS EventLedgerMemory

CONSTANTS k1, k2, s1, s2, c1, c2, d1, d2

MCKey == {k1, k2}
MCStream == {s1, s2}

Base == [key |-> k1, stream |-> s1, command |-> c1, digest |-> d1]

\* One event, three that differ from it in one compared field each, and one
\* of another key.
MCEvent ==
    {Base, [Base EXCEPT !.stream = s2], [Base EXCEPT !.command = c2],
     [Base EXCEPT !.digest = d2], [Base EXCEPT !.key = k2]}
=============================================================================
