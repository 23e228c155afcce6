------------------------- MODULE EventLedgerStreams -------------------------
(***************************************************************************)
(* PostgresEventLedger.read_stream beside the appends of                   *)
(* EventLedgerPostgres: readers poll a stream with one SELECT ... ORDER BY *)
(* sequence_id LIMIT.  A row's sequence_id is drawn before the row is      *)
(* committed, so a row can become visible below rows already read.         *)
(***************************************************************************)
EXTENDS EventLedgerPostgres, FiniteSets

CONSTANTS
    Reader,
    Limit       \* read_stream's limit

ASSUME LimitAssumption == Limit \in Nat \ {0}

VARIABLE window     \* window[r]: what the last read_stream of r returned

\* The rows of a window are the set of those returned: seq gives their order.
\* "begun" is the number of append calls begun when the statement ran.

StreamRows(st) == {r \in table : r.event.stream = st}

\* Mutant of FirstRows: LIMIT applied before the stream is selected.
FirstRowsOfTable(st) ==
    {r \in StreamRows(st) :
        Cardinality({q \in table : q.seq < r.seq}) < Limit}

FirstRows(st) ==
    {r \in StreamRows(st) :
        Cardinality({q \in StreamRows(st) : q.seq < r.seq}) < Limit}

ReadStream(r, st) ==
    /\ window' = [window EXCEPT
            ![r] = [stream |-> st, rows |-> FirstRows(st), begun |-> calls]]
    /\ UNCHANGED vars

StreamsInit == Init /\ window = [r \in Reader |-> None]

StreamsNext ==
    \/ Next /\ UNCHANGED window
    \/ \E r \in Reader, st \in Stream : ReadStream(r, st)

StreamsSpec == StreamsInit /\ [][StreamsNext]_<<vars, window>>

FairStreamsSpec == StreamsSpec /\ Fairness
-----------------------------------------------------------------------------
\* Two reads of one stream by one reader, the later of which got fewer than
\* Limit rows.
RereadBelowLimit(r) ==
    /\ window[r] # None
    /\ window'[r].stream = window[r].stream
    /\ Cardinality(window'[r].rows) < Limit

\* "trilha auditavel por stream" (README of the ledger): an event read once
\* is read again, at the same sequence_id.  A full window is exempt, since a
\* row that commits late can push the last row out of it.
TrailNeverLosesRows ==
    [][\A r \in Reader :
        RereadBelowLimit(r) => window[r].rows \subseteq window'[r].rows]_window

\* The stream is not read in commit order, but almost: a row that shows up
\* below one already read comes from a call already under way at the earlier
\* read.  What is appended after a read sorts after all that was read.
LateRowsWereUnderWay ==
    [][\A r \in Reader :
        window[r] # None /\ window'[r].stream = window[r].stream =>
            \A new \in window'[r].rows \ window[r].rows :
                (\E old \in window[r].rows : new.seq < old.seq)
                    => new.id <= window[r].begun]_window
=============================================================================
