--------------------------- MODULE ContractReview ---------------------------
(***************************************************************************)
(* The weekly contract review (phase_f8_contract_review.py): what makes a  *)
(* review valid, on its own and as the successor of the week before.       *)
(*                                                                         *)
(* reviews is a function from the weeks whose file exists to the parsed    *)
(* files.  "complete" abstracts the texts that are only required to be     *)
(* there: title, sections, well-formed JSON, owners, notes, refs, and the  *)
(* dates that parse.  A claim of the metadata that is absent is None.      *)
(* Weeks are numbered: the calendar week before w is w - 1.                *)
(***************************************************************************)
EXTENDS Integers, Sequences, SequencesExt, FiniteSets, TLC

CONSTANTS
    None,           \* stands for Python's None, and for "none"
    SourceOfTruth   \* "PRD/PRD-MASTER.md"

RequiredDomains == {"runtime", "integrations", "trading", "security"}
SampleDomains == <<"runtime", "integrations", "trading", "security">>
Resolutions == {"closed", "risk_accepted", "open"}

Distinct(seq, Key(_)) ==
    \A i, j \in DOMAIN seq : Key(seq[i]) = Key(seq[j]) => i = j

\* validate_contracts_reviewed: what it demands, and what it returns.
ContractsSound(r) ==
    /\ \A c \in ToSet(r.contracts) : c.complete /\ c.status \in {"PASS", "FAIL"}
    /\ Distinct(r.contracts, LAMBDA c : c.domain)
    /\ RequiredDomains \subseteq {c.domain : c \in ToSet(r.contracts)}

FailedDomains(r) ==
    {c.domain : c \in {k \in ToSet(r.contracts) : k.status = "FAIL"}}

Conformance(r) == IF FailedDomains(r) = {} THEN "PASS" ELSE "FAIL"

\* validate_drift_backlog
BacklogSound(r) ==
    /\ \A d \in ToSet(r.drifts) :
        /\ d.complete
        /\ d.severity \in {"critical", "high", "medium", "low"}
        /\ d.status \in {"open", "closed", "risk_accepted"}
        /\ d.status = "risk_accepted" => d.risk_exception_ref # None
    /\ Distinct(r.drifts, LAMBDA d : d.drift_id)

CriticalOpen(r) ==
    {d.drift_id : d \in {e \in ToSet(r.drifts) :
        e.severity = "critical" /\ e.status = "open"}}

\* validate_previous_week_closure
ClosureSound(c) ==
    /\ c.complete
    /\ c.status \in {"PASS", "FAIL"}
    /\ \A e \in ToSet(c.carried) :
        /\ e.complete
        /\ e.resolution \in Resolutions
        /\ e.resolution = "risk_accepted" => e.risk_exception_ref # None
    /\ Distinct(c.carried, LAMBDA e : e.drift_id)

\* validate_review up to the relationship with the week before.
StandsAlone(w, r) ==
    /\ r.complete /\ r.title_week = w /\ r.week_id = w
    /\ r.source_of_truth = SourceOfTruth
    /\ r.review_validity_status = "PASS"
    /\ ContractsSound(r)
    /\ r.operational_conformance_status \in {None, Conformance(r)}
    /\ r.failed_domains # None =>
        r.failed_domains = FailedDomains(r) /\ r.failed_domains \subseteq RequiredDomains
    /\ BacklogSound(r)
    /\ ClosureSound(r.closure)
    /\ r.critical_drifts_open = Cardinality(CriticalOpen(r))

\* validate_previous_week_relationship: there is no review of the week before.
OpensAChain(r) ==
    /\ r.previous_week_id = None
    /\ r.closure.carried = <<>>
    /\ \A refs \in {r.closure.reviewed, r.closure.closed_refs,
                    r.closure.risk_accepted_refs, r.closure.open_critical_refs} : refs = {}
    /\ r.closure.status = "PASS"

Carried(r, resolution) ==
    {e \in ToSet(r.closure.carried) : e.resolution = resolution}

IdsOf(entries) == {e.drift_id : e \in entries}

\* Mutant of FollowsOn: a drift carried as open may be gone from the backlog.
FollowsOnLoosely(r, w, previous) ==
    /\ r.previous_week_id = w - 1
    /\ IdsOf(ToSet(r.closure.carried)) = CriticalOpen(previous)
    /\ r.closure.reviewed = CriticalOpen(previous)
    /\ IdsOf(Carried(r, "closed") \cup Carried(r, "risk_accepted")) \cap CriticalOpen(r) = {}
    /\ r.closure.closed_refs = {e.evidence_ref : e \in Carried(r, "closed")}
    /\ r.closure.risk_accepted_refs =
        {e.risk_exception_ref : e \in Carried(r, "risk_accepted")}
    /\ r.closure.open_critical_refs = IdsOf(Carried(r, "open"))
    /\ r.closure.status = IF Carried(r, "open") = {} THEN "PASS" ELSE "FAIL"

\* validate_previous_week_relationship: every critical drift the week before
\* left open is classified, as what the backlog of this week shows it to be.
FollowsOn(r, w, previous) ==
    /\ r.previous_week_id = w - 1
    /\ IdsOf(ToSet(r.closure.carried)) = CriticalOpen(previous)
    /\ r.closure.reviewed = CriticalOpen(previous)
    /\ IdsOf(Carried(r, "closed") \cup Carried(r, "risk_accepted")) \cap CriticalOpen(r) = {}
    /\ IdsOf(Carried(r, "open")) \subseteq CriticalOpen(r)
    /\ r.closure.closed_refs = {e.evidence_ref : e \in Carried(r, "closed")}
    /\ r.closure.risk_accepted_refs =
        {e.risk_exception_ref : e \in Carried(r, "risk_accepted")}
    /\ r.closure.open_critical_refs = IdsOf(Carried(r, "open"))
    /\ r.closure.status = IF Carried(r, "open") = {} THEN "PASS" ELSE "FAIL"

\* validate_review: a review is valid with all the weeks it follows on, back
\* to one that has none before it.
Valid(reviews, week) ==
    \E first \in DOMAIN reviews :
        /\ first..week \subseteq DOMAIN reviews /\ first <= week
        /\ first - 1 \notin DOMAIN reviews
        /\ OpensAChain(reviews[first])
        /\ \A w \in first..week : StandsAlone(w, reviews[w])
        /\ \A w \in first + 1..week : FollowsOn(reviews[w], w, reviews[w - 1])

\* command_read, as the runner takes it: any error is a failed review.
ReadReview(reviews, week) ==
    IF Valid(reviews, week)
    THEN [validity |-> "PASS", conformance |-> Conformance(reviews[week]),
          failed |-> FailedDomains(reviews[week]),
          critical |-> reviews[week].critical_drifts_open]
    ELSE [validity |-> "FAIL", conformance |-> "FAIL", failed |-> {}, critical |-> 0]

-----------------------------------------------------------------------------
(* The self-checks that command_check runs on reviews it writes itself.     *)

NothingCarried ==
    [status |-> "PASS", reviewed |-> {}, closed_refs |-> {}, risk_accepted_refs |-> {},
     open_critical_refs |-> {}, carried |-> <<>>, complete |-> TRUE]

\* build_sample_review
Sample(w, drifts, previous, closure) ==
    [complete |-> TRUE, title_week |-> w, week_id |-> w,
     source_of_truth |-> SourceOfTruth, previous_week_id |-> previous,
     review_validity_status |-> "PASS", operational_conformance_status |-> "PASS",
     failed_domains |-> {},
     critical_drifts_open |-> Cardinality({i \in DOMAIN drifts :
         drifts[i].severity = "critical" /\ drifts[i].status = "open"}),
     contracts |-> [i \in DOMAIN SampleDomains |->
         [domain |-> SampleDomains[i], status |-> "PASS", complete |-> TRUE]],
     drifts |-> drifts, closure |-> closure]

Drift(id, severity, status) ==
    [drift_id |-> id, severity |-> severity, status |-> status,
     risk_exception_ref |-> None, complete |-> TRUE]

\* One drift of the week before, classified.
Carrying(id, resolution, evidence, risk) ==
    [status |-> IF resolution = "open" THEN "FAIL" ELSE "PASS",
     reviewed |-> {id},
     closed_refs |-> IF resolution = "closed" THEN {evidence} ELSE {},
     risk_accepted_refs |-> IF resolution = "risk_accepted" THEN {risk} ELSE {},
     open_critical_refs |-> IF resolution = "open" THEN {id} ELSE {},
     carried |-> <<[drift_id |-> id, resolution |-> resolution, evidence_ref |-> evidence,
                    risk_exception_ref |-> risk, complete |-> TRUE]>>,
     complete |-> TRUE]

\* The reviews of a single week, with the verdict expected of each.
SingleSamples ==
    LET high == Drift("high", "high", "open")
        Alone(w, drifts) == (w :> Sample(w, drifts, None, NothingCarried))
    IN  {[files |-> <<>>, week |-> 9, valid |-> FALSE],
         [files |-> Alone(9, <<>>), week |-> 9, valid |-> TRUE],
         [files |-> Alone(11, <<[high EXCEPT !.complete = FALSE]>>),
          week |-> 11, valid |-> FALSE],
         [files |-> Alone(13, <<Drift("risk", "high", "risk_accepted")>>),
          week |-> 13, valid |-> FALSE],
         [files |-> (10 :> [Sample(10, <<>>, None, NothingCarried)
                               EXCEPT !.source_of_truth = "PRD/ROADMAP.md"]),
          week |-> 10, valid |-> FALSE]}

\* Two weeks in a row: the first leaves a critical drift open.
Successive(w, drifts, closure) ==
    (w :> Sample(w, <<Drift("drift", "critical", "open")>>, None, NothingCarried))
    @@ (w + 1 :> Sample(w + 1, drifts, w, closure))

ClosedAndAcceptedSamples ==
    {[files |-> Successive(40, <<>>, Carrying("drift", "closed", "closing", None)),
      week |-> 41, valid |-> TRUE],
     [files |-> Successive(43, <<>>, Carrying("drift", "risk_accepted", "mock", "RISK-001")),
      week |-> 44, valid |-> TRUE]}

OpenAndOmittedSamples ==
    {[files |-> Successive(46, <<Drift("drift", "critical", "open")>>,
                           Carrying("drift", "open", "mock", None)),
      week |-> 47, valid |-> TRUE],
     [files |-> Successive(49, <<>>, NothingCarried), week |-> 50, valid |-> FALSE]}

\* run_self_checks
SelfChecks ==
    \A s \in SingleSamples \cup ClosedAndAcceptedSamples \cup OpenAndOmittedSamples :
        Valid(s.files, s.week) = s.valid

\* command_check
CheckReview(reviews, week) == Valid(reviews, week) /\ SelfChecks
=============================================================================
