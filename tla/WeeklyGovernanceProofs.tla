----------------------- MODULE WeeklyGovernanceProofs -----------------------
(***************************************************************************)
(* What the weekly governance promises holds for every repository, every   *)
(* set of edits, and any number of weeks, edits and runs.                  *)
(***************************************************************************)
EXTENDS WeeklyGovernance, FiniteSetTheorems, WellFoundedInduction, TLAPS

Status == {"PASS", "FAIL"}
Gates == {"eval-gates", "ci-quality", "ci-security"}
Phases == {PriorPhase("promote"), PriorPhase("hold"), PriorPhase("absent")}

Readings == {ReadReview(past, w) : past \in Reviews, w \in Nat}
Working == Stages \ {"idle"}

RunState ==
    [stage : Working, week : Nat, exported : BOOLEAN, review : Readings,
     phase : Phases, gates : [Gates -> Status],
     basis : Reviews]

-----------------------------------------------------------------------------
(* The review.                                                              *)

\* What the runner makes of a review is a pair of statuses.
LEMMA ReviewIsRead ==
    ASSUME NEW past, NEW w
    PROVE  /\ ReadReview(past, w).validity \in Status
           /\ ReadReview(past, w).conformance \in Status
           /\ ReadReview(past, w).validity = "PASS" =>
                /\ Valid(past, w)
                /\ ReadReview(past, w).critical = past[w].critical_drifts_open
BY DEF ReadReview, Conformance, Status

\* A review among those there may be names finitely many critical drifts.
LEMMA CriticalOpenIsFinite ==
    ASSUME NEW r \in ReviewValue
    PROVE  IsFiniteSet(CriticalOpen(r))
<1> DEFINE Open == {i \in DOMAIN r.drifts :
                        r.drifts[i].severity = "critical" /\ r.drifts[i].status = "open"}
           id == [i \in Open |-> r.drifts[i].drift_id]
<1>1. IsFiniteSet(Open)
  <2>1. IsFiniteSet(DOMAIN r.drifts)
    BY ReviewsAssumption
  <2> QED
    BY <2>1, FS_Subset
<1>2. id \in Surjection(Open, CriticalOpen(r))
  BY DEF Surjection, CriticalOpen, ToSet
<1> QED
  BY <1>1, <1>2, FS_Surjection

\* A review that counts no open critical drift has none.
LEMMA NoneCountedNoneOpen ==
    ASSUME NEW r \in ReviewValue, Cardinality(CriticalOpen(r)) = 0
    PROVE  CriticalOpen(r) = {}
BY CriticalOpenIsFinite, FS_EmptySet

\* A critical drift left open in one week is, in the next valid review,
\* resolved on record or left open again (validate_previous_week_relationship).
LEMMA DriftIsCarried ==
    ASSUME NEW r, NEW w, NEW previous, NEW id \in CriticalOpen(previous),
           StandsAlone(w, r), FollowsOn(r, w, previous)
    PROVE  Resolves(r, id) \/ id \in CriticalOpen(r)
<1>1. PICK e \in ToSet(r.closure.carried) : e.drift_id = id
  BY DEF FollowsOn, IdsOf
<1>2. e.resolution \in Resolutions
  BY DEF StandsAlone, ClosureSound
<1>3. CASE e.resolution = "open"
  <2>1. id \in IdsOf(Carried(r, "open"))
    BY <1>1, <1>3 DEF IdsOf, Carried
  <2> QED
    BY <2>1 DEF FollowsOn
<1>4. CASE e.resolution # "open"
  <2>1. e \in Carried(r, "closed") \cup Carried(r, "risk_accepted")
    BY <1>1, <1>2, <1>4 DEF Carried, Resolutions
  <2> QED
    BY <1>1, <2>1 DEF Resolves, IdsOf
<1> QED
  BY <1>3, <1>4

\* A set of naturals that is not empty has a least element.
LEMMA LeastWeek ==
    ASSUME NEW S \in SUBSET Nat, S # {}
    PROVE  \E m \in S : \A n \in S : m <= n
<1> DEFINE Less == OpToRel(<, Nat)
<1>1. IsWellFoundedOn(Less, Nat)
  BY NatLessThanWellFounded
<1>2. \A x, y \in Nat : x < y => <<x, y>> \in Less
  BY DEF OpToRel
<1> HIDE DEF Less
<1>3. PICK m \in S : \A n \in S : <<n, m>> \notin Less
  BY <1>1, WFMin
<1>4. \A n \in S : n \in Nat /\ m \in Nat /\ ~ (n < m)
  BY <1>2, <1>3, Zenon
<1> QED
  BY <1>4

\* What a promotion rests on: a valid review that counts no open critical
\* drift.
Clears(past, w) == Valid(past, w) /\ past[w].critical_drifts_open = 0

\* A critical drift that a week left open was resolved on record by the week
\* of a review that clears, if every week between the two has its review.
LEMMA ClearedDriftsAreResolved ==
    ASSUME NEW past \in Reviews, NEW w \in Nat, Clears(past, w),
           NEW v \in DOMAIN past, v < w, v..w \subseteq DOMAIN past,
           NEW id \in CriticalOpen(past[v])
    PROVE  ResolvedIn(past, v, w, id) # {}
<1> SUFFICES ASSUME \A u \in v + 1..w : ~ Resolves(past[u], id)
             PROVE  FALSE
  <2>1. v \in Nat
    BY DEF Reviews
  <2> QED
    BY <2>1 DEF ResolvedIn
<1>1. v \in Nat /\ \A u \in DOMAIN past : u \in Nat /\ past[u] \in ReviewValue
  BY DEF Reviews
<1>2. PICK first \in DOMAIN past :
        /\ first..w \subseteq DOMAIN past /\ first <= w
        /\ first - 1 \notin DOMAIN past
        /\ \A u \in first..w : StandsAlone(u, past[u])
        /\ \A u \in first + 1..w : FollowsOn(past[u], u, past[u - 1])
  BY DEF Clears, Valid
<1>3. first <= v
  BY <1>1, <1>2
<1> DEFINE Gone == {u \in v..w : id \notin CriticalOpen(past[u])}
<1>4. w \in Gone
  <2>1. w \in first..w /\ w \in DOMAIN past /\ past[w] \in ReviewValue
    BY <1>1, <1>2
  <2>2. Cardinality(CriticalOpen(past[w])) = 0
    BY <1>2, <2>1 DEF Clears, StandsAlone
  <2> QED
    BY <1>1, <2>1, <2>2, NoneCountedNoneOpen
<1>5. PICK m \in Gone : \A n \in Gone : m <= n
  <2>1. Gone \in SUBSET Nat
    BY <1>1
  <2> QED
    BY <1>4, <2>1, LeastWeek
<1>6. m \in Nat /\ v < m /\ m <= w
  <2>1. m # v
    BY <1>5
  <2> QED
    BY <1>1, <1>5, <2>1
<1>7. id \in CriticalOpen(past[m - 1])
  BY <1>1, <1>5, <1>6
<1>8. StandsAlone(m, past[m]) /\ FollowsOn(past[m], m, past[m - 1])
  BY <1>1, <1>2, <1>3, <1>6
<1>9. ~ Resolves(past[m], id)
  BY <1>1, <1>6
<1> QED
  BY <1>5, <1>7, <1>8, <1>9, DriftIsCarried

-----------------------------------------------------------------------------
(* The report.                                                              *)

\* The runner's decision is promote exactly when all its parts are.
LEMMA DecisionOfParts ==
    ASSUME NEW r \in RunState
    PROVE  /\ Decision(r) \in {"promote", "hold"}
           /\ Decision(r) = "promote" <=>
                /\ \A g \in Gates : r.gates[g] = "PASS"
                /\ r.review.validity = "PASS" /\ r.review.conformance = "PASS"
                /\ r.review.critical = 0
                /\ r.phase.decision = "promote" /\ r.phase.transition = "ready"
<1>1. r.gates \in [Gates -> Status]
  BY DEF RunState
<1>2. r.gates = [g \in DOMAIN r.gates |-> "PASS"] <=> \A g \in Gates : r.gates[g] = "PASS"
  BY <1>1
<1> QED
  BY <1>2 DEF Decision

\* Whatever the runner has found, its report passes the checker's formulas:
\* expected_decision, expected_readiness and the reasons for a block.
LEMMA ReportIsSound ==
    ASSUME NEW r \in RunState
    PROVE  ReportSound(Report(r))
<1>1. PICK past \in Reviews, w \in Nat : r.review = ReadReview(past, w)
  BY DEF RunState, Readings
<1>2. r.review.validity \in Status /\ r.review.conformance \in Status
  BY <1>1, ReviewIsRead
<1>3. /\ r.phase.decision \in {"promote", "hold"}
      /\ r.phase.decision = "promote" <=> r.phase.transition = "ready"
      /\ r.phase.decision = "promote" <=> r.phase.blocking = "none"
      /\ r.phase.transition \in {"ready", "blocked"}
  <2>1. r.phase \in Phases
    BY DEF RunState
  <2>2. CASE r.phase = PriorPhase("promote")
    BY <2>2 DEF PriorPhase
  <2>3. CASE r.phase = PriorPhase("hold")
    BY <2>3 DEF PriorPhase
  <2>4. CASE r.phase = PriorPhase("absent")
    BY <2>4 DEF PriorPhase
  <2> QED
    BY <2>1, <2>2, <2>3, <2>4 DEF Phases
<1> DEFINE v == Report(r)
<1>4. /\ v.prior_phase_decision = r.phase.decision
      /\ v.phase_transition_status = r.phase.transition
      /\ v.blocking_reason = r.phase.blocking
      /\ v.operational_readiness = Readiness(r)
      /\ v.review_validity_status = r.review.validity
      /\ v.operational_conformance_status = r.review.conformance
      /\ v.eval_gates_status = r.gates["eval-gates"]
      /\ v.ci_quality_status = r.gates["ci-quality"]
      /\ v.ci_security_status = r.gates["ci-security"]
      /\ v.critical_drifts_open = r.review.critical
      /\ v.decision = Decision(r)
      /\ v.release_review_status = "PASS"
  BY DEF Report
<1> HIDE DEF v
<1>5. v.decision = ExpectedDecision(v)
  BY <1>3, <1>4, DecisionOfParts DEF ExpectedDecision, Gates
<1>6. v.operational_readiness = ExpectedReadiness(v)
  BY <1>2, <1>4 DEF ExpectedReadiness, Readiness, Status
<1> QED
  BY <1>2, <1>3, <1>4, <1>5, <1>6 DEF ReportSound, Status, v

\* A run of ci-quality that passes, with the weekly rule enabled, has seen the
\* weekly check pass.
LEMMA PassingRuleHolds ==
    ASSUME NEW exported, NEW w, CiQuality(exported, w), WeeklyRuleEnabled
    PROVE  WeeklyCheck
<1>1. Passes(tree.manifests, "governance", "weekly_governance", Holding)
  BY DEF CiQuality
<1>2. "weekly_governance_contract" \in Holding
  BY <1>1 DEF Passes, WeeklyRuleEnabled
<1> QED
  BY <1>2 DEF Holding

-----------------------------------------------------------------------------
(* Pure facts about the tree.                                               *)

\* The rule ownership_spof_controls and the ownership part of the KPI gate,
\* two programs, agree on every repository.
THEOREM OwnershipChecksAgree ==
    ASSUME NEW o, NEW god_scripts, NEW typed_pct, NEW tests,
           o.owners \in Nat, Cardinality(o.enabled) \in Nat,
           o.codeowners \in BOOLEAN, o.operators \in BOOLEAN
    PROVE  OwnershipRule(o) <=>
             KpiViolations(o, god_scripts, typed_pct, tests) \cap OwnershipViolations = {}
<1> DEFINE found == KpiViolations(o, god_scripts, typed_pct, tests)
<1>1. /\ "CODEOWNERS_MISSING" \in found <=> ~ o.codeowners
      /\ "CODEOWNERS_GLOBAL_SPOF" \in found <=> o.codeowners /\ o.owners < 2
      /\ "OPERATORS_MISSING" \in found <=> ~ o.operators
      /\ "OPERATORS_SPOF" \in found <=> o.operators /\ Cardinality(o.enabled) < 2
      /\ "OPERATORS_BACKUP_DISABLED" \in found <=>
            /\ o.operators /\ Cardinality(o.enabled) >= 2
            /\ o.backup = {} \/ ~ o.backup \subseteq o.enabled
  BY DEF KpiViolations
<1> HIDE DEF found
<1>2. found \cap OwnershipViolations = {} <=>
        \A x \in OwnershipViolations : x \notin found
  OBVIOUS
<1> QED
  BY <1>1, <1>2 DEF OwnershipRule, OwnershipViolations, found

\* An accepted enablement report that says "pass" rests on approved decisions:
\* it is a fact of every repository, not only of those a run reaches.
LEMMA AcceptedReadinessIsApproved == ReadinessIsApproved
<1> SUFFICES ASSUME CheckEnablement(tree, tree.enablement, tree.enablement.week_id),
                    tree.enablement.overall = "pass",
                    NEW c \in AssetClass
             PROVE  LET s == LatestShadow(tree.shadows, c)
                    IN  /\ s.status = "completed"
                        /\ s.decision_ref \in DOMAIN tree.decisions
                        /\ LET d == tree.decisions[s.decision_ref] IN
                            /\ d.status = "APPROVED" /\ d.explicit_human_approval
                            /\ {d.approval_evidence_ref} \cup s.evidence \subseteq tree.files
  BY DEF ReadinessIsApproved
<1> DEFINE s == LatestShadow(tree.shadows, c)
<1>1. Rows(tree)[c].promote_readiness = "pass"
  BY DEF CheckEnablement, Overall
<1>2. s.promote_readiness = "pass"
  BY <1>1 DEF Rows, Row
<1>3. ShadowSound(tree.decisions, tree.files, s)
  BY DEF CheckEnablement, RowsExist
<1>4. /\ s.status = "completed" /\ s.evidence \subseteq tree.files
      /\ Approves(tree.decisions, tree.files, s)
  BY <1>2, <1>3 DEF ShadowSound
<1> QED
  BY <1>4 DEF Approves

-----------------------------------------------------------------------------
(* The inductive invariant.                                                 *)

\* The repository holds reviews that there may be.
TreeInv == DOMAIN tree = TreeFields /\ tree.reviews \in Reviews

\* A run holds what it read of the reviews of its week, and its summary
\* follows its report and the logs.
RunInv ==
    run # Idle =>
        /\ run \in RunState
        /\ run.week \in 1..week
        /\ run.review = ReadReview(run.basis, run.week)
        /\ run.stage = "summary" => run.week \in DOMAIN reports \cap logs

\* What is on disk belongs to a report.
DiskInv ==
    /\ DOMAIN reports \subseteq 1..week
    /\ DOMAIN summaries \cup logs \cup torn \cup fresh \subseteq DOMAIN reports
    /\ DOMAIN basis = DOMAIN reports

\* Every report is sound, and rests on what its run has found.
ReportsInv ==
    \A w \in DOMAIN reports :
        /\ reports[w].week_id = w
        /\ {reports[w].eval_gates_status, reports[w].ci_quality_status,
            reports[w].ci_security_status} \subseteq Status
        /\ ReportSound(reports[w])
        /\ basis[w] \in Reviews
        /\ reports[w].decision = "promote" => Clears(basis[w], w)

\* The summary of w is being written, or the run that should have done so died.
Unfinished(w) == w \in torn \/ (run.stage = "summary" /\ run.week = w)

SummariesInv == \A w \in DOMAIN reports : Unfinished(w) \/ SummaryRepeats(w)

\* Since ci-quality passed, all the weekly check looks at is as it was, but for
\* the week whose summary is being written.
SettledInv ==
    settled =>
        /\ DOMAIN reports # {}
        /\ tree.epics # NoEpics
        /\ DOMAIN reports \subseteq logs
        /\ \A w \in DOMAIN reports :
            \/ run.stage = "summary" /\ run.week = w
            \/ SummaryRepeats(w) /\ summaries[w].epics = tree.epics

\* A week that was run again to its end has all that the weekly check asks of it.
FreshInv ==
    \A w \in fresh :
        /\ w \in logs
        /\ SummaryRepeats(w)
        /\ summaries[w].epics = tree.epics
        /\ tree.epics # NoEpics

CountersInv ==
    /\ week \in 1..MaxWeek /\ edits \in 0..MaxEdits /\ runs \in 0..MaxRuns
    /\ settled \in BOOLEAN

IInv ==
    /\ CountersInv /\ TreeInv /\ RunInv /\ DiskInv
    /\ ReportsInv /\ SummariesInv /\ SettledInv /\ FreshInv

\* An idle run is at the stage idle, and only it.
LEMMA IdleStage ==
    Idle.stage = "idle" /\ (RunInv /\ run.stage # "idle" => run \in RunState)
                        /\ (RunInv /\ run # Idle => run.stage # "idle")
                        /\ (RunInv => run.stage \in Stages)
BY DEF Idle, RunInv, RunState, Stages, Working

\* The first state: nothing has been written.
LEMMA InitIInv == Init => IInv
<1> SUFFICES ASSUME Init PROVE IInv
  OBVIOUS
<1>1. CountersInv
  <2>1. week \in 1..MaxWeek /\ edits \in 0..MaxEdits /\ runs \in 0..MaxRuns
    BY BoundsAssumption DEF Init
  <2>2. settled \in BOOLEAN
    BY Zenon DEF Init
  <2> QED
    BY <2>1, <2>2 DEF CountersInv
<1>2. TreeInv
  <2>1. InitialTree.reviews \in Reviews
    BY ReviewsAssumption DEF Reviews
  <2> QED
    BY <2>1, TreeAssumption DEF Init, TreeInv
<1>3. DOMAIN reports = {} /\ DOMAIN summaries = {} /\ DOMAIN basis = {}
  BY DEF Init
<1> QED
  BY <1>1, <1>2, <1>3
     DEF Init, IInv, RunInv, DiskInv, ReportsInv, SummariesInv, SettledInv, FreshInv

-----------------------------------------------------------------------------
(* Steps of the world.                                                      *)

\* The calendar moves on.
LEMMA NextWeekIInv ==
    ASSUME IInv, NextWeek
    PROVE  IInv'
<1> USE DEF IInv, NextWeek
<1>1. week \in Nat /\ week' = week + 1 /\ 1..week \subseteq 1..week'
  BY BoundsAssumption DEF CountersInv
<1>2. CountersInv'
  BY BoundsAssumption DEF CountersInv
<1>3. RunInv' /\ DiskInv'
  BY <1>1 DEF RunInv, DiskInv
<1>4. ReportsInv' /\ TreeInv' /\ SettledInv'
  BY DEF ReportsInv, TreeInv, SettledInv, SummaryRepeats
<1>5. SummariesInv'
  BY DEF SummariesInv, SummaryRepeats, Unfinished
<1>6. FreshInv'
  BY DEF FreshInv, SummaryRepeats
<1> QED
  BY <1>2, <1>3, <1>4, <1>5, <1>6

\* A step that leaves the calendar, the run and what the runner has written
\* alone, but may change the repository or lose logs, keeps the invariant if
\* what settled promises is given up.
LEMMA OutsideIInv ==
    ASSUME IInv, UNCHANGED <<week, reports, summaries, run, runs, basis, torn>>,
           edits < MaxEdits, edits' = edits + 1, settled' = FALSE,
           logs' \subseteq logs, run = Idle \/ logs' = logs, TreeInv',
           fresh' \subseteq fresh, fresh' \cap logs \subseteq logs',
           tree'.epics = tree.epics \/ fresh' = {}
    PROVE  IInv'
<1> USE DEF IInv
<1>1. CountersInv'
  <2>1. week' \in 1..MaxWeek /\ edits' \in 0..MaxEdits /\ runs' \in 0..MaxRuns
    BY BoundsAssumption DEF CountersInv
  <2>2. settled' \in BOOLEAN
    BY Zenon
  <2> QED
    BY <2>1, <2>2 DEF CountersInv
<1>2. RunInv' /\ DiskInv'
  BY DEF RunInv, DiskInv
<1>3. ReportsInv'
  BY DEF ReportsInv
<1>4. SummariesInv'
  BY DEF SummariesInv, SummaryRepeats, Unfinished
<1>5. SettledInv'
  BY DEF SettledInv
<1>6. FreshInv'
  BY DEF FreshInv, SummaryRepeats
<1> QED
  BY <1>1, <1>2, <1>3, <1>4, <1>5, <1>6

\* A review is put beside the others.
LEMMA PutReview ==
    ASSUME NEW past \in Reviews, NEW w \in Nat, NEW r \in ReviewValue
    PROVE  Put(past, w, r) \in Reviews
<1>1. Put(past, w, r) \in [DOMAIN past \cup {w} -> ReviewValue]
  BY DEF Put, Reviews
<1>2. DOMAIN past \cup {w} \in SUBSET Nat
  BY DEF Reviews
<1> QED
  BY <1>1, <1>2 DEF Reviews

\* Somebody edits the repository.
LEMMA EditTreeIInv ==
    ASSUME IInv, NEW e \in Edit, EditTree(e)
    PROVE  IInv'
<1> USE DEF IInv, TreeInv
<1>1. TreeInv'
  <2>1. CASE e.part # "reviews" /\ tree' = [tree EXCEPT ![e.part] = e.value]
    BY <2>1, TreeAssumption DEF TreeFields
  <2>2. CASE e.part = "reviews" /\ tree' = [tree EXCEPT !.reviews = Put(@, e.week, e.value)]
    <3>1. e.week \in Nat /\ e.value \in ReviewValue
      BY <2>2, ReviewsAssumption DEF ReviewValue
    <3>2. Put(tree.reviews, e.week, e.value) \in Reviews
      BY <3>1, PutReview
    <3> QED
      BY <2>2, <3>2 DEF TreeFields
  <2> QED
    BY <2>1, <2>2 DEF EditTree
<1>2. fresh' \subseteq fresh /\ (tree'.epics = tree.epics \/ fresh' = {})
  <2>1. CASE e.part = "epics"
    BY <2>1 DEF EditTree
  <2>2. CASE e.part # "epics"
    BY <2>2, TreeAssumption DEF EditTree, TreeFields
  <2> QED
    BY <2>1, <2>2
<1> QED
  BY <1>1, <1>2, OutsideIInv DEF EditTree

\* Logs are lost in a fresh checkout.
LEMMA FreshCheckoutIInv ==
    ASSUME IInv, NEW kept, FreshCheckout(kept)
    PROVE  IInv'
<1>1. TreeInv'
  BY DEF IInv, TreeInv, FreshCheckout
<1> QED
  BY <1>1, OutsideIInv DEF FreshCheckout

\* The enablement report is rendered anew.
LEMMA RenderEnablementIInv ==
    ASSUME IInv, NEW w, RenderEnablement(w)
    PROVE  IInv'
<1>1. TreeInv' /\ tree'.epics = tree.epics
  BY DEF IInv, TreeInv, RenderEnablement, TreeFields
<1> QED
  BY <1>1, OutsideIInv DEF RenderEnablement

-----------------------------------------------------------------------------
(* Steps of the run.                                                        *)

\* A step of the run before it writes keeps the invariant; it may find, by the
\* weekly check, that all is settled.
LEMMA BeforeWritingIInv ==
    ASSUME IInv,
           UNCHANGED <<week, tree, reports, summaries, logs, edits, basis, torn, fresh>>,
           run.stage # "summary", run'.stage # "summary",
           run' \in RunState, run'.week \in 1..week,
           run'.review = ReadReview(run'.basis, run'.week),
           runs' \in 0..MaxRuns, settled' \in BOOLEAN,
           settled' => settled \/ WeeklyCheck
    PROVE  IInv'
<1> USE DEF IInv
<1>1. CountersInv' /\ TreeInv' /\ DiskInv'
  BY DEF CountersInv, TreeInv, DiskInv
<1>2. RunInv'
  BY DEF RunInv
<1>3. ReportsInv'
  BY DEF ReportsInv
<1>4. SummariesInv'
  BY DEF SummariesInv, SummaryRepeats, Unfinished
<1>5. SettledInv'
  BY DEF SettledInv, WeeklyCheck, SummaryRepeats
<1>6. FreshInv'
  BY DEF FreshInv, SummaryRepeats
<1> QED
  BY <1>1, <1>2, <1>3, <1>4, <1>5, <1>6

\* The runner starts.
LEMMA StartRunIInv ==
    ASSUME IInv, NEW exported \in BOOLEAN, NEW w \in 1..MaxWeek, StartRun(exported, w)
    PROVE  IInv'
<1> USE DEF IInv
<1>1. /\ run'.stage = "phase" /\ run'.week = w
      /\ run'.basis = tree.reviews
      /\ run'.review = ReadReview(tree.reviews, w)
  BY DEF StartRun
<1>2. run' \in RunState
  <2>1. [g \in {"eval-gates", "ci-quality", "ci-security"} |-> Skipped] \in [Gates -> Status]
    BY DEF Gates, Status, Skipped
  <2>2. /\ w \in Nat /\ tree.reviews \in Reviews /\ "phase" \in Working
        /\ PriorPhase("absent") \in Phases /\ ReadReview(tree.reviews, w) \in Readings
    BY BoundsAssumption DEF TreeInv, Stages, Working, Phases, Readings
  <2> QED
    BY <2>1, <2>2 DEF StartRun, RunState
<1>3. run.stage # "summary"
  BY DEF StartRun, Idle
<1>4. w \in 1..week /\ runs' \in 0..MaxRuns /\ settled' \in BOOLEAN
  BY BoundsAssumption DEF StartRun, CountersInv
<1> QED
  BY <1>1, <1>2, <1>3, <1>4, BeforeWritingIInv DEF StartRun

\* The runner reads the decision of F7.
LEMMA ReadPhaseIInv ==
    ASSUME IInv, ReadPhase
    PROVE  IInv'
<1> USE DEF IInv
<1>1. run.stage = "phase" /\ run \in RunState /\ run # Idle
  BY IdleStage DEF ReadPhase
<1>2. PriorPhase(tree.f7) \in Phases
  BY DEF Phases, PriorPhase
<1>3. /\ run' \in RunState /\ run'.stage = "eval-gates"
      /\ run'.week = run.week /\ run'.review = run.review /\ run'.basis = run.basis
  <2>1. "eval-gates" \in Working
    BY DEF Stages, Working
  <2> QED
    BY <1>1, <1>2, <2>1 DEF ReadPhase, RunState
<1>4. settled' \in BOOLEAN /\ runs' \in 0..MaxRuns
  BY DEF CountersInv, ReadPhase
<1> QED
  BY <1>1, <1>3, <1>4, BeforeWritingIInv DEF RunInv, ReadPhase

\* The runner runs eval-gates or ci-security.
LEMMA RunGateIInv ==
    ASSUME IInv, NEW gate \in {"eval-gates", "ci-security"}, NEW passes,
           NEW next \in {"ci-quality", "report"}, RunGate(gate, passes, next)
    PROVE  IInv'
<1> USE DEF IInv
<1>1. run.stage = gate /\ run \in RunState /\ run # Idle
  BY IdleStage DEF RunGate
<1>2. /\ run' \in RunState /\ run'.stage \in {"ci-quality", "report"}
      /\ run'.week = run.week /\ run'.review = run.review /\ run'.basis = run.basis
  <2>1. gate \in Gates /\ next \in Working /\ "report" \in Working
    BY DEF Gates, Stages, Working
  <2>2. \A st \in Status : [run.gates EXCEPT ![gate] = st] \in [Gates -> Status]
    BY <1>1, <2>1 DEF RunState
  <2>3. CASE passes
    BY <1>1, <2>1, <2>2, <2>3 DEF RunGate, RunState, Status
  <2>4. CASE ~ passes
    BY <1>1, <2>1, <2>2, <2>4 DEF RunGate, RunState, Status
  <2> QED
    BY <2>3, <2>4
<1>3. settled' \in BOOLEAN /\ runs' \in 0..MaxRuns
  BY DEF CountersInv, RunGate
<1> QED
  BY <1>1, <1>2, <1>3, BeforeWritingIInv DEF RunInv, RunGate

\* The runner runs ci-quality: if it passes with the weekly rule, all was in
\* order.
LEMMA RunCiQualityIInv ==
    ASSUME IInv, RunCiQuality
    PROVE  IInv'
<1> USE DEF IInv
<1>1. run.stage = "ci-quality" /\ run \in RunState /\ run # Idle
  BY IdleStage DEF RunCiQuality
<1> DEFINE passes == CiQuality(run.exported, run.week)
           stage == IF passes THEN "ci-security" ELSE "report"
           status == IF passes THEN "PASS" ELSE "FAIL"
           ruled == passes /\ WeeklyRuleEnabled
<1>2. stage \in {"ci-security", "report"} /\ stage \in Working /\ status \in Status
  BY DEF Stages, Working, Status
<1>3. ruled \in BOOLEAN
  BY Zenon
<1>4. ruled => WeeklyCheck
  BY PassingRuleHolds
<1>5. /\ run' = [run EXCEPT !.stage = stage, !.gates["ci-quality"] = status]
      /\ settled' = ruled
      /\ UNCHANGED <<week, tree, reports, summaries, logs, edits, runs, basis, torn, fresh>>
  BY DEF RunCiQuality
<1> HIDE DEF stage, status, ruled
<1>6. /\ run' \in RunState /\ run'.stage = stage
      /\ run'.week = run.week /\ run'.review = run.review /\ run'.basis = run.basis
  BY <1>1, <1>2, <1>5 DEF RunState, Gates
<1>7. settled' \in BOOLEAN /\ (settled' => settled \/ WeeklyCheck)
  BY <1>3, <1>4, <1>5, Zenon
<1>8. runs' \in 0..MaxRuns
  BY <1>5 DEF CountersInv
<1> QED
  BY <1>1, <1>2, <1>5, <1>6, <1>7, <1>8, BeforeWritingIInv DEF RunInv

\* The runner writes its report: it is sound, and a promotion clears.
LEMMA WriteReportIInv ==
    ASSUME IInv, WriteReport
    PROVE  IInv'
<1> USE DEF IInv
<1>1. /\ run.stage = "report" /\ run \in RunState /\ run # Idle
      /\ run.week \in 1..week /\ run.week \in Nat
  BY IdleStage DEF WriteReport, RunInv, RunState
<1>2. /\ DOMAIN reports' = DOMAIN reports \cup {run.week}
      /\ reports'[run.week] = Report(run)
      /\ \A w \in DOMAIN reports \ {run.week} : reports'[w] = reports[w]
  BY DEF WriteReport, Put
<1>3. /\ DOMAIN basis' = DOMAIN basis \cup {run.week}
      /\ basis'[run.week] = run.basis
      /\ \A w \in DOMAIN basis \ {run.week} : basis'[w] = basis[w]
  BY DEF WriteReport, Put
<1>4. /\ run' \in RunState /\ run'.stage = "summary" /\ run'.week = run.week
      /\ run'.review = run.review /\ run'.basis = run.basis
  <2>1. "summary" \in Working
    BY DEF Stages, Working
  <2> QED
    BY <1>1, <2>1 DEF WriteReport, RunState
<1>5. /\ logs' = logs \cup {run.week} /\ fresh' = fresh \ {run.week}
      /\ UNCHANGED <<week, tree, summaries, edits, runs, torn, settled>>
  BY DEF WriteReport
<1>6. CountersInv' /\ TreeInv'
  BY <1>5 DEF CountersInv, TreeInv
<1>7. RunInv'
  BY <1>1, <1>2, <1>4, <1>5 DEF RunInv
<1>8. DiskInv'
  BY <1>1, <1>2, <1>3, <1>5 DEF DiskInv
<1>9. ReportsInv'
  <2>1. ReportSound(Report(run))
    BY <1>1, ReportIsSound
  <2>2. /\ Report(run).week_id = run.week
        /\ {Report(run).eval_gates_status, Report(run).ci_quality_status,
            Report(run).ci_security_status} \subseteq Status
    BY <1>1 DEF Report, RunState, Gates
  <2>3. run.basis \in Reviews
    BY <1>1 DEF RunState
  <2>4. Report(run).decision = "promote" => Clears(run.basis, run.week)
    <3> SUFFICES ASSUME Decision(run) = "promote"
                 PROVE  Clears(run.basis, run.week)
      BY DEF Report
    <3>1. run.review.validity = "PASS" /\ run.review.critical = 0
      BY <1>1, DecisionOfParts
    <3>2. run.review = ReadReview(run.basis, run.week)
      BY <1>1 DEF RunInv
    <3> QED
      BY <3>1, <3>2, ReviewIsRead DEF Clears
  <2> SUFFICES ASSUME NEW w \in DOMAIN reports'
               PROVE  ReportsInv!(w)'
    BY DEF ReportsInv
  <2>5. CASE w = run.week
    BY <2>5, <1>2, <1>3, <2>1, <2>2, <2>3, <2>4
  <2>6. CASE w # run.week
    <3>1. w \in DOMAIN reports /\ reports'[w] = reports[w] /\ basis'[w] = basis[w]
      BY <2>6, <1>2, <1>3 DEF DiskInv
    <3> QED
      BY <3>1 DEF ReportsInv
  <2> QED
    BY <2>5, <2>6
<1>10. SummariesInv'
  BY <1>2, <1>4, <1>5 DEF SummariesInv, SummaryRepeats, Unfinished, WriteReport
<1>11. SettledInv'
  BY <1>1, <1>2, <1>4, <1>5 DEF SettledInv, SummaryRepeats
<1>12. FreshInv'
  <2> SUFFICES ASSUME NEW w \in fresh'
               PROVE  FreshInv!(w)'
    BY DEF FreshInv
  <2>1. w \in fresh /\ reports'[w] = reports[w]
    BY <1>2, <1>5 DEF DiskInv
  <2> QED
    BY <1>5, <2>1 DEF FreshInv, SummaryRepeats
<1> QED
  BY <1>6, <1>7, <1>8, <1>9, <1>10, <1>11, <1>12

\* The runner writes its summary.
LEMMA WriteSummaryIInv ==
    ASSUME IInv, WriteSummary
    PROVE  IInv'
<1> USE DEF IInv
<1>1. run.stage = "summary" /\ run # Idle /\ run.week \in DOMAIN reports \cap logs
  BY IdleStage DEF WriteSummary, RunInv
<1>2. /\ DOMAIN summaries' = DOMAIN summaries \cup {run.week}
      /\ summaries'[run.week].values = Repeated(reports[run.week])
      /\ summaries'[run.week].epics = tree.epics
      /\ \A w \in DOMAIN summaries \ {run.week} : summaries'[w] = summaries[w]
  BY DEF WriteSummary, Put
<1>3. /\ run' = Idle /\ torn' = torn \ {run.week} /\ tree.epics # NoEpics
      /\ run'.stage = "idle" /\ fresh' = fresh \cup {run.week}
      /\ UNCHANGED <<week, tree, reports, logs, edits, runs, basis, settled>>
  BY DEF WriteSummary, Idle
<1>4. CountersInv' /\ TreeInv' /\ RunInv'
  BY <1>3 DEF CountersInv, TreeInv, RunInv
<1>5. DiskInv' /\ ReportsInv'
  BY <1>1, <1>2, <1>3 DEF DiskInv, ReportsInv
<1>6. SummariesInv'
  BY <1>1, <1>2, <1>3 DEF SummariesInv, SummaryRepeats, Unfinished
<1>7. SettledInv'
  BY <1>1, <1>2, <1>3 DEF SettledInv, SummaryRepeats
<1>8. FreshInv'
  <2> SUFFICES ASSUME NEW w \in fresh'
               PROVE  FreshInv!(w)'
    BY DEF FreshInv
  <2>1. CASE w = run.week
    BY <2>1, <1>1, <1>2, <1>3 DEF SummaryRepeats
  <2>2. CASE w # run.week
    <3>1. w \in fresh /\ w \in DOMAIN summaries \ {run.week}
      BY <2>2, <1>3 DEF FreshInv, SummaryRepeats
    <3> QED
      BY <3>1, <1>2, <1>3 DEF FreshInv, SummaryRepeats
  <2> QED
    BY <2>1, <2>2
<1> QED
  BY <1>4, <1>5, <1>6, <1>7, <1>8

\* The runner dies.
LEMMA DieIInv ==
    ASSUME IInv, Die
    PROVE  IInv'
<1> USE DEF IInv
<1>1. /\ run' = Idle /\ run'.stage = "idle" /\ settled' = FALSE
      /\ torn' = IF run.stage = "summary" THEN torn \cup {run.week} ELSE torn
      /\ UNCHANGED <<week, tree, reports, summaries, logs, edits, runs, basis, fresh>>
      /\ run # Idle
  BY DEF Die, Idle
<1>2. CountersInv'
  <2>1. week' \in 1..MaxWeek /\ edits' \in 0..MaxEdits /\ runs' \in 0..MaxRuns
    BY <1>1 DEF CountersInv
  <2>2. settled' \in BOOLEAN
    BY <1>1, Zenon
  <2> QED
    BY <2>1, <2>2 DEF CountersInv
<1>3. TreeInv' /\ RunInv' /\ SettledInv'
  BY <1>1 DEF TreeInv, RunInv, SettledInv
<1>4. DiskInv' /\ ReportsInv'
  BY <1>1 DEF DiskInv, ReportsInv, RunInv
<1>5. SummariesInv' /\ FreshInv'
  BY <1>1 DEF SummariesInv, FreshInv, SummaryRepeats, Unfinished
<1> QED
  BY <1>2, <1>3, <1>4, <1>5

\* Every step keeps the invariant.
LEMMA NextIInv == IInv /\ [Next]_vars => IInv'
<1> SUFFICES ASSUME IInv, [Next]_vars
             PROVE  IInv'
  OBVIOUS
<1>1. CASE NextWeek
  BY <1>1, NextWeekIInv
<1>2. ASSUME NEW e \in Edit, EditTree(e)
      PROVE  IInv'
  BY <1>2, EditTreeIInv
<1>3. ASSUME NEW kept, FreshCheckout(kept)
      PROVE  IInv'
  BY <1>3, FreshCheckoutIInv
<1>4. ASSUME NEW w, RenderEnablement(w)
      PROVE  IInv'
  BY <1>4, RenderEnablementIInv
<1>5. ASSUME NEW exported \in BOOLEAN, NEW w \in 1..MaxWeek, StartRun(exported, w)
      PROVE  IInv'
  BY <1>5, StartRunIInv
<1>6. CASE ReadPhase
  BY <1>6, ReadPhaseIInv
<1>7. CASE RunEvalGates
  BY <1>7, RunGateIInv DEF RunEvalGates
<1>8. CASE RunCiQuality
  BY <1>8, RunCiQualityIInv
<1>9. CASE RunCiSecurity
  BY <1>9, RunGateIInv DEF RunCiSecurity
<1>10. CASE WriteReport
  BY <1>10, WriteReportIInv
<1>11. CASE WriteSummary
  BY <1>11, WriteSummaryIInv
<1>12. CASE Die
  BY <1>12, DieIInv
<1>13. CASE UNCHANGED vars
  BY <1>13
     DEF vars, IInv, CountersInv, TreeInv, RunInv, DiskInv, ReportsInv, SummariesInv,
         SettledInv, FreshInv, SummaryRepeats, Unfinished
<1> QED
  BY <1>1, <1>2, <1>3, <1>4, <1>5, <1>6, <1>7, <1>8, <1>9, <1>10, <1>11, <1>12, <1>13
     DEF Next

\* The inductive invariant holds of every behaviour.
THEOREM WeeklyInvariant == Spec => []IInv
BY InitIInv, NextIInv, PTL DEF Spec

\* The variables keep their types, for every repository and every edit.
THEOREM WeeklyTypeCorrect == Spec => []TypeOK
<1>1. IInv => TypeOK
  <2> SUFFICES ASSUME IInv PROVE TypeOK
    OBVIOUS
  <2>1. run.stage \in Stages
    BY IdleStage DEF IInv
  <2>2. run # Idle =>
          run.week \in 1..week /\ \A g \in DOMAIN run.gates : run.gates[g] \in {"PASS", "FAIL"}
    BY DEF IInv, RunInv, RunState, Status
  <2>3. \A w \in DOMAIN reports :
          /\ reports[w].week_id = w
          /\ {reports[w].eval_gates_status, reports[w].ci_quality_status,
              reports[w].ci_security_status} \subseteq {"PASS", "FAIL"}
    BY DEF IInv, ReportsInv, Status
  <2> QED
    BY <2>1, <2>2, <2>3 DEF TypeOK, IInv, CountersInv, TreeInv, DiskInv
<1> QED
  BY <1>1, WeeklyInvariant, PTL

\* The runner writes what the checker of ci-quality accepts, whatever happens
\* between its steps.
THEOREM WeeklyRunnerSatisfiesChecker == Spec => []RunnerSatisfiesChecker
<1>1. IInv => RunnerSatisfiesChecker
  BY DEF IInv, ReportsInv, SummariesInv, Unfinished, RunnerSatisfiesChecker
<1> QED
  BY <1>1, WeeklyInvariant, PTL

\* A finished run leaves the weekly check passing for the next one.
THEOREM WeeklyRunKeepsTheGate == Spec => []RunKeepsTheGate
<1>1. IInv => RunKeepsTheGate
  <2> SUFFICES ASSUME IInv, run = Idle, settled PROVE WeeklyCheck
    BY DEF RunKeepsTheGate
  <2>1. run.stage # "summary"
    BY DEF Idle
  <2> QED
    BY <2>1 DEF IInv, SettledInv, ReportsInv, WeeklyCheck
<1> QED
  BY <1>1, WeeklyInvariant, PTL

\* Running every week again clears the weekly check, however many weeks there
\* are and whatever the gates of those runs said.
THEOREM WeeklyRerunsClearTheGate == Spec => []RerunsClearTheGate
<1>1. IInv => RerunsClearTheGate
  <2> SUFFICES ASSUME IInv, DOMAIN reports # {}, DOMAIN reports \subseteq fresh
               PROVE  WeeklyCheck
    BY DEF RerunsClearTheGate
  <2>1. \A w \in DOMAIN reports :
          /\ w \in logs /\ SummaryRepeats(w)
          /\ summaries[w].epics = tree.epics /\ tree.epics # NoEpics
    BY DEF IInv, FreshInv
  <2>2. \A w \in DOMAIN reports : ReportSound(reports[w])
    BY DEF IInv, ReportsInv
  <2> QED
    BY <2>1, <2>2 DEF WeeklyCheck
<1> QED
  BY <1>1, WeeklyInvariant, PTL

\* No week is promoted over a critical drift that the reviews of the weeks
\* before it, one for each week, leave unresolved.
THEOREM WeeklyPromotionClosesDrifts == Spec => []PromotionClosesDrifts
<1>1. IInv => PromotionClosesDrifts
  <2> SUFFICES ASSUME IInv,
                      NEW w \in DOMAIN reports, reports[w].decision = "promote",
                      NEW v \in DOMAIN basis[w],
                      v < w, v..w \subseteq DOMAIN basis[w],
                      NEW id \in CriticalOpen(basis[w][v])
               PROVE  ResolvedIn(basis[w], v, w, id) # {}
    BY DEF PromotionClosesDrifts
  <2>1. w \in Nat
    BY DEF IInv, DiskInv, CountersInv
  <2>2. basis[w] \in Reviews /\ Clears(basis[w], w)
    BY DEF IInv, ReportsInv
  <2> QED
    BY <2>1, <2>2, ClearedDriftsAreResolved
<1> QED
  BY <1>1, WeeklyInvariant, PTL

\* Readiness that the check accepts is approved in every state.
THEOREM WeeklyReadinessIsApproved == Spec => []ReadinessIsApproved
BY AcceptedReadinessIsApproved, PTL
=============================================================================
