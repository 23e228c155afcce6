-------------------------- MODULE WeeklyGovernance --------------------------
(***************************************************************************)
(* The weekly governance of phase F8: run_phase_f8_weekly_governance.sh    *)
(* reads the week's contract review and the decision of F7, runs the gates *)
(* eval-gates, ci-quality and ci-security, decides promote or hold, and    *)
(* writes a report and then a summary.  ci-quality checks every report and *)
(* summary written so far, so each run depends on those before it.         *)
(*                                                                         *)
(* People edit the repository, and the calendar moves on, between any two  *)
(* steps of a run.  A gate reads the repository at one moment.  Checks     *)
(* that are not modelled are booleans of the tree.  The variables that     *)
(* replace the review or the phase status (tests set them) are not set.    *)
(***************************************************************************)
EXTENDS ContractReview, PolicyEngine, MultiassetEnablement, Functions

CONSTANTS
    InitialTree,    \* the repository at first; its fields are TreeFields
    Edit,           \* what people may put into it: [part, value], and for a
                    \* review also its week
    NoReport,       \* there is no enablement report
    NoEpics,        \* EPICS.md is absent or has no table of statuses
    MaxWeek,        \* bound on the calendar
    MaxEdits,       \* bound on edits and fresh checkouts
    MaxRuns         \* bound on runs

TreeFields ==
    {"reviews", "f7", "epics", "manifests", "holds", "eval_rest", "quality_rest",
     "ownership", "god_scripts", "typed_pct", "e2e_tests", "shadows", "decisions",
     "files", "fixtures", "enablement"}

\* The reviews there may be.
ReviewValue ==
    {InitialTree.reviews[w] : w \in DOMAIN InitialTree.reviews}
    \cup {e.value : e \in {d \in Edit : d.part = "reviews"}}

\* The contents of the directory of reviews.
Reviews == UNION {[weeks -> ReviewValue] : weeks \in SUBSET Nat}

ASSUME TreeAssumption ==
    /\ DOMAIN InitialTree = TreeFields
    /\ \A e \in Edit : e.part \in TreeFields
ASSUME ReviewsAssumption ==
    /\ DOMAIN InitialTree.reviews \subseteq Nat
    /\ InitialTree.reviews \in [DOMAIN InitialTree.reviews -> ReviewValue]
    /\ \A e \in Edit : e.part = "reviews" => e.week \in Nat
    /\ \A r \in ReviewValue : IsFiniteSet(DOMAIN r.drifts)
ASSUME BoundsAssumption ==
    MaxWeek \in Nat \ {0} /\ MaxEdits \in Nat /\ MaxRuns \in Nat

VARIABLES
    week,           \* the current calendar week
    tree,           \* the repository, but for what the runner writes
    reports,        \* weekly-governance/<week>.md, for the weeks that have one
    summaries,      \* validation-summary-<week>.md
    logs,           \* weeks whose report's logs are on disk
    run,            \* the run in progress
    edits, runs,    \* how many there have been
    basis,          \* history: the reviews that the run of each report has read
    torn,           \* history: weeks whose last run wrote only the report
    fresh,          \* history: weeks whose last run, ended since the epics were
                    \* last edited and the week's logs last lost, wrote both files
    settled         \* history: ci-quality last passed, and since then nothing
                    \* was edited or lost and no run has died

vars ==
    <<week, tree, reports, summaries, logs, run, edits, runs, basis, torn, fresh, settled>>

Stages == {"idle", "phase", "eval-gates", "ci-quality", "ci-security", "report", "summary"}

Put(f, k, v) == [x \in DOMAIN f \cup {k} |-> IF x = k THEN v ELSE f[x]]

-----------------------------------------------------------------------------
(* What the runner decides and writes.                                      *)

\* Mutant of Skipped: a gate that did not run has a status of its own.
SkippedApart == "SKIPPED"

\* write_skip_log
Skipped == "FAIL"

\* read_prior_phase_status
PriorPhase(f7) ==
    IF f7 = "promote"
    THEN [decision |-> "promote", transition |-> "ready", blocking |-> "none"]
    ELSE [decision |-> "hold", transition |-> "blocked",
          blocking |-> IF f7 = "absent" THEN "no_f7_summary" ELSE "f7_hold"]

Decision(r) ==
    IF /\ r.gates = [g \in DOMAIN r.gates |-> "PASS"]
       /\ r.review.validity = "PASS"
       /\ r.review.conformance = "PASS"
       /\ r.review.critical = 0
       /\ r.phase.decision = "promote"
       /\ r.phase.transition = "ready"
    THEN "promote" ELSE "hold"

\* Mutant of Readiness: open critical drifts do not block.
ReadinessOfPhase(r) ==
    IF Decision(r) = "promote" THEN "ready"
    ELSE IF r.phase.transition = "blocked" \/ r.review.conformance # "PASS"
    THEN "blocked" ELSE "hold"

Readiness(r) ==
    IF Decision(r) = "promote" THEN "ready"
    ELSE IF \/ r.phase.transition = "blocked"
            \/ r.review.conformance # "PASS"
            \/ r.review.critical # 0
    THEN "blocked" ELSE "hold"

\* render_weekly_report.  release_review_status is always PASS: the texts the
\* runner tests are never blank.
Report(r) ==
    [week_id |-> r.week,
     prior_phase_decision |-> r.phase.decision,
     phase_transition_status |-> r.phase.transition,
     blocking_reason |-> r.phase.blocking,
     operational_readiness |-> Readiness(r),
     review_validity_status |-> r.review.validity,
     operational_conformance_status |-> r.review.conformance,
     failed_domains |-> r.review.failed,
     eval_gates_status |-> r.gates["eval-gates"],
     ci_quality_status |-> r.gates["ci-quality"],
     ci_security_status |-> r.gates["ci-security"],
     critical_drifts_open |-> r.review.critical,
     decision |-> Decision(r),
     release_review_status |-> "PASS"]

SummaryFields ==
    {"week_id", "phase_transition_status", "blocking_reason", "operational_readiness",
     "review_validity_status", "operational_conformance_status", "failed_domains",
     "eval_gates_status", "ci_quality_status", "ci_security_status",
     "critical_drifts_open", "decision", "release_review_status"}

\* What a summary repeats of a report: parse_weekly_report and the fields of
\* render_validation_summary.
Repeated(report) == [f \in SummaryFields |-> report[f]]

-----------------------------------------------------------------------------
(* What the gates check.                                                    *)

ExpectedDecision(v) ==
    IF /\ v.prior_phase_decision = "promote"
       /\ v.phase_transition_status = "ready"
       /\ v.blocking_reason = "none"
       /\ v.review_validity_status = "PASS"
       /\ v.operational_conformance_status = "PASS"
       /\ v.eval_gates_status = "PASS"
       /\ v.ci_quality_status = "PASS"
       /\ v.ci_security_status = "PASS"
       /\ v.critical_drifts_open = 0
       /\ v.release_review_status = "PASS"
    THEN "promote" ELSE "hold"

ExpectedReadiness(v) ==
    IF v.decision = "promote" THEN "ready"
    ELSE IF \/ v.phase_transition_status = "blocked"
            \/ v.operational_conformance_status = "FAIL"
            \/ v.critical_drifts_open # 0
    THEN "blocked" ELSE "hold"

\* The weekly check of one report, its fields.
ReportSound(v) ==
    /\ v.phase_transition_status \in {"ready", "blocked"}
    /\ v.prior_phase_decision \in {"promote", "hold"}
    /\ v.phase_transition_status = "blocked" <=> v.blocking_reason # "none"
    /\ {v.review_validity_status, v.operational_conformance_status,
        v.release_review_status} \subseteq {"PASS", "FAIL"}
    /\ v.decision = ExpectedDecision(v)
    /\ v.operational_readiness = ExpectedReadiness(v)

SummaryRepeats(w) == w \in DOMAIN summaries /\ summaries[w].values = Repeated(reports[w])

\* check_phase_f8_weekly_governance_legacy.sh
WeeklyCheck ==
    /\ DOMAIN reports # {}
    /\ tree.epics # NoEpics
    /\ \A w \in DOMAIN reports :
        /\ ReportSound(reports[w])
        /\ w \in logs
        /\ SummaryRepeats(w)
        /\ summaries[w].epics = tree.epics

\* The implementations whose checker passes.
Holding ==
    (tree.holds \ {"weekly_governance_contract", "ownership_spof_controls"})
    \cup (IF WeeklyCheck THEN {"weekly_governance_contract"} ELSE {})
    \cup (IF OwnershipRule(tree.ownership) THEN {"ownership_spof_controls"} ELSE {})

Latest(weeks) == CHOOSE w \in weeks : \A v \in weeks : v <= w

\* check_phase_f8_contract_review.sh: the week it checks, if WEEK_ID is
\* inherited (exported) or not.
ReviewedWeek(exported, w) ==
    IF exported THEN w
    ELSE IF week \in DOMAIN tree.reviews THEN week ELSE Latest(DOMAIN tree.reviews)

ReviewCheck(exported, w) ==
    /\ exported \/ DOMAIN tree.reviews # {}
    /\ CheckReview(tree.reviews, ReviewedWeek(exported, w))

\* check_phase_f8_multiasset_enablement.sh
EnablementCheck(exported, w) ==
    /\ tree.enablement # NoReport
    /\ CheckEnablement(tree, tree.enablement,
                       IF exported THEN w ELSE tree.enablement.week_id)

\* make eval-gates
EvalGates ==
    /\ tree.eval_rest
    /\ Passes(tree.manifests, "runtime", NoCategory, Holding)

\* make ci-quality: check_quality.sh
CiQuality(exported, w) ==
    /\ tree.quality_rest
    /\ Passes(tree.manifests, "governance", "governance_contract", Holding)
    /\ KpiViolations(tree.ownership, tree.god_scripts, tree.typed_pct, tree.e2e_tests) = {}
    /\ ReviewCheck(exported, w)
    /\ Passes(tree.manifests, "governance", "weekly_governance", Holding)
    /\ EnablementCheck(exported, w)

\* make ci-security
CiSecurity == Passes(tree.manifests, "security", NoCategory, Holding)

-----------------------------------------------------------------------------
Idle == [stage |-> "idle"]

Init ==
    /\ week = 1
    /\ tree = InitialTree
    /\ reports = <<>> /\ summaries = <<>> /\ logs = {}
    /\ run = Idle
    /\ edits = 0 /\ runs = 0
    /\ basis = <<>> /\ torn = {} /\ fresh = {} /\ settled = FALSE

NextWeek ==
    /\ week < MaxWeek
    /\ week' = week + 1
    /\ UNCHANGED <<tree, reports, summaries, logs, run, edits, runs, basis, torn, fresh, settled>>

\* Somebody changes a part of the repository; a review is published, or
\* changed, at the earliest in its week.
EditTree(e) ==
    /\ edits < MaxEdits
    /\ edits' = edits + 1
    /\ \/ e.part # "reviews" /\ tree' = [tree EXCEPT ![e.part] = e.value]
       \/ /\ e.part = "reviews" /\ e.week <= week
          /\ tree' = [tree EXCEPT !.reviews = Put(@, e.week, e.value)]
    /\ fresh' = IF e.part = "epics" THEN {} ELSE fresh
    /\ settled' = FALSE
    /\ UNCHANGED <<week, reports, summaries, logs, run, runs, basis, torn>>

\* The work goes on in another checkout: .gitignore keeps *.log files, but
\* for those somebody forced in, out of the repository.
FreshCheckout(kept) ==
    /\ edits < MaxEdits /\ run = Idle /\ kept \subseteq logs /\ kept # logs
    /\ edits' = edits + 1
    /\ logs' = kept
    /\ fresh' = fresh \cap kept
    /\ settled' = FALSE
    /\ UNCHANGED <<week, tree, reports, summaries, run, runs, basis, torn>>

\* run_phase_f8_multiasset_enablement.sh: rendering raises, and leaves the old
\* report, when a shadow review is missing or unsound.
RenderEnablement(w) ==
    /\ edits < MaxEdits /\ w <= week
    /\ RowsExist(tree)
    /\ edits' = edits + 1
    /\ tree' = [tree EXCEPT !.enablement = Rendered(tree, w)]
    /\ settled' = FALSE
    /\ UNCHANGED <<week, reports, summaries, logs, run, runs, basis, torn, fresh>>

\* The runner starts, for the WEEK_ID of its environment or for the current
\* week, and reads the review.
StartRun(exported, w) ==
    /\ run = Idle /\ runs < MaxRuns
    /\ w <= week /\ (exported \/ w = week)
    /\ runs' = runs + 1
    /\ run' = [stage |-> "phase", week |-> w, exported |-> exported,
               review |-> ReadReview(tree.reviews, w), phase |-> PriorPhase("absent"),
               gates |-> [g \in {"eval-gates", "ci-quality", "ci-security"} |-> Skipped],
               basis |-> tree.reviews]
    /\ UNCHANGED <<week, tree, reports, summaries, logs, edits, basis, torn, fresh, settled>>

ReadPhase ==
    /\ run.stage = "phase"
    /\ run' = [run EXCEPT !.stage = "eval-gates", !.phase = PriorPhase(tree.f7)]
    /\ UNCHANGED <<week, tree, reports, summaries, logs, edits, runs, basis, torn, fresh, settled>>

\* run_and_capture; the gates after one that fails are skipped.
RunGate(gate, passes, next) ==
    /\ run.stage = gate
    /\ run' = IF passes
              THEN [run EXCEPT !.stage = next, !.gates[gate] = "PASS"]
              ELSE [run EXCEPT !.stage = "report", !.gates[gate] = "FAIL"]
    /\ UNCHANGED <<week, tree, reports, summaries, logs, edits, runs, basis, torn, fresh, settled>>

RunEvalGates == RunGate("eval-gates", EvalGates, "ci-quality")
RunCiSecurity == RunGate("ci-security", CiSecurity, "report")

\* The weekly rule is one of those that ci-quality runs.
WeeklyRuleEnabled ==
    \E rule \in Selected(tree.manifests["governance"], "weekly_governance") :
        rule.implementation = "weekly_governance_contract"

RunCiQuality ==
    /\ run.stage = "ci-quality"
    /\ LET passes == CiQuality(run.exported, run.week)
       IN  /\ run' = [run EXCEPT
                !.stage = IF passes THEN "ci-security" ELSE "report",
                !.gates["ci-quality"] = IF passes THEN "PASS" ELSE "FAIL"]
           /\ settled' = (passes /\ WeeklyRuleEnabled)
    /\ UNCHANGED <<week, tree, reports, summaries, logs, edits, runs, basis, torn, fresh>>

\* Mutant of WriteReport: the logs of a rerun do not come back.
WriteReportKeepingLogs ==
    /\ run.stage = "report"
    /\ reports' = Put(reports, run.week, Report(run))
    /\ logs' = IF run.week \in DOMAIN reports THEN logs ELSE logs \cup {run.week}
    /\ fresh' = fresh \ {run.week}
    /\ basis' = Put(basis, run.week, run.basis)
    /\ run' = [run EXCEPT !.stage = "summary"]
    /\ UNCHANGED <<week, tree, summaries, edits, runs, torn, settled>>

\* The report replaces that of an earlier run of the week; its logs are new.
WriteReport ==
    /\ run.stage = "report"
    /\ reports' = Put(reports, run.week, Report(run))
    /\ logs' = logs \cup {run.week}
    /\ fresh' = fresh \ {run.week}
    /\ basis' = Put(basis, run.week, run.basis)
    /\ run' = [run EXCEPT !.stage = "summary"]
    /\ UNCHANGED <<week, tree, summaries, edits, runs, torn, settled>>

\* Mutant of WriteSummary: a summary that is there is kept.
WriteSummaryOnce ==
    /\ run.stage = "summary"
    /\ tree.epics # NoEpics
    /\ summaries' = IF run.week \in DOMAIN summaries THEN summaries
                    ELSE Put(summaries, run.week,
                             [values |-> Repeated(reports[run.week]), epics |-> tree.epics])
    /\ torn' = torn \ {run.week}
    /\ fresh' = fresh \cup {run.week}
    /\ run' = Idle
    /\ UNCHANGED <<week, tree, reports, logs, edits, runs, basis, settled>>

\* render_validation_summary reads the report back, and EPICS.md as it is now.
WriteSummary ==
    /\ run.stage = "summary"
    /\ tree.epics # NoEpics
    /\ summaries' = Put(summaries, run.week,
                        [values |-> Repeated(reports[run.week]), epics |-> tree.epics])
    /\ torn' = torn \ {run.week}
    /\ fresh' = fresh \cup {run.week}
    /\ run' = Idle
    /\ UNCHANGED <<week, tree, reports, logs, edits, runs, basis, settled>>

\* The runner is killed, or rendering the summary raises for want of statuses:
\* it stops where it is (set -e).
Die ==
    /\ run # Idle
    /\ torn' = IF run.stage = "summary" THEN torn \cup {run.week} ELSE torn
    /\ run' = Idle
    /\ settled' = FALSE
    /\ UNCHANGED <<week, tree, reports, summaries, logs, edits, runs, basis, fresh>>

Next ==
    \/ NextWeek
    \/ \E e \in Edit : EditTree(e)
    \/ \E kept \in SUBSET logs : FreshCheckout(kept)
    \/ \E w \in 1..MaxWeek : RenderEnablement(w)
    \/ \E exported \in BOOLEAN, w \in 1..MaxWeek : StartRun(exported, w)
    \/ ReadPhase
    \/ RunEvalGates
    \/ RunCiQuality
    \/ RunCiSecurity
    \/ WriteReport
    \/ WriteSummary
    \/ Die

Spec == Init /\ [][Next]_vars
-----------------------------------------------------------------------------
\* Type invariant: what the runner writes keeps the values its checkers know.
TypeOK ==
    /\ week \in 1..MaxWeek /\ edits \in 0..MaxEdits /\ runs \in 0..MaxRuns
    /\ DOMAIN tree = TreeFields /\ settled \in BOOLEAN
    /\ run.stage \in Stages
    /\ run # Idle =>
        /\ run.week \in 1..week
        /\ \A g \in DOMAIN run.gates : run.gates[g] \in {"PASS", "FAIL"}
    /\ DOMAIN reports \subseteq 1..week
    /\ DOMAIN summaries \cup logs \cup torn \cup fresh \subseteq DOMAIN reports
    /\ DOMAIN basis = DOMAIN reports
    /\ \A w \in DOMAIN reports :
        /\ reports[w].week_id = w
        /\ {reports[w].eval_gates_status, reports[w].ci_quality_status,
            reports[w].ci_security_status} \subseteq {"PASS", "FAIL"}

\* A critical drift is resolved on record somewhere in r.
Resolves(r, id) == id \in IdsOf(Carried(r, "closed") \cup Carried(r, "risk_accepted"))

\* The weeks of past after v, up to w, in which the drift is resolved.
ResolvedIn(past, v, w, id) == {u \in DOMAIN past : v < u /\ u <= w /\ Resolves(past[u], id)}

\* A week is promoted only if every critical drift that an earlier review
\* left open was closed or accepted on record since, provided that no week
\* between the two went without a review (validate_previous_week_relationship,
\* critical_drifts_open, and the decision of the runner, over several weeks).
PromotionClosesDrifts ==
    \A w \in DOMAIN reports : reports[w].decision = "promote" =>
        LET past == basis[w]
        IN  \A v \in DOMAIN past : v < w /\ v..w \subseteq DOMAIN past =>
                \A id \in CriticalOpen(past[v]) : ResolvedIn(past, v, w, id) # {}

\* The same whether or not weeks went without a review.  EPIC-F8-02 demands it
\* of every promotion: with an earlier critical drift open the result is hold.
NoPromotionOverOpenDrift ==
    \A w \in DOMAIN reports : reports[w].decision = "promote" =>
        LET past == basis[w]
        IN  \A v \in DOMAIN past : v < w =>
                \A id \in CriticalOpen(past[v]) : ResolvedIn(past, v, w, id) # {}

\* The bash runner and the Python checker of ci-quality are two programs with
\* one contract: whatever happens between the steps of a run, each report on
\* disk passes the checker's formulas, and its summary repeats it unless the
\* run was stopped between the two.
RunnerSatisfiesChecker ==
    \A w \in DOMAIN reports :
        /\ ReportSound(reports[w])
        /\ w \notin torn /\ ~ (run.stage = "summary" /\ run.week = w) => SummaryRepeats(w)

\* A finished run does not block the next one: after a run whose ci-quality
\* passed, and until somebody edits something, the weekly check passes on what
\* that run itself has written.
RunKeepsTheGate == run = Idle /\ settled => WeeklyCheck

\* The way out of a blocked gate.  Lost logs, a summary older than the epics
\* or a half-written week, of any week, make every later ci-quality fail; once
\* each week with a report has been run again to its end, the weekly check
\* passes, whatever the gates of those runs said and in whatever order they
\* ran, deaths and edits of anything but the epics between them included.
RerunsClearTheGate ==
    DOMAIN reports # {} /\ DOMAIN reports \subseteq fresh => WeeklyCheck

\* An enablement report that the check accepts and that says "pass" rests on
\* decisions that are approved now: one withdrawn since, or an evidence file
\* removed, makes the check fail, whatever the report says.
ReadinessIsApproved ==
    /\ tree.enablement # NoReport
    /\ CheckEnablement(tree, tree.enablement, tree.enablement.week_id)
    /\ tree.enablement.overall = "pass"
    => \A c \in AssetClass :
        LET s == LatestShadow(tree.shadows, c)
        IN  /\ s.status = "completed"
            /\ s.decision_ref \in DOMAIN tree.decisions
            /\ LET d == tree.decisions[s.decision_ref] IN
                /\ d.status = "APPROVED" /\ d.explicit_human_approval
                /\ {d.approval_evidence_ref} \cup s.evidence \subseteq tree.files
=============================================================================
