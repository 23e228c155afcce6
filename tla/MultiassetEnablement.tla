------------------------ MODULE MultiassetEnablement ------------------------
(***************************************************************************)
(* phase_f8_multiasset_enablement.py: the shadow reviews of the asset      *)
(* classes, the decisions that approve them, the enablement report         *)
(* rendered from them, and its check.                                      *)
(*                                                                         *)
(* shadows[c] is the sequence of the shadow reviews of class c, in the     *)
(* order of their file names; decisions is a function from the decision    *)
(* files that exist; files is the set of evidence files that exist.        *)
(* "complete" abstracts the fields that only have to be there and the      *)
(* references to files that never change.                                  *)
(***************************************************************************)
EXTENDS Naturals, Sequences, SequencesExt

CONSTANTS
    AssetClass,     \* equities_br, fii_br, fixed_income_br
    NoRef,          \* a decision_ref of null
    NotIssued       \* the decision_id "not-issued"

LatestShadow(shadows, c) == Last(shadows[c])

\* Mutant of Approves: the approval may have been withdrawn.
ApprovesOnce(decisions, files, shadow) ==
    /\ shadow.decision_ref \in DOMAIN decisions
    /\ LET d == decisions[shadow.decision_ref] IN
        /\ d.decision_id = shadow.decision_id
        /\ d.risk_tier = "R3"
        /\ d.approval_evidence_ref \in files

\* validate_decision_payload
Approves(decisions, files, shadow) ==
    /\ shadow.decision_ref \in DOMAIN decisions
    /\ LET d == decisions[shadow.decision_ref] IN
        /\ d.decision_id = shadow.decision_id
        /\ d.risk_tier = "R3"
        /\ d.status = "APPROVED"
        /\ d.explicit_human_approval
        /\ d.approval_evidence_ref \in files

\* validate_shadow_payload in mode "runtime"
ShadowSound(decisions, files, s) ==
    /\ s.complete
    /\ s.completed_sessions <= s.required_sessions
    /\ s.decision_status \in {"NOT_REQUIRED_YET", "PENDING", "APPROVED", "REJECTED"}
    /\ s.evidence \subseteq files
    /\ \/ /\ s.status = "pending_shadow"
          /\ s.decision_ref = NoRef
          /\ s.evidence = {}
          /\ s.promote_readiness = "hold"
       \/ /\ s.status = "completed"
          /\ s.decision_status = "APPROVED"
          /\ s.decision_id # NotIssued
          /\ s.risk_tier = "R3"
          /\ s.decision_ref # NoRef
          /\ s.evidence # {}
          /\ Approves(decisions, files, s)
          /\ s.promote_readiness = "pass"
          /\ s.completed_sessions >= s.required_sessions

\* canonical_rows raises when a class has no review or its latest one is not
\* sound.
RowsExist(t) ==
    \A c \in AssetClass :
        t.shadows[c] # <<>> /\ ShadowSound(t.decisions, t.files, LatestShadow(t.shadows, c))

Row(s) ==
    [shadow_status |-> s.status, decision_id |-> s.decision_id,
     decision_status |-> s.decision_status, promote_readiness |-> s.promote_readiness]

Rows(t) == [c \in AssetClass |-> Row(LatestShadow(t.shadows, c))]

Overall(rows) ==
    IF \A c \in AssetClass : rows[c].promote_readiness = "pass" THEN "pass" ELSE "hold"

\* collect_evidence_refs, without the order of the list: the latest shadow
\* review of each class, known by its place, and what the completed ones cite.
EvidenceRefs(t) ==
    LET latest == {LatestShadow(t.shadows, c) : c \in AssetClass}
    IN  [reviews |-> [c \in AssetClass |-> Len(t.shadows[c])],
         decisions |-> {s.decision_ref : s \in latest} \ {NoRef},
         files |-> UNION {s.evidence : s \in latest}]

\* render_report
Rendered(t, week) ==
    [week_id |-> week, rows |-> Rows(t), overall |-> Overall(Rows(t)),
     evidence_refs |-> EvidenceRefs(t)]

\* The positive fixtures, and what check_report makes of each of them: the
\* three changes must turn a sound one into an unsound one.
FixtureHolds(t, f) ==
    LET Refused(g) == ~ ShadowSound(t.decisions, t.files, g) \/ g.status # "completed"
    IN  /\ ~ Refused(f)
        /\ Refused([f EXCEPT !.decision_ref = NoRef])
        /\ Refused([f EXCEPT !.evidence = {}])
        /\ Refused([f EXCEPT !.decision_id = "DEC-MISMATCH"])

\* check_report
CheckEnablement(t, report, week) ==
    /\ RowsExist(t)
    /\ t.fixtures # {} /\ \A f \in t.fixtures : FixtureHolds(t, f)
    /\ report.week_id = week
    /\ report.overall = Overall(Rows(t))
    /\ report.rows = Rows(t)
    /\ report.evidence_refs = EvidenceRefs(t)
=============================================================================
