------------------------- MODULE MCWeeklyGovernance -------------------------
(***************************************************************************)
(* Finite instances of WeeklyGovernance.                                   *)
(***************************************************************************)
EXTENDS WeeklyGovernance

CONSTANT equities_br

\* A rule of a manifest, enabled and well formed.
Rule(id, domain, category, implementation) ==
    [rule_id |-> id, domain |-> domain, category |-> category,
     implementation |-> implementation, severity |-> "high",
     enabled |-> TRUE, complete |-> TRUE]

Manifest(domain, rules) ==
    [schema_version |-> "1.0", domain |-> domain, rules |-> rules]

HardGates == Rule("GOV-RUNTIME-HARD-GATES-001", "governance", "governance_contract",
                  "runtime_hard_gates")
Ownership == Rule("GOV-OWNERSHIP-SPOF-001", "governance", "ownership",
                  "ownership_spof_controls")
Weekly == Rule("GOV-WEEKLY-F8-001", "governance", "weekly_governance",
               "weekly_governance_contract")
SecretScan == Rule("SEC-SECRET-SCAN-001", "security", "secret_scan", "secret_scan")

Governance(weekly, other) == Manifest("governance", <<HardGates, other, weekly>>)

Manifests ==
    [runtime |-> Manifest("runtime",
        <<Rule("RUNTIME-SCHEMA-VALID-001", "runtime", "runtime_schema",
               "runtime_schema_valid_json")>>),
     security |-> Manifest("security", <<SecretScan>>),
     governance |-> Governance(Weekly, Ownership)]

WithGovernance(m) == [Manifests EXCEPT !.governance = m]

\* Shadow reviews and the decisions they cite.
Pending ==
    [complete |-> TRUE, status |-> "pending_shadow", required_sessions |-> 2,
     completed_sessions |-> 1, decision_status |-> "NOT_REQUIRED_YET",
     decision_id |-> NotIssued, decision_ref |-> NoRef, risk_tier |-> "R3",
     evidence |-> {}, promote_readiness |-> "hold"]

Completed(id) ==
    [Pending EXCEPT !.status = "completed", !.completed_sessions = 2,
        !.decision_status = "APPROVED", !.decision_id = id, !.decision_ref = id,
        !.evidence = {"shadow.md"}, !.promote_readiness = "pass"]

Approval(id) ==
    [decision_id |-> id, risk_tier |-> "R3", status |-> "APPROVED",
     explicit_human_approval |-> TRUE, approval_evidence_ref |-> "approval.md"]

Approvals == [id \in {"DEC-1", "DEC-FIXTURE"} |-> Approval(id)]

Owners ==
    [codeowners |-> TRUE, owners |-> 2, operators |-> TRUE,
     enabled |-> {"primary", "backup"}, backup |-> {"backup"}]

\* A first review that leaves a critical drift open, and what may follow it.
OpenFirst == Sample(1, <<Drift("d1", "critical", "open")>>, None, NothingCarried)

FirstTree ==
    LET t == [reviews |-> <<OpenFirst>>, f7 |-> "promote", epics |-> "done",
              manifests |-> Manifests,
              holds |-> {"runtime_hard_gates", "secret_scan", "runtime_schema_valid_json"},
              eval_rest |-> TRUE, quality_rest |-> TRUE, ownership |-> Owners,
              god_scripts |-> 6, typed_pct |-> 50, e2e_tests |-> 2,
              shadows |-> [c \in AssetClass |-> <<Pending, Completed("DEC-1")>>],
              decisions |-> Approvals, files |-> {"shadow.md", "approval.md"},
              fixtures |-> {Completed("DEC-FIXTURE")}, enablement |-> NoReport]
    IN  [t EXCEPT !.enablement = Rendered(t, 1)]

ReviewEdits ==
    {[part |-> "reviews", week |-> 1, value |-> Sample(1, <<>>, None, NothingCarried)],
     [part |-> "reviews", week |-> 2,
      value |-> Sample(2, <<>>, 1, Carrying("d1", "closed", "closing.md", None))],
     [part |-> "reviews", week |-> 2, value |-> Sample(2, <<>>, 1, NothingCarried)],
     [part |-> "reviews", week |-> 2,
      value |-> Sample(2, <<Drift("d1", "critical", "open")>>, 1,
                       Carrying("d1", "open", "evidence.md", None))],
     [part |-> "reviews", week |-> 2,
      value |-> Sample(2, <<>>, 1, Carrying("d1", "open", "evidence.md", None))],
     [part |-> "reviews", week |-> 3,
      value |-> Sample(3, <<>>, 2, Carrying("d1", "closed", "closing.md", None))],
     [part |-> "reviews", week |-> 3, value |-> Sample(3, <<>>, None, NothingCarried)],
     [part |-> "reviews", week |-> 3, value |-> Sample(3, <<>>, 2, NothingCarried)]}

GovernanceEdits ==
    {[part |-> "manifests", value |-> m] :
        m \in {WithGovernance(Governance([Weekly EXCEPT !.enabled = FALSE], Ownership)),
               WithGovernance(Governance(Weekly,
                   [Ownership EXCEPT !.implementation = "not_implemented"])),
               WithGovernance(Manifest("security", <<SecretScan>>))}}

OtherEdits ==
    {[part |-> "f7", value |-> "hold"],
     [part |-> "epics", value |-> "active"],
     [part |-> "epics", value |-> NoEpics],
     [part |-> "eval_rest", value |-> FALSE],
     [part |-> "ownership", value |-> [Owners EXCEPT !.enabled = {"primary"}]],
     [part |-> "holds", value |-> FirstTree.holds \ {"secret_scan"}],
     [part |-> "decisions",
      value |-> [Approvals EXCEPT !["DEC-1"].status = "REVOKED"]],
     [part |-> "shadows",
      value |-> [c \in AssetClass |-> <<Pending, Completed("DEC-1"), Pending>>]]}

AllEdits == ReviewEdits \cup GovernanceEdits \cup OtherEdits
=============================================================================
