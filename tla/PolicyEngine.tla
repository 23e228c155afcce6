---------------------------- MODULE PolicyEngine ----------------------------
(***************************************************************************)
(* platform/policy-engine: from the manifest of a domain to the verdict of *)
(* a gate, and the two checks of who may operate the system: the rule      *)
(* ownership_spof_controls and evaluate_violations of governance_kpis.py.  *)
(*                                                                         *)
(* manifests is a function from the domains whose file exists to the       *)
(* parsed files.  "complete" abstracts the texts that only have to be      *)
(* there.  What the checkers of the rules look at is outside: Holds is the *)
(* set of implementations whose checker passes on the repository.          *)
(***************************************************************************)
EXTENDS Naturals, Sequences, SequencesExt, FiniteSets

CONSTANT NoCategory     \* --category is not given

Domains == {"runtime", "security", "governance", "trading"}
Severities == {"critical", "high", "medium", "low"}

\* The implementation_map of each domain, in rules/<domain>/core.py.
RuntimeImplementations ==
    {"required_files", "runtime_schema_valid_json", "runtime_schema_required_fields",
     "idempotency_schema_contract", "idempotency_protocol_markers",
     "timezone_anchor_markers", "ops_api_contract", "runtime_schema_extensions",
     "runtime_test_coverage"}

SecurityImplementations ==
    {"required_files", "secret_scan", "policy_markers", "operators_tokens",
     "forbid_curl_pipe_bash"}

GovernanceImplementations ==
    {"weekly_governance_contract", "shell_wrapper_line_limits",
     "reconstruction_kpi_baseline", "ownership_spof_controls", "runtime_hard_gates"}

TradingImplementations == {"trading_eval_contract", "live_readiness_guardrail"}

\* The builder that run_domain takes for each domain.
Implementations ==
    [runtime |-> RuntimeImplementations, security |-> SecurityImplementations,
     governance |-> GovernanceImplementations, trading |-> TradingImplementations]

\* _parse_rule: what is demanded of a rule of a manifest.
RuleParses(rule, domain) ==
    /\ rule.complete
    /\ rule.domain = domain
    /\ rule.severity \in Severities
    /\ rule.enabled \in BOOLEAN

\* load_contract_from_path
Loads(m) ==
    /\ m.schema_version = "1.0"
    /\ m.domain \in Domains
    /\ m.rules # <<>>
    /\ \A rule \in ToSet(m.rules) : RuleParses(rule, m.domain)
    /\ \A i, j \in DOMAIN m.rules : m.rules[i].rule_id = m.rules[j].rule_id => i = j

EnabledRules(m) == {rule \in ToSet(m.rules) : rule.enabled}

\* build_runtime_rules, build_security_rules, build_governance_rules and
\* build_trading_rules: a rule no one implements stops the run, whatever
\* category is asked for, unless it is disabled.
Builds(m) ==
    \A rule \in EnabledRules(m) : rule.implementation \in Implementations[m.domain]

\* run_domain: the rules of the category asked for.
Selected(m, category) ==
    {rule \in EnabledRules(m) : category = NoCategory \/ rule.category = category}

\* main of run_policy_engine.py for one domain: exit code 0.  A category that
\* selects no rule passes.
Passes(manifests, domain, category, Holds) ==
    /\ domain \in DOMAIN manifests
    /\ Loads(manifests[domain])
    /\ manifests[domain].domain = domain
    /\ Builds(manifests[domain])
    /\ {rule.implementation : rule \in Selected(manifests[domain], category)} \subseteq Holds

-----------------------------------------------------------------------------
(* Ownership.  o.codeowners is whether the file exists and o.owners the     *)
(* number of owners of its first global line; o.operators, o.enabled and    *)
(* o.backup are the allowlist, its enabled ids and its backup operator, the *)
(* last a set of at most one id.  The programs keep the enabled ids in a    *)
(* list, read from the same file in the same way; its ids are distinct      *)
(* here, so that their number is that of the set.                           *)

\* check_ownership_spof
OwnershipRule(o) ==
    /\ o.codeowners /\ o.operators
    /\ o.owners >= 2
    /\ o.backup # {}
    /\ Cardinality(o.enabled) >= 2
    /\ o.backup \subseteq o.enabled

\* evaluate_violations of governance_kpis.py, with the thresholds that its
\* parse_args gives when the gate runs it.  An allowlist without a backup
\* operator has none that is enabled.
KpiViolations(o, god_scripts, typed_pct, tests) ==
    (IF ~ o.codeowners THEN {"CODEOWNERS_MISSING"}
     ELSE IF o.owners < 2 THEN {"CODEOWNERS_GLOBAL_SPOF"} ELSE {})
    \cup
    (IF ~ o.operators THEN {"OPERATORS_MISSING"}
     ELSE IF Cardinality(o.enabled) < 2 THEN {"OPERATORS_SPOF"}
     ELSE IF o.backup = {} \/ ~ o.backup \subseteq o.enabled
     THEN {"OPERATORS_BACKUP_DISABLED"} ELSE {})
    \cup (IF god_scripts > 6 THEN {"CI_GOD_SCRIPTS_EXCESS"} ELSE {})
    \cup (IF typed_pct < 50 THEN {"PHASE1_TYPED_CHECKS_BELOW_TARGET"} ELSE {})
    \cup (IF tests < 2 THEN {"PHASE1_E2E_CHAOS_BELOW_TARGET"} ELSE {})

OwnershipViolations ==
    {"CODEOWNERS_MISSING", "CODEOWNERS_GLOBAL_SPOF", "OPERATORS_MISSING",
     "OPERATORS_SPOF", "OPERATORS_BACKUP_DISABLED"}
=============================================================================
