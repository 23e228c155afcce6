--------------------------- MODULE MCControlPlane ---------------------------
(***************************************************************************)
(* Finite instances of ControlPlane: its deployments.                      *)
(***************************************************************************)
EXTENDS ControlPlane

CONSTANTS k1, k2, mA, mB, tr1, openrouter, ollama, litellm

\* DEFAULT_PROVIDER_ALLOWLIST
MCAllowlist == [public |-> {openrouter, ollama, litellm},
                internal |-> {openrouter, litellm},
                sensitive |-> {openrouter}]

Req(route, key, body) == [route |-> route, key |-> key, body |-> body]

Model(id, version, valid) == [id |-> id, version |-> version, valid |-> valid]
Sync(key, ms) == Req("model-catalog/sync", key, [valid |-> TRUE, models |-> ms])

Decide(key, trace, sensitivity, provider) ==
    Req("router/decide", key,
        [valid |-> TRUE, trace |-> trace, sensitivity |-> sensitivity,
         provider |-> provider])

Run(key, trace, provider) ==
    Req("runs", key, [valid |-> TRUE, trace |-> trace, provider |-> provider])

Credits(id, at, usage, burn) ==
    [valid |-> TRUE, id |-> id, at |-> at, usage |-> usage, limit |-> 1, burn |-> burn]
Snapshot(key, credits) == Req("budget/snapshots", key, credits)

Policy(block_stale) ==
    [valid |-> TRUE, threshold |-> 1, freshness |-> 1, block_stale |-> block_stale]
Check(key, policy, snapshot) ==
    Req("budget/check", key, [policy |-> policy, snapshot |-> snapshot])

Delegate(key, allowed) ==
    Req("a2a/delegate", key, [valid |-> TRUE, allowed |-> allowed])
Hook(key, signed, disposition) ==
    Req("hooks/ingest", key, [valid |-> TRUE, signature_valid |-> signed,
                              disposition |-> disposition])

\* The handlers of several writes: syncs under
\* one key that create, and that stop at an invalid model; a policy stored by
\* a check that then finds no snapshot.
StoreRequest ==
    {Sync(k1, <<Model(mA, 1, TRUE), Model(mB, 1, TRUE)>>),
     Sync(k1, <<Model(mA, 2, TRUE), Model(mA, 1, FALSE)>>),
     Sync(k2, <<Model(mA, 2, TRUE), Model(mA, 1, TRUE)>>),
     Snapshot(k1, Credits(1, 0, 1, 0)),
     Check(k1, Policy(FALSE), None)}

\* Those, and every other branch of the handlers, refused and accepted under
\* one key.
HandlerRequest ==
    StoreRequest \cup
    {Decide(k1, tr1, "internal", ollama),
     Decide(k1, tr1, "restricted", openrouter),
     Decide(k2, tr1, "sensitive", openrouter),
     Run(k1, tr1, ollama),
     Run(k1, tr1, litellm),
     Delegate(k1, FALSE), Delegate(k1, TRUE),
     Hook(k1, FALSE, "APPLIED"), Hook(k1, TRUE, "APPLIED"),
     Hook(k2, TRUE, "DUPLICATE"),
     [Snapshot(k1, Credits(1, 0, 1, 0)) EXCEPT !.body.valid = FALSE],
     Check(k1, Policy(FALSE), Credits(2, -1, 2, 0)),
     [Check(k1, Policy(FALSE), None) EXCEPT !.body.policy.valid = FALSE],
     Sync(k1, <<>>),
     [Sync(k2, <<Model(mA, 1, TRUE)>>) EXCEPT !.body.valid = FALSE]}

\* Snapshots taken a minute before the start and at it, within the limits,
\* over the limit and burning too fast; checks on the latest one and on one
\* of their own, by a policy that blocks on a stale snapshot and by one that
\* does not.
BudgetRequest ==
    {Snapshot(k1, Credits(1, 0, 1, 1)),
     Snapshot(k2, Credits(2, -1, 1, 0)),
     Snapshot(k2, Credits(3, 0, 0, 2)),
     Snapshot(k2, Credits(4, 0, 2, 0)),
     Check(k1, Policy(TRUE), None),
     Check(k2, Policy(TRUE), None),
     Check(k2, Policy(FALSE), None),
     Check(k1, Policy(TRUE), Credits(1, 0, 1, 1))}

Production ==
    [backend |-> "postgres", requests |-> HandlerRequest,
     max_time |-> 0, max_handled |-> 3, max_lives |-> 2]

\* The budget is decided from memory: any backend shows it, as time goes by.
Budgeting ==
    [backend |-> "memory", requests |-> BudgetRequest,
     max_time |-> 2, max_handled |-> 4, max_lives |-> 2]

BothDeployments == [production |-> Production, budgeting |-> Budgeting]
StoreDeployment == [production |-> [Production EXCEPT !.requests = StoreRequest]]
=============================================================================
