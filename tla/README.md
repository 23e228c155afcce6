# TLA+ verification of assistant-brain

Specifications of the stateful parts of this repository, the TLC runs that
check them on small instances, and TLAPS proofs of what matters most for
instances of any size. Every definition is a translation of the code named for
it in `PROJECT.json` ("map").

## 1. Inventory of the system

| Component | State | Operations | What is hard | What makes it correct |
|---|---|---|---|---|
| Event ledger, PostgreSQL (`platform/event-ledger/.../postgres.py`, `migrations/`) | table `event_ledger`, its sequence | `append_event` (INSERT ON CONFLICT, then SELECT), `read_stream` | concurrent connections, two autocommit statements, lost connections, sequence drawn before commit | one row per idempotency key, true answers, atomicity, a trail that never loses rows |
| Event ledger, memory (`memory.py`) | dict by key, list per stream, lock | the same | threads preempted between dict and list, raise inside the lock | dict and lists in step, the lock always released |
| HITL service (`apps/ops-api/.../service.py`) | contract-read counters; the rest is in the ledger | `handle_action` for approve, reject, kill | retries, double delivery, channel fallback, time stamps inside the digest | a retry is a no-op, one event per command, replies match the record |
| Control plane (`apps/control-plane`) | idempotency cache, model catalog, lists of telemetry objects, table `control_plane_events` | sync of models, router decisions, runs, snapshots, budget check, A2A delegation, webhooks; reads | failures between memory and table, restarts, late and repeated requests, snapshots that age | accepted objects are kept, replays have no effect, the budget fails closed |
| ops-api HTTP layer (`app.py`, `deps.py`) | two service singletons | routes, auth and key headers, error mapping | one worker, handlers synchronous after the body is read | part of the two services' models |
| Schema registry | cache of validators | `validate` | - | an abstract verdict in the models |
| Runtime convergence (`scripts/runtime/*`) | runtime configuration, exported state, plan, backup | export, build plan, apply, verify | plans that go stale, other writers of the same file, death between backup and replacement, redacted comparisons | merges converge and keep the rest, a backup that undoes the run, a report that is right |
| Weekly governance (`run_phase_f8_weekly_governance.sh`, `phase_f8_contract_review.py`, `phase_f8_release_governance.py`, the weekly check) | a review, a report, a summary and logs per week | review with carry-over of drifts, gates, promote or hold, check of every report so far | each run is judged on what all earlier ones wrote; edits between its steps; death between two files; one contract in two languages | what a promotion rests on; a run does not block the next one; runner and checker agree |
| Multi-asset enablement (`phase_f8_multiasset_enablement.py`) | shadow reviews, decisions, a rendered report | render, check | the report is rendered once and believed later | "pass" rests on approvals that stand |
| Onboarding (`onboard_linux.sh`, `verify_linux.sh`, `generate_litellm_virtual_key.py`) | `.env` | interactive run, rerun, key generation, verification | interruption after any answer, rerun in another mode, a lost answer of the proxy, edits by hand | a concluded run is one that verify accepts; no answer is lost |
| Policy engine (`platform/policy-engine`), governance KPIs | none | load manifests, run rules, evaluate limits | disabled, unknown and badly formed rules; two checks of one fact | verdicts follow the manifest; the two ownership checks agree |
| Policy rules, CI checks, documents, Telegram precheck, backup | none | text checks, read-only requests, I/O | - | a set of checks that hold, or not modelled (see 6) |

How they interact: ops-api owns one `ControlPlaneService` and one
`HITLService`. The HITL service calls the ledger; which implementation it gets
depends on `OPENCLAW_EVENT_LEDGER_DSN`. The control plane calls its telemetry
store; which one depends on `OPENCLAW_TELEMETRY_BACKEND`. The two services
share nothing. The scripts share files with the deployment, not with ops-api.
The weekly runner calls `make eval-gates`, `ci-quality` and `ci-security`; these
run the policy engine, the contract review, the KPI limits and the enablement
check, and one rule of the policy engine checks the runner's own reports.

## 2. Modules

```
LedgerEvents            events, rows, answers, the duplicate/replay verdict
  Ledger                abstract promise of a ledger
    LedgerProofs
  EventLedgerPostgres   append_event over PostgreSQL      --implements--> Ledger
    EventLedgerStreams  read_stream beside it
    EventLedgerPostgresProofs
  EventLedgerMemory     append_event, read_stream, a lock --implements--> Ledger
    EventLedgerMemoryProofs  with LedgerProofs (INSTANCE)
HITLService             handle_action, composed with Ledger (INSTANCE)
  HITLServiceProofs     with LedgerProofs (INSTANCE)
ControlPlane            ControlPlaneService over both telemetry stores
  ControlPlaneProofs
ConfigTree              JSON objects: get, set, difference, redaction
  RuntimeConvergence    export, build plan, apply, verify
    RuntimeConvergenceProofs
ContractReview          a review, its validation and carry-over, self-checks
PolicyEngine            manifests, rules, verdicts; ownership and KPI limits
MultiassetEnablement    shadow reviews, decisions, the report and its check
  WeeklyGovernance      the runner, composing the three above
    WeeklyGovernanceProofs
Onboarding              onboarding prompt by prompt, and verify
  OnboardingProofs
MC*                     finite instances
```

**LedgerEvents.** An event is a record of the four fields `append_event` looks
at: key, stream, command, digest. `Verdict` is the comparison that tells a
duplicate from an unauthorized replay. Event ids (a fresh `uuid4` per call) are
numbers never given out before.

**Ledger.** `Ask`, then `AppendRow` or `Judge` at one instant, then `End`; a
call may also `End` without effect. A session is one call in progress, so a
caller that timed out and retries is a second session beside the first. Check and
insert are one step here, so that most of what it promises is plain of it alone: the
runs ask it of the two implementations and of the service that uses it.

**EventLedgerPostgres.** A connection goes through `insert` (statement 1 sent),
`probe` (defaults computed, `DrawSequence`), `insertedRow` (in the unique index,
uncommitted), `answered`, or from `probe` through `Conflict` to `select` and
`answered`. `Waits` is PostgreSQL's rule that an INSERT meeting an uncommitted
row of its key waits for that transaction. `Lose` is a connection lost before
its statement commits; a caller whose connection dies after the commit is
`Return` with nobody listening. The branch `conflict without existing row` of
the code is kept (`NoExistingRow`) and shown unreachable.

**EventLedgerStreams** adds readers that poll `read_stream` with its limit.

**EventLedgerMemory.** The lock, the dict and the lists, one action per
statement at which a thread can be preempted.

**HITLService.** `Receive`, then `Refuse` (validation), or `CallLedger` and the
ledger's own steps, then `Respond` or `LedgerLost`. A digest is the record of
what is hashed (equal digests stand for equal texts). Operator, challenge,
proof, evidence and optional contract fields act only through the digest and
are one `content`. `Counts` are the readings of the shared contract-read
counters, chosen freely: handlers of several threads increment them unlocked.
`told` is every outcome a handler determined, heard by the sender or not.

**ControlPlane.** `site` is which deployment a behaviour is of: its backend, its
requests and its bounds, chosen once; one run covers both backends. A handler is a list of writes and the outcome it has when all
succeed (`PlanOf`), computed from the payload and the memory. `Complete` runs it
to its end, `FailAtWrite` stops it at a write the database refuses (memory has
that write already, the table has it only if it `landed` before the connection
broke), `Replay` answers from the cache, `Restart` starts the process again.
Handlers are one step each: ops-api awaits the request body and then calls the
service synchronously on the event loop of its single worker. The cache is a
function from the keys it holds, pairs of route and key, to the cached answers;
the store's lists are one log with kinds, read by position.
JSON schemas are the flag `valid`, hourly and daily burn rate one `burn`,
`INVALID_PAYLOAD` and `SCHEMA_VALIDATION_FAILED` one code. The branch of
`_ingest_run` that hashes a raw prompt is dead code (the `llm_run` schema admits
no `prompt`) and left out.

**ConfigTree.** A parsed JSON object (`IsObject`) is a function from paths
(sequences of keys) to scalars or `Dict` in which every path lies inside objects;
lists and JSON's null are scalars, as the scripts treat them.
`Changes` is `flatten_changes` without its recursion: a path is looked at when all
above it is an object on both sides.

**RuntimeConvergence.** `history[p]` is every `openclaw.json` profile `p` has had; its
positions serve as revisions, so that properties can say which configuration a
plan, a backup or an inventory was made from. Besides the tree an entry of it
records the run of the apply script that wrote it, nothing the scripts read. One
action per script, except for apply: `Start` (arguments checked, directory
named), `MakeDirectory`, `OpenCopy`, `FinishCopy`, `ReadAndMerge`, `Replace`, with
`Die` in between and `Touch`, a write of openclaw or its operator, at any time. The
three in the middle are `cp -a "$STATE_DIR" "$BACKUP_DIR"`: it makes the directory,
or, if a run of that second has made it already, perhaps one that is dead by now,
copies a subdirectory into it (`Directory`); it opens `openclaw.json` and
truncates its copy; it completes the copy. In between a copy is `torn`, and what two
runs leave that write one copy at once is `mixed`. `openclaw.json` itself is taken to
be replaced as a whole by whoever writes it, as the script does with `os.replace`, so
that a copy that was opened is of one revision. A dry run ends before it
writes and is no action; a plan of no operations is applied like any other, as
in the script. The operations of a plan are a function from the paths they set,
each named once, and `Merge` applies them in the plan's order. The verification writes only its report, so it is the predicate
`OverallOk`, asked in every state of the baseline and of an inventory taken now.
`--redact-secrets` has its default. Rolling back is the operator's `cp` and not
modelled; `BackupUndoesTheRun` says what it would restore. It does not hold of every
backup. The run that makes the named directory has it to itself, however many come
after it in that second. Those share the subdirectory: a third run overwrites what
the second has saved, perhaps with what the second has merged. So the property is
stated of the named directory, and of a subdirectory that only one run has copied to
(`backup.runs = 1`).

**ContractReview** is operators only. A review is a record; a path or a text is
there or not. `Valid` is `validate_review` with the relation to the week before
(`OpensAChain`, `FollowsOn`); `ReadReview` is what the runner reads of it.
`SelfChecks` are the examples that `command_check` validates each time it runs.

**PolicyEngine** is operators only: a manifest parses (`Loads`), its enabled rules
have an implementation (`Builds`), those of a category are `Selected`, and all of
them hold (`Passes`). Which implementations hold is an argument. Ownership is
judged twice in the code, by a rule and by the KPI limits, and modelled twice.

**MultiassetEnablement** is operators only. A class has a sequence of shadow
reviews of which the last counts; `CheckEnablement` is `check_report` with its
fixtures, `Rendered` what `render_report` writes.

**WeeklyGovernance.** `tree` is the repository but for the runner's files, and
people change it (`EditTree`, `RenderEnablement`) between any two steps of a run.
A run reads the review (`StartRun`), the F7 phase, passes the gates one by one,
and writes its report and its summary; `Die` may come between, and `FreshCheckout`
loses logs, which `.gitignore` keeps out of the repository. Each gate reads the
tree at one moment. `WeeklyCheck` looks at every report written so far. What
`WEEK_ID` does when it is exported is modelled (`exported`): the checks that
inherit it then look at that week. Checks that only read texts are booleans of the
tree. `basis`, `torn`, `fresh` and `settled` are history: the program has no such
state, only properties read them. The second half of the weekly check runs the
runner on mock reviews with fixed answers, a deterministic test of its own, and
is left out.

**Onboarding.** `.env` is a function from keys to lines, each at the margin or
indented, because `set_env_kv` sees only lines at the margin while `get_env_kv`
and verify read indented ones too. `Script` lists what `configure_env_interactive`
asks and writes, row by row, each with the modes in which a run comes to it. A run
is at a row; one action per kind of prompt, and each answer is in the file before
the next question. `KeyArrives` and
`KeyFails` are the request to the LiteLLM proxy; a failure may leave a key issued
and unknown. `EditByHand` happens between runs. Values are what
`normalize_env_value` leaves, and are told apart by where they come from; typed
answers are effective values, since prompts that insist ask again. The `.env`
template exists. The keys do not influence each other but for those named in the
module, so an instance watches some of them (`Watched`). `set_env_kv` writes a temporary
file and moves it over `.env`, which is one step if both are on one file system: with
the temporary directory elsewhere, `mv` copies, and an interruption inside it could
cut `.env` short; that is not modelled.

Each module also holds a few operators whose comment begins "Mutant of": a
plausible mistake in the definition that follows, paired in `PROJECT.json` with
the property that must catch it. Nothing else uses them.

## 3. Runs

| Run | Instance | Shows |
|---|---|---|
| `ledger_streams` | 2 connections, 3 calls, 1 reader, limit 2 | types, `OneRowPerKey`, `ConflictHasRow`, `ImplementsLedger`, `TrailNeverLosesRows`, `LateRowsWereUnderWay`, and every call ends |
| `ledger_memory` | 2 threads, 3 calls, 1 reader, limit 2 | `IndexMatchesStreams`, `AnswersAreTrue` (of the lists), `ReadsExtend`, `ImplementsLedger`, every call ends |
| `hitl` | 2 handlers, 7 requests, 3 ledger calls, 2 seconds, 2 counter readings | `RetryIsNoOp`, `ReplyMatchesRecord` |
| `control_plane` | PostgreSQL: 20 requests, 3 handled, 2 lives; memory: 8 budget requests, 4 handled, 2 lives, 3 seconds | `AcceptedIsKept`, `ReplayRepeatsAnswer`, `ReplayHasNoEffect`, `MemoryCoversDb`, `CatalogFollowsDb` over every branch of every route; `BlockedStaysBlocked`, `AllowIsJustified` |
| `runtime_convergence` | 2 profiles, one without the heartbeat section, 1 run at a time, 3 edits, 3 `.env`, 2 writes, 2 copies | `MergesConverge`, `MergesKeepTheRest`, `ReportIsRight`, `PipelinePasses` |
| `runtime_backups` | 1 profile, 2 runs at a time, 1 edit, 1 `.env`, 2 writes, 3 copies, 2 seconds | `BackupUndoesTheRun` over every interleaving of two copies |
| `weekly_governance` | 3 weeks, 2 runs, 2 of 19 edits or checkouts, 1 asset class, 1 drift | `PromotionClosesDrifts`, `RunnerSatisfiesChecker`, `RunKeepsTheGate`, `RerunsClearTheGate`, `ReadinessIsApproved` |
| `onboarding` | 2 runs, 13 keys, 1 answer typed where Enter would do, 1 edit by hand, 1 key issued | `ConcludedVerifies`, `AnswersSurvive` |

Why the bounds are enough to be interesting. The events of the ledger instances
are one event, three that differ from it in exactly one compared field, and one
of another key, so that each comparison of the verdict matters. Two
connections suffice for a conflict and for one to wait for the other; more of
them are the theorem's business. Three calls give an append, its retry and a conflicting command. Two
lives and three requests give a failure, its retry and the replay, or a success,
a restart and the same key again; four give the snapshots a budget check compares. Two writes give
a merge and an edit before, during or after it, or two merges. Three copies by two
runs at once are two of one second that meet in a directory and one that finds what a
dead run has left. Time runs one second past the point at which a snapshot is stale.
Three weeks are a drift, its week of resolution or omission, and the promotion
after it; two runs are one and its rerun, or two weeks in a row; two edits are one
before and one within a run. The first review leaves a drift open and the others
close it, carry it, forget it, or claim no past. Two onboarding runs are one that
is interrupted or concluded and one over what it left; the watched keys have at
least one of every kind of prompt in every mode and every key the scripts relate.
Deadlock checking is off where callers need not call and all counters are bounded;
it is on for `onboarding`, where something can always happen.
Bounds are `MaxCalls`, `MaxTime`, `MaxHandled`, `MaxLives`, `MaxWrites`,
`MaxCopies`, `MaxWeek`, `MaxEdits`, `MaxRuns`, `MaxTyped`, `MaxIssued` and the sets
named in the cfg files.

**Fairness.** Only two runs use it, `ledger_streams` and
`ledger_memory`. `EventLedgerPostgres`: a server goes on
with the statements it was sent, so `WF(Run or Return)` per connection; losing
connections and calling are never forced. `EventLedgerMemory`: threads inside
`append_event` are scheduled, `WF(Run)` per thread. `threading.Lock` promises no
fairness among waiters; with finitely many calls none is needed. The weekly runner
and onboarding wait for people, so nothing obliges them to go on, and no liveness
is stated of them.

## 4. Where the code departs from what the repository says

Each is a run that expects a violation.

| Run | Claim | What the code does |
|---|---|---|
| `finding_duplicate` | `tests/e2e/test_hitl_flow.py:70`, `PM/DECISION-PROTOCOL.md:205` | two deliveries of one payload without `occurred_at` that fall in different seconds: the later one is refused as a replay. The test passes only while both fall in one second |
| `finding_redacted` | `EPIC-F10-02-...-SEM-PERDA-DE-ESTADO.md:100` | a credential that changed under a preserved path passes, since both inventories are redacted |
| `finding_skipped_week` | `EPIC-F8-02-REVISAO-PERIODICA-...-DRIFT.md:101` and `:89` | only the review of the calendar week before is looked at: with a critical drift open and a week without a review, the next review must say that there is no past, and its week may be promoted |
| `finding_restart` | `PRD/PRD-F11-RUNTIME-FIRST-B0-REMANESCENTE.md:210` | the idempotency cache does not survive a restart |

Observed while modelling and without a run: a decision that was approved accepts
further commands with other actions (`PM/DECISION-PROTOCOL.md:125` forbids it);
a convergence whose baseline lacks the `agents.defaults.heartbeat` section is
refused by its own verification, which reports the section as an unexpected
change; a plan for a port or heartbeat other than 18789 and 15m, which the `.env`
may ask for, is refused too; what openclaw writes between the apply script's read
and its replacement is lost unseen; a repeated or refused `command_id`
is recorded nowhere, although `PM/DECISION-PROTOCOL.md:206` asks for it;
`fallback_channel` is recorded without the check `service.py:77` makes of
`channel`; the latest credits snapshot is the one received last, so that an older
one that arrives late can lift a budget block; runs are checked against the
allowlist of `internal` data whatever sensitivity their trace was routed with; a retry that comes through the
fallback channel has another digest and is refused; a failed
`control_plane_events` insert leaves its object in memory, where reads and budget
checks use it; a budget check refused for want of a snapshot has stored its
policy; a second `append_event` with the same `event_id` running concurrently
would meet `UNIQUE(event_id)` instead of the duplicate answer (no caller reuses
one); the header `X-Idempotency-Key` is required by the HITL routes and unused.

Of the weekly governance: the first run ever holds, since the weekly check
demands an earlier report; after the epics' statuses change every old summary is
stale and `ci-quality` fails until each of those weeks is run again (that this is
enough is `RerunsClearTheGate`); a rerun with
`WEEK_ID` exported fails the enablement check, whose report is of another week,
and replaces an earlier promotion by a hold; logs are not versioned while the
check demands those of every report, so `ci-quality` fails in a fresh clone; a
disabled weekly rule makes its category pass with nothing checked; an enabled
rule without an implementation fails every category of its domain;
`contradiction_count`, the result of the policy convergence, never reaches the exit code; the
review is read before the gates run and may have changed when the decision is
taken; the mocks of the check's second half that name no previous week fail where
the mock of the week before exists.

Of onboarding: an optional secret (`OPENAI_API_KEY`, `SLACK_APP_TOKEN`, and
`OPENROUTER_API_KEY` when local-only) is read by a prompt that prints a line break
into the value, so that the key is written empty and the secret stands on a line
of its own; `onboard_linux.sh:4` calls the script idempotent, and a rerun with
Enter at every prompt sets the mode to cloud, the defaults of the text prompts,
and a new LiteLLM key; a base URL of an earlier answer is kept and then refused
by verify, which demands the default; a line indented by hand hides what onboarding
writes after it; a key kept from another mode need not fit the models written with
it; a key whose answer was lost stays issued at the proxy.

## 5. Proofs

Eight modules hold the proofs, one per modelled component. Every theorem holds for
every set of sessions, keys, events, requests, profiles, weeks and prompts followed
and for every bound. What is assumed of the constants is stated in the modules and
evaluated by the runs:

- the bounds are natural numbers, a limit of readers at least 1; `None` is no row
  and no thread;
- requests of the HITL service have the fields of its payload, and a time of their
  own is a number; those of the control plane have one of its routes, and what
  passes the schemas has the types the schemas give (a list of models, each with a
  version; time and money in whole units); two different valid snapshots do not
  carry one `snapshot_id`, since a check names its snapshot by it;
- in a JSON tree `Dict` is no secret, no redaction mark and not "absent"; the first
  configurations are objects and an edit sets or adds a path; the values the policy
  wants are neither secret nor the redaction mark, nor is that mark in a `.env`; no
  word of `key_blocklist` is in a key the scripts name;
- the tree of the repository has its fields, edits name one of them, and a review
  lists finitely many drifts;
- onboarding follows at least the five keys that the scripts relate to each other.

**The ledger.** `LedgerProofs`: `IInv` is type correctness, `RequestsAreOwn` (a
busy session holds a row whose id no other busy session holds), `OneRowPerKey` and
`AnswersAreTrue`. The last two are not inductive alone: an appended answer names
the request, so the request must be a row, and a single winner needs ids that
belong to one request. From it `LedgerTypeCorrect`, `LedgerAnswersAreTrue`,
`LedgerOneWinner`, `LedgerAppendOnly`. They are for those who use the ledger:
whatever implements it inherits them.

**PostgreSQL.** `EventLedgerPostgresProofs`: `KeyInv` adds `InsertedIsAlone`, the
unique index seen from an uncommitted INSERT: without it a commit could meet a row
that was committed meanwhile. `SeqInv` adds `DrawnUpToLast`: the next number is new
because none above `lastSeq` was drawn. From them `PostgresTypeCorrect`,
`PostgresOneRowPerKey`, `PostgresConflictHasRow`, `PostgresSequenceIsAnOrder`, and
the step simulation `StepRefines` that gives `PostgresImplementsLedger`: a commit is
`AppendRow`, a SELECT is `Judge`, losing or returning is `End`, everything else is
invisible.

**In memory.** `EventLedgerMemoryProofs`: dict and lists agree only while the lock
is free, so the invariant says by whom they are allowed to differ. `LockIsHeld`: a
thread past the lock holds it. `IndexRunsAhead`: the dict holds what the lists hold
and, beyond that, only the event of a thread between its two statements.
`ListsAreIndexed` and `ReadsArePrefixes` file the rows and cut what was read. From
it `MemoryIndexMatchesStreams`, `MemoryReadsExtend` (an action property: lists only
grow at their end, and a read is a prefix cut at a limit), and
`MemoryImplementsLedger`: the assignment to the dict is `AppendRow`, the comparison
under the lock is `Judge`, and the list, the lock and its release are invisible.
`MemoryAnswersAreTrue` is inherited: the invariant of the ledger holds of the lists
because every step here is one of the ledger's or none.

**HITL service.** `HITLServiceProofs` takes `LedgerProofs` by INSTANCE: the ledger's
own `IInv` holds of the five ledger variables because every step of the service is a
step of the ledger or leaves it alone (`HITLDrivesLedger`, which is
`Spec => L!Spec`). `HandlersOwnCalls` ties a handler to its ledger call: the event
under way was built for the request it serves. `ToldIsGrounded` says of every outcome
ever told which row it rests on. Without the latter a retry would be compared with a
handler that is long gone. From them `HITLRetryIsNoOp` and
`HITLReplyMatchesRecord`.

**Control plane.** `ControlPlaneProofs`: nine parts. Beside the properties,
`LogsOK` (lists hold this life's writes, the table nothing of a later life),
`AnswersAreCached` (why a key has one answer in a life), `SnapshotsWereSent` and
`ChecksAreJudged` (memory of who sent a snapshot, kept in every outcome told: the
snapshot itself may be gone after a restart). `PlanWrites` gives the shape of each
handler's writes, and one lemma per way a handler ends (`Complete`, `FailAtWrite`,
`Replay`) carries all routes; `MemoryCoversDb` needs the embedding of the table's
entries into the list to be extended write by write, the failing one included. From
it `ControlPlaneAcceptedIsKept`, `ControlPlaneReplayRepeatsAnswer`,
`ControlPlaneMemoryCoversDb`, `ControlPlaneCatalogFollowsDb`,
`ControlPlaneAllowIsJustified`, `ControlPlaneBlockedStaysBlocked` (snapshots only
age), and the action property `ControlPlaneReplayHasNoEffect`.

**Runtime convergence.** `RuntimeConvergenceProofs` first proves what the operators on
trees do: `SetPathSets`, `SetPathKeeps` and `SetPathIsObject`, what redaction keeps
and hides, and over them `MergeSets` and `MergeKeeps`: a plan names each path once
and no path above another, so that no operation undoes what another has set. The
invariant ties what a script left behind to the revision it was made from:
`BaselineOK`, `PlanOK`, `BackupsOK`, `RunsOK` (what an apply in progress has read and
backed up, and at which time its directory was named), `ClaimsOK` (two runs
have the same directory only if two have copied to it, which keeps the steps of one
run out of the backup of another), `WritesOK` (each file written
by a run is the merge of an earlier revision). `StepGrows`, that no step loses a
revision, a directory or a time, carries those facts over every step that is not
their own. From it `ConvergenceMergesConverge`, `ConvergenceMergesKeepTheRest`,
`ConvergenceBackupUndoesTheRun`; `ComparisonIsRight` (redacted exports that differ
in allowed paths only come from configurations that differ in allowed paths and
secrets only) gives `ConvergenceReportIsRight`; `ConvergencePipelinePasses` says
that the scripts run in their order satisfy their own verification.

**Weekly governance.** `WeeklyGovernanceProofs`: `IInv` says of a run in progress
that its review is what the reviews of its basis gave and that its logs and report are
there before its summary (`RunInv`); of every report on disk that it is sound and, if it
promotes, that its review was valid and counted no open drift (`ReportsInv`,
`Clears`); of every summary that it repeats its report unless it is unfinished
(`SummariesInv`); and of a settled tree that all the weekly check looks at is in
order but for the week being written (`SettledInv`); and of each week that was run
again to its end that it has all the weekly check asks of it (`FreshInv`). The properties alone are not
inductive: they speak of files, and what the files rest on was known only to a run
that is gone. From it `WeeklyTypeCorrect`, `WeeklyRunnerSatisfiesChecker` (by
`ReportIsSound`: the bash formulas meet the Python ones for every review, phase
and gate), `WeeklyRunKeepsTheGate`, `WeeklyRerunsClearTheGate`
(however many weeks were blocked), and
`WeeklyPromotionClosesDrifts`, whose core is `ClearedDriftsAreResolved`: take the
least week in which a drift is no longer left open; the valid review of that
week has resolved it. `OwnershipChecksAgree` is a fact of two operators, and
`WeeklyReadinessIsApproved` follows from what the check does in any tree.

**Onboarding.** `OnboardingProofs`: `PromptsOK` reads off the rows of `Script` which
kinds of prompt a key has and with which default, `RequiredAreAsked` that every key
verify demands in a mode has a row in that mode, and `SetKvFacts` what a write
does to a file with hidden lines. `ConcludedVerifies` speaks of the moment after
the last prompt; the invariant says it of each prompt passed (`PromptsDone`: what a run
has behind it satisfies verify in the run's mode, typed and edited keys apart). That
needs `UntouchedOK` (a key nobody touched has one line, at the margin, so the write is
what is read), `ModeKept` (verify judges by the mode the run was asked for) and
`SaidOK`. `LineWritten` is the one step all prompts share. From it
`OnboardingAnswersSurvive`, for any number of interrupted runs, and
`OnboardingConcludedVerifies`.

With the two refinements, what is proved of `Ledger` holds of both ledgers, and with
`HITLDrivesLedger` of the ledger behind the HITL service. `OneWinnerPerKey`,
`AppendOnly`, `SequenceIsAnOrder`, `ComparisonIsRight` and the types of `Ledger` are
proved and no run repeats them. Each inductive invariant was model-checked on the
instance of its component's run, that of `Ledger` on three sessions and four calls,
before it was proved.

**Only model-checked.** Liveness of the two ledgers (`WF`, ENABLED: beyond the
prover), and what `read_stream` shows beside concurrent commits
(`TrailNeverLosesRows`, `LateRowsWereUnderWay`).

## 6. What is left

1. Proofs: the two properties of the streams. They are about the first rows by
   `sequence_id` of a growing set; the order is proved (`PostgresSequenceIsAnOrder`),
   what a LIMIT over it returns needs facts of cardinality that follow from it.
2. Composition of ops-api: the control plane and the HITL service behind one event
   loop. They share no state, so it would add little.

Liveness stays with the runs. No property waits for induction over data: trees are
functions of paths and logs are read by position for that reason.

Not modelled, and not planned: the text searches of the policy rules and of the
checks under `ci/checks` and `scripts/ci` (stateless predicates on documents; the
gates take them as booleans or as the set of implementations that hold), how the
KPI values are counted, the Telegram precheck (two read-only requests and an exit
code), the commands `verify_linux.sh` looks for, backup and document conversion
(I/O), authentication headers and JSON decoding (pure).
