---------------------------- MODULE ControlPlane ----------------------------
(***************************************************************************)
(* ControlPlaneService (apps/control-plane) over its telemetry store.      *)
(* Every POST of ops-api awaits its body and then calls the service        *)
(* synchronously on the event loop of the one worker, so a handler is one  *)
(* step; requests still arrive late, twice, out of order, or again after a *)
(* restart.  The Postgres store writes memory first and then the table     *)
(* control_plane_events, over one connection that is opened at start and   *)
(* never reopened; reads are served from memory alone.                     *)
(*                                                                         *)
(* A handler is a list of writes, made in order, and the outcome it has    *)
(* when all of them succeed.  Validation failures cut the list short.      *)
(* "valid" stands for the JSON schema of the contract, "INVALID" for       *)
(* INVALID_PAYLOAD and SCHEMA_VALIDATION_FAILED, "burn" for the hourly and *)
(* the daily burn rate.                                                    *)
(***************************************************************************)
EXTENDS Integers, Sequences, SequencesExt

CONSTANTS
    Deployment,     \* the deployments there are, by name: each has a backend,
                    \* "memory" or "postgres", the requests its clients send,
                    \* and bounds on the clock, the requests handled and the
                    \* starts of the process
    Allowlist,      \* Allowlist[sensitivity]: the providers allowed
    None

Routes == {"model-catalog/sync", "router/decide", "runs", "budget/snapshots",
           "budget/check", "a2a/delegate", "hooks/ingest"}

ASSUME DeploymentAssumption ==
    \A s \in DOMAIN Deployment : LET d == Deployment[s] IN
        /\ d.backend \in {"memory", "postgres"}
        /\ \A q \in d.requests : DOMAIN q = {"route", "key", "body"} /\ q.route \in Routes
        /\ d.max_time \in Nat /\ d.max_handled \in Nat /\ d.max_lives \in Nat \ {0}

\* What passes the schemas: models are a list, a policy and a snapshot count
\* time and money in whole units.
ASSUME BodyAssumption ==
    \A s \in DOMAIN Deployment : \A q \in Deployment[s].requests :
        /\ q.route = "model-catalog/sync" =>
            /\ q.body.models \in Seq(ToSet(q.body.models))
            /\ \A m \in ToSet(q.body.models) : m.version # None
        /\ q.route = "budget/check" /\ q.body.policy.valid =>
            q.body.policy.freshness \in Int /\ q.body.policy.threshold \in Int

\* The snapshots clients send, to be stored or to be checked at once.
SnapshotsSent(s) ==
    {q.body : q \in {q \in Deployment[s].requests : q.route = "budget/snapshots"}}
    \cup ({q.body.snapshot :
            q \in {q \in Deployment[s].requests : q.route = "budget/check"}} \ {None})

\* Clients give different snapshots different ids: the service keeps whatever
\* snapshot_id it is sent.
ASSUME SnapshotAssumption ==
    \A s \in DOMAIN Deployment :
        /\ \A q \in Deployment[s].requests : q.route = "budget/snapshots" => q.body # None
        /\ \A x, y \in SnapshotsSent(s) : x.valid =>
            /\ x.at \in Int /\ x.usage \in Int /\ x.limit \in Int /\ x.burn \in Int
            /\ y.valid /\ x.id = y.id => x = y

VARIABLES
    site,       \* which deployment this is
    clock,      \* the wall clock
    life,       \* which start of the process this is
    cache,      \* _idempotency_cache: from the keys <<route, key>> it holds to
                \* the cached answers
    models,     \* _models: from model_id to the stored version
    lists,      \* the append-only lists of the store, as one log
    conn,       \* the database connection: "up" or "down"
    db,         \* control_plane_events
    told,       \* every answer determined, heard or lost
    handled     \* requests handled so far

vars == <<site, clock, life, cache, models, lists, conn, db, told, handled>>

Backend == Deployment[site].backend
Request == Deployment[site].requests
MaxTime == Deployment[site].max_time
MaxHandled == Deployment[site].max_handled
MaxLives == Deployment[site].max_lives

ModelIds ==
    [s \in DOMAIN Deployment |->
        UNION {{m.id : m \in ToSet(q.body.models)} :
            q \in {q \in Deployment[s].requests : q.route = "model-catalog/sync"}}]
CacheKeys ==
    [s \in DOMAIN Deployment |-> {<<q.route, q.key>> : q \in Deployment[s].requests}]

ModelId == ModelIds[site]
CacheKey == CacheKeys[site]

Init ==
    /\ site \in DOMAIN Deployment
    /\ clock = 0
    /\ life = 1
    /\ cache = [k \in {} |-> None]
    /\ models = [m \in ModelId |-> None]
    /\ lists = <<>>
    /\ conn = "up"
    /\ db = <<>>
    /\ told = {}
    /\ handled = 0

-----------------------------------------------------------------------------
(***************************************************************************)
(* The handlers: what each writes, and what it answers when it gets there. *)
(***************************************************************************)
Ok(result) == [code |-> "OK", result |-> result]
Error(code) == [code |-> code, result |-> None]
Accepted == Ok([accepted |-> TRUE])

Write(kind, object) == [kind |-> kind, object |-> object]
Plan(writes, outcome) == [writes |-> writes, outcome |-> outcome]
Stop(code) == Plan(<<>>, Error(code))

\* _sync_model_catalog: each model is validated just before it is stored.
FirstInvalid(ms) ==
    CHOOSE i \in 1..Len(ms) + 1 :
        /\ i <= Len(ms) => ~ ms[i].valid
        /\ \A j \in 1..i - 1 : ms[j].valid

\* What the catalog holds for the i-th model of ms when its turn comes.
Previous(ms, i) ==
    LET earlier == {j \in 1..i - 1 : ms[j].id = ms[i].id}
    IN  IF earlier = {} THEN models[ms[i].id]
        ELSE ms[Max(earlier)].version

UpsertStatus(ms, i) ==
    CASE Previous(ms, i) = None -> "created"
      [] Previous(ms, i) = ms[i].version -> "noop"
      [] OTHER -> "updated"

SyncModelCatalog(body) ==
    LET ms == body.models
        writes == [i \in 1..FirstInvalid(ms) - 1 |-> Write("models_catalog", ms[i])]
        Count(status) == Cardinality({i \in 1..Len(ms) : UpsertStatus(ms, i) = status})
    IN  IF ~ body.valid THEN Stop("INVALID")
        ELSE Plan(writes,
             IF Len(writes) < Len(ms) THEN Error("INVALID")
             ELSE Ok([total |-> Len(ms), created |-> Count("created"),
                      updated |-> Count("updated"), noop |-> Count("noop")]))

DecideRouter(body) ==
    CASE ~ body.valid -> Stop("INVALID")
      [] body.sensitivity \notin DOMAIN Allowlist -> Stop("SENSITIVITY_POLICY_MISSING")
      [] body.provider \notin Allowlist[body.sensitivity] -> Stop("PROVIDER_NOT_ALLOWED")
      [] OTHER -> Plan(<<Write("router_decision", body)>>, Accepted)

\* The llm_run contract carries no sensitivity: every run counts as internal.
IngestRun(body) ==
    CASE ~ body.valid -> Stop("INVALID")
      [] body.provider \notin Allowlist["internal"] -> Stop("PROVIDER_NOT_ALLOWED")
      [] OTHER -> Plan(<<Write("llm_run", body)>>, Accepted)

IngestBudgetSnapshot(body) ==
    IF body.valid
    THEN Plan(<<Write("credits_snapshot", body)>>, Accepted)
    ELSE Stop("INVALID")

\* latest_credits_snapshot: the last one received.
Snapshots == {i \in DOMAIN lists : lists[i].kind = "credits_snapshot"}
LatestSnapshot ==
    IF Snapshots = {} THEN None ELSE lists[Max(Snapshots)].object

\* Mutant of Stale: timedelta.seconds for total_seconds(), with a day of 3.
StaleWithinTheDay(policy, snapshot) ==
    (clock - snapshot.at) % 3 > policy.freshness /\ policy.block_stale

Stale(policy, snapshot) == clock - snapshot.at > policy.freshness /\ policy.block_stale

\* Mutant of Blocked: the burn rate is not looked at.
BlockedOnUsage(policy, snapshot) ==
    snapshot.usage > snapshot.limit \/ Stale(policy, snapshot)

Blocked(policy, snapshot) ==
    \/ snapshot.usage > snapshot.limit
    \/ snapshot.burn > policy.threshold
    \/ Stale(policy, snapshot)

\* _check_budget: the policy is stored before the snapshot is looked for.
CheckBudget(body) ==
    LET policy == body.policy
        snapshot == IF body.snapshot = None THEN LatestSnapshot ELSE body.snapshot
        outcome ==
            IF snapshot = None THEN Error("BUDGET_SNAPSHOT_MISSING")
            ELSE IF ~ snapshot.valid THEN Error("INVALID")
            ELSE Ok([snapshot |-> snapshot.id,
                     blocked |-> Blocked(policy, snapshot),
                     action |-> IF Blocked(policy, snapshot)
                                THEN "circuit_breaker" ELSE "allow"])
    IN  IF ~ policy.valid THEN Stop("INVALID")
        ELSE Plan(<<Write("budget_policy", policy)>>, outcome)

DelegateA2A(body) ==
    CASE ~ body.valid -> Stop("INVALID")
      [] ~ body.allowed -> Stop("A2A_NOT_ALLOWED")
      [] OTHER -> Plan(<<Write("a2a_delegation_event", body)>>, Accepted)

IngestWebhook(body) ==
    LET applied == body.disposition = "APPLIED" IN
    CASE ~ body.valid -> Stop("INVALID")
      [] ~ body.signature_valid -> Stop("WEBHOOK_SIGNATURE_INVALID")
      [] OTHER -> Plan(IF applied THEN <<Write("webhook_ingest_event", body)>> ELSE <<>>,
                       Ok([applied |-> applied]))

PlanOf(q) ==
    CASE q.route = "model-catalog/sync" -> SyncModelCatalog(q.body)
      [] q.route = "router/decide" -> DecideRouter(q.body)
      [] q.route = "runs" -> IngestRun(q.body)
      [] q.route = "budget/snapshots" -> IngestBudgetSnapshot(q.body)
      [] q.route = "budget/check" -> CheckBudget(q.body)
      [] q.route = "a2a/delegate" -> DelegateA2A(q.body)
      [] q.route = "hooks/ingest" -> IngestWebhook(q.body)

-----------------------------------------------------------------------------
(***************************************************************************)
(* The store.  "by" and "life" record which request wrote an entry.        *)
(***************************************************************************)
Entries(q, writes) ==
    [i \in 1..Len(writes) |-> [kind |-> writes[i].kind, object |-> writes[i].object,
                               by |-> <<q.route, q.key>>, life |-> life]]

IsListed(e) == e.kind # "models_catalog"

\* The positions of a log that hold an upsert of model m.
UpsertsOf(m, log) ==
    {i \in DOMAIN log : log[i].kind = "models_catalog" /\ log[i].object.id = m}

\* Mutant of Upsert: the catalog becomes what was synced last.
UpsertLastSync(entries) ==
    models' = [m \in {e.object.id : e \in ToSet(entries)} |-> 1]

\* Mutant of Upsert: a model that is there is not updated.
UpsertFirst(entries) ==
    models' =
        [m \in ModelId |->
            IF UpsertsOf(m, entries) = {} \/ models[m] # None THEN models[m]
            ELSE entries[Max(UpsertsOf(m, entries))].object.version]

\* upsert_model, one after the other: the last version given stays.
Upsert(entries) ==
    models' =
        [m \in ModelId |->
            IF UpsertsOf(m, entries) = {} THEN models[m]
            ELSE entries[Max(UpsertsOf(m, entries))].object.version]

\* The memory half of the store, after the given entries of request q: only a
\* sync writes models, and it writes nothing else.
Remember(q, entries) ==
    IF q.route = "model-catalog/sync"
    THEN Upsert(entries) /\ UNCHANGED lists
    ELSE lists' = lists \o entries /\ UNCHANGED models

\* Mutant of Insert: a model that is there already is not inserted.
InsertUnlessNoop(entries) ==
    db' = IF Backend = "postgres"
          THEN db \o SelectSeq(entries, LAMBDA e :
                    IsListed(e) \/ models[e.object.id] # e.object.version)
          ELSE db

\* _insert_event, one after the other.
Insert(entries) == db' = IF Backend = "postgres" THEN db \o entries ELSE db

Answered(q, code, result, replay) ==
    told' = told \cup {[request |-> q, life |-> life, at |-> clock, code |-> code,
                        result |-> result, replay |-> replay]}

-----------------------------------------------------------------------------
(***************************************************************************)
(* _run_idempotent                                                         *)
(***************************************************************************)
HandleStarts(q) ==
    /\ handled < MaxHandled
    /\ handled' = handled + 1
    /\ UNCHANGED <<site, clock, life>>

\* Mutant of IsCached: the cache is never consulted.
NeverCached(q) == FALSE

IsCached(q) == <<q.route, q.key>> \in DOMAIN cache

\* The key was answered before, with whatever payload: the same answer.
Replay(q) ==
    /\ IsCached(q)
    /\ HandleStarts(q)
    /\ Answered(q, "OK", cache[<<q.route, q.key>>], TRUE)
    /\ UNCHANGED <<cache, models, lists, conn, db>>

\* Only a success is cached.
CacheAnswer(q, outcome) ==
    LET key == <<q.route, q.key>> IN
    cache' = IF outcome.code = "OK"
             THEN [k \in DOMAIN cache \cup {key} |->
                    IF k = key THEN outcome.result ELSE cache[k]]
             ELSE cache

\* The handler runs to its end.
Complete(q) ==
    LET plan == PlanOf(q)
        entries == Entries(q, plan.writes)
    IN
    /\ ~ IsCached(q)
    /\ Backend = "postgres" /\ plan.writes # <<>> => conn = "up"
    /\ HandleStarts(q)
    /\ Remember(q, entries)
    /\ Insert(entries)
    /\ CacheAnswer(q, plan.outcome)
    /\ Answered(q, plan.outcome.code, plan.outcome.result, FALSE)
    /\ UNCHANGED conn

\* Mutant of Remembered: the table is written before the memory.
RememberedIfInserted(n) == n

\* super().save_...() comes before _insert_event: when the insert of write
\* n + 1 fails, its object is already in memory.
Remembered(n) == n + 1

\* The database fails at the write after the first n, the rest is not made,
\* and the driver's error ends the handler.  The statement may fail on a
\* connection that stays usable, the connection may be lost before it is
\* executed or, "landed", just after.
FailAtWrite(q, n, landed) ==
    LET plan == PlanOf(q)
        entries == Entries(q, plan.writes)
    IN
    /\ Backend = "postgres"
    /\ ~ IsCached(q)
    /\ n < Len(plan.writes)
    /\ conn = "down" => n = 0 /\ ~ landed
    /\ HandleStarts(q)
    /\ Remember(q, SubSeq(entries, 1, Remembered(n)))
    /\ Insert(SubSeq(entries, 1, IF landed THEN n + 1 ELSE n))
    /\ conn' \in IF conn = "up" /\ ~ landed THEN {"up", "down"} ELSE {"down"}
    /\ Answered(q, "INTERNAL_ERROR", None, FALSE)
    /\ UNCHANGED cache

\* The process is started again: PostgresTelemetryStore connects anew, and
\* nothing is read back.
Restart ==
    /\ life < MaxLives
    /\ life' = life + 1
    /\ cache' = [k \in {} |-> None]
    /\ models' = [m \in ModelId |-> None]
    /\ lists' = <<>>
    /\ conn' = "up"
    /\ UNCHANGED <<site, clock, db, told, handled>>

Tick ==
    /\ clock < MaxTime
    /\ clock' = clock + 1
    /\ UNCHANGED <<site, life, cache, models, lists, conn, db, told, handled>>

Next ==
    \/ \E q \in Request :
        \/ Replay(q)
        \/ Complete(q)
        \/ \E n \in 0..Len(PlanOf(q).writes) - 1, landed \in BOOLEAN :
                FailAtWrite(q, n, landed)
    \/ Restart
    \/ Tick

Spec == Init /\ [][Next]_vars
-----------------------------------------------------------------------------
KeyOf(q) == <<q.route, q.key>>
Executed(o) == o.code = "OK" /\ ~ o.replay

TypeOK ==
    /\ site \in DOMAIN Deployment
    /\ clock \in 0..MaxTime
    /\ life \in 1..MaxLives
    /\ handled \in 0..MaxHandled
    /\ conn \in {"up", "down"}
    /\ Backend = "memory" => conn = "up" /\ db = <<>>
    /\ DOMAIN cache \subseteq CacheKey
    /\ DOMAIN models = ModelId
    /\ \A o \in told : o.request \in Request /\ o.life \in 1..life /\ o.at \in 0..clock

\* "persistidos" (PRD F11): whoever was answered OK by an execution finds
\* every object it sent in control_plane_events, through all failures and
\* restarts since, and in the memory that serves reads until the next start.
AcceptedIsKept ==
    \A o \in told : Executed(o) =>
        \A w \in ToSet(PlanOf(o.request).writes) :
            LET entry == [kind |-> w.kind, object |-> w.object,
                          by |-> KeyOf(o.request), life |-> o.life]
            IN  /\ Backend = "postgres" => entry \in ToSet(db)
                /\ IsListed(entry) /\ o.life = life => entry \in ToSet(lists)

\* "idempotencia por endpoint (route + X-Idempotency-Key)": within one life
\* of the process, all successful answers to one key are equal, even when
\* failed attempts came first or the payload has changed in between.
ReplayRepeatsAnswer ==
    \A o, p \in told :
        /\ o.code = "OK" /\ p.code = "OK"
        /\ o.life = p.life
        /\ KeyOf(o.request) = KeyOf(p.request)
        => o.result = p.result

EffectsOf(k, log) == Restrict(log, {i \in DOMAIN log : log[i].by = k})

AnsweredOK(k, lives) ==
    \E o \in told : o.code = "OK" /\ KeyOf(o.request) = k /\ o.life \in lives

\* A key that was answered OK in this life has no further effect in it,
\* neither in memory nor in the table.
ReplayHasNoEffect ==
    [][\A k \in CacheKey : AnsweredOK(k, {life}) /\ life' = life =>
            /\ EffectsOf(k, lists') = EffectsOf(k, lists)
            /\ EffectsOf(k, db') = EffectsOf(k, db)]_vars

\* Where the table has what was written to the lists in this life, and where
\* it has the upserts of m of this life.
ListedInDb == {i \in DOMAIN db : db[i].life = life /\ IsListed(db[i])}
UpsertsInDb(m) == {i \in UpsertsOf(m, db) : db[i].life = life}

\* Reads never miss what the table has: within a life, the table's entries
\* are a subsequence of the memory's, whatever failed in between.
MemoryCoversDb ==
    \E at \in [ListedInDb -> DOMAIN lists] :
        \A i, j \in ListedInDb :
            /\ lists[at[i]] = db[i]
            /\ i < j => at[i] < at[j]

\* A model in the table is in the catalog, and while no database failure
\* separates them, the catalog serves the version the table got last.
CatalogFollowsDb ==
    \A m \in ModelId : UpsertsInDb(m) # {} =>
        /\ models[m] # None
        /\ (\A o \in told : o.life = life => o.code # "INTERNAL_ERROR")
            => models[m] = db[Max(UpsertsInDb(m))].object.version

SameQuestion(o, p) ==
    /\ o.request.route = "budget/check" /\ p.request.route = "budget/check"
    /\ Executed(o) /\ Executed(p)
    /\ o.request.body.policy = p.request.body.policy
    /\ o.result.snapshot = p.result.snapshot

\* "bloqueio deterministico" (PRD F11): a snapshot that a policy has blocked
\* stays blocked by it; only a newer snapshot lifts the circuit breaker.
BlockedStaysBlocked ==
    \A o, p \in told :
        SameQuestion(o, p) /\ o.at <= p.at /\ o.result.blocked => p.result.blocked

\* The budget fails closed: a check without a snapshot of its own is allowed
\* only on a snapshot that was sent in this life of the process, is within
\* its limits and, where the policy says so, is fresh.
AllowIsJustified ==
    \A o \in told :
        /\ Executed(o) /\ o.request.route = "budget/check"
        /\ ~ o.result.blocked
        /\ o.request.body.snapshot = None
        => \E p \in told :
            /\ p.request.route = "budget/snapshots"
            /\ p.life = o.life /\ p.at <= o.at
            /\ LET s == p.request.body
                    policy == o.request.body.policy
               IN  /\ s.id = o.result.snapshot
                   /\ s.usage <= s.limit /\ s.burn <= policy.threshold
                   /\ policy.block_stale => o.at - s.at <= policy.freshness

-----------------------------------------------------------------------------
(***************************************************************************)
(* A claim of the repository that the code does not meet.                  *)
(***************************************************************************)

\* TC-IDM-01 (PRD F11): a replay with a repeated idempotency_key does not
\* duplicate its effect.
ReplayNeverDuplicates ==
    [][\A k \in CacheKey : AnsweredOK(k, 1..MaxLives) =>
            EffectsOf(k, db') = EffectsOf(k, db)]_vars
=============================================================================
