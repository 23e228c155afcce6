------------------------- MODULE ControlPlaneProofs -------------------------
(***************************************************************************)
(* What ControlPlaneService promises, for every set of deployments and     *)
(* requests and any number of requests, failures and restarts.             *)
(***************************************************************************)
EXTENDS ControlPlane, FiniteSetTheorems, WellFoundedInduction, TLAPS

-----------------------------------------------------------------------------
(* Greatest and least positions.                                           *)

\* Every non-empty set of naturals has a least element.
LEMMA LeastNat ==
    ASSUME NEW S \in SUBSET Nat, S # {}
    PROVE  \E x \in S : \A y \in S : x <= y
<1> DEFINE Less == OpToRel(<, Nat)
<1>1. IsWellFoundedOn(Less, Nat)
  BY NatLessThanWellFounded
<1>2. \A x, y \in Nat : x < y => <<x, y>> \in Less
  BY DEF OpToRel
<1> HIDE DEF Less
<1>3. PICK x \in S : \A y \in S : <<y, x>> \notin Less
  BY <1>1, WFMin
<1>4. \A y \in S : y \in Nat /\ x \in Nat /\ ~ (y < x)
  BY <1>2, <1>3, ZenonT(60)
<1> QED
  BY <1>4

\* The greatest of a non-empty set of positions is one of them.
LEMMA MaxIsGreatest ==
    ASSUME NEW n \in Nat, NEW S \in SUBSET (1..n), S # {}
    PROVE  /\ Max(S) \in S
           /\ \A y \in S : y <= Max(S)
<1> DEFINE T == {n - y : y \in S}
<1>1. T \in SUBSET Nat
  OBVIOUS
<1>2. T # {}
  OBVIOUS
<1>3. \E x \in T : \A z \in T : x <= z
  <2> HIDE DEF T
  <2> QED
    BY <1>1, <1>2, LeastNat
<1>4. PICK g \in S : \A y \in S : n - g <= n - y
  BY <1>3
<1>5. \A y \in S : g >= y
  BY <1>4
<1> QED
  BY <1>5 DEF Max

-----------------------------------------------------------------------------
(* The writes of the handlers.                                             *)

\* What the handlers write down.
Objects ==
    {q.body : q \in Request}
    \cup (UNION {ToSet(q.body.models) : q \in {q \in Request : q.route = "model-catalog/sync"}})
    \cup {q.body.policy : q \in {q \in Request : q.route = "budget/check"}}

\* The models of a sync that are stored are those before the first invalid.
LEMMA FirstInvalidIsPosition ==
    ASSUME NEW ms, Len(ms) \in Nat
    PROVE  FirstInvalid(ms) \in 1..Len(ms) + 1
<1> DEFINE S == {i \in 1..Len(ms) + 1 : i <= Len(ms) => ~ ms[i].valid}
<1>1. S \in SUBSET Nat /\ Len(ms) + 1 \in S
  OBVIOUS
<1>2. \E x \in S : \A y \in S : x <= y
  <2> HIDE DEF S
  <2> QED
    BY <1>1, LeastNat
<1>3. PICK x \in S : \A y \in S : x <= y
  BY <1>2
<1>4. x \in 1..Len(ms) + 1 /\ (x <= Len(ms) => ~ ms[x].valid)
  OBVIOUS
<1>5. ASSUME NEW j \in 1..x - 1
      PROVE  ms[j].valid
  <2>1. j \in 1..Len(ms) + 1 /\ ~ (x <= j)
    BY <1>4
  <2>2. j \notin S
    BY <1>3, <2>1
  <2> QED
    BY <2>1, <2>2
<1> QED
  BY <1>4, <1>5 DEF FirstInvalid

\* No write at all, or a single one.
LEMMA AtMostOneWrite ==
    ASSUME NEW w, NEW kind, NEW object, w = <<>> \/ w = <<Write(kind, object)>>
    PROVE  /\ Len(w) \in Nat /\ DOMAIN w = 1..Len(w) /\ Len(w) <= 1
           /\ \A i \in 1..Len(w) : w[i].kind = kind /\ w[i].object = object
<1>1. CASE w = <<>>
  BY <1>1
<1>2. CASE w = <<Write(kind, object)>>
  <2> DEFINE x == Write(kind, object)
  <2>1. x.kind = kind /\ x.object = object
    BY DEF Write
  <2> HIDE DEF x
  <2>2. w = <<x>>
    BY <1>2 DEF x
  <2>3. Len(w) = 1 /\ DOMAIN w = 1..1 /\ w[1] = x
    BY <2>2
  <2> QED
    BY <2>1, <2>3
<1> QED
  BY <1>1, <1>2

\* What each handler writes, if it gets so far.
WrittenFor(q, w) ==
    /\ q.route = "model-catalog/sync" =>
            w = IF ~ q.body.valid THEN <<>>
                ELSE [i \in 1..FirstInvalid(q.body.models) - 1 |->
                        Write("models_catalog", q.body.models[i])]
    /\ q.route = "router/decide" => w = <<>> \/ w = <<Write("router_decision", q.body)>>
    /\ q.route = "runs" => w = <<>> \/ w = <<Write("llm_run", q.body)>>
    /\ q.route = "budget/snapshots" =>
            w = IF q.body.valid THEN <<Write("credits_snapshot", q.body)>> ELSE <<>>
    /\ q.route = "budget/check" =>
            w = IF ~ q.body.policy.valid THEN <<>>
                ELSE <<Write("budget_policy", q.body.policy)>>
    /\ q.route = "a2a/delegate" =>
            w = <<>> \/ w = <<Write("a2a_delegation_event", q.body)>>
    /\ q.route = "hooks/ingest" =>
            w = <<>> \/ w = <<Write("webhook_ingest_event", q.body)>>

\* What a request writes is what its route's handler does.
LEMMA WritesByRoute == ASSUME NEW q PROVE WrittenFor(q, PlanOf(q).writes)
<1> USE DEF Stop, Plan
<1> DEFINE b == q.body
<1>1. SyncModelCatalog(b).writes =
        IF ~ b.valid THEN <<>>
        ELSE [i \in 1..FirstInvalid(b.models) - 1 |-> Write("models_catalog", b.models[i])]
  BY DEF SyncModelCatalog
<1>2. DecideRouter(b).writes \in {<<>>, <<Write("router_decision", b)>>}
  BY DEF DecideRouter
<1>3. IngestRun(b).writes \in {<<>>, <<Write("llm_run", b)>>}
  BY DEF IngestRun
<1>4. IngestBudgetSnapshot(b).writes =
        IF b.valid THEN <<Write("credits_snapshot", b)>> ELSE <<>>
  BY DEF IngestBudgetSnapshot
<1>5. CheckBudget(b).writes =
        IF ~ b.policy.valid THEN <<>> ELSE <<Write("budget_policy", b.policy)>>
  BY DEF CheckBudget
<1>6. DelegateA2A(b).writes \in {<<>>, <<Write("a2a_delegation_event", b)>>}
  BY DEF DelegateA2A
<1>7. IngestWebhook(b).writes \in {<<>>, <<Write("webhook_ingest_event", b)>>}
  BY DEF IngestWebhook
<1> QED
  BY <1>1, <1>2, <1>3, <1>4, <1>5, <1>6, <1>7 DEF PlanOf, WrittenFor

\* The entries of a function of writes, one by one.
LEMMA SyncWritesAreUpserts ==
    ASSUME NEW ms, NEW n \in Nat, NEW w,
           w = [i \in 1..n |-> Write("models_catalog", ms[i])]
    PROVE  /\ Len(w) = n /\ DOMAIN w = 1..n
           /\ \A i \in 1..n : w[i].kind = "models_catalog" /\ w[i].object = ms[i]
<1>1. Len(w) = n /\ DOMAIN w = 1..n
  OBVIOUS
<1>2. \A i \in 1..n : w[i] = Write("models_catalog", ms[i])
  OBVIOUS
<1> QED
  BY <1>1, <1>2 DEF Write

Kinds ==
    {"models_catalog", "router_decision", "llm_run", "credits_snapshot",
     "budget_policy", "a2a_delegation_event", "webhook_ingest_event"}

\* Writes that are recorded, upserts alone, or at most one object for a list.
Recorded(w) ==
    /\ Len(w) \in Nat /\ DOMAIN w = 1..Len(w)
    /\ \A i \in 1..Len(w) : w[i].kind \in Kinds /\ w[i].object \in Objects
Upserts(w) ==
    \A i \in 1..Len(w) : w[i].kind = "models_catalog" /\ w[i].object.version # None
Listed(q, w) ==
    /\ Len(w) <= 1
    /\ \A i \in 1..Len(w) :
        /\ w[i].kind # "models_catalog"
        /\ w[i].kind = "credits_snapshot" =>
            q.route = "budget/snapshots" /\ w[i].object = q.body /\ q.body.valid

\* The writes of a sync are upserts of its models; every other handler writes
\* at most one object, to a list, and only a snapshot's handler a snapshot.
LEMMA PlanWrites ==
    ASSUME site \in DOMAIN Deployment, NEW q \in Request, NEW w, WrittenFor(q, w)
    PROVE  /\ Recorded(w)
           /\ q.route = "model-catalog/sync" => Upserts(w)
           /\ q.route # "model-catalog/sync" => Listed(q, w)
<1>0. q \in Deployment[site].requests /\ q.route \in Routes
  BY DeploymentAssumption DEF Request
<1>1. CASE q.route = "model-catalog/sync"
  <2> DEFINE ms == q.body.models
             n == FirstInvalid(ms) - 1
  <2>1. w = (IF ~ q.body.valid THEN <<>>
             ELSE [i \in 1..n |-> Write("models_catalog", ms[i])])
    BY <1>1 DEF WrittenFor
  <2>2. ms \in Seq(ToSet(ms)) /\ \A m \in ToSet(ms) : m.version # None
    BY <1>0, <1>1, BodyAssumption
  <2>3. Len(ms) \in Nat /\ n \in 0..Len(ms)
    BY <2>2, FirstInvalidIsPosition
  <2>4. \A i \in 1..n : ms[i] \in ToSet(ms)
    BY <2>2, <2>3 DEF ToSet
  <2>5. \A i \in 1..n : ms[i] \in Objects /\ ms[i].version # None
    BY <1>1, <2>2, <2>4 DEF Objects
  <2>6. CASE ~ q.body.valid
    BY <1>1, <2>1, <2>6 DEF Recorded, Upserts
  <2>7. CASE q.body.valid
    <3>1. w = [i \in 1..n |-> Write("models_catalog", ms[i])] /\ n \in Nat
      BY <2>1, <2>3, <2>7
    <3> HIDE DEF n, ms
    <3>2. /\ Len(w) = n /\ DOMAIN w = 1..n
          /\ \A i \in 1..n : w[i].kind = "models_catalog" /\ w[i].object = ms[i]
      BY <3>1, SyncWritesAreUpserts
    <3>3. Recorded(w)
      BY <2>5, <3>1, <3>2 DEF Recorded, Kinds
    <3>4. Upserts(w)
      BY <2>5, <3>2 DEF Upserts
    <3> QED
      BY <1>1, <3>3, <3>4
  <2> QED
    BY <2>6, <2>7
<1>2. CASE q.route = "budget/check"
  <2> DEFINE policy == q.body.policy
  <2>1. w = <<>> \/ w = <<Write("budget_policy", policy)>>
    BY <1>2 DEF WrittenFor
  <2>2. policy \in Objects
    BY <1>2 DEF Objects
  <2> HIDE DEF policy
  <2>3. /\ Len(w) \in Nat /\ DOMAIN w = 1..Len(w) /\ Len(w) <= 1
        /\ \A i \in 1..Len(w) : w[i].kind = "budget_policy" /\ w[i].object = policy
    BY <2>1, AtMostOneWrite
  <2>4. Recorded(w)
    BY <2>2, <2>3 DEF Recorded, Kinds
  <2>5. Listed(q, w)
    BY <2>3 DEF Listed
  <2> QED
    BY <1>2, <2>4, <2>5
<1>3. ASSUME q.route \in Routes \ {"model-catalog/sync", "budget/check"}
      PROVE  \E kind \in {"router_decision", "llm_run", "credits_snapshot",
                          "a2a_delegation_event", "webhook_ingest_event"} :
                /\ w = <<>> \/ w = <<Write(kind, q.body)>>
                /\ kind = "credits_snapshot" =>
                        q.route = "budget/snapshots" /\ (w # <<>> => q.body.valid)
  <2>1. CASE q.route = "router/decide"
    BY <2>1 DEF WrittenFor
  <2>2. CASE q.route = "runs"
    BY <2>2 DEF WrittenFor
  <2>3. CASE q.route = "budget/snapshots"
    BY <2>3 DEF WrittenFor
  <2>4. CASE q.route = "a2a/delegate"
    BY <2>4 DEF WrittenFor
  <2>5. CASE q.route = "hooks/ingest"
    BY <2>5 DEF WrittenFor
  <2> QED
    BY <1>3, <2>1, <2>2, <2>3, <2>4, <2>5 DEF Routes
<1>4. CASE q.route \in Routes \ {"model-catalog/sync", "budget/check"}
  <2>1. PICK kind \in {"router_decision", "llm_run", "credits_snapshot",
                       "a2a_delegation_event", "webhook_ingest_event"} :
                /\ w = <<>> \/ w = <<Write(kind, q.body)>>
                /\ kind = "credits_snapshot" =>
                        q.route = "budget/snapshots" /\ (w # <<>> => q.body.valid)
    BY <1>3, <1>4
  <2>2. q.body \in Objects
    BY DEF Objects
  <2> DEFINE body == q.body
  <2>3. w = <<>> \/ w = <<Write(kind, body)>>
    BY <2>1
  <2> HIDE DEF body
  <2>4. /\ Len(w) \in Nat /\ DOMAIN w = 1..Len(w) /\ Len(w) <= 1
        /\ \A i \in 1..Len(w) : w[i].kind = kind /\ w[i].object = body
    BY <2>3, AtMostOneWrite
  <2>5. Recorded(w)
    BY <2>2, <2>4 DEF Recorded, Kinds, body
  <2>6. CASE w = <<>>
    <3>1. Len(w) = 0
      BY <2>6
    <3> QED
      BY <2>4, <2>5, <3>1, <1>4 DEF Listed
  <2>7. CASE w # <<>>
    <3>1. kind = "credits_snapshot" => q.route = "budget/snapshots" /\ q.body.valid
      BY <2>1, <2>7, ZenonT(60)
    <3>2. kind # "models_catalog"
      OBVIOUS
    <3>3. Listed(q, w)
      BY <2>4, <3>1, <3>2 DEF Listed, body
    <3> QED
      BY <1>4, <2>5, <3>3
  <2> QED
    BY <1>4, <2>5, <2>6, <2>7
<1> QED
  BY <1>0, <1>1, <1>2, <1>4

\* What a request writes does not depend on the state that it meets.
LEMMA WritesAreFixed ==
    ASSUME NEW q, q.route \in Routes
    PROVE  PlanOf(q)'.writes = PlanOf(q).writes
<1> USE DEF Stop, Plan
<1> DEFINE b == q.body
<1>1. SyncModelCatalog(b)'.writes = SyncModelCatalog(b).writes
  BY DEF SyncModelCatalog
<1>2. DecideRouter(b)'.writes = DecideRouter(b).writes
  BY DEF DecideRouter
<1>3. IngestRun(b)'.writes = IngestRun(b).writes
  BY DEF IngestRun
<1>4. IngestBudgetSnapshot(b)'.writes = IngestBudgetSnapshot(b).writes
  BY DEF IngestBudgetSnapshot
<1>5. CheckBudget(b)'.writes = CheckBudget(b).writes
  BY DEF CheckBudget
<1>6. DelegateA2A(b)'.writes = DelegateA2A(b).writes
  BY DEF DelegateA2A
<1>7. IngestWebhook(b)'.writes = IngestWebhook(b).writes
  BY DEF IngestWebhook
<1> HIDE DEF Stop, Plan
<1> QED
  BY <1>1, <1>2, <1>3, <1>4, <1>5, <1>6, <1>7 DEF PlanOf, Routes

-----------------------------------------------------------------------------
(***************************************************************************)
(* The inductive invariant.                                                *)
(***************************************************************************)
Entry == [kind : Kinds, object : Objects, by : CacheKey, life : 1..MaxLives]

\* The lists hold what this life of the process wrote to them, the table
\* nothing of a later one.
LogsOK ==
    /\ lists \in Seq(Entry) /\ db \in Seq(Entry)
    /\ \A i \in DOMAIN lists : IsListed(lists[i]) /\ lists[i].life = life
    /\ \A i \in DOMAIN db : db[i].life <= life

\* Whatever was answered OK in this life is what its key is cached with.
AnswersAreCached ==
    \A o \in told : o.code = "OK" /\ o.life = life =>
        KeyOf(o.request) \in DOMAIN cache /\ cache[KeyOf(o.request)] = o.result

\* p is the request, of the given life and not after at, that sent snapshot s.
Sends(p, s, l, at) ==
    /\ p.request.route = "budget/snapshots" /\ p.request.body = s
    /\ p.life = l /\ p.at <= at

\* Every snapshot in memory is valid, and a request of this life sent it.
SnapshotsWereSent ==
    \A i \in Snapshots :
        /\ lists[i].object.valid
        /\ \E p \in told : Sends(p, lists[i].object, life, clock)

BlockedAt(policy, s, at) ==
    \/ s.usage > s.limit
    \/ s.burn > policy.threshold
    \/ at - s.at > policy.freshness /\ policy.block_stale

\* Every executed check gave the verdict of its policy on a valid snapshot,
\* its own or one that was sent before in the same life.
JudgedOn(o, s) ==
    /\ s.valid /\ s.id = o.result.snapshot
    /\ o.result.blocked <=> BlockedAt(o.request.body.policy, s, o.at)
    /\ o.request.body.snapshot = None => \E p \in told : Sends(p, s, o.life, o.at)

ChecksAreJudged ==
    \A o \in told : Executed(o) /\ o.request.route = "budget/check" =>
        /\ o.request.body.policy.valid
        /\ \E s \in SnapshotsSent(site) : JudgedOn(o, s)

IInv ==
    /\ TypeOK
    /\ LogsOK
    /\ AnswersAreCached
    /\ ReplayRepeatsAnswer
    /\ AcceptedIsKept
    /\ MemoryCoversDb
    /\ CatalogFollowsDb
    /\ SnapshotsWereSent
    /\ ChecksAreJudged
-----------------------------------------------------------------------------
(***************************************************************************)
(* What a handler leaves behind, whether it ends or fails.                 *)
(***************************************************************************)

\* What depends on the deployment alone stays as it is.
LEMMA SiteFixes ==
    ASSUME site' = site
    PROVE  /\ Request' = Request /\ Backend' = Backend /\ CacheKey' = CacheKey
           /\ ModelId' = ModelId /\ Entry' = Entry
           /\ MaxTime' = MaxTime /\ MaxHandled' = MaxHandled /\ MaxLives' = MaxLives
BY DEF Request, Backend, CacheKey, ModelId, Entry, Objects, MaxTime, MaxHandled, MaxLives

\* Every request has its route and its key in the cache.
LEMMA RequestFacts ==
    ASSUME site \in DOMAIN Deployment, NEW q \in Request
    PROVE  q.route \in Routes /\ KeyOf(q) \in CacheKey
<1>1. q \in Deployment[site].requests
  BY DEF Request
<1> QED
  BY <1>1, DeploymentAssumption DEF CacheKey, CacheKeys, KeyOf

EntryOf(q, w) == [kind |-> w.kind, object |-> w.object, by |-> KeyOf(q), life |-> life]

\* es are the first entries of what q writes.
EntriesOf(q, es) ==
    /\ es \in Seq(Entry) /\ Len(es) <= Len(PlanOf(q).writes)
    /\ \A i \in 1..Len(es) : es[i] = EntryOf(q, PlanOf(q).writes[i])

\* The handler of q has put mem into memory and, of that, tab into the table.
HandlerStep(q, mem, tab) ==
    /\ EntriesOf(q, mem) /\ EntriesOf(q, tab) /\ Len(tab) <= Len(mem)
    /\ Remember(q, mem)
    /\ db' = IF Backend = "postgres" THEN db \o tab ELSE db
    /\ UNCHANGED <<site, clock, life>>

\* The entries of all writes of a request.
LEMMA EntriesAreWritten ==
    ASSUME TypeOK, NEW q \in Request
    PROVE  LET w == PlanOf(q).writes IN
           /\ Recorded(w)
           /\ Len(Entries(q, w)) = Len(w) /\ EntriesOf(q, Entries(q, w))
<1> DEFINE w == PlanOf(q).writes
           es == Entries(q, w)
<1>1. Recorded(w)
  BY WritesByRoute, PlanWrites DEF TypeOK
<1>2. KeyOf(q) \in CacheKey /\ life \in 1..MaxLives
  BY RequestFacts DEF TypeOK
<1>3. es = [i \in 1..Len(w) |-> EntryOf(q, w[i])]
  BY DEF Entries, EntryOf, KeyOf
<1> HIDE DEF es
<1>4. \A i \in 1..Len(w) : EntryOf(q, w[i]) \in Entry
  BY <1>1, <1>2 DEF EntryOf, Entry, Recorded
<1>5. Len(w) \in Nat
  BY <1>1 DEF Recorded
<1>6. es \in Seq(Entry) /\ Len(es) = Len(w) /\ \A i \in 1..Len(w) : es[i] = EntryOf(q, w[i])
  <2> HIDE DEF w
  <2> QED
    BY <1>3, <1>4, <1>5
<1>7. EntriesOf(q, es)
  BY <1>5, <1>6 DEF EntriesOf
<1> QED
  BY <1>1, <1>6, <1>7 DEF es

\* A handler that runs to its end has put all of it in both.
LEMMA CompleteIsStep ==
    ASSUME TypeOK, NEW q \in Request, Complete(q)
    PROVE  LET es == Entries(q, PlanOf(q).writes) IN HandlerStep(q, es, es)
<1> DEFINE es == Entries(q, PlanOf(q).writes)
<1>1. EntriesOf(q, es) /\ Len(es) \in Nat
  BY EntriesAreWritten DEF Recorded
<1>2. /\ Remember(q, es)
      /\ db' = (IF Backend = "postgres" THEN db \o es ELSE db)
      /\ UNCHANGED <<site, clock, life>>
  BY DEF Complete, HandleStarts, Insert
<1> HIDE DEF es
<1>3. HandlerStep(q, es, es)
  BY <1>1, <1>2 DEF HandlerStep
<1> QED
  BY <1>3 DEF es

\* The first entries of a request's entries.
LEMMA PrefixOfEntries ==
    ASSUME NEW q, NEW es, EntriesOf(q, es), Len(PlanOf(q).writes) \in Nat,
           NEW k \in 0..Len(es)
    PROVE  EntriesOf(q, SubSeq(es, 1, k)) /\ Len(SubSeq(es, 1, k)) = k
<1>1. es \in Seq(Entry) /\ Len(es) \in Nat
  BY DEF EntriesOf
<1> DEFINE s == SubSeq(es, 1, k)
<1>2. s \in Seq(Entry) /\ Len(s) = k /\ \A i \in 1..k : s[i] = es[i]
  BY <1>1
<1> HIDE DEF s
<1>3. EntriesOf(q, s)
  BY <1>1, <1>2 DEF EntriesOf
<1> QED
  BY <1>2, <1>3 DEF s

\* A handler that fails at its write n + 1 has put that one into memory, and
\* it has or has not landed in the table.
LEMMA FailIsStep ==
    ASSUME TypeOK, NEW q \in Request, NEW n \in Nat, NEW landed \in BOOLEAN,
           FailAtWrite(q, n, landed)
    PROVE  \E mem, tab : HandlerStep(q, mem, tab) /\ Len(mem) = n + 1
<1> DEFINE w == PlanOf(q).writes
           es == Entries(q, w)
           k == IF landed THEN n + 1 ELSE n
           mem == SubSeq(es, 1, n + 1)
           tab == SubSeq(es, 1, k)
<1>1. EntriesOf(q, es) /\ Len(es) = Len(w) /\ Len(w) \in Nat
  BY EntriesAreWritten DEF Recorded
<1>2. n < Len(w)
  BY DEF FailAtWrite
<1>3. /\ Remember(q, mem)
      /\ db' = (IF Backend = "postgres" THEN db \o tab ELSE db)
      /\ UNCHANGED <<site, clock, life>>
  BY DEF FailAtWrite, HandleStarts, Insert, Remembered
<1>4. n + 1 \in 0..Len(es) /\ k \in 0..Len(es) /\ k <= n + 1
  BY <1>1, <1>2
<1> HIDE DEF es, k
<1>5. EntriesOf(q, mem) /\ Len(mem) = n + 1
  BY <1>1, <1>4, PrefixOfEntries
<1>6. EntriesOf(q, tab) /\ Len(tab) = k
  BY <1>1, <1>4, PrefixOfEntries
<1> HIDE DEF mem, tab, w
<1>7. HandlerStep(q, mem, tab)
  BY <1>3, <1>4, <1>5, <1>6 DEF HandlerStep
<1> QED
  BY <1>5, <1>7

\* Entries of a sync are upserts; any other handler lists one entry at most.
LEMMA EntriesByRoute ==
    ASSUME site \in DOMAIN Deployment, NEW q \in Request, NEW es, EntriesOf(q, es)
    PROVE  /\ Len(es) \in Nat /\ DOMAIN es = 1..Len(es)
           /\ \A i \in 1..Len(es) : es[i].by = KeyOf(q) /\ es[i].life = life
           /\ q.route = "model-catalog/sync" =>
                \A i \in 1..Len(es) : ~ IsListed(es[i]) /\ es[i].object.version # None
           /\ q.route # "model-catalog/sync" =>
                /\ Len(es) <= 1
                /\ \A i \in 1..Len(es) :
                    /\ IsListed(es[i])
                    /\ es[i].kind = "credits_snapshot" =>
                        q.route = "budget/snapshots" /\ es[i].object = q.body /\ q.body.valid
<1> DEFINE w == PlanOf(q).writes
<1>1. /\ Recorded(w)
      /\ q.route = "model-catalog/sync" => Upserts(w)
      /\ q.route # "model-catalog/sync" => Listed(q, w)
  BY WritesByRoute, PlanWrites
<1>2. /\ es \in Seq(Entry) /\ Len(es) <= Len(w)
      /\ \A i \in 1..Len(es) : es[i] = EntryOf(q, w[i])
  BY DEF EntriesOf
<1> HIDE DEF w
<1>3. Len(es) \in Nat /\ DOMAIN es = 1..Len(es) /\ Len(w) \in Nat
  BY <1>1, <1>2 DEF Recorded
<1>4. \A i \in 1..Len(es) :
        /\ i \in 1..Len(w)
        /\ es[i].kind = w[i].kind /\ es[i].object = w[i].object
        /\ es[i].by = KeyOf(q) /\ es[i].life = life
  BY <1>2, <1>3 DEF EntryOf
<1>5. ASSUME q.route = "model-catalog/sync"
      PROVE  \A i \in 1..Len(es) : ~ IsListed(es[i]) /\ es[i].object.version # None
  BY <1>1, <1>4, <1>5 DEF Upserts, IsListed
<1>6. ASSUME q.route # "model-catalog/sync"
      PROVE  /\ Len(es) <= 1
             /\ \A i \in 1..Len(es) :
                /\ IsListed(es[i])
                /\ es[i].kind = "credits_snapshot" =>
                    q.route = "budget/snapshots" /\ es[i].object = q.body /\ q.body.valid
  <2>1. Listed(q, w)
    BY <1>1, <1>6
  <2>2. Len(es) <= 1
    BY <1>2, <1>3, <2>1 DEF Listed
  <2> QED
    BY <1>4, <2>1, <2>2 DEF Listed, IsListed
<1> QED
  BY <1>3, <1>4, <1>5, <1>6

-----------------------------------------------------------------------------
(***************************************************************************)
(* What a handler does to the lists and the table.                         *)
(***************************************************************************)

\* What was there stays where it was, and what is new comes after it.
LEMMA Appended ==
    ASSUME NEW S, NEW s \in Seq(S), NEW t \in Seq(S)
    PROVE  /\ s \o t \in Seq(S) /\ Len(s) \in Nat /\ Len(t) \in Nat
           /\ Len(s \o t) = Len(s) + Len(t)
           /\ DOMAIN s = 1..Len(s) /\ DOMAIN t = 1..Len(t)
           /\ DOMAIN (s \o t) = 1..Len(s) + Len(t)
           /\ \A i \in DOMAIN s : i \in DOMAIN (s \o t) /\ (s \o t)[i] = s[i]
           /\ \A i \in DOMAIN t :
                Len(s) + i \in DOMAIN (s \o t) /\ (s \o t)[Len(s) + i] = t[i]
           /\ \A i \in DOMAIN (s \o t) : i \notin DOMAIN s =>
                i - Len(s) \in DOMAIN t /\ (s \o t)[i] = t[i - Len(s)]
OBVIOUS

\* An entry that q has put into a list.
NewInList(q, e) ==
    /\ IsListed(e) /\ e.life = life /\ e.by = KeyOf(q)
    /\ e.kind = "credits_snapshot" =>
        q.route = "budget/snapshots" /\ e.object = q.body /\ q.body.valid

\* The lists and the table after a handler, as what was appended to them.
LEMMA HandlerAppends ==
    ASSUME TypeOK, LogsOK, NEW q \in Request, NEW mem, NEW tab, HandlerStep(q, mem, tab)
    PROVE  \E new, ins \in Seq(Entry) :
            /\ lists' = lists \o new /\ db' = db \o ins
            /\ \A i \in DOMAIN new : NewInList(q, new[i])
            /\ \A i \in DOMAIN ins : ins[i].life = life /\ ins[i].by = KeyOf(q)
            /\ ins = IF Backend = "postgres" THEN tab ELSE <<>>
            /\ new = IF q.route = "model-catalog/sync" THEN <<>> ELSE mem
<1> DEFINE sync == q.route = "model-catalog/sync"
           new == IF sync THEN <<>> ELSE mem
           ins == IF Backend = "postgres" THEN tab ELSE <<>>
<1>1. EntriesOf(q, mem) /\ EntriesOf(q, tab) /\ site \in DOMAIN Deployment
  BY DEF HandlerStep, TypeOK
<1>2. mem \in Seq(Entry) /\ tab \in Seq(Entry) /\ lists \in Seq(Entry) /\ db \in Seq(Entry)
  BY <1>1 DEF EntriesOf, LogsOK
<1>3. /\ DOMAIN mem = 1..Len(mem) /\ DOMAIN tab = 1..Len(tab)
      /\ \A i \in 1..Len(mem) : mem[i].by = KeyOf(q) /\ mem[i].life = life
      /\ \A i \in 1..Len(tab) : tab[i].by = KeyOf(q) /\ tab[i].life = life
      /\ q.route # "model-catalog/sync" =>
            \A i \in 1..Len(mem) :
                /\ IsListed(mem[i])
                /\ mem[i].kind = "credits_snapshot" =>
                    q.route = "budget/snapshots" /\ mem[i].object = q.body /\ q.body.valid
  BY <1>1, EntriesByRoute
<1>4. lists' = (IF sync THEN lists ELSE lists \o mem)
      /\ db' = (IF Backend = "postgres" THEN db \o tab ELSE db)
  BY DEF HandlerStep, Remember
<1>5. lists \o <<>> = lists /\ db \o <<>> = db
  BY <1>2
<1>6. new \in Seq(Entry) /\ ins \in Seq(Entry)
  BY <1>2
<1>7. lists' = lists \o new /\ db' = db \o ins
  BY <1>4, <1>5
<1>8. \A i \in DOMAIN new : NewInList(q, new[i])
  <2>1. CASE sync
    BY <2>1
  <2>2. CASE ~ sync
    BY <1>3, <2>2 DEF NewInList
  <2> QED
    BY <2>1, <2>2
<1>9. \A i \in DOMAIN ins : ins[i].life = life /\ ins[i].by = KeyOf(q)
  <2>1. CASE Backend = "postgres"
    BY <1>3, <2>1
  <2>2. CASE Backend # "postgres"
    BY <2>2
  <2> QED
    BY <2>1, <2>2
<1>10. new = (IF sync THEN <<>> ELSE mem) /\ ins = (IF Backend = "postgres" THEN tab ELSE <<>>)
  OBVIOUS
<1> HIDE DEF new, ins
<1> QED
  BY <1>6, <1>7, <1>8, <1>9, <1>10

\* A handler keeps the lists and the table as they should be, and everything
\* that was in them.
LEMMA HandlerKeepsLogs ==
    ASSUME TypeOK, LogsOK, NEW q \in Request, NEW mem, NEW tab, HandlerStep(q, mem, tab)
    PROVE  /\ LogsOK'
           /\ ToSet(lists) \subseteq ToSet(lists') /\ ToSet(db) \subseteq ToSet(db')
<1>0. site' = site /\ life' = life /\ Entry' = Entry /\ life \in Nat
  BY SiteFixes DEF HandlerStep, TypeOK
<1>1. PICK new, ins \in Seq(Entry) :
        /\ lists' = lists \o new /\ db' = db \o ins
        /\ \A i \in DOMAIN new : NewInList(q, new[i])
        /\ \A i \in DOMAIN ins : ins[i].life = life
  BY HandlerAppends, ZenonT(60)
<1>2. lists \in Seq(Entry) /\ db \in Seq(Entry)
  BY DEF LogsOK
<1> HIDE DEF Entry
<1>3. /\ lists' \in Seq(Entry)
      /\ \A i \in DOMAIN lists : i \in DOMAIN lists' /\ lists'[i] = lists[i]
      /\ \A i \in DOMAIN lists' : i \notin DOMAIN lists =>
            i - Len(lists) \in DOMAIN new /\ lists'[i] = new[i - Len(lists)]
  BY <1>1, <1>2, Appended
<1>4. /\ db' \in Seq(Entry)
      /\ \A i \in DOMAIN db : i \in DOMAIN db' /\ db'[i] = db[i]
      /\ \A i \in DOMAIN db' : i \notin DOMAIN db =>
            i - Len(db) \in DOMAIN ins /\ db'[i] = ins[i - Len(db)]
  BY <1>1, <1>2, Appended
<1>5. ASSUME NEW i \in DOMAIN lists'
      PROVE  IsListed(lists'[i]) /\ lists'[i].life = life
  <2>1. CASE i \in DOMAIN lists
    BY <1>3, <2>1 DEF LogsOK
  <2>2. CASE i \notin DOMAIN lists
    BY <1>1, <1>3, <2>2 DEF NewInList
  <2> QED
    BY <2>1, <2>2
<1>6. ASSUME NEW i \in DOMAIN db'
      PROVE  db'[i].life <= life
  <2>1. CASE i \in DOMAIN db
    BY <1>4, <2>1 DEF LogsOK
  <2>2. CASE i \notin DOMAIN db
    BY <1>0, <1>1, <1>4, <2>2
  <2> QED
    BY <2>1, <2>2
<1>7. LogsOK'
  <2>1. \A i \in DOMAIN lists' : IsListed(lists[i])' /\ lists'[i].life = life'
    BY <1>0, <1>5 DEF IsListed
  <2> QED
    BY <1>0, <1>3, <1>4, <1>6, <2>1 DEF LogsOK
<1>8. ToSet(lists) \subseteq ToSet(lists') /\ ToSet(db) \subseteq ToSet(db')
  BY <1>3, <1>4 DEF ToSet
<1> QED
  BY <1>7, <1>8

\* A handler keeps the memory covering the table: what it puts into the table
\* it has put into memory, in the same order.
LEMMA HandlerKeepsCover ==
    ASSUME TypeOK, LogsOK, MemoryCoversDb,
           NEW q \in Request, NEW mem, NEW tab, HandlerStep(q, mem, tab)
    PROVE  MemoryCoversDb'
<1>0. site' = site /\ life' = life /\ site \in DOMAIN Deployment
  BY DEF HandlerStep, TypeOK
<1>1. PICK new, ins \in Seq(Entry) :
        /\ lists' = lists \o new /\ db' = db \o ins
        /\ ins = IF Backend = "postgres" THEN tab ELSE <<>>
        /\ new = IF q.route = "model-catalog/sync" THEN <<>> ELSE mem
  BY HandlerAppends, ZenonT(60)
<1>2. lists \in Seq(Entry) /\ db \in Seq(Entry)
  BY DEF LogsOK
<1>3. /\ EntriesOf(q, mem) /\ EntriesOf(q, tab) /\ Len(tab) <= Len(mem)
      /\ Len(mem) \in Nat /\ DOMAIN mem = 1..Len(mem)
      /\ Len(tab) \in Nat /\ DOMAIN tab = 1..Len(tab)
      /\ q.route = "model-catalog/sync" => \A k \in 1..Len(tab) : ~ IsListed(tab[k])
  BY <1>0, EntriesByRoute DEF HandlerStep
<1>4. \A k \in DOMAIN tab : k \in DOMAIN mem /\ mem[k] = tab[k]
  BY <1>3 DEF EntriesOf
<1>5. \A k \in DOMAIN ins : IsListed(ins[k]) => k \in DOMAIN new /\ new[k] = ins[k]
  <2>1. CASE Backend # "postgres"
    BY <1>1, <2>1
  <2>2. CASE Backend = "postgres"
    BY <1>1, <1>3, <1>4, <2>2
  <2> QED
    BY <2>1, <2>2
<1> HIDE DEF Entry
<1>6. /\ Len(lists) \in Nat /\ DOMAIN lists = 1..Len(lists)
      /\ \A i \in DOMAIN lists : i \in DOMAIN lists' /\ lists'[i] = lists[i]
      /\ \A k \in DOMAIN new :
            Len(lists) + k \in DOMAIN lists' /\ lists'[Len(lists) + k] = new[k]
  BY <1>1, <1>2, Appended
<1>7. /\ Len(db) \in Nat /\ DOMAIN db = 1..Len(db)
      /\ DOMAIN db' = 1..Len(db) + Len(ins) /\ DOMAIN ins = 1..Len(ins) /\ Len(ins) \in Nat
      /\ \A i \in DOMAIN db : i \in DOMAIN db' /\ db'[i] = db[i]
      /\ \A i \in DOMAIN db' : i \notin DOMAIN db =>
            i - Len(db) \in DOMAIN ins /\ db'[i] = ins[i - Len(db)]
  BY <1>1, <1>2, Appended
<1>8. PICK at \in [ListedInDb -> DOMAIN lists] :
        \A i, j \in ListedInDb : lists[at[i]] = db[i] /\ (i < j => at[i] < at[j])
  BY DEF MemoryCoversDb
<1> DEFINE L == ListedInDb
           N == ListedInDb'
           to == [i \in N |-> IF i \in L THEN at[i] ELSE Len(lists) + (i - Len(db))]
<1>9. /\ L \subseteq 1..Len(db)
      /\ \A i \in N : i \in DOMAIN db' /\ IsListed(db'[i])
      /\ \A i \in N : i \in DOMAIN db => i \in L
  <2>1. \A i \in N : i \in DOMAIN db' /\ IsListed(db'[i]) /\ db'[i].life = life
    BY <1>0 DEF ListedInDb, IsListed
  <2>2. \A i \in N : i \in DOMAIN db => i \in L
    BY <1>7, <2>1 DEF ListedInDb
  <2>3. L \subseteq 1..Len(db)
    BY <1>7 DEF ListedInDb
  <2> QED
    BY <2>1, <2>2, <2>3
<1>10. ASSUME NEW i \in N, i \in L
       PROVE  /\ to[i] = at[i] /\ at[i] \in 1..Len(lists) /\ i \in 1..Len(db)
              /\ to[i] \in DOMAIN lists' /\ lists'[to[i]] = db'[i]
  BY <1>6, <1>7, <1>8, <1>9, <1>10
<1>11. ASSUME NEW i \in N, i \notin L
       PROVE  /\ i \in Nat /\ i > Len(db) /\ to[i] = Len(lists) + (i - Len(db))
              /\ to[i] \in DOMAIN lists' /\ lists'[to[i]] = db'[i]
  <2>1. i \in DOMAIN db' /\ i \notin DOMAIN db /\ IsListed(db'[i])
    BY <1>9, <1>11
  <2> DEFINE k == i - Len(db)
  <2>2. k \in DOMAIN ins /\ db'[i] = ins[k] /\ i \in Nat /\ i > Len(db)
    BY <1>7, <2>1
  <2>3. k \in DOMAIN new /\ new[k] = ins[k]
    BY <1>5, <2>1, <2>2
  <2>4. to[i] = Len(lists) + k
    BY <1>11
  <2> HIDE DEF to, k
  <2>5. to[i] \in DOMAIN lists' /\ lists'[to[i]] = db'[i]
    BY <1>6, <2>2, <2>3, <2>4
  <2> QED
    BY <2>2, <2>4, <2>5 DEF k
<1>12. to \in [N -> DOMAIN lists']
  BY <1>10, <1>11
<1>13. ASSUME NEW i \in N, NEW j \in N
       PROVE  lists'[to[i]] = db'[i] /\ (i < j => to[i] < to[j])
  <2>1. lists'[to[i]] = db'[i]
    BY <1>10, <1>11
  <2>2. CASE i \in L /\ j \in L
    BY <1>8, <1>10, <2>1, <2>2
  <2>3. CASE i \notin L \/ j \notin L
    <3> HIDE DEF to, L, N
    <3> QED
      BY <1>6, <1>7, <1>10, <1>11, <2>1, <2>3
  <2> QED
    BY <2>2, <2>3
<1>14. \E f \in [N -> DOMAIN lists'] :
        \A i, j \in N : lists'[f[i]] = db'[i] /\ (i < j => f[i] < f[j])
  <2> HIDE DEF to, N
  <2> QED
    BY <1>12, <1>13
<1> QED
  BY <1>14 DEF MemoryCoversDb

\* A snapshot comes to memory with the request that sends it.
LEMMA HandlerKeepsSnapshots ==
    ASSUME TypeOK, LogsOK, SnapshotsWereSent,
           NEW q \in Request, NEW mem, NEW tab, HandlerStep(q, mem, tab),
           told \subseteq told',
           NEW p \in told', p.request = q, p.life = life, p.at = clock
    PROVE  SnapshotsWereSent'
<1>0. life' = life /\ clock' = clock /\ clock \in Nat
  BY DEF HandlerStep, TypeOK
<1>1. PICK new, ins \in Seq(Entry) :
        /\ lists' = lists \o new /\ db' = db \o ins
        /\ \A i \in DOMAIN new : NewInList(q, new[i])
  BY HandlerAppends, ZenonT(60)
<1>2. /\ \A i \in DOMAIN lists : lists'[i] = lists[i]
      /\ \A i \in DOMAIN lists' : i \notin DOMAIN lists =>
            i - Len(lists) \in DOMAIN new /\ lists'[i] = new[i - Len(lists)]
  BY <1>1, Appended DEF LogsOK
<1> SUFFICES ASSUME NEW i \in DOMAIN lists', lists'[i].kind = "credits_snapshot"
             PROVE  /\ lists'[i].object.valid
                    /\ \E o \in told' : Sends(o, lists'[i].object, life, clock)
  BY <1>0 DEF SnapshotsWereSent, Snapshots, Sends
<1>3. CASE i \in DOMAIN lists
  BY <1>2, <1>3 DEF SnapshotsWereSent, Snapshots
<1>4. CASE i \notin DOMAIN lists
  <2>1. q.route = "budget/snapshots" /\ lists'[i].object = q.body /\ q.body.valid
    BY <1>1, <1>2, <1>4 DEF NewInList
  <2>2. Sends(p, lists'[i].object, life, clock)
    BY <1>0, <2>1 DEF Sends
  <2> QED
    BY <2>1, <2>2
<1> QED
  BY <1>3, <1>4

\* Positions that hold an upsert of a model are positions.
LEMMA UpsertsAreGreatest ==
    ASSUME NEW m, NEW log \in Seq(Entry), UpsertsOf(m, log) # {}
    PROVE  /\ Max(UpsertsOf(m, log)) \in UpsertsOf(m, log)
           /\ \A y \in UpsertsOf(m, log) : y <= Max(UpsertsOf(m, log))
<1> DEFINE U == UpsertsOf(m, log)
<1>1. U \in SUBSET (1..Len(log)) /\ Len(log) \in Nat
  BY DEF UpsertsOf
<1> HIDE DEF U
<1>2. U # {}
  BY DEF U
<1> QED
  BY <1>1, <1>2, MaxIsGreatest DEF U

\* A number above all others of a set of positions is its greatest.
LEMMA GreatestIsMax ==
    ASSUME NEW n \in Nat, NEW S \in SUBSET (1..n), NEW g \in S, \A y \in S : y <= g
    PROVE  Max(S) = g
<1>1. S # {}
  OBVIOUS
<1> DEFINE x == Max(S)
<1>2. x \in S /\ g <= x
  BY <1>1, MaxIsGreatest
<1> HIDE DEF x
<1>3. x <= g /\ x \in Nat /\ g \in Nat
  BY <1>2
<1>4. x = g
  BY <1>2, <1>3
<1> QED
  BY <1>4 DEF x

\* A handler that ends keeps the catalog what the table says, and one that
\* fails leaves every model of the table in the catalog.
LEMMA HandlerKeepsCatalog ==
    ASSUME TypeOK, LogsOK, CatalogFollowsDb,
           NEW q \in Request, NEW mem, NEW tab, HandlerStep(q, mem, tab),
           told \subseteq told',
           \/ mem = tab
           \/ \E o \in told' : o.life = life /\ o.code = "INTERNAL_ERROR"
    PROVE  CatalogFollowsDb'
<1>0. /\ site' = site /\ life' = life /\ site \in DOMAIN Deployment /\ ModelId' = ModelId
      /\ Backend = "postgres" \/ db = <<>>
  BY SiteFixes, DeploymentAssumption DEF HandlerStep, TypeOK, Backend
<1>1. PICK new, ins \in Seq(Entry) :
        /\ lists' = lists \o new /\ db' = db \o ins
        /\ ins = IF Backend = "postgres" THEN tab ELSE <<>>
        /\ new = IF q.route = "model-catalog/sync" THEN <<>> ELSE mem
  BY HandlerAppends, ZenonT(60)
<1>2. db \in Seq(Entry) /\ mem \in Seq(Entry) /\ tab \in Seq(Entry)
  BY DEF LogsOK, HandlerStep, EntriesOf
<1>3. /\ EntriesOf(q, mem) /\ EntriesOf(q, tab) /\ Len(tab) <= Len(mem)
      /\ Len(mem) \in Nat /\ DOMAIN mem = 1..Len(mem)
      /\ Len(tab) \in Nat /\ DOMAIN tab = 1..Len(tab)
      /\ \A k \in 1..Len(mem) : mem[k].life = life
      /\ q.route = "model-catalog/sync" =>
            \A k \in 1..Len(mem) : mem[k].object.version # None
      /\ q.route # "model-catalog/sync" => \A k \in 1..Len(tab) : IsListed(tab[k])
  BY <1>0, EntriesByRoute DEF HandlerStep
<1>4. \A k \in DOMAIN tab : k \in DOMAIN mem /\ mem[k] = tab[k]
  BY <1>3 DEF EntriesOf
<1>5. DOMAIN ins \subseteq DOMAIN mem /\ \A k \in DOMAIN ins : mem[k] = ins[k]
  <2>1. CASE Backend # "postgres"
    BY <1>1, <2>1
  <2>2. CASE Backend = "postgres"
    BY <1>1, <1>4, <2>2
  <2> QED
    BY <2>1, <2>2
<1>6. /\ Len(db) \in Nat /\ DOMAIN db = 1..Len(db) /\ db' \in Seq(Entry)
      /\ Len(ins) \in Nat /\ DOMAIN ins = 1..Len(ins) /\ DOMAIN db' = 1..Len(db) + Len(ins)
      /\ \A i \in DOMAIN db : i \in DOMAIN db' /\ db'[i] = db[i]
      /\ \A k \in DOMAIN ins :
            Len(db) + k \in DOMAIN db' /\ db'[Len(db) + k] = ins[k]
      /\ \A i \in DOMAIN db' : i \notin DOMAIN db =>
            i - Len(db) \in DOMAIN ins /\ db'[i] = ins[i - Len(db)]
  BY <1>1, <1>2, Appended
<1> SUFFICES ASSUME NEW m \in ModelId, UpsertsInDb(m)' # {}
             PROVE  /\ models'[m] # None
                    /\ (\A o \in told' : o.life = life => o.code # "INTERNAL_ERROR")
                        => models'[m] = db'[Max(UpsertsInDb(m)')].object.version
  BY <1>0 DEF CatalogFollowsDb
<1> DEFINE U == UpsertsInDb(m)
           V == UpsertsInDb(m)'
           M == UpsertsOf(m, mem)
           I == UpsertsOf(m, ins)
           Fine == \A o \in told' : o.life = life => o.code # "INTERNAL_ERROR"
<1>7. /\ U = {i \in DOMAIN db : db[i].kind = "models_catalog" /\ db[i].object.id = m
                                /\ db[i].life = life}
      /\ V = {i \in DOMAIN db' : db'[i].kind = "models_catalog" /\ db'[i].object.id = m
                                /\ db'[i].life = life}
      /\ I = {i \in DOMAIN ins : ins[i].kind = "models_catalog" /\ ins[i].object.id = m}
  BY <1>0 DEF UpsertsInDb, UpsertsOf
<1>8. U \subseteq V /\ U \in SUBSET (1..Len(db)) /\ V \in SUBSET (1..Len(db) + Len(ins))
  BY <1>6, <1>7
<1>9. \A i \in V : i \in U \/ (i \notin DOMAIN db /\ i - Len(db) \in I)
  BY <1>6, <1>7
<1>10. \A k \in I : Len(db) + k \in V /\ k \in M
  <2>1. I \subseteq M
    BY <1>5 DEF UpsertsOf
  <2> QED
    BY <1>3, <1>5, <1>6, <1>7, <2>1
<1>11. Fine => mem = tab /\ (U # {} => models[m] = db[Max(U)].object.version)
  BY DEF CatalogFollowsDb
<1>12. U # {} => models[m] # None
  BY DEF CatalogFollowsDb
<1>13. U # {} => Max(U) \in U
  BY <1>6, <1>8, MaxIsGreatest
<1>14. V # {}
  OBVIOUS
<1> HIDE DEF U, V, I, Max
<1>15. CASE I = {} /\ models'[m] = models[m]
  <2>1. U = V
    BY <1>8, <1>9, <1>15
  <2>2. Fine => models[m] = db'[Max(V)].object.version
    BY <1>6, <1>8, <1>11, <1>13, <1>14, <2>1
  <2> QED
    BY <1>12, <1>14, <1>15, <2>1, <2>2 DEF V
<1>16. CASE q.route # "model-catalog/sync"
  <2>1. models' = models
    BY <1>16 DEF HandlerStep, Remember
  <2>2. \A k \in DOMAIN ins : IsListed(ins[k])
    <3>1. CASE Backend # "postgres"
      BY <1>1, <3>1
    <3>2. CASE Backend = "postgres"
      BY <1>1, <1>3, <1>16, <3>2
    <3> QED
      BY <3>1, <3>2
  <2>3. I = {}
    BY <1>7, <2>2 DEF IsListed
  <2> QED
    BY <1>15, <2>1, <2>3
<1>17. CASE q.route = "model-catalog/sync"
  <2>1. models'[m] = IF M = {} THEN models[m] ELSE mem[Max(M)].object.version
    BY <1>17 DEF HandlerStep, Remember, Upsert
  <2>2. CASE M = {}
    BY <1>10, <1>15, <2>1, <2>2
  <2>3. CASE M # {}
    <3>1. Max(M) \in M /\ \A y \in M : y <= Max(M)
      BY <1>2, <2>3, UpsertsAreGreatest
    <3>2. models'[m] # None
      BY <1>3, <1>17, <2>1, <2>3, <3>1 DEF UpsertsOf
    <3>3. ASSUME Fine
          PROVE  models'[m] = db'[Max(V)].object.version
      <4>1. Backend = "postgres"
        <5> SUFFICES ASSUME Backend # "postgres" PROVE FALSE
          OBVIOUS
        <5>1. db = <<>> /\ ins = <<>>
          BY <1>0, <1>1
        <5>2. DOMAIN db' = {}
          BY <1>1, <5>1
        <5> QED
          BY <1>6, <1>8, <1>14, <5>2
      <4>2. ins = mem
        BY <1>1, <1>11, <3>3, <4>1
      <4> DEFINE g == Max(M)
      <4>3. I = M
        BY <4>2 DEF I
      <4>4. g \in Nat /\ g \in DOMAIN ins
        BY <1>6, <3>1, <4>2 DEF UpsertsOf
      <4> HIDE DEF g, M
      <4>5. Len(db) + g \in V /\ db'[Len(db) + g] = mem[g]
        BY <1>6, <1>10, <3>1, <4>2, <4>3, <4>4 DEF g
      <4>6. \A y \in V : y <= Len(db) + g
        <5> SUFFICES ASSUME NEW y \in V
                     PROVE  y <= Len(db) + g
          OBVIOUS
        <5>1. CASE y \in U
          BY <1>6, <1>8, <4>4, <5>1
        <5>2. CASE y - Len(db) \in I
          <6>1. y - Len(db) <= g
            BY <3>1, <4>3, <5>2 DEF g
          <6> QED
            BY <1>6, <1>8, <4>4, <6>1
        <5> QED
          BY <1>9, <5>1, <5>2
      <4>7. Max(V) = Len(db) + g
        <5>1. Len(db) + Len(ins) \in Nat
          BY <1>6
        <5> QED
          BY <1>8, <4>5, <4>6, <5>1, GreatestIsMax
      <4> QED
        BY <2>1, <2>3, <4>5, <4>7 DEF g
    <3> QED
      BY <3>2, <3>3 DEF V
  <2> QED
    BY <2>2, <2>3
<1> QED
  BY <1>16, <1>17

-----------------------------------------------------------------------------
(***************************************************************************)
(* What is said of an answer stays true of it.                             *)
(***************************************************************************)

\* The answer that a step gives.
AnswerOf(q, code, result, replay) ==
    [request |-> q, life |-> life, at |-> clock, code |-> code,
     result |-> result, replay |-> replay]

\* What AcceptedIsKept says of one answer.
Kept(o) ==
    \A w \in ToSet(PlanOf(o.request).writes) :
        LET entry == [kind |-> w.kind, object |-> w.object,
                      by |-> KeyOf(o.request), life |-> o.life]
        IN  /\ Backend = "postgres" => entry \in ToSet(db)
            /\ IsListed(entry) /\ o.life = life => entry \in ToSet(lists)

\* What was kept is kept, as long as the table and, within a life, the lists
\* only grow.
LEMMA KeptStays ==
    ASSUME NEW o, o.request.route \in Routes, site' = site,
           ToSet(db) \subseteq ToSet(db'),
           o.life = life' => o.life = life /\ ToSet(lists) \subseteq ToSet(lists'),
           Kept(o)
    PROVE  Kept(o)'
<1>1. PlanOf(o.request)'.writes = PlanOf(o.request).writes /\ Backend' = Backend
  BY WritesAreFixed, SiteFixes
<1> DEFINE W == ToSet(PlanOf(o.request).writes)
<1>2. ToSet(PlanOf(o.request).writes)' = W
  BY <1>1 DEF ToSet
<1> SUFFICES ASSUME NEW w \in W
             PROVE  LET entry == [kind |-> w.kind, object |-> w.object,
                                  by |-> KeyOf(o.request), life |-> o.life]
                    IN  /\ Backend = "postgres" => entry \in ToSet(db')
                        /\ IsListed(entry) /\ o.life = life' => entry \in ToSet(lists')
  BY <1>1, <1>2, ZenonT(60) DEF Kept, KeyOf, IsListed, ToSet
<1> DEFINE e == [kind |-> w.kind, object |-> w.object,
                 by |-> KeyOf(o.request), life |-> o.life]
<1>3. /\ Backend = "postgres" => e \in ToSet(db)
      /\ IsListed(e) /\ o.life = life => e \in ToSet(lists)
  BY DEF Kept
<1> HIDE DEF e
<1>4. /\ Backend = "postgres" => e \in ToSet(db')
      /\ IsListed(e) /\ o.life = life' => e \in ToSet(lists')
  BY <1>3
<1> QED
  BY <1>4 DEF e

\* A handler that has come to its end leaves all it wrote.
LEMMA CompleteKeeps ==
    ASSUME TypeOK, LogsOK, NEW q \in Request, Complete(q),
           NEW o, o.request = q, o.life = life
    PROVE  Kept(o)'
<1> DEFINE w == PlanOf(q).writes
           es == Entries(q, w)
<1>1. HandlerStep(q, es, es) /\ EntriesOf(q, es) /\ Len(es) = Len(w) /\ Recorded(w)
  BY CompleteIsStep, EntriesAreWritten
<1>2. site' = site /\ life' = life /\ site \in DOMAIN Deployment
  BY <1>1 DEF HandlerStep, TypeOK
<1>3. PlanOf(q)'.writes = w /\ Backend' = Backend
  BY <1>2, WritesAreFixed, SiteFixes, RequestFacts
<1> HIDE DEF es, w
<1>3a. HandlerStep(q, es, es)
  BY <1>1
<1>4. PICK new, ins \in Seq(Entry) :
        /\ lists' = lists \o new /\ db' = db \o ins
        /\ \A i \in DOMAIN new : NewInList(q, new[i])
        /\ \A i \in DOMAIN ins : ins[i].life = life /\ ins[i].by = KeyOf(q)
        /\ ins = IF Backend = "postgres" THEN es ELSE <<>>
        /\ new = IF q.route = "model-catalog/sync" THEN <<>> ELSE es
  BY <1>3a, HandlerAppends, ZenonT(60)
<1>5. lists \in Seq(Entry) /\ db \in Seq(Entry)
  BY DEF LogsOK
<1> HIDE DEF w
<1>6. ToSet(new) \subseteq ToSet(lists') /\ ToSet(ins) \subseteq ToSet(db')
  <2>1. \A i \in DOMAIN new :
            Len(lists) + i \in DOMAIN lists' /\ lists'[Len(lists) + i] = new[i]
    BY <1>4, <1>5, Appended
  <2>2. \A i \in DOMAIN ins : Len(db) + i \in DOMAIN db' /\ db'[Len(db) + i] = ins[i]
    BY <1>4, <1>5, Appended
  <2> QED
    BY <2>1, <2>2 DEF ToSet
<1>7. ASSUME NEW x \in ToSet(w)
      PROVE  /\ EntryOf(q, x) \in ToSet(es)
             /\ IsListed(EntryOf(q, x)) => q.route # "model-catalog/sync"
  <2>1. PICK i \in 1..Len(w) : x = w[i]
    BY <1>1 DEF ToSet, Recorded
  <2>2. DOMAIN es = 1..Len(es)
    BY <1>1, <1>2, EntriesByRoute
  <2>3. i \in DOMAIN es /\ es[i] = EntryOf(q, x)
    BY <1>1, <2>1, <2>2 DEF EntriesOf, w
  <2>4. q.route = "model-catalog/sync" => ~ IsListed(es[i])
    BY <1>1, <1>2, <2>2, <2>3, EntriesByRoute
  <2> QED
    BY <2>3, <2>4 DEF ToSet
<1>8. ASSUME NEW x \in ToSet(w)
      PROVE  /\ Backend = "postgres" => EntryOf(q, x) \in ToSet(db')
             /\ IsListed(EntryOf(q, x)) => EntryOf(q, x) \in ToSet(lists')
  BY <1>4, <1>6, <1>7
<1>9. ToSet(PlanOf(q).writes)' = ToSet(w)
  BY <1>3 DEF ToSet
<1>10. \A x : EntryOf(q, x) = [kind |-> x.kind, object |-> x.object,
                               by |-> KeyOf(q), life |-> life]
  BY DEF EntryOf
<1> SUFFICES ASSUME NEW x \in ToSet(w)
             PROVE  LET entry == [kind |-> x.kind, object |-> x.object,
                                  by |-> KeyOf(q), life |-> life]
                    IN  /\ Backend = "postgres" => entry \in ToSet(db')
                        /\ IsListed(entry) => entry \in ToSet(lists')
  BY <1>2, <1>3, <1>9, ZenonT(60) DEF Kept, KeyOf, IsListed, ToSet
<1> QED
  BY <1>8, <1>10

\* A check that is answered OK has judged a valid snapshot, its own or the
\* latest.
LEMMA CheckOutcome ==
    ASSUME NEW b, CheckBudget(b).outcome.code = "OK"
    PROVE  LET s == IF b.snapshot = None THEN LatestSnapshot ELSE b.snapshot
               r == CheckBudget(b).outcome.result
           IN  /\ b.policy.valid /\ s # None /\ s.valid
               /\ r.snapshot = s.id
               /\ r.blocked <=> BlockedAt(b.policy, s, clock)
<1> DEFINE s == IF b.snapshot = None THEN LatestSnapshot ELSE b.snapshot
           B == Blocked(b.policy, s)
           result == [snapshot |-> s.id, blocked |-> B,
                      action |-> IF B THEN "circuit_breaker" ELSE "allow"]
           outcome == IF s = None THEN Error("BUDGET_SNAPSHOT_MISSING")
                      ELSE IF ~ s.valid THEN Error("INVALID")
                      ELSE Ok(result)
<1>1. CheckBudget(b) = IF ~ b.policy.valid THEN Stop("INVALID")
                       ELSE Plan(<<Write("budget_policy", b.policy)>>, outcome)
  BY DEF CheckBudget
<1>2. B <=> BlockedAt(b.policy, s, clock)
  BY DEF Blocked, Stale, BlockedAt
<1>3. result.snapshot = s.id /\ (result.blocked <=> B)
  <2> HIDE DEF B, s
  <2> QED
    OBVIOUS
<1> HIDE DEF result, s, B
<1>4. b.policy.valid
  <2> HIDE DEF outcome
  <2> QED
    BY <1>1 DEF Stop, Plan, Error
<1>5. CheckBudget(b).outcome = outcome
  <2> HIDE DEF outcome
  <2> QED
    BY <1>1, <1>4 DEF Plan
<1>6. s # None /\ s.valid /\ outcome.result = result
  BY <1>5 DEF Error, Ok
<1> QED
  BY <1>2, <1>3, <1>4, <1>5, <1>6 DEF s

\* What was said of a check stays true as more answers are given.
LEMMA JudgedStays ==
    ASSUME NEW o, NEW s, told \subseteq told', JudgedOn(o, s)
    PROVE  JudgedOn(o, s)'
<1> DEFINE C == o.result.blocked <=> BlockedAt(o.request.body.policy, s, o.at)
<1>1. C
  BY DEF JudgedOn
<1>2. C'
  BY <1>1 DEF BlockedAt
<1>3. \A p : Sends(p, s, o.life, o.at)' = Sends(p, s, o.life, o.at)
  BY DEF Sends
<1>4. o.request.body.snapshot = None => \E p \in told' : Sends(p, s, o.life, o.at)'
  BY <1>3 DEF JudgedOn
<1> HIDE DEF C
<1>5. s.valid /\ s.id = o.result.snapshot
  BY DEF JudgedOn
<1> QED
  BY <1>2, <1>4, <1>5 DEF JudgedOn, C

\* A check that a handler answers OK is judged.
LEMMA CompleteIsJudged ==
    ASSUME TypeOK, LogsOK, SnapshotsWereSent,
           NEW q \in Request, q.route = "budget/check",
           NEW o, o = AnswerOf(q, PlanOf(q).outcome.code, PlanOf(q).outcome.result, FALSE),
           o.code = "OK"
    PROVE  /\ q.body.policy.valid
           /\ \E s \in SnapshotsSent(site) : JudgedOn(o, s)
<1> DEFINE b == q.body
           s == IF b.snapshot = None THEN LatestSnapshot ELSE b.snapshot
           r == CheckBudget(b).outcome.result
<1>1. PlanOf(q) = CheckBudget(b)
  BY DEF PlanOf
<1>2. /\ o.request = q /\ o.life = life /\ o.at = clock
      /\ o.code = CheckBudget(b).outcome.code /\ o.result = r
  BY <1>1 DEF AnswerOf
<1>3. /\ b.policy.valid /\ s # None /\ s.valid
      /\ r.snapshot = s.id
      /\ r.blocked <=> BlockedAt(b.policy, s, clock)
  BY <1>2, CheckOutcome
<1>4. q \in Deployment[site].requests
  BY DEF Request
<1>5. ASSUME b.snapshot = None
      PROVE  s \in SnapshotsSent(site) /\ \E p \in told : Sends(p, s, life, clock)
  <2>1. Snapshots # {} /\ s = lists[Max(Snapshots)].object
    BY <1>3, <1>5 DEF LatestSnapshot
  <2>2. Max(Snapshots) \in Snapshots
    <3>1. Snapshots \in SUBSET (1..Len(lists)) /\ Len(lists) \in Nat
      BY DEF Snapshots, LogsOK
    <3> HIDE DEF Snapshots
    <3> QED
      BY <2>1, <3>1, MaxIsGreatest
  <2> HIDE DEF s
  <2>3. PICK p \in told : Sends(p, s, life, clock)
    BY <2>1, <2>2 DEF SnapshotsWereSent
  <2>4. p.request \in Deployment[site].requests
    BY DEF TypeOK, Request
  <2>5. s \in SnapshotsSent(site)
    BY <2>3, <2>4 DEF SnapshotsSent, Sends
  <2> QED
    BY <2>3, <2>5
<1>6. s \in SnapshotsSent(site)
  <2>1. CASE b.snapshot # None
    BY <1>4, <2>1 DEF SnapshotsSent
  <2> QED
    BY <1>5, <2>1
<1> HIDE DEF s, r
<1>7. JudgedOn(o, s)
  <2>1. s.valid /\ s.id = o.result.snapshot
    BY <1>2, <1>3
  <2>2. o.result.blocked <=> BlockedAt(o.request.body.policy, s, o.at)
    BY <1>2, <1>3
  <2>3. o.request.body.snapshot = None => \E p \in told : Sends(p, s, o.life, o.at)
    BY <1>2, <1>5
  <2> QED
    BY <2>1, <2>2, <2>3 DEF JudgedOn
<1> QED
  BY <1>3, <1>6, <1>7

\* The invariants on answers survive a new one that is cached when it is OK,
\* and, when it was executed, kept and judged.
LEMMA AnswerKeepsAnswers ==
    ASSUME IInv, NEW q \in Request,
           NEW o, o.request = q, o.life = life, told' = told \cup {o},
           UNCHANGED <<site, clock, life>>,
           \A k \in DOMAIN cache : k \in DOMAIN cache' /\ cache'[k] = cache[k],
           o.code = "OK" => KeyOf(q) \in DOMAIN cache' /\ cache'[KeyOf(q)] = o.result,
           ToSet(lists) \subseteq ToSet(lists'), ToSet(db) \subseteq ToSet(db'),
           Executed(o) => Kept(o)',
           Executed(o) /\ q.route = "budget/check" =>
                q.body.policy.valid /\ \E s \in SnapshotsSent(site) : JudgedOn(o, s)
    PROVE  /\ AnswersAreCached' /\ ReplayRepeatsAnswer'
           /\ AcceptedIsKept' /\ ChecksAreJudged'
<1>0. TypeOK /\ site' = site /\ life' = life /\ told \subseteq told'
  BY DEF IInv
<1>1. ASSUME NEW p \in told', p.code = "OK", p.life = life
      PROVE  KeyOf(p.request) \in DOMAIN cache' /\ cache'[KeyOf(p.request)] = p.result
  <2>1. CASE p = o
    BY <1>1, <2>1
  <2>2. CASE p \in told
    BY <1>1, <2>2 DEF IInv, AnswersAreCached
  <2> QED
    BY <2>1, <2>2
<1>2. AnswersAreCached'
  BY <1>0, <1>1 DEF AnswersAreCached, KeyOf
<1>3. ASSUME NEW x \in told', NEW y \in told', x.code = "OK", y.code = "OK",
             x.life = y.life, KeyOf(x.request) = KeyOf(y.request)
      PROVE  x.result = y.result
  <2>1. CASE x.life = life
    BY <1>1, <1>3, <2>1
  <2>2. CASE x.life # life
    <3>1. x \in told /\ y \in told
      BY <1>3, <2>2
    <3> QED
      BY <1>3, <3>1 DEF IInv, ReplayRepeatsAnswer
  <2> QED
    BY <2>1, <2>2
<1>4. ReplayRepeatsAnswer'
  BY <1>3 DEF ReplayRepeatsAnswer, KeyOf
<1>5. ASSUME NEW p \in told', Executed(p)
      PROVE  Kept(p)'
  <2>1. CASE p = o
    BY <1>5, <2>1
  <2>2. CASE p \in told
    <3>1. p.request.route \in Routes
      BY <1>0, <2>2, RequestFacts DEF TypeOK
    <3>2. Kept(p)
      BY <1>5, <2>2 DEF IInv, AcceptedIsKept, Kept
    <3> QED
      BY <1>0, <3>1, <3>2, KeptStays
  <2> QED
    BY <2>1, <2>2
<1>6. AcceptedIsKept'
  BY <1>5 DEF AcceptedIsKept, Kept, Executed
<1>7. ASSUME NEW p \in told', Executed(p), p.request.route = "budget/check"
      PROVE  /\ p.request.body.policy.valid
             /\ \E s \in SnapshotsSent(site) : JudgedOn(p, s)'
  <2>1. /\ p.request.body.policy.valid
        /\ \E s \in SnapshotsSent(site) : JudgedOn(p, s)
    <3>1. CASE p = o
      BY <1>7, <3>1
    <3>2. CASE p \in told
      BY <1>7, <3>2 DEF IInv, ChecksAreJudged
    <3> QED
      BY <3>1, <3>2
  <2> QED
    BY <1>0, <2>1, JudgedStays
<1>8. ChecksAreJudged'
  BY <1>0, <1>7 DEF ChecksAreJudged, Executed
<1> QED
  BY <1>2, <1>4, <1>6, <1>8

\* The types survive a handler.
LEMMA AnswerKeepsTypes ==
    ASSUME TypeOK, NEW q \in Request,
           NEW o, o.request = q, o.life = life, o.at = clock, told' = told \cup {o},
           HandleStarts(q),
           conn' \in {"up", "down"}, Backend = "memory" => conn' = conn /\ db' = db,
           DOMAIN cache' \subseteq CacheKey, DOMAIN models' = ModelId
    PROVE  TypeOK'
<1>0. /\ site' = site /\ life' = life /\ clock' = clock
      /\ handled < MaxHandled /\ handled' = handled + 1
  BY DEF HandleStarts
<1>1. /\ Request' = Request /\ Backend' = Backend /\ CacheKey' = CacheKey
      /\ ModelId' = ModelId
      /\ MaxTime' = MaxTime /\ MaxHandled' = MaxHandled /\ MaxLives' = MaxLives
  BY <1>0, SiteFixes
<1>2. life \in 1..life /\ clock \in 0..clock /\ MaxHandled \in Nat /\ site \in DOMAIN Deployment
  BY DeploymentAssumption DEF TypeOK, MaxTime, MaxLives, MaxHandled
<1>3. handled' \in 0..MaxHandled
  BY <1>0, <1>2 DEF TypeOK
<1>4. \A p \in told' : p.request \in Request /\ p.life \in 1..life /\ p.at \in 0..clock
  BY <1>2 DEF TypeOK
<1> QED
  BY <1>0, <1>1, <1>3, <1>4 DEF TypeOK

\* A handler's part of the models.
LEMMA RememberKeepsModels ==
    ASSUME DOMAIN models = ModelId, NEW q, NEW mem, Remember(q, mem)
    PROVE  DOMAIN models' = ModelId
BY DEF Remember, Upsert

-----------------------------------------------------------------------------
(***************************************************************************)
(* Every step keeps the invariant.                                         *)
(***************************************************************************)

\* The table and the lists are empty, and nothing was answered.
LEMMA InitIInv == Init => IInv
<1> SUFFICES ASSUME Init PROVE IInv
  OBVIOUS
<1> USE DEF Init
<1>0. MaxTime \in Nat /\ MaxHandled \in Nat /\ MaxLives \in Nat \ {0}
  BY DeploymentAssumption DEF MaxTime, MaxHandled, MaxLives
<1>1. TypeOK
  BY <1>0 DEF TypeOK
<1>2. LogsOK
  BY DEF LogsOK
<1>3. AnswersAreCached /\ ReplayRepeatsAnswer /\ AcceptedIsKept /\ ChecksAreJudged
  BY DEF AnswersAreCached, ReplayRepeatsAnswer, AcceptedIsKept, ChecksAreJudged
<1>4. SnapshotsWereSent
  BY DEF SnapshotsWereSent, Snapshots
<1>5. ListedInDb = {} /\ \A m : UpsertsInDb(m) = {}
  BY DEF ListedInDb, UpsertsInDb, UpsertsOf
<1>6. MemoryCoversDb
  <2> DEFINE at == [i \in {} |-> i]
  <2>1. at \in [ListedInDb -> DOMAIN lists]
    BY <1>5
  <2> HIDE DEF at
  <2> QED
    BY <1>5, <2>1 DEF MemoryCoversDb
<1>7. CatalogFollowsDb
  BY <1>5 DEF CatalogFollowsDb
<1> QED
  BY <1>1, <1>2, <1>3, <1>4, <1>6, <1>7 DEF IInv

\* Nothing but the logs and the life decides whether memory covers the table.
LEMMA CoverNeedsLogs ==
    ASSUME MemoryCoversDb, UNCHANGED <<lists, db, life>>
    PROVE  MemoryCoversDb'
<1>1. ListedInDb' = ListedInDb
  BY DEF ListedInDb, IsListed
<1>2. PICK at \in [ListedInDb -> DOMAIN lists] :
        \A i, j \in ListedInDb : lists[at[i]] = db[i] /\ (i < j => at[i] < at[j])
  BY DEF MemoryCoversDb
<1> HIDE DEF ListedInDb
<1>3. at \in [ListedInDb' -> DOMAIN lists']
  BY <1>1
<1>4. \A i, j \in ListedInDb' : lists'[at[i]] = db'[i] /\ (i < j => at[i] < at[j])
  BY <1>1, <1>2
<1> QED
  BY <1>3, <1>4 DEF MemoryCoversDb

\* What does not touch the store, the models and the life keeps what is said
\* of them.
LEMMA LogsStay ==
    ASSUME LogsOK, MemoryCoversDb, CatalogFollowsDb, told \subseteq told',
           UNCHANGED <<site, life, models, lists, db>>
    PROVE  LogsOK' /\ MemoryCoversDb' /\ CatalogFollowsDb'
<1>1. Entry' = Entry /\ ModelId' = ModelId
  BY SiteFixes
<1>2. LogsOK'
  BY <1>1 DEF LogsOK, IsListed
<1>3. \A m : UpsertsInDb(m)' = UpsertsInDb(m)
  BY DEF UpsertsInDb, UpsertsOf
<1>4. CatalogFollowsDb'
  BY <1>1, <1>3 DEF CatalogFollowsDb
<1>5. MemoryCoversDb'
  BY CoverNeedsLogs
<1> QED
  BY <1>2, <1>4, <1>5

\* The cached answer is given again.
LEMMA ReplayIInv == ASSUME IInv, NEW q \in Request, Replay(q) PROVE IInv'
<1>0. PICK o : o = AnswerOf(q, "OK", cache[<<q.route, q.key>>], TRUE)
  OBVIOUS
<1>1. /\ TypeOK /\ LogsOK /\ CatalogFollowsDb /\ MemoryCoversDb /\ SnapshotsWereSent
      /\ HandleStarts(q) /\ UNCHANGED <<site, clock, life, cache, models, lists, conn, db>>
      /\ told' = told \cup {o} /\ KeyOf(q) \in DOMAIN cache
  BY <1>0 DEF IInv, Replay, HandleStarts, Answered, AnswerOf, IsCached, KeyOf
<1>2. /\ o.request = q /\ o.life = life /\ o.at = clock /\ o.code = "OK"
      /\ o.result = cache[KeyOf(q)] /\ o.replay = TRUE
  BY <1>0 DEF AnswerOf, KeyOf
<1>3. ~ Executed(o)
  BY <1>2 DEF Executed
<1>4. AnswersAreCached' /\ ReplayRepeatsAnswer' /\ AcceptedIsKept' /\ ChecksAreJudged'
  <2>1. ToSet(lists) \subseteq ToSet(lists') /\ ToSet(db) \subseteq ToSet(db')
    BY <1>1 DEF ToSet
  <2> QED
    BY <1>1, <1>2, <1>3, <2>1, AnswerKeepsAnswers
<1>5. TypeOK'
  BY <1>1, <1>2, AnswerKeepsTypes DEF TypeOK
<1>6. LogsOK' /\ MemoryCoversDb' /\ CatalogFollowsDb'
  BY <1>1, LogsStay
<1>7. SnapshotsWereSent'
  <2>1. Snapshots' = Snapshots
    BY <1>1 DEF Snapshots
  <2> QED
    BY <1>1, <2>1 DEF SnapshotsWereSent, Sends
<1> QED
  BY <1>4, <1>5, <1>6, <1>7 DEF IInv

\* A handler runs to its end.
LEMMA CompleteIInv == ASSUME IInv, NEW q \in Request, Complete(q) PROVE IInv'
<1> DEFINE plan == PlanOf(q)
           es == Entries(q, plan.writes)
<1>0. PICK o : o = AnswerOf(q, plan.outcome.code, plan.outcome.result, FALSE)
  OBVIOUS
<1>1. /\ TypeOK /\ LogsOK /\ CatalogFollowsDb /\ MemoryCoversDb /\ SnapshotsWereSent
      /\ HandleStarts(q) /\ UNCHANGED <<site, clock, life, conn>>
      /\ told' = told \cup {o} /\ KeyOf(q) \notin DOMAIN cache
      /\ CacheAnswer(q, plan.outcome) /\ Insert(es)
  BY <1>0 DEF IInv, Complete, HandleStarts, Answered, AnswerOf, IsCached, KeyOf
<1>2. /\ o.request = q /\ o.life = life /\ o.at = clock /\ o.replay = FALSE
      /\ o.code = plan.outcome.code /\ o.result = plan.outcome.result
  BY <1>0 DEF AnswerOf
<1>3. HandlerStep(q, es, es)
  BY <1>1, CompleteIsStep
<1>4. Executed(o) => Kept(o)'
  BY <1>1, <1>2, CompleteKeeps
<1>5. Executed(o) /\ q.route = "budget/check" =>
        q.body.policy.valid /\ \E s \in SnapshotsSent(site) : JudgedOn(o, s)
  BY <1>0, <1>1, CompleteIsJudged DEF Executed
<1> HIDE DEF es, plan
<1>6. /\ \A k \in DOMAIN cache : k \in DOMAIN cache' /\ cache'[k] = cache[k]
      /\ o.code = "OK" => KeyOf(q) \in DOMAIN cache' /\ cache'[KeyOf(q)] = o.result
      /\ DOMAIN cache' \subseteq DOMAIN cache \cup {KeyOf(q)}
  BY <1>1, <1>2 DEF CacheAnswer, KeyOf
<1>7. LogsOK' /\ ToSet(lists) \subseteq ToSet(lists') /\ ToSet(db) \subseteq ToSet(db')
  BY <1>1, <1>3, HandlerKeepsLogs
<1>8. AnswersAreCached' /\ ReplayRepeatsAnswer' /\ AcceptedIsKept' /\ ChecksAreJudged'
  BY <1>1, <1>2, <1>4, <1>5, <1>6, <1>7, AnswerKeepsAnswers
<1>9. TypeOK'
  <2>1. DOMAIN models' = ModelId
    BY <1>1, <1>3, RememberKeepsModels DEF HandlerStep, TypeOK
  <2>2. DOMAIN cache' \subseteq CacheKey
    BY <1>1, <1>6, RequestFacts DEF TypeOK
  <2>3. conn' \in {"up", "down"} /\ (Backend = "memory" => conn' = conn /\ db' = db)
    BY <1>1 DEF Insert, TypeOK
  <2> QED
    BY <1>1, <1>2, <2>1, <2>2, <2>3, AnswerKeepsTypes
<1>10. told \subseteq told' /\ o \in told'
  BY <1>1
<1>11. MemoryCoversDb'
  BY <1>1, <1>3, HandlerKeepsCover
<1>12. CatalogFollowsDb'
  BY <1>1, <1>3, <1>10, HandlerKeepsCatalog
<1>13. SnapshotsWereSent'
  BY <1>1, <1>2, <1>3, <1>10, HandlerKeepsSnapshots
<1> QED
  BY <1>7, <1>8, <1>9, <1>11, <1>12, <1>13 DEF IInv

\* A handler fails at one of its writes.
LEMMA FailIInv ==
    ASSUME IInv, NEW q \in Request, NEW n \in Nat, NEW landed \in BOOLEAN,
           FailAtWrite(q, n, landed)
    PROVE  IInv'
<1>0. PICK o : o = AnswerOf(q, "INTERNAL_ERROR", None, FALSE)
  OBVIOUS
<1>1. /\ TypeOK /\ LogsOK /\ CatalogFollowsDb /\ MemoryCoversDb /\ SnapshotsWereSent
      /\ HandleStarts(q) /\ UNCHANGED <<site, clock, life, cache>>
      /\ told' = told \cup {o} /\ Backend = "postgres" /\ conn' \in {"up", "down"}
  BY <1>0 DEF IInv, FailAtWrite, HandleStarts, Answered, AnswerOf
<1>2. /\ o.request = q /\ o.life = life /\ o.at = clock /\ o.code = "INTERNAL_ERROR"
  BY <1>0 DEF AnswerOf
<1>3. PICK mem, tab : HandlerStep(q, mem, tab)
  BY <1>1, FailIsStep
<1>4. ~ Executed(o) /\ o.code # "OK"
  BY <1>2 DEF Executed
<1>5. LogsOK' /\ ToSet(lists) \subseteq ToSet(lists') /\ ToSet(db) \subseteq ToSet(db')
  BY <1>1, <1>3, HandlerKeepsLogs
<1>6. AnswersAreCached' /\ ReplayRepeatsAnswer' /\ AcceptedIsKept' /\ ChecksAreJudged'
  BY <1>1, <1>2, <1>4, <1>5, AnswerKeepsAnswers
<1>7. TypeOK'
  <2>1. DOMAIN models' = ModelId /\ DOMAIN cache' \subseteq CacheKey
    BY <1>1, <1>3, RememberKeepsModels DEF HandlerStep, TypeOK
  <2>2. Backend # "memory"
    BY <1>1
  <2> QED
    BY <1>1, <1>2, <2>1, <2>2, AnswerKeepsTypes
<1>8. told \subseteq told' /\ o \in told'
  BY <1>1
<1>9. MemoryCoversDb'
  BY <1>1, <1>3, HandlerKeepsCover
<1>10. \E x \in told' : x.life = life /\ x.code = "INTERNAL_ERROR"
  BY <1>2, <1>8
<1>11. CatalogFollowsDb'
  BY <1>1, <1>3, <1>8, <1>10, HandlerKeepsCatalog
<1>12. SnapshotsWereSent'
  BY <1>1, <1>2, <1>3, <1>8, HandlerKeepsSnapshots
<1> QED
  BY <1>5, <1>6, <1>7, <1>9, <1>11, <1>12 DEF IInv

\* The process starts again, with an empty memory and the table as it was.
LEMMA RestartIInv == ASSUME IInv, Restart PROVE IInv'
<1>1. /\ TypeOK /\ LogsOK /\ AnswersAreCached /\ ReplayRepeatsAnswer /\ AcceptedIsKept
      /\ ChecksAreJudged
      /\ site' = site /\ clock' = clock /\ db' = db /\ told' = told /\ handled' = handled
      /\ life < MaxLives /\ life' = life + 1 /\ lists' = <<>> /\ conn' = "up"
      /\ cache' = [k \in {} |-> None] /\ models' = [m \in ModelId |-> None]
  BY DEF IInv, Restart
<1>2. /\ Request' = Request /\ Backend' = Backend /\ CacheKey' = CacheKey
      /\ ModelId' = ModelId /\ Entry' = Entry
      /\ MaxTime' = MaxTime /\ MaxHandled' = MaxHandled /\ MaxLives' = MaxLives
  BY <1>1, SiteFixes
<1>3. /\ life \in Nat /\ life' \in 1..MaxLives /\ site \in DOMAIN Deployment
      /\ \A o \in told : o.life \in 1..life
  BY <1>1, DeploymentAssumption DEF TypeOK, MaxLives
<1>4. TypeOK'
  <2>1. \A o \in told' : o.request \in Request' /\ o.life \in 1..life' /\ o.at \in 0..clock'
    BY <1>1, <1>2, <1>3 DEF TypeOK
  <2> QED
    BY <1>1, <1>2, <1>3, <2>1 DEF TypeOK
<1>5. /\ \A i \in DOMAIN db : db[i] \in Entry /\ db[i].life <= life /\ db[i].life \in Nat
      /\ db \in Seq(Entry)
  <2>1. \A i \in DOMAIN db : db[i] \in Entry /\ db[i].life <= life
    BY <1>1 DEF LogsOK
  <2>2. \A e \in Entry : e.life \in 1..MaxLives
    BY DEF Entry
  <2> QED
    BY <1>1, <2>1, <2>2 DEF LogsOK
<1>6. LogsOK'
  BY <1>1, <1>2, <1>3, <1>5 DEF LogsOK
<1>7. \A o \in told' : o.life # life'
  BY <1>1, <1>3
<1>8. AnswersAreCached' /\ ReplayRepeatsAnswer'
  <2>1. AnswersAreCached'
    BY <1>7 DEF AnswersAreCached
  <2>2. ReplayRepeatsAnswer'
    BY <1>1 DEF ReplayRepeatsAnswer, KeyOf
  <2> QED
    BY <2>1, <2>2
<1>9. AcceptedIsKept'
  <2> SUFFICES ASSUME NEW o \in told, Executed(o) PROVE Kept(o)'
    BY <1>1 DEF AcceptedIsKept, Kept, Executed
  <2>1. o.request.route \in Routes /\ o.life # life'
    BY <1>1, <1>3, <1>7, RequestFacts DEF TypeOK
  <2>2. Kept(o)
    BY <1>1 DEF AcceptedIsKept, Kept
  <2>3. ToSet(db) \subseteq ToSet(db')
    BY <1>1 DEF ToSet
  <2> QED
    BY <1>1, <2>1, <2>2, <2>3, KeptStays
<1>10. ListedInDb' = {} /\ \A m : UpsertsInDb(m)' = {}
  <2>1. \A i \in DOMAIN db : db[i].life # life'
    BY <1>1, <1>3, <1>5
  <2> QED
    BY <1>1, <2>1 DEF ListedInDb, UpsertsInDb, UpsertsOf
<1>11. MemoryCoversDb'
  <2> DEFINE at == [i \in {} |-> i]
  <2>1. at \in [ListedInDb' -> DOMAIN lists']
    BY <1>10
  <2> HIDE DEF at
  <2> QED
    BY <1>10, <2>1 DEF MemoryCoversDb
<1>12. CatalogFollowsDb'
  BY <1>10 DEF CatalogFollowsDb
<1>13. SnapshotsWereSent'
  BY <1>1 DEF SnapshotsWereSent, Snapshots
<1>14. ChecksAreJudged'
  <2>1. told \subseteq told'
    BY <1>1
  <2> SUFFICES ASSUME NEW o \in told, Executed(o), o.request.route = "budget/check"
               PROVE  /\ o.request.body.policy.valid
                      /\ \E s \in SnapshotsSent(site) : JudgedOn(o, s)'
    BY <1>1 DEF ChecksAreJudged, Executed
  <2>2. /\ o.request.body.policy.valid
        /\ \E s \in SnapshotsSent(site) : JudgedOn(o, s)
    BY <1>1 DEF ChecksAreJudged
  <2> QED
    BY <2>1, <2>2, JudgedStays
<1> QED
  BY <1>4, <1>6, <1>8, <1>9, <1>11, <1>12, <1>13, <1>14 DEF IInv

\* A minute passes.
LEMMA TickIInv == ASSUME IInv, Tick PROVE IInv'
<1>1. /\ TypeOK /\ LogsOK /\ AnswersAreCached /\ ReplayRepeatsAnswer /\ AcceptedIsKept
      /\ MemoryCoversDb /\ CatalogFollowsDb /\ SnapshotsWereSent /\ ChecksAreJudged
      /\ clock < MaxTime /\ clock' = clock + 1
      /\ UNCHANGED <<site, life, cache, models, lists, conn, db, told, handled>>
  BY DEF IInv, Tick
<1>2. /\ Request' = Request /\ Backend' = Backend /\ CacheKey' = CacheKey
      /\ ModelId' = ModelId
      /\ MaxTime' = MaxTime /\ MaxHandled' = MaxHandled /\ MaxLives' = MaxLives
  BY <1>1, SiteFixes
<1>3. /\ clock \in Nat /\ clock' \in 0..MaxTime /\ site \in DOMAIN Deployment
      /\ \A o \in told : o.request \in Request /\ o.life \in 1..life /\ o.at \in 0..clock
  BY <1>1, DeploymentAssumption DEF TypeOK, MaxTime
<1>4. TypeOK'
  <2>1. \A o \in told' : o.request \in Request' /\ o.life \in 1..life' /\ o.at \in 0..clock'
    BY <1>1, <1>2, <1>3
  <2> QED
    BY <1>1, <1>2, <1>3, <2>1 DEF TypeOK
<1>5. LogsOK' /\ MemoryCoversDb' /\ CatalogFollowsDb'
  BY <1>1, LogsStay
<1>6. AnswersAreCached' /\ ReplayRepeatsAnswer'
  <2>1. AnswersAreCached'
    BY <1>1 DEF AnswersAreCached, KeyOf
  <2>2. ReplayRepeatsAnswer'
    BY <1>1 DEF ReplayRepeatsAnswer, KeyOf
  <2> QED
    BY <2>1, <2>2
<1>7. AcceptedIsKept'
  <2> SUFFICES ASSUME NEW o \in told, Executed(o) PROVE Kept(o)'
    BY <1>1 DEF AcceptedIsKept, Kept, Executed
  <2>1. o.request.route \in Routes
    BY <1>3, RequestFacts
  <2>2. Kept(o)
    BY <1>1 DEF AcceptedIsKept, Kept
  <2>3. ToSet(db) \subseteq ToSet(db') /\ ToSet(lists) \subseteq ToSet(lists')
    BY <1>1 DEF ToSet
  <2> QED
    BY <1>1, <2>1, <2>2, <2>3, KeptStays
<1>8. SnapshotsWereSent'
  <2> SUFFICES ASSUME NEW i \in Snapshots
               PROVE  /\ lists[i].object.valid
                      /\ \E p \in told : Sends(p, lists[i].object, life, clock')
    BY <1>1 DEF SnapshotsWereSent, Snapshots, Sends
  <2>1. lists[i].object.valid
    BY <1>1 DEF SnapshotsWereSent
  <2>2. PICK p \in told : Sends(p, lists[i].object, life, clock)
    BY <1>1 DEF SnapshotsWereSent
  <2>3. Sends(p, lists[i].object, life, clock')
    BY <1>1, <1>3, <2>2 DEF Sends
  <2> QED
    BY <2>1, <2>3
<1>9. ChecksAreJudged'
  <2>1. told \subseteq told'
    BY <1>1
  <2> SUFFICES ASSUME NEW o \in told, Executed(o), o.request.route = "budget/check"
               PROVE  /\ o.request.body.policy.valid
                      /\ \E s \in SnapshotsSent(site) : JudgedOn(o, s)'
    BY <1>1 DEF ChecksAreJudged, Executed
  <2>2. /\ o.request.body.policy.valid
        /\ \E s \in SnapshotsSent(site) : JudgedOn(o, s)
    BY <1>1 DEF ChecksAreJudged
  <2> QED
    BY <2>1, <2>2, JudgedStays
<1> QED
  BY <1>4, <1>5, <1>6, <1>7, <1>8, <1>9 DEF IInv

\* Nothing changes.
LEMMA StutterIInv == ASSUME IInv, UNCHANGED vars PROVE IInv'
<1>1. /\ TypeOK /\ LogsOK /\ AnswersAreCached /\ ReplayRepeatsAnswer /\ AcceptedIsKept
      /\ MemoryCoversDb /\ CatalogFollowsDb /\ SnapshotsWereSent /\ ChecksAreJudged
      /\ UNCHANGED <<site, clock, life, cache, models, lists, conn, db, told, handled>>
  BY DEF IInv, vars
<1>2. /\ Request' = Request /\ Backend' = Backend /\ CacheKey' = CacheKey
      /\ ModelId' = ModelId
      /\ MaxTime' = MaxTime /\ MaxHandled' = MaxHandled /\ MaxLives' = MaxLives
  BY <1>1, SiteFixes
<1>3. TypeOK'
  BY <1>1, <1>2 DEF TypeOK
<1>4. LogsOK' /\ MemoryCoversDb' /\ CatalogFollowsDb'
  BY <1>1, LogsStay
<1>5. AnswersAreCached' /\ ReplayRepeatsAnswer'
  <2>1. AnswersAreCached'
    BY <1>1 DEF AnswersAreCached, KeyOf
  <2>2. ReplayRepeatsAnswer'
    BY <1>1 DEF ReplayRepeatsAnswer, KeyOf
  <2> QED
    BY <2>1, <2>2
<1>6. AcceptedIsKept'
  <2> SUFFICES ASSUME NEW o \in told, Executed(o) PROVE Kept(o)'
    BY <1>1 DEF AcceptedIsKept, Kept, Executed
  <2>1. o.request.route \in Routes
    BY <1>1, RequestFacts DEF TypeOK
  <2>2. Kept(o)
    BY <1>1 DEF AcceptedIsKept, Kept
  <2>3. ToSet(db) \subseteq ToSet(db') /\ ToSet(lists) \subseteq ToSet(lists')
    BY <1>1 DEF ToSet
  <2> QED
    BY <1>1, <2>1, <2>2, <2>3, KeptStays
<1>7. SnapshotsWereSent'
  BY <1>1 DEF SnapshotsWereSent, Snapshots, Sends
<1>8. ChecksAreJudged'
  <2>1. told \subseteq told'
    BY <1>1
  <2> SUFFICES ASSUME NEW o \in told, Executed(o), o.request.route = "budget/check"
               PROVE  /\ o.request.body.policy.valid
                      /\ \E s \in SnapshotsSent(site) : JudgedOn(o, s)'
    BY <1>1 DEF ChecksAreJudged, Executed
  <2>2. /\ o.request.body.policy.valid
        /\ \E s \in SnapshotsSent(site) : JudgedOn(o, s)
    BY <1>1 DEF ChecksAreJudged
  <2> QED
    BY <2>1, <2>2, JudgedStays
<1> QED
  BY <1>3, <1>4, <1>5, <1>6, <1>7, <1>8 DEF IInv

\* Every step keeps the invariant.
LEMMA NextIInv == IInv /\ [Next]_vars => IInv'
<1> SUFFICES ASSUME IInv, [Next]_vars PROVE IInv'
  OBVIOUS
<1>1. ASSUME NEW q \in Request, Replay(q) PROVE IInv'
  BY <1>1, ReplayIInv
<1>2. ASSUME NEW q \in Request, Complete(q) PROVE IInv'
  BY <1>2, CompleteIInv
<1>3. ASSUME NEW q \in Request, NEW n \in 0..Len(PlanOf(q).writes) - 1,
             NEW landed \in BOOLEAN,
             FailAtWrite(q, n, landed)
      PROVE  IInv'
  <2>1. n \in Nat
    OBVIOUS
  <2> QED
    BY <1>3, <2>1, FailIInv
<1>4. CASE Restart
  BY <1>4, RestartIInv
<1>5. CASE Tick
  BY <1>5, TickIInv
<1>6. CASE UNCHANGED vars
  BY <1>6, StutterIInv
<1> QED
  BY <1>1, <1>2, <1>3, <1>4, <1>5, <1>6 DEF Next

\* The invariant of _run_idempotent over the telemetry store: answers are
\* cached, kept and judged, and memory and table agree, in every state.
THEOREM ControlPlaneInvariant == Spec => []IInv
<1>1. Init => IInv
  BY InitIInv
<1>2. IInv /\ [Next]_vars => IInv'
  BY NextIInv
<1> QED
  BY <1>1, <1>2, PTL DEF Spec

-----------------------------------------------------------------------------
(***************************************************************************)
(* What follows from it.                                                   *)
(***************************************************************************)

\* Clock, lives and handled requests stay in their bounds, a service without
\* a database has none, and cache, models and answers are of this deployment.
THEOREM ControlPlaneTypeCorrect == Spec => []TypeOK
BY ControlPlaneInvariant, PTL DEF IInv

\* "persistidos": whatever an OK answered for stays in the table through all
\* failures and restarts, and in memory until the next start.
THEOREM ControlPlaneAcceptedIsKept == Spec => []AcceptedIsKept
BY ControlPlaneInvariant, PTL DEF IInv

\* Idempotency by route and key: one life gives one key one successful answer.
THEOREM ControlPlaneReplayRepeatsAnswer == Spec => []ReplayRepeatsAnswer
BY ControlPlaneInvariant, PTL DEF IInv

\* Memory is written before the table: reads never miss what the table has.
THEOREM ControlPlaneMemoryCoversDb == Spec => []MemoryCoversDb
BY ControlPlaneInvariant, PTL DEF IInv

\* The catalog serves what the table got last, failures apart.
THEOREM ControlPlaneCatalogFollowsDb == Spec => []CatalogFollowsDb
BY ControlPlaneInvariant, PTL DEF IInv

\* What is known of an executed check.
LEMMA CheckFacts ==
    ASSUME IInv, NEW o \in told, Executed(o), o.request.route = "budget/check"
    PROVE  /\ o.at \in Int
           /\ o.request.body.policy.freshness \in Int
           /\ o.request.body.policy.threshold \in Int
           /\ \E s \in SnapshotsSent(site) :
                /\ JudgedOn(o, s)
                /\ s.at \in Int /\ s.usage \in Int /\ s.limit \in Int /\ s.burn \in Int
<1>1. o.request \in Deployment[site].requests /\ site \in DOMAIN Deployment
      /\ o.at \in 0..clock
  BY DEF IInv, TypeOK, Request
<1>2. PICK s \in SnapshotsSent(site) :
        o.request.body.policy.valid /\ JudgedOn(o, s)
  BY DEF IInv, ChecksAreJudged
<1>3. s.at \in Int /\ s.usage \in Int /\ s.limit \in Int /\ s.burn \in Int
  BY <1>1, <1>2, SnapshotAssumption DEF JudgedOn
<1> QED
  BY <1>1, <1>2, <1>3, BodyAssumption

\* A snapshot over the limit or burning too fast stays so, and a stale one
\* only grows older; and an id names one snapshot.
LEMMA BlockedFollows == IInv => BlockedStaysBlocked
<1> SUFFICES ASSUME IInv, NEW o \in told, NEW p \in told,
                    SameQuestion(o, p), o.at <= p.at, o.result.blocked
             PROVE  p.result.blocked
  BY DEF BlockedStaysBlocked
<1>1. /\ Executed(o) /\ Executed(p)
      /\ o.request.route = "budget/check" /\ p.request.route = "budget/check"
      /\ o.request.body.policy = p.request.body.policy
      /\ o.result.snapshot = p.result.snapshot
  BY DEF SameQuestion
<1>2. PICK s \in SnapshotsSent(site) : JudgedOn(o, s) /\ s.at \in Int
  BY <1>1, CheckFacts
<1>3. PICK t \in SnapshotsSent(site) : JudgedOn(p, t)
  BY <1>1, CheckFacts
<1>4. s = t
  BY <1>1, <1>2, <1>3, SnapshotAssumption DEF JudgedOn, IInv, TypeOK
<1>5. /\ o.at \in Int /\ p.at \in Int
      /\ o.request.body.policy.freshness \in Int
  BY <1>1, CheckFacts
<1>6. BlockedAt(o.request.body.policy, s, o.at)
  BY <1>2 DEF JudgedOn
<1>7. BlockedAt(o.request.body.policy, s, p.at)
  BY <1>2, <1>5, <1>6 DEF BlockedAt
<1> QED
  BY <1>1, <1>3, <1>4, <1>7 DEF JudgedOn

\* A check that allows has looked at a snapshot that was sent, and that does
\* not block.
LEMMA AllowFollows == IInv => AllowIsJustified
<1> SUFFICES ASSUME IInv, NEW o \in told, Executed(o),
                    o.request.route = "budget/check", ~ o.result.blocked,
                    o.request.body.snapshot = None
             PROVE  \E p \in told :
                        /\ p.request.route = "budget/snapshots"
                        /\ p.life = o.life /\ p.at <= o.at
                        /\ LET s == p.request.body
                               policy == o.request.body.policy
                           IN  /\ s.id = o.result.snapshot
                               /\ s.usage <= s.limit /\ s.burn <= policy.threshold
                               /\ policy.block_stale => o.at - s.at <= policy.freshness
  BY DEF AllowIsJustified
<1> DEFINE policy == o.request.body.policy
<1>1. /\ o.at \in Int /\ policy.freshness \in Int /\ policy.threshold \in Int
  BY CheckFacts
<1>2. PICK s \in SnapshotsSent(site) :
        /\ JudgedOn(o, s)
        /\ s.at \in Int /\ s.usage \in Int /\ s.limit \in Int /\ s.burn \in Int
  BY CheckFacts
<1>3. ~ BlockedAt(policy, s, o.at)
  BY <1>2 DEF JudgedOn
<1>4. /\ s.usage <= s.limit /\ s.burn <= policy.threshold
      /\ policy.block_stale => o.at - s.at <= policy.freshness
  BY <1>1, <1>2, <1>3 DEF BlockedAt
<1>5. PICK p \in told : Sends(p, s, o.life, o.at)
  BY <1>2 DEF JudgedOn
<1>6. s.id = o.result.snapshot
  BY <1>2 DEF JudgedOn
<1> QED
  BY <1>4, <1>5, <1>6 DEF Sends

\* "bloqueio deterministico": what a policy has blocked once, it blocks.
THEOREM ControlPlaneBlockedStaysBlocked == Spec => []BlockedStaysBlocked
BY ControlPlaneInvariant, BlockedFollows, PTL

\* The budget fails closed: without a snapshot of its own a check is allowed
\* only on one that was sent to this process and that justifies it.
THEOREM ControlPlaneAllowIsJustified == Spec => []AllowIsJustified
BY ControlPlaneInvariant, AllowFollows, PTL

\* What others append is not an effect of a key.
LEMMA OthersHaveNoEffect ==
    ASSUME NEW k, NEW log \in Seq(Entry), NEW new \in Seq(Entry),
           \A i \in DOMAIN new : new[i].by # k
    PROVE  EffectsOf(k, log \o new) = EffectsOf(k, log)
<1> DEFINE long == log \o new
           S == {i \in DOMAIN log : log[i].by = k}
<1>1. /\ \A i \in DOMAIN log : i \in DOMAIN long /\ long[i] = log[i]
      /\ \A i \in DOMAIN long : i \notin DOMAIN log =>
            i - Len(log) \in DOMAIN new /\ long[i] = new[i - Len(log)]
  BY Appended
<1> HIDE DEF long
<1>2. {i \in DOMAIN long : long[i].by = k} = S
  BY <1>1
<1>3. \A i \in S : long[i] = log[i]
  BY <1>1
<1> QED
  BY <1>2, <1>3 DEF EffectsOf, Restrict, long

\* No step has an effect for a key that was answered OK in this life.
LEMMA StepHasNoNewEffect ==
    ASSUME IInv, Next, NEW k \in CacheKey, AnsweredOK(k, {life}), life' = life
    PROVE  /\ EffectsOf(k, lists') = EffectsOf(k, lists)
           /\ EffectsOf(k, db') = EffectsOf(k, db)
<1>1. k \in DOMAIN cache
  BY DEF AnsweredOK, IInv, AnswersAreCached
<1>2. TypeOK /\ LogsOK /\ lists \in Seq(Entry) /\ db \in Seq(Entry)
  BY DEF IInv, LogsOK
<1>3. ASSUME NEW q \in Request, ~ IsCached(q), NEW mem, NEW tab, HandlerStep(q, mem, tab)
      PROVE  /\ EffectsOf(k, lists') = EffectsOf(k, lists)
             /\ EffectsOf(k, db') = EffectsOf(k, db)
  <2>1. KeyOf(q) # k
    BY <1>1, <1>3 DEF IsCached, KeyOf
  <2>2. PICK new, ins \in Seq(Entry) :
            /\ lists' = lists \o new /\ db' = db \o ins
            /\ \A i \in DOMAIN new : NewInList(q, new[i])
            /\ \A i \in DOMAIN ins : ins[i].life = life /\ ins[i].by = KeyOf(q)
    BY <1>2, <1>3, HandlerAppends, ZenonT(60)
  <2>3. /\ \A i \in DOMAIN new : new[i].by # k
        /\ \A i \in DOMAIN ins : ins[i].by # k
    BY <2>1, <2>2 DEF NewInList
  <2> QED
    BY <1>2, <2>2, <2>3, OthersHaveNoEffect
<1>4. ASSUME UNCHANGED <<lists, db>>
      PROVE  /\ EffectsOf(k, lists') = EffectsOf(k, lists)
             /\ EffectsOf(k, db') = EffectsOf(k, db)
  BY <1>4
<1>5. ASSUME NEW q \in Request, Replay(q)
      PROVE  UNCHANGED <<lists, db>>
  BY <1>5 DEF Replay
<1>6. ASSUME NEW q \in Request, Complete(q)
      PROVE  ~ IsCached(q) /\ \E mem, tab : HandlerStep(q, mem, tab)
  BY <1>2, <1>6, CompleteIsStep DEF Complete
<1>7. ASSUME NEW q \in Request, NEW n \in 0..Len(PlanOf(q).writes) - 1,
             NEW landed \in BOOLEAN,
             FailAtWrite(q, n, landed)
      PROVE  ~ IsCached(q) /\ \E mem, tab : HandlerStep(q, mem, tab)
  <2>1. n \in Nat
    OBVIOUS
  <2>2. \E mem, tab : HandlerStep(q, mem, tab) /\ Len(mem) = n + 1
    BY <1>2, <1>7, <2>1, FailIsStep
  <2> QED
    BY <1>7, <2>2 DEF FailAtWrite
<1>8. ~ Restart
  BY <1>2 DEF Restart, TypeOK
<1>9. Tick => UNCHANGED <<lists, db>>
  BY DEF Tick
<1> QED
  BY <1>3, <1>4, <1>5, <1>6, <1>7, <1>8, <1>9 DEF Next

\* A replay is without effect, in memory and in the table, as long as the
\* process lives.
THEOREM ControlPlaneReplayHasNoEffect == Spec => ReplayHasNoEffect
<1>1. IInv /\ [Next]_vars =>
        [\A k \in CacheKey : AnsweredOK(k, {life}) /\ life' = life =>
            /\ EffectsOf(k, lists') = EffectsOf(k, lists)
            /\ EffectsOf(k, db') = EffectsOf(k, db)]_vars
  BY StepHasNoNewEffect
<1> QED
  BY <1>1, ControlPlaneInvariant, PTL DEF Spec, ReplayHasNoEffect
=============================================================================
