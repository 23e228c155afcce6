---------------------- MODULE RuntimeConvergenceProofs ----------------------
(***************************************************************************)
(* What the runtime convergence scripts promise, for every configuration,  *)
(* every .env and every order of edits, exports, plans and applications.   *)
(***************************************************************************)
EXTENDS RuntimeConvergence, WellFoundedInduction, TLAPS

-----------------------------------------------------------------------------
(* Paths.                                                                  *)

LEMMA PrefixKeys ==
    ASSUME NEW p \in Path, NEW q \in Path
    PROVE  IsPrefix(p, q) <=> Len(p) <= Len(q) /\ \A i \in 1..Len(p) : p[i] = q[i]
<1>1. Len(p) <= Len(q) => Len(p) \in Nat /\ Len(q) \in Nat /\ Len(SubSeq(p, 1, Len(p))) = Len(SubSeq(q, 1, Len(p)))
  BY DEF Path
<1> QED
  BY <1>1 DEF Path, IsPrefix

\* The parents of a path are the paths strictly above it.
LEMMA ParentsAreAbove ==
    ASSUME NEW p \in Path, NEW q \in Path
    PROVE  q \in ParentsOf(p) <=> IsPrefix(q, p) /\ q # p
<1> QED
  BY PrefixKeys DEF Path, ParentsOf

LEMMA ParentsArePaths ==
    ASSUME NEW p \in Path
    PROVE  ParentsOf(p) \subseteq Path
<1> QED
  BY DEF Path, ParentsOf

LEMMA PrefixTransitive ==
    ASSUME NEW p \in Path, NEW q \in Path, NEW r \in Path,
           IsPrefix(p, q), IsPrefix(q, r)
    PROVE  IsPrefix(p, r)
<1> QED
  BY PrefixKeys DEF Path

LEMMA PrefixAntisymmetric ==
    ASSUME NEW p \in Path, NEW q \in Path, IsPrefix(p, q), IsPrefix(q, p)
    PROVE  p = q
<1> QED
  BY PrefixKeys DEF Path

\* Two paths above the same one are above each other.
LEMMA PrefixesCompare ==
    ASSUME NEW p \in Path, NEW q \in Path, NEW r \in Path,
           IsPrefix(p, r), IsPrefix(q, r)
    PROVE  IsPrefix(p, q) \/ IsPrefix(q, p)
<1> QED
  BY PrefixKeys DEF Path

LEMMA NamedPaths ==
    /\ EnforcePaths \subseteq Path
    /\ TelegramEnabled \in Path
    /\ \A p, q \in EnforcePaths \cup {TelegramEnabled} : IsPrefix(p, q) => p = q
<1>1. /\ Len(Bind) = 2 /\ Bind[1] = "gateway" /\ Bind[2] = "bind"
      /\ Len(Port) = 2 /\ Port[1] = "gateway" /\ Port[2] = "port"
  BY DEF Bind, Port
<1>2. /\ Len(Every) = 4 /\ Every[1] = "agents" /\ Every[2] = "defaults"
      /\ Every[3] = "heartbeat" /\ Every[4] = "every"
  BY DEF Every
<1>3. /\ Len(TelegramEnabled) = 3 /\ TelegramEnabled[1] = "channels"
      /\ TelegramEnabled[2] = "telegram" /\ TelegramEnabled[3] = "enabled"
  BY DEF TelegramEnabled
<1>4. {"gateway", "bind", "port"} \subseteq Key
  BY <1>1, KeyAssumption DEF EnforcePaths
<1>5. {"agents", "defaults", "heartbeat", "every"} \subseteq Key
  <2>1. \A i \in 1..Len(Every) : Every[i] \in Key
    BY KeyAssumption DEF EnforcePaths
  <2>2. Every[1] \in Key /\ Every[2] \in Key /\ Every[3] \in Key /\ Every[4] \in Key
    BY <1>2, <2>1
  <2> QED
    BY <1>2, <2>2
<1>6. {"channels", "telegram", "enabled"} \subseteq Key
  BY <1>3, KeyAssumption
<1>7. EnforcePaths \subseteq Path
  BY <1>4, <1>5 DEF EnforcePaths, Path, Bind, Port, Every
<1>8. TelegramEnabled \in Path
  BY <1>6 DEF Path, TelegramEnabled
<1> DEFINE Scripted == EnforcePaths \cup {TelegramEnabled}
<1>9. \A p \in Scripted : Len(p) \in {2, 3, 4}
  BY <1>1, <1>2, <1>3 DEF EnforcePaths
<1>10. \A p, q \in Scripted : p[1] = q[1] /\ p[2] = q[2] => p = q
  <2> SUFFICES ASSUME NEW p \in Scripted, NEW q \in Scripted, p[1] = q[1], p[2] = q[2]
               PROVE  p = q
    OBVIOUS
  <2>1. CASE p = Bind
    BY <1>1, <1>2, <1>3, <2>1 DEF EnforcePaths
  <2>2. CASE p = Port
    BY <1>1, <1>2, <1>3, <2>2 DEF EnforcePaths
  <2>3. CASE p = Every
    BY <1>1, <1>2, <1>3, <2>3 DEF EnforcePaths
  <2>4. CASE p = TelegramEnabled
    BY <1>1, <1>2, <1>3, <2>4 DEF EnforcePaths
  <2> QED
    BY <2>1, <2>2, <2>3, <2>4 DEF EnforcePaths
<1>11. Scripted \subseteq Path
  BY <1>7, <1>8
<1> HIDE DEF Scripted
<1>12. \A p, q \in Scripted : IsPrefix(p, q) => p = q
  BY <1>9, <1>10, <1>11, PrefixKeys
<1> QED
  BY <1>7, <1>8, <1>12 DEF Scripted

-----------------------------------------------------------------------------
(* What the operators on objects keep.                                     *)

\* An object holds what was set in it.
LEMMA SetPathSets ==
    ASSUME NEW c, NEW p, NEW v
    PROVE  Get(SetPath(c, p, v), p) = v
<1> QED
  BY DEF Get, SetPath

\* What is not at the path, nor below it, stays, unless it is on the way to
\* it and no object.
LEMMA SetPathKeeps ==
    ASSUME NEW c, NEW p \in Path, NEW v, NEW q \in Path,
           ~ IsPrefix(p, q), q \in ParentsOf(p) => Get(c, q) = Dict
    PROVE  Get(SetPath(c, p, v), q) = Get(c, q)
<1>1. q # p /\ ~ IsStrictPrefix(p, q)
  BY PrefixKeys DEF IsStrictPrefix
<1>2. CASE q \in ParentsOf(p)
  BY <1>1, <1>2, KindsAssumption DEF Get, SetPath
<1>3. CASE q \notin ParentsOf(p)
  BY <1>1, <1>3 DEF Get, SetPath
<1> QED
  BY <1>2, <1>3

\* set_path leaves an object.
LEMMA SetPathIsObject ==
    ASSUME NEW c, IsObject(c), NEW p \in Path, NEW v, v # None
    PROVE  IsObject(SetPath(c, p, v))
<1> DEFINE D == {r \in DOMAIN c : ~ IsStrictPrefix(p, r)} \cup ParentsOf(p) \cup {p}
           new == SetPath(c, p, v)
<1>1. DOMAIN new = D
  BY DEF SetPath
<1>2. \A q \in D : new[q] = IF q = p THEN v ELSE IF q \in ParentsOf(p) THEN Dict ELSE c[q]
  BY DEF SetPath
<1>3. D \subseteq Path
  BY ParentsArePaths DEF IsObject
<1> HIDE DEF new
<1>4. \A q \in D : new[q] # None
  BY <1>2, KindsAssumption DEF IsObject
<1>5. ASSUME NEW q \in D, NEW r \in ParentsOf(q)
      PROVE  r \in D /\ new[r] = Dict
  <2>1. q \in Path /\ r \in Path /\ IsPrefix(r, q) /\ r # q
    BY <1>3, <1>5, ParentsArePaths, ParentsAreAbove
  <2>2. CASE r \in ParentsOf(p)
    <3>1. r # p
      BY <2>1, <2>2, ParentsAreAbove
    <3> QED
      BY <1>2, <2>2, <3>1
  <2>3. CASE r \notin ParentsOf(p)
    <3>1. q # p /\ q \notin ParentsOf(p)
      <4>1. q # p
        BY <1>5, <2>3
      <4>2. SUFFICES ASSUME q \in ParentsOf(p)
                     PROVE  FALSE
        BY <4>1
      <4>3. IsPrefix(q, p) /\ q # p
        BY <2>1, <4>2, ParentsAreAbove
      <4>4. IsPrefix(r, p)
        BY <2>1, <4>3, PrefixTransitive
      <4>5. r # p
        BY <2>1, <4>3, PrefixAntisymmetric
      <4> QED
        BY <2>1, <2>3, <4>4, <4>5, ParentsAreAbove
    <3>2. q \in DOMAIN c /\ ~ IsStrictPrefix(p, q)
      BY <3>1
    <3>3. r \in DOMAIN c /\ c[r] = Dict
      BY <1>5, <3>2 DEF IsObject, IsTree
    <3>4. r # p /\ ~ IsStrictPrefix(p, r)
      BY <2>1, <3>1, <3>2, PrefixTransitive DEF IsStrictPrefix
    <3> QED
      BY <1>2, <2>3, <3>3, <3>4
  <2> QED
    BY <2>2, <2>3
<1> HIDE DEF D
<1> QED
  BY <1>1, <1>3, <1>4, <1>5 DEF IsObject, IsTree, new

\* redact leaves an object: it hides all that is below a secret key, and the
\* key itself becomes a scalar.
LEMMA RedactIsObject ==
    ASSUME NEW c, IsObject(c)
    PROVE  IsObject(Redact(c))
<1> DEFINE D == {r \in DOMAIN c : \A q \in ParentsOf(r) : Last(q) \notin SecretKey}
           new == Redact(c)
<1>1. DOMAIN new = D
  BY DEF Redact
<1>2. \A p \in D :
        new[p] = IF Last(p) \in SecretKey \/ c[p] \in SecretValue THEN Redacted ELSE c[p]
  BY DEF Redact
<1> HIDE DEF new
<1>3. D \subseteq Path /\ \A p \in D : new[p] # None
  BY <1>2, KindsAssumption DEF IsObject
<1>4. ASSUME NEW p \in D, NEW q \in ParentsOf(p)
      PROVE  q \in D /\ new[q] = Dict
  <2>1. p \in Path /\ q \in Path /\ IsPrefix(q, p)
    BY <1>3, <1>4, ParentsArePaths, ParentsAreAbove
  <2>2. q \in DOMAIN c /\ c[q] = Dict /\ Last(q) \notin SecretKey
    BY <1>4 DEF IsObject, IsTree
  <2>3. ASSUME NEW r \in ParentsOf(q)
        PROVE  r \in ParentsOf(p)
    <3>1. r \in Path /\ IsPrefix(r, q) /\ r # q
      BY <2>1, <2>3, ParentsArePaths, ParentsAreAbove
    <3>2. IsPrefix(r, p) /\ r # p
      BY <2>1, <3>1, PrefixTransitive, PrefixAntisymmetric
    <3> QED
      BY <2>1, <3>1, <3>2, ParentsAreAbove
  <2>4. q \in D
    BY <2>2, <2>3
  <2> QED
    BY <1>2, <2>2, <2>4, KindsAssumption
<1> HIDE DEF D
<1> QED
  BY <1>1, <1>3, <1>4 DEF IsObject, IsTree, new

\* What an export shows of a path depends on what is there, and on nothing
\* else of the object.
LEMMA RedactFollows ==
    ASSUME NEW c, IsObject(c), NEW d, IsObject(d), NEW p, Get(c, p) = Get(d, p)
    PROVE  Get(Redact(c), p) = Get(Redact(d), p)
<1>1. p \in DOMAIN c <=> p \in DOMAIN d
  BY DEF Get, IsObject
<1>2. p \in DOMAIN c => c[p] = d[p]
  BY <1>1 DEF Get
<1> QED
  BY <1>1, <1>2 DEF Get, Redact

\* A value that an export shows, neither hidden nor absent, is the real one.
LEMMA ShownIsReal ==
    ASSUME NEW c, NEW p, Get(Redact(c), p) \notin {None, Redacted}
    PROVE  Get(c, p) = Get(Redact(c), p)
<1> QED
  BY DEF Get, Redact

\* A path that an export marks is a secret.
LEMMA MarkedIsHidden ==
    ASSUME NEW c, NEW p, Get(Redact(c), p) = Redacted
    PROVE  Hidden(c, p)
<1>1. p \in DOMAIN c /\ (Last(p) \in SecretKey \/ c[p] \in SecretValue \cup {Redacted})
  BY KindsAssumption DEF Get, Redact
<1> QED
  BY <1>1 DEF Hidden, Get

\* A path that an export lacks is below a secret key.
LEMMA MissingIsBelowSecret ==
    ASSUME NEW c, IsObject(c), NEW p \in DOMAIN c, Get(Redact(c), p) = None
    PROVE  \E q \in ParentsOf(p) : Last(q) \in SecretKey
<1>1. p \in DOMAIN Redact(c) => Redact(c)[p] # None
  BY RedactIsObject DEF IsObject
<1>2. p \notin DOMAIN Redact(c)
  BY <1>1 DEF Get
<1> QED
  BY <1>2 DEF Redact

\* The paths that the scripts name are exported as they are.
LEMMA NamedAreShown ==
    ASSUME NEW c, NEW p \in EnforcePaths \cup {TelegramEnabled}, Get(c, p) \notin SecretValue
    PROVE  Get(Redact(c), p) = Get(c, p)
<1>1. p \in Path
  BY NamedPaths
<1>2. Last(p) \notin SecretKey
  BY <1>1, KeyAssumption DEF Last, Path
<1>3. \A q \in ParentsOf(p) : Last(q) \notin SecretKey
  BY <1>1, KeyAssumption DEF Last, Path, ParentsOf
<1> QED
  BY <1>2, <1>3 DEF Get, Redact

-----------------------------------------------------------------------------
(* What a merge does.                                                      *)

\* What a plan may ask for.
AreOperations(operations) ==
    /\ DOMAIN operations \subseteq EnforcePaths
    /\ \A p \in DOMAIN operations : operations[p] # None

\* q is neither set nor changed on the way to p.
Spared(c, p, q) == ~ IsPrefix(p, q) /\ (q \in ParentsOf(p) => Get(c, q) = Dict)

LEMMA OperateIsObject ==
    ASSUME NEW c, IsObject(c), NEW operations, AreOperations(operations),
           NEW p \in EnforcePaths
    PROVE  IsObject(Operate(c, operations, p))
<1>1. p \in Path
  BY NamedPaths
<1>2. p \in DOMAIN operations => operations[p] # None
  BY DEF AreOperations
<1> QED
  BY <1>1, <1>2, SetPathIsObject DEF Operate

LEMMA OperateKeeps ==
    ASSUME NEW c, NEW operations, NEW p \in EnforcePaths, NEW q \in Path,
           p \in DOMAIN operations => Spared(c, p, q)
    PROVE  Get(Operate(c, operations, p), q) = Get(c, q)
<1>1. p \in Path
  BY NamedPaths
<1>2. CASE p \in DOMAIN operations
  <2>1. Spared(c, p, q)
    BY <1>2
  <2>2. Get(SetPath(c, p, operations[p]), q) = Get(c, q)
    BY <1>1, <2>1, SetPathKeeps DEF Spared
  <2> QED
    BY <1>2, <2>2 DEF Operate
<1> QED
  BY <1>2 DEF Operate

LEMMA MergeIsObject ==
    ASSUME NEW c, IsObject(c), NEW operations, AreOperations(operations)
    PROVE  IsObject(Merge(c, operations))
<1>1. IsObject(Operate(c, operations, Bind))
  BY OperateIsObject DEF EnforcePaths
<1>2. IsObject(Operate(Operate(c, operations, Bind), operations, Port))
  BY <1>1, OperateIsObject DEF EnforcePaths
<1>3. IsObject(Operate(Operate(Operate(c, operations, Bind), operations, Port),
                       operations, Every))
  BY <1>2, OperateIsObject DEF EnforcePaths
<1> QED
  BY <1>3 DEF Merge

\* A path that every operation spares keeps its value: the ones on the way to
\* an operation stay objects through the others.
LEMMA MergeKeeps ==
    ASSUME NEW c, NEW operations, DOMAIN operations \subseteq EnforcePaths, NEW q \in Path,
           \A p \in DOMAIN operations : Spared(c, p, q)
    PROVE  Get(Merge(c, operations), q) = Get(c, q)
<1> DEFINE first == Operate(c, operations, Bind)
           second == Operate(first, operations, Port)
<1>1. Get(first, q) = Get(c, q)
  BY OperateKeeps DEF EnforcePaths
<1>2. \A p \in DOMAIN operations : Spared(first, p, q)
  BY <1>1 DEF Spared
<1> HIDE DEF first
<1>3. Get(second, q) = Get(c, q)
  BY <1>1, <1>2, OperateKeeps DEF EnforcePaths
<1>4. \A p \in DOMAIN operations : Spared(second, p, q)
  BY <1>3 DEF Spared
<1> HIDE DEF second
<1>5. Get(Operate(second, operations, Every), q) = Get(c, q)
  BY <1>3, <1>4, OperateKeeps DEF EnforcePaths
<1> QED
  BY <1>5 DEF Merge, first, second

\* A merged configuration has the plan's value at every path of the plan, and
\* what it had at the other paths that plans enforce.
LEMMA MergeSets ==
    ASSUME NEW c, NEW operations, NEW p \in EnforcePaths
    PROVE  Get(Merge(c, operations), p) =
                IF p \in DOMAIN operations THEN operations[p] ELSE Get(c, p)
<1>1. ASSUME NEW d, NEW r \in EnforcePaths, r # p
      PROVE  Get(Operate(d, operations, r), p) = Get(d, p)
  <2>1. p \in Path /\ r \in Path /\ ~ IsPrefix(p, r) /\ ~ IsPrefix(r, p)
    BY <1>1, NamedPaths
  <2>2. p \notin ParentsOf(r)
    BY <2>1, ParentsAreAbove
  <2> QED
    BY <2>1, <2>2, OperateKeeps DEF Spared
<1>2. ASSUME NEW d
      PROVE  Get(Operate(d, operations, p), p) =
                IF p \in DOMAIN operations THEN operations[p] ELSE Get(d, p)
  BY SetPathSets DEF Operate
<1>3. Bind # Port /\ Bind # Every /\ Port # Every
  BY DEF Bind, Port, Every
<1> DEFINE first == Operate(c, operations, Bind)
           second == Operate(first, operations, Port)
           third == Operate(second, operations, Every)
<1>4. CASE p = Bind
  <2>1. Get(third, p) = Get(second, p)
    BY <1>1, <1>3, <1>4 DEF EnforcePaths
  <2>2. Get(second, p) = Get(first, p)
    BY <1>1, <1>3, <1>4 DEF EnforcePaths
  <2> QED
    BY <1>2, <1>4, <2>1, <2>2 DEF Merge
<1>5. CASE p = Port
  <2>1. Get(third, p) = Get(second, p)
    BY <1>1, <1>3, <1>5 DEF EnforcePaths
  <2>2. Get(first, p) = Get(c, p)
    BY <1>1, <1>3, <1>5 DEF EnforcePaths
  <2> QED
    BY <1>2, <1>5, <2>1, <2>2 DEF Merge
<1>6. CASE p = Every
  <2>1. Get(second, p) = Get(first, p)
    BY <1>1, <1>3, <1>6 DEF EnforcePaths
  <2>2. Get(first, p) = Get(c, p)
    BY <1>1, <1>3, <1>6 DEF EnforcePaths
  <2> QED
    BY <1>2, <1>6, <2>1, <2>2 DEF Merge
<1> QED
  BY <1>4, <1>5, <1>6 DEF EnforcePaths

\* The operations of a plan ask for what the export does not show already.
LEMMA OperationsAsk ==
    ASSUME NEW c, NEW enforced, \A p \in EnforcePaths : enforced[p] \notin {None, Redacted},
           NEW p \in EnforcePaths
    PROVE  /\ AreOperations(Operations(Redact(c), enforced))
           /\ Get(Merge(c, Operations(Redact(c), enforced)), p) = enforced[p]
<1> DEFINE operations == Operations(Redact(c), enforced)
<1>1. AreOperations(operations)
  BY DEF AreOperations, Operations
<1>2. CASE p \in DOMAIN operations
  <2>1. operations[p] = enforced[p]
    BY <1>2 DEF Operations
  <2> QED
    BY <1>1, <1>2, <2>1, MergeSets
<1>3. CASE p \notin DOMAIN operations
  <2>1. Get(Redact(c), p) = enforced[p]
    BY <1>3 DEF Operations
  <2>2. Get(c, p) = enforced[p]
    BY <2>1, ShownIsReal
  <2> QED
    BY <1>1, <1>3, <2>2, MergeSets
<1> QED
  BY <1>2, <1>3

-----------------------------------------------------------------------------
(* The inductive invariant.                                                *)

IsSequence(s) == s \in Seq({s[i] : i \in DOMAIN s})

\* Files only change by new revisions, each at the time it is written.
HistoryOK ==
    /\ DOMAIN history = Profile
    /\ \A p \in Profile :
        /\ IsSequence(history[p])
        /\ Revision(p) >= 1
        /\ history[p][1].by = None
        /\ \A n \in 1..Revision(p) :
            IsObject(history[p][n].tree) /\ history[p][n].at \in 0..clock
    /\ clock \in 0..MaxTime

BaselineOK ==
    baseline # None =>
        /\ baseline.profile \in Profile
        /\ baseline.revision \in 1..Revision(baseline.profile)
        /\ baseline.config = Redact(history[baseline.profile][baseline.revision].tree)

\* A plan asks for what the export it was built from did not show.
IsPlan(pl) ==
    /\ pl.profile \in Profile
    /\ pl.revision \in 1..Revision(pl.profile)
    /\ \A p \in EnforcePaths : pl.enforce[p] \notin {None, Redacted}
    /\ pl.enforce[Bind] = Loopback
    /\ pl.operations = Operations(
            Redact(history[pl.profile][pl.revision].tree), pl.enforce)

PlanOK == plan # None => IsPlan(plan)

Directories(run, p) == {<<run.started, p, "named">>, <<run.started, p, "within">>}

\* A directory holds the configuration as it was at the time it is named
\* after, or later, and the one that is made first belongs to one run.
IsBackup(d, backup) ==
    /\ d \in (0..clock) \X Profile \X {"named", "within"}
    /\ backup \in [file : {"absent", "torn", "mixed", "whole"},
                   revision : Nat, runs : Nat \ {0}]
    /\ d[3] = "named" => backup.runs = 1
    /\ backup.file # "absent" =>
        /\ backup.revision \in 1..Revision(d[2])
        /\ \A m \in (backup.revision + 1)..Revision(d[2]) : history[d[2]][m].at >= d[1]

BackupsOK == \A d \in DOMAIN backups : IsBackup(d, backups[d])

\* What a run has merged is the plan it read and a revision it has backed up,
\* and its backup is there while no other run has copied to the directory.
IsMerge(run, p, tree) ==
    /\ IsPlan(run.plan)
    /\ run.started \in 0..clock
    /\ run.dir \in Directories(run, p)
    /\ run.dir \in DOMAIN backups
    /\ run.base \in 1..Revision(p)
    /\ backups[run.dir].runs = 1 =>
        backups[run.dir].file = "whole" /\ backups[run.dir].revision <= run.base
    /\ tree = Merge(history[p][run.base].tree, run.plan.operations)

\* A run that has claimed a directory, and what it has copied there, while no
\* other run has.
IsClaim(mine) ==
    /\ mine.dir \in Directories(mine, mine.profile)
    /\ mine.dir \in DOMAIN backups
    /\ mine.step = "copying" => backups[mine.dir].file # "absent"
    /\ backups[mine.dir].runs = 1 =>
        /\ mine.step = "copying" => backups[mine.dir].file = "torn"
        /\ mine.step = "backed_up" => backups[mine.dir].file = "whole"

IsRun(mine) ==
    /\ mine.profile \in Profile
    /\ mine.started \in 0..clock
    /\ mine.step \in {"started", "made", "copying", "backed_up", "merged"}
    /\ mine.step # "started" => IsClaim(mine)
    /\ mine.step = "merged" => IsMerge(mine, mine.profile, mine.merged)

RunsOK ==
    /\ DOMAIN apply = Applier
    /\ \A a \in Applier : apply[a] # None => IsRun(apply[a]) /\ IsPlan(plan)

WritesOK ==
    \A p \in Profile : \A n \in Applied(p) :
        IsMerge(history[p][n].by, p, history[p][n].tree)

Claims(a) == apply[a] # None /\ apply[a].step # "started"

\* Two runs have claimed the same directory only by copying to it twice.
ClaimsOK ==
    \A a \in Applier : Claims(a) =>
        /\ \A b \in Applier \ {a} :
            Claims(b) /\ apply[b].dir = apply[a].dir => backups[apply[a].dir].runs # 1
        /\ \A p \in Profile : \A n \in Applied(p) :
            history[p][n].by.dir = apply[a].dir => backups[apply[a].dir].runs # 1

IInv ==
    /\ HistoryOK
    /\ BaselineOK
    /\ PlanOK
    /\ BackupsOK
    /\ RunsOK
    /\ WritesOK
    /\ ClaimsOK

\* The .env that a plan is built from says what the plan enforces.
LEMMA EnforcedFacts ==
    ASSUME NEW env \in Env
    PROVE  /\ \A p \in EnforcePaths : Enforced(env)[p] \notin {None, Redacted}
           /\ Enforced(env)[Bind] = Loopback
<1>1. Loopback \notin {None, Redacted} /\ GatewayPort(env) \notin {None, Redacted}
      /\ Heartbeat(env) \notin {None, Redacted}
  BY PolicyAssumption DEF GatewayPort, Heartbeat
<1> QED
  BY <1>1 DEF Enforced, EnforcePaths

LEMMA AppendedHistory ==
    ASSUME NEW s, IsSequence(s), NEW e
    PROVE  /\ IsSequence(Append(s, e))
           /\ Len(s) \in Nat
           /\ Len(Append(s, e)) = Len(s) + 1
           /\ \A n \in 1..Len(s) : Append(s, e)[n] = s[n]
           /\ Append(s, e)[Len(s) + 1] = e
<1> DEFINE S == {s[i] : i \in DOMAIN s} \cup {e}
<1>1. s \in Seq(S) /\ e \in S
  BY DEF IsSequence
<1> HIDE DEF S
<1>2. /\ Append(s, e) \in Seq(S) /\ Len(s) \in Nat
      /\ Len(Append(s, e)) = Len(s) + 1
      /\ \A n \in 1..Len(s) : Append(s, e)[n] = s[n]
      /\ Append(s, e)[Len(s) + 1] = e
  BY <1>1
<1> DEFINE t == Append(s, e)
<1>3. \A u \in Seq(S) : IsSequence(u)
  BY DEF IsSequence
<1> QED
  BY <1>2, <1>3

\* Nothing that a file, a directory or the clock has been is lost.
Grows ==
    /\ DOMAIN history' = Profile
    /\ \A p \in Profile :
        /\ Revision(p) \in Nat /\ Revision(p)' \in Nat /\ Revision(p) <= Revision(p)'
        /\ \A n \in 1..Revision(p) : history'[p][n] = history[p][n]
        /\ \A n \in (Revision(p) + 1)..Revision(p)' : history'[p][n].at = clock
    /\ clock \in Nat /\ clock' \in Nat /\ clock <= clock'
    /\ DOMAIN backups \subseteq DOMAIN backups'
    /\ \A d \in DOMAIN backups :
        /\ backups[d].runs # 1 => backups'[d].runs # 1
        /\ backups[d].file # "absent" => backups'[d].file # "absent"

\* Nothing has happened to a directory, but that another run has come to it.
Undisturbed(d) ==
    d \in DOMAIN backups' /\ (backups'[d].runs = 1 => backups'[d] = backups[d])

\* A write adds one revision.
LEMMA WriteGrows ==
    ASSUME HistoryOK, NEW p \in Profile, NEW tree, NEW by, Write(p, tree, by)
    PROVE  /\ DOMAIN history' = Profile
           /\ \A r \in Profile : IsSequence(history[r]')
           /\ \A r \in Profile \ {p} : history'[r] = history[r]
           /\ Revision(p) \in Nat
           /\ Revision(p)' = Revision(p) + 1
           /\ \A n \in 1..Revision(p) : history'[p][n] = history[p][n]
           /\ history'[p][Revision(p) + 1] = [tree |-> tree, at |-> clock, by |-> by]
<1> DEFINE e == [tree |-> tree, at |-> clock, by |-> by]
<1>1. DOMAIN history' = Profile /\ history'[p] = Append(history[p], e)
  BY DEF Write, HistoryOK
<1>2. \A r \in Profile \ {p} : history'[r] = history[r]
  BY DEF Write, HistoryOK
<1>3. \A r \in Profile : IsSequence(history[r])
  BY DEF HistoryOK
<1> HIDE DEF e
<1>4. /\ IsSequence(history'[p])
      /\ Len(history[p]) \in Nat
      /\ Len(history'[p]) = Len(history[p]) + 1
      /\ \A n \in 1..Len(history[p]) : history'[p][n] = history[p][n]
      /\ history'[p][Len(history[p]) + 1] = e
  BY <1>1, <1>3, AppendedHistory
<1>5. \A r \in Profile : IsSequence(history[r]')
  BY <1>2, <1>3, <1>4
<1> QED
  BY <1>1, <1>2, <1>4, <1>5 DEF Revision, e

LEMMA WriteIsGrowth ==
    ASSUME HistoryOK, NEW p \in Profile, NEW tree, NEW by, Write(p, tree, by),
           UNCHANGED <<backups, clock>>
    PROVE  Grows
<1>1. \A r \in Profile \ {p} : Revision(r) \in Nat /\ Revision(r)' = Revision(r)
  BY WriteGrows, AppendedHistory DEF Revision, HistoryOK
<1>2. clock \in Nat /\ clock' = clock /\ backups' = backups
  BY DEF HistoryOK
<1>3. /\ DOMAIN history' = Profile
      /\ \A r \in Profile \ {p} : history'[r] = history[r]
      /\ Revision(p) \in Nat
      /\ Revision(p)' = Revision(p) + 1
      /\ \A n \in 1..Revision(p) : history'[p][n] = history[p][n]
      /\ history'[p][Revision(p) + 1] = [tree |-> tree, at |-> clock, by |-> by]
  BY WriteGrows
<1>4. history'[p][Revision(p) + 1].at = clock
  BY <1>3
<1>5. ASSUME NEW r \in Profile
      PROVE  /\ Revision(r) \in Nat /\ Revision(r)' \in Nat /\ Revision(r) <= Revision(r)'
             /\ \A n \in 1..Revision(r) : history'[r][n] = history[r][n]
             /\ \A n \in (Revision(r) + 1)..Revision(r)' : history'[r][n].at = clock
  <2>1. CASE r = p
    BY <1>3, <1>4, <2>1
  <2>2. CASE r # p
    BY <1>1, <1>3, <2>2
  <2> QED
    BY <2>1, <2>2
<1> QED
  BY <1>2, <1>3, <1>5 DEF Grows

\* The steps of cp.
CpStep(a) == MakeDirectory(a) \/ OpenCopy(a) \/ FinishCopy(a)

\* The steps that write no configuration.
Quiet ==
    \/ \E p \in Profile :
        \/ ExportBaseline(p)
        \/ \E a \in Applier : Start(a, p)
    \/ \E env \in Env : BuildPlan(env)
    \/ \E a \in Applier : CpStep(a) \/ ReadAndMerge(a) \/ Die(a)
    \/ Tick
    \/ UNCHANGED vars

LEMMA QuietKeepsHistory ==
    ASSUME Quiet
    PROVE  history' = history
<1> QED
  BY DEF Quiet, ExportBaseline, Start, BuildPlan, CpStep, MakeDirectory, OpenCopy,
         FinishCopy, ReadAndMerge, Die, Tick, vars

LEMMA StepsWrite ==
    ASSUME IInv, [Next]_vars
    PROVE  \/ Quiet
           \/ \E e \in Edit : Touch(e)
           \/ \E a \in Applier : Replace(a)
<1> QED
  BY DEF Next, ApplyStep, Quiet, CpStep

\* Run a makes directory d, or comes to it.
Makes(a, mine, d) ==
    /\ mine = apply[a]
    /\ mine # None /\ mine.step = "started" /\ IsRun(mine)
    /\ d \in Directories(mine, mine.profile)
    /\ d \in DOMAIN backups => d[3] # "named"
    /\ DOMAIN backups' = DOMAIN backups \cup {d}
    /\ \A e \in DOMAIN backups \ {d} : backups'[e] = backups[e]
    /\ d \in DOMAIN backups => backups'[d] =
            [file |-> backups[d].file, revision |-> backups[d].revision,
             runs |-> backups[d].runs + 1]
    /\ d \notin DOMAIN backups =>
            backups'[d] = [file |-> "absent", revision |-> 0, runs |-> 1]
    /\ apply' = [apply EXCEPT ![a] =
            [step |-> "made", profile |-> mine.profile,
             started |-> mine.started, dir |-> d]]
    /\ history' = history /\ clock' = clock

\* Run a opens the file, which is then torn or mixed.
Opens(a, mine, file) ==
    /\ mine = apply[a]
    /\ mine # None /\ mine.step = "made" /\ IsRun(mine)
    /\ file \in {"torn", "mixed"}
    /\ backups[mine.dir].runs = 1 => file = "torn"
    /\ DOMAIN backups' = DOMAIN backups
    /\ \A e \in DOMAIN backups \ {mine.dir} : backups'[e] = backups[e]
    /\ backups'[mine.dir] =
            [file |-> file, revision |-> Revision(mine.profile),
             runs |-> backups[mine.dir].runs]
    /\ apply' = [apply EXCEPT ![a] = [mine EXCEPT !.step = "copying"]]
    /\ history' = history /\ clock' = clock

\* Run a finishes its copy, which is then whole or mixed.
Finishes(a, mine, file) ==
    /\ mine = apply[a]
    /\ mine # None /\ mine.step = "copying" /\ IsRun(mine)
    /\ file \in {"whole", "mixed"}
    /\ backups[mine.dir].runs = 1 => file = "whole"
    /\ DOMAIN backups' = DOMAIN backups
    /\ \A e \in DOMAIN backups \ {mine.dir} : backups'[e] = backups[e]
    /\ backups'[mine.dir] =
            [file |-> file, revision |-> backups[mine.dir].revision,
             runs |-> backups[mine.dir].runs]
    /\ apply' = [apply EXCEPT ![a] = [mine EXCEPT !.step = "backed_up"]]
    /\ history' = history /\ clock' = clock

\* cp takes the directory of its second if there is none yet, and the one
\* within it otherwise.
LEMMA MakeDirectoryDoes ==
    ASSUME IInv, NEW a \in Applier, MakeDirectory(a)
    PROVE  \E mine, d : Makes(a, mine, d)
<1>a. PICK mine, d : mine = apply[a] /\ d = Directory(mine)
  OBVIOUS
<1>3. /\ mine # None /\ mine.step = "started" /\ IsRun(mine)
      /\ DOMAIN backups' = DOMAIN backups \cup {d}
      /\ \A e \in DOMAIN backups \ {d} : backups'[e] = backups[e]
      /\ d \in DOMAIN backups => backups'[d] = [backups[d] EXCEPT !.runs = @ + 1]
      /\ d \notin DOMAIN backups =>
            backups'[d] = [file |-> "absent", revision |-> 0, runs |-> 1]
      /\ apply' = [apply EXCEPT ![a] =
            [step |-> "made", profile |-> mine.profile,
             started |-> mine.started, dir |-> d]]
      /\ history' = history /\ clock' = clock
  BY <1>a DEF MakeDirectory, IInv, RunsOK
<1>4. /\ d \in Directories(mine, mine.profile)
      /\ d \in DOMAIN backups => d[3] # "named"
  BY <1>a DEF Directory, Named, Within, Directories
<1>5. d \in DOMAIN backups => backups'[d] =
            [file |-> backups[d].file, revision |-> backups[d].revision,
             runs |-> backups[d].runs + 1]
  <2>1. SUFFICES ASSUME d \in DOMAIN backups
                 PROVE  backups'[d] =
                            [file |-> backups[d].file, revision |-> backups[d].revision,
                             runs |-> backups[d].runs + 1]
    OBVIOUS
  <2>2. backups[d] \in [file : {"absent", "torn", "mixed", "whole"},
                        revision : Nat, runs : Nat \ {0}]
    BY <2>1 DEF IInv, BackupsOK, IsBackup
  <2> QED
    BY <1>3, <2>1, <2>2
<1> QED
  BY <1>a, <1>3, <1>4, <1>5 DEF Makes

\* cp writes to the directory of its run only, and has the copy to itself
\* unless another run has copied to that directory.
LEMMA OpenCopyDoes ==
    ASSUME IInv, NEW a \in Applier, OpenCopy(a)
    PROVE  \E mine, file : Opens(a, mine, file)
<1>a. PICK mine, file : mine = apply[a] /\ file = backups'[mine.dir].file
  OBVIOUS
<1>2. PICK new : new = IF Shared(a) THEN "mixed" ELSE "torn"
  OBVIOUS
<1>3. mine # None /\ mine.step = "made" /\ IsRun(mine)
      /\ history' = history /\ clock' = clock
  BY <1>a DEF OpenCopy, IInv, RunsOK
<1>4. mine.dir \in DOMAIN backups
      /\ backups[mine.dir] \in [file : {"absent", "torn", "mixed", "whole"},
                                revision : Nat, runs : Nat \ {0}]
  BY <1>3 DEF IsRun, IsClaim, IInv, BackupsOK, IsBackup
<1>5. backups' = [backups EXCEPT
            ![mine.dir].file = new, ![mine.dir].revision = Revision(mine.profile)]
  BY <1>a, <1>2 DEF OpenCopy
<1>6. /\ DOMAIN backups' = DOMAIN backups
      /\ \A e \in DOMAIN backups \ {mine.dir} : backups'[e] = backups[e]
      /\ backups'[mine.dir] =
            [file |-> new, revision |-> Revision(mine.profile),
             runs |-> backups[mine.dir].runs]
  BY <1>4, <1>5
<1>9. file = new
  BY <1>a, <1>6
<1>7. apply' = [apply EXCEPT ![a] = [mine EXCEPT !.step = "copying"]]
  BY <1>a DEF OpenCopy
<1>8. backups[mine.dir].runs = 1 => ~ Shared(a)
  <2> SUFFICES ASSUME NEW b \in Applier \ {a},
                      apply[b] # None, apply[b].step = "copying", apply[b].dir = mine.dir
               PROVE  backups[mine.dir].runs # 1
    BY <1>a DEF Shared
  <2>1. Claims(a) /\ Claims(b)
    BY <1>a, <1>3 DEF Claims
  <2> QED
    BY <1>a, <2>1 DEF IInv, ClaimsOK
<1> QED
  BY <1>a, <1>2, <1>3, <1>6, <1>7, <1>8, <1>9 DEF Opens

LEMMA FinishCopyDoes ==
    ASSUME IInv, NEW a \in Applier, FinishCopy(a)
    PROVE  \E mine, file : Finishes(a, mine, file)
<1>a. PICK mine, file : mine = apply[a] /\ file = backups'[mine.dir].file
  OBVIOUS
<1>2. PICK new : new = IF backups[mine.dir].file = "torn" THEN "whole" ELSE "mixed"
  OBVIOUS
<1>3. mine # None /\ mine.step = "copying" /\ IsRun(mine)
      /\ history' = history /\ clock' = clock
  BY <1>a DEF FinishCopy, IInv, RunsOK
<1>4. /\ mine.dir \in DOMAIN backups
      /\ backups[mine.dir] \in [file : {"absent", "torn", "mixed", "whole"},
                                revision : Nat, runs : Nat \ {0}]
      /\ backups[mine.dir].runs = 1 => backups[mine.dir].file = "torn"
  BY <1>3 DEF IsRun, IsClaim, IInv, BackupsOK, IsBackup
<1>5. backups' = [backups EXCEPT ![mine.dir].file = new]
  BY <1>a, <1>2 DEF FinishCopy
<1>6. /\ DOMAIN backups' = DOMAIN backups
      /\ \A e \in DOMAIN backups \ {mine.dir} : backups'[e] = backups[e]
      /\ backups'[mine.dir] =
            [file |-> new, revision |-> backups[mine.dir].revision,
             runs |-> backups[mine.dir].runs]
  BY <1>4, <1>5
<1>9. file = new
  BY <1>a, <1>6
<1>7. apply' = [apply EXCEPT ![a] = [mine EXCEPT !.step = "backed_up"]]
  BY <1>a DEF FinishCopy
<1> QED
  BY <1>a, <1>2, <1>3, <1>4, <1>6, <1>7, <1>9 DEF Finishes

LEMMA StepGrows ==
    ASSUME IInv, [Next]_vars
    PROVE  Grows
<1>1. HistoryOK
  BY DEF IInv
<1>2. \A p \in Profile : Revision(p) \in Nat
  BY <1>1, AppendedHistory DEF HistoryOK, Revision
<1>3. clock \in Nat /\ DOMAIN history = Profile
  BY <1>1 DEF HistoryOK
<1>4. ASSUME history' = history, clock' \in Nat, clock <= clock',
             DOMAIN backups \subseteq DOMAIN backups',
             \A d \in DOMAIN backups :
                /\ backups[d].runs # 1 => backups'[d].runs # 1
                /\ backups[d].file # "absent" => backups'[d].file # "absent"
      PROVE  Grows
  BY <1>2, <1>3, <1>4 DEF Grows, Revision
<1>5. ASSUME NEW e \in Edit, Touch(e)
      PROVE  Grows
  <2>1. e.profile \in Profile
    BY EditAssumption
  <2> QED
    BY <1>1, <1>5, <2>1, WriteIsGrowth DEF Touch
<1>6. ASSUME NEW a \in Applier, Replace(a)
      PROVE  Grows
  <2>1. apply[a].profile \in Profile
    BY <1>6 DEF IInv, RunsOK, IsRun, Replace
  <2> QED
    BY <1>1, <1>6, <2>1, WriteIsGrowth DEF Replace
<1>7. CASE Quiet
  <2>1. history' = history
    BY <1>7, QuietKeepsHistory
  <2>2. CASE backups' = backups
    <3>1. clock' = clock \/ clock' = clock + 1
      BY <1>7 DEF Quiet, ExportBaseline, Start, BuildPlan, CpStep, MakeDirectory, OpenCopy,
         FinishCopy, ReadAndMerge, Die, Tick, vars
    <3> QED
      BY <1>3, <1>4, <2>1, <2>2, <3>1
  <2>3. ASSUME NEW a \in Applier, MakeDirectory(a)
        PROVE  Grows
    <3>a. PICK mine, d : Makes(a, mine, d)
      BY <2>3, MakeDirectoryDoes
    <3>1. /\ mine = apply[a]
          /\ DOMAIN backups' = DOMAIN backups \cup {d}
          /\ \A e \in DOMAIN backups \ {d} : backups'[e] = backups[e]
          /\ d \in DOMAIN backups => backups'[d] =
                  [file |-> backups[d].file, revision |-> backups[d].revision,
                   runs |-> backups[d].runs + 1]
          /\ clock' = clock
      BY <3>a DEF Makes
    <3>2. \A e \in DOMAIN backups : backups[e].runs \in Nat \ {0}
      BY DEF IInv, BackupsOK, IsBackup
    <3> QED
      BY <1>3, <1>4, <2>1, <3>1, <3>2
  <2>4. ASSUME NEW a \in Applier, OpenCopy(a)
        PROVE  Grows
    <3>a. PICK mine, file : Opens(a, mine, file)
      BY <2>4, OpenCopyDoes
    <3>1. /\ mine = apply[a]
          /\ file \in {"torn", "mixed"}
          /\ DOMAIN backups' = DOMAIN backups
          /\ \A e \in DOMAIN backups \ {mine.dir} : backups'[e] = backups[e]
          /\ backups'[mine.dir] =
                  [file |-> file, revision |-> Revision(mine.profile),
                   runs |-> backups[mine.dir].runs]
          /\ clock' = clock
      BY <3>a DEF Opens
    <3> QED
      BY <1>3, <1>4, <2>1, <3>1
  <2>5. ASSUME NEW a \in Applier, FinishCopy(a)
        PROVE  Grows
    <3>a. PICK mine, file : Finishes(a, mine, file)
      BY <2>5, FinishCopyDoes
    <3>1. /\ mine = apply[a]
          /\ file \in {"whole", "mixed"}
          /\ DOMAIN backups' = DOMAIN backups
          /\ \A e \in DOMAIN backups \ {mine.dir} : backups'[e] = backups[e]
          /\ backups'[mine.dir] =
                  [file |-> file, revision |-> backups[mine.dir].revision,
                   runs |-> backups[mine.dir].runs]
          /\ clock' = clock
      BY <3>a DEF Finishes
    <3> QED
      BY <1>3, <1>4, <2>1, <3>1
  <2>6. backups' = backups \/ \E a \in Applier : CpStep(a)
    BY <1>7 DEF Quiet, ExportBaseline, Start, BuildPlan, ReadAndMerge, Die, Tick, vars
  <2> QED
    BY <2>2, <2>3, <2>4, <2>5, <2>6 DEF CpStep
<1> QED
  BY <1>5, <1>6, <1>7, StepsWrite

\* Plans, merges and runs stay what they were as files grow.
LEMMA PlansStay ==
    ASSUME HistoryOK, Grows, NEW pl, IsPlan(pl)
    PROVE  IsPlan(pl)'
<1>1. /\ pl.revision \in 1..Revision(pl.profile)'
      /\ history'[pl.profile][pl.revision] = history[pl.profile][pl.revision]
  BY DEF Grows, IsPlan
<1> QED
  BY <1>1 DEF IsPlan

LEMMA MergesStay ==
    ASSUME HistoryOK, Grows, NEW run, NEW p \in Profile, NEW tree, IsMerge(run, p, tree),
           Undisturbed(run.dir)
    PROVE  IsMerge(run, p, tree)'
<1>1. IsPlan(run.plan)'
  BY PlansStay DEF IsMerge
<1>2. /\ run.base \in 1..Revision(p)'
      /\ history'[p][run.base] = history[p][run.base]
  BY DEF Grows, IsMerge
<1>3. run.started \in 0..clock'
  BY DEF Grows, IsMerge
<1>4. /\ run.dir \in DOMAIN backups'
      /\ backups'[run.dir].runs = 1 =>
            backups'[run.dir].file = "whole" /\ backups'[run.dir].revision <= run.base
  BY DEF Undisturbed, IsMerge
<1> QED
  BY <1>1, <1>2, <1>3, <1>4 DEF IsMerge, Directories

LEMMA RunsStay ==
    ASSUME HistoryOK, Grows, NEW mine, IsRun(mine),
           mine.step # "started" => Undisturbed(mine.dir)
    PROVE  IsRun(mine)'
<1>1. mine.started \in 0..clock'
  BY DEF Grows, IsRun
<1>2. mine.step # "started" => IsClaim(mine)'
  <2> SUFFICES ASSUME mine.step # "started"
               PROVE  IsClaim(mine)'
    OBVIOUS
  <2>1. IsClaim(mine) /\ Undisturbed(mine.dir)
    BY DEF IsRun
  <2>2. /\ mine.dir \in DOMAIN backups /\ mine.dir \in DOMAIN backups'
        /\ mine.step = "copying" => backups'[mine.dir].file # "absent"
    BY <2>1 DEF IsClaim, Undisturbed, Grows
  <2>3. backups'[mine.dir].runs = 1 =>
            /\ mine.step = "copying" => backups'[mine.dir].file = "torn"
            /\ mine.step = "backed_up" => backups'[mine.dir].file = "whole"
    BY <2>1 DEF IsClaim, Undisturbed
  <2> QED
    BY <2>1, <2>2, <2>3 DEF IsClaim, Directories
<1>3. mine.step = "merged" => IsMerge(mine, mine.profile, mine.merged)'
  BY MergesStay DEF IsRun
<1> QED
  BY <1>1, <1>2, <1>3 DEF IsRun

\* No step disturbs the directory of a run that it is not a step of, nor that
\* of a run whose configuration is in place.
LEMMA StepsDisturbNone ==
    ASSUME IInv, [Next]_vars
    PROVE  /\ \A b \in Applier : Claims(b) /\ apply'[b] = apply[b] => Undisturbed(apply[b].dir)
           /\ \A p \in Profile : \A n \in Applied(p) : Undisturbed(history[p][n].by.dir)
<1>1. \A b \in Applier : Claims(b) => apply[b].dir \in DOMAIN backups
  BY DEF IInv, RunsOK, IsRun, IsClaim, Claims
<1>2. \A p \in Profile : \A n \in Applied(p) : history[p][n].by.dir \in DOMAIN backups
  BY DEF IInv, WritesOK, IsMerge
<1>3. CASE backups' = backups
  BY <1>1, <1>2, <1>3 DEF Undisturbed
<1>4. ASSUME NEW a \in Applier, MakeDirectory(a)
      PROVE  \A d \in DOMAIN backups : Undisturbed(d)
  <2>a. PICK mine, d : Makes(a, mine, d)
    BY <1>4, MakeDirectoryDoes
  <2>1. /\ mine = apply[a]
        /\ DOMAIN backups' = DOMAIN backups \cup {d}
        /\ \A e \in DOMAIN backups \ {d} : backups'[e] = backups[e]
        /\ d \in DOMAIN backups => backups'[d] =
                [file |-> backups[d].file, revision |-> backups[d].revision,
                 runs |-> backups[d].runs + 1]
    BY <2>a DEF Makes
  <2>2. \A e \in DOMAIN backups : backups[e].runs \in Nat \ {0}
    BY DEF IInv, BackupsOK, IsBackup
  <2> QED
    BY <2>1, <2>2 DEF Undisturbed
<1>5. ASSUME NEW a \in Applier, OpenCopy(a) \/ FinishCopy(a)
      PROVE  /\ Claims(a) /\ apply'[a] # apply[a]
             /\ \A d \in DOMAIN backups :
                    d # apply[a].dir \/ backups[d].runs # 1 => Undisturbed(d)
  <2>0. DOMAIN apply = Applier
    BY DEF IInv, RunsOK
  <2>1. CASE OpenCopy(a)
    <3>a. PICK mine, file : Opens(a, mine, file)
      BY <2>1, OpenCopyDoes
    <3>1. /\ mine = apply[a]
          /\ mine # None /\ mine.step = "made"
          /\ DOMAIN backups' = DOMAIN backups
          /\ \A e \in DOMAIN backups \ {mine.dir} : backups'[e] = backups[e]
          /\ backups'[mine.dir] =
                  [file |-> file, revision |-> Revision(mine.profile),
                   runs |-> backups[mine.dir].runs]
          /\ IsRun(mine)
          /\ apply' = [apply EXCEPT ![a] = [mine EXCEPT !.step = "copying"]]
      BY <3>a DEF Opens
    <3>2. apply'[a] # apply[a]
      <4>1. PICK new : new = [mine EXCEPT !.step = "copying"]
        OBVIOUS
      <4>2. new.step = "copying"
        BY <3>1, <4>1 DEF IsRun
      <4> QED
        BY <2>0, <3>1, <4>1, <4>2
    <3>3. Claims(a)
      BY <3>1 DEF Claims
    <3> QED
      <4>1. \A d \in DOMAIN backups :
              d # mine.dir \/ backups[d].runs # 1 => Undisturbed(d)
        BY <3>1 DEF Undisturbed
      <4> QED
        BY <3>1, <3>2, <3>3, <4>1
  <2>2. CASE FinishCopy(a)
    <3>a. PICK mine, file : Finishes(a, mine, file)
      BY <2>2, FinishCopyDoes
    <3>1. /\ mine = apply[a]
          /\ mine # None /\ mine.step = "copying"
          /\ DOMAIN backups' = DOMAIN backups
          /\ \A e \in DOMAIN backups \ {mine.dir} : backups'[e] = backups[e]
          /\ backups'[mine.dir] =
                  [file |-> file, revision |-> backups[mine.dir].revision,
                   runs |-> backups[mine.dir].runs]
          /\ IsRun(mine)
          /\ apply' = [apply EXCEPT ![a] = [mine EXCEPT !.step = "backed_up"]]
      BY <3>a DEF Finishes
    <3>2. apply'[a] # apply[a]
      <4>1. PICK new : new = [mine EXCEPT !.step = "backed_up"]
        OBVIOUS
      <4>2. new.step = "backed_up"
        BY <3>1, <4>1 DEF IsRun
      <4> QED
        BY <2>0, <3>1, <4>1, <4>2
    <3>3. Claims(a)
      BY <3>1 DEF Claims
    <3> QED
      <4>1. \A d \in DOMAIN backups :
              d # mine.dir \/ backups[d].runs # 1 => Undisturbed(d)
        BY <3>1 DEF Undisturbed
      <4> QED
        BY <3>1, <3>2, <3>3, <4>1
  <2> QED
    BY <1>5, <2>1, <2>2
<1>6. ASSUME NEW a \in Applier, OpenCopy(a) \/ FinishCopy(a)
      PROVE  /\ \A b \in Applier :
                    Claims(b) /\ apply'[b] = apply[b] => Undisturbed(apply[b].dir)
             /\ \A p \in Profile : \A n \in Applied(p) : Undisturbed(history[p][n].by.dir)
  <2>1. Claims(a) /\ apply'[a] # apply[a]
    BY <1>5, <1>6
  <2>2. ASSUME NEW b \in Applier, Claims(b), apply'[b] = apply[b]
        PROVE  Undisturbed(apply[b].dir)
    <3>1. b # a
      BY <2>1, <2>2
    <3>2. apply[b].dir = apply[a].dir => backups[apply[a].dir].runs # 1
      BY <2>1, <2>2, <3>1 DEF IInv, ClaimsOK
    <3> QED
      BY <1>1, <1>5, <1>6, <2>2, <3>2
  <2>3. ASSUME NEW p \in Profile, NEW n \in Applied(p)
        PROVE  Undisturbed(history[p][n].by.dir)
    <3>1. history[p][n].by.dir = apply[a].dir => backups[apply[a].dir].runs # 1
      BY <2>1 DEF IInv, ClaimsOK
    <3> QED
      BY <1>2, <1>5, <1>6, <3>1
  <2> QED
    BY <2>2, <2>3
<1>7. backups' = backups \/ \E a \in Applier : CpStep(a)
  BY StepsWrite DEF Quiet, ExportBaseline, Start, BuildPlan, ReadAndMerge, Die, Tick, vars,
     Touch, Replace
<1> QED
  BY <1>1, <1>2, <1>3, <1>4, <1>6, <1>7 DEF CpStep

-----------------------------------------------------------------------------
(* Every step preserves it.                                                *)

LEMMA InitEstablishes ==
    ASSUME Init
    PROVE  IInv
<1>1. \A p \in Profile : history[p] = <<[tree |-> Config[p], at |-> 0, by |-> None]>>
  BY DEF Init
<1>2. \A e : Len(<<e>>) = 1 /\ <<e>>[1] = e /\ IsSequence(<<e>>)
  BY DEF IsSequence
<1>3. \A p \in Profile :
        /\ IsSequence(history[p])
        /\ Revision(p) = 1
        /\ history[p][1] = [tree |-> Config[p], at |-> 0, by |-> None]
  BY <1>1, <1>2 DEF Revision
<1>4. clock = 0 /\ DOMAIN history = Profile /\ MaxTime \in Nat
  BY TimeAssumption DEF Init
<1>5. HistoryOK
  <2>1. ASSUME NEW p \in Profile, NEW n \in 1..Revision(p)
        PROVE  IsObject(history[p][n].tree) /\ history[p][n].at = 0
    <3>1. Revision(p) = 1 /\ history[p][1] = [tree |-> Config[p], at |-> 0, by |-> None]
      BY <1>3
    <3>2. n = 1
      BY <2>1, <3>1
    <3>3. IsObject(Config[p])
      BY ConfigAssumption
    <3> QED
      BY <3>1, <3>2, <3>3
  <2>2. ASSUME NEW p \in Profile
        PROVE  IsSequence(history[p]) /\ Revision(p) = 1 /\ history[p][1].by = None
    <3>1. history[p][1] = [tree |-> Config[p], at |-> 0, by |-> None]
      BY <1>3
    <3> QED
      BY <1>3, <3>1
  <2> QED
    BY <1>4, <2>1, <2>2 DEF HistoryOK
<1>6. DOMAIN backups = {} /\ baseline = None /\ plan = None
      /\ apply = [a \in Applier |-> None]
  BY DEF Init
<1>7. ASSUME NEW p \in Profile
      PROVE  Applied(p) = {}
  <2>1. Revision(p) = 1
    BY <1>3
  <2> QED
    BY <2>1 DEF Applied
<1>8. WritesOK
  BY <1>7 DEF WritesOK
<1>9. ClaimsOK
  BY <1>6 DEF ClaimsOK, Claims
<1> QED
  BY <1>5, <1>6, <1>8, <1>9 DEF IInv, BaselineOK, PlanOK, BackupsOK, RunsOK

\* What is written is an object, and what the script writes is its merge.
LEMMA WrittenIsSound ==
    ASSUME IInv, [Next]_vars, ~ Quiet
    PROVE  \E p \in Profile : \E tree, by :
            /\ Write(p, tree, by)
            /\ IsObject(tree)
            /\ by # None => IsMerge(by, p, tree)
            /\ UNCHANGED <<baseline, plan, backups, clock>>
<1>1. ASSUME NEW p \in Profile
      PROVE  IsObject(ConfigOf(p))
  BY AppendedHistory DEF IInv, HistoryOK, ConfigOf, Revision
<1>2. ASSUME NEW e \in Edit, Touch(e)
      PROVE  /\ e.profile \in Profile
             /\ Write(e.profile, SetPath(ConfigOf(e.profile), e.path, e.value), None)
             /\ IsObject(SetPath(ConfigOf(e.profile), e.path, e.value))
             /\ UNCHANGED <<baseline, plan, backups, clock>>
  BY <1>1, <1>2, EditAssumption, SetPathIsObject DEF Touch
<1>3. ASSUME NEW a \in Applier, Replace(a)
      PROVE  \E p \in Profile : \E tree, by :
                /\ Write(p, tree, by)
                /\ IsObject(tree)
                /\ by # None => IsMerge(by, p, tree)
                /\ UNCHANGED <<baseline, plan, backups, clock>>
  <2> DEFINE mine == apply[a]
             by == [plan |-> mine.plan, base |-> mine.base,
                    started |-> mine.started, dir |-> mine.dir]
  <2>1. IsRun(mine) /\ mine.step = "merged" /\ Write(mine.profile, mine.merged, by)
    BY <1>3 DEF Replace, IInv, RunsOK
  <2>2. mine.profile \in Profile /\ IsMerge(mine, mine.profile, mine.merged)
    BY <2>1 DEF IsRun
  <2>3. IsMerge(by, mine.profile, mine.merged)
    BY <2>2 DEF IsMerge, Directories
  <2>4. IsObject(mine.merged)
    <3> DEFINE base == history[mine.profile][mine.base].tree
    <3>1. IsObject(base)
      BY <2>2 DEF IsMerge, IInv, HistoryOK
    <3>2. AreOperations(mine.plan.operations)
      BY <2>2, OperationsAsk DEF IsMerge, IsPlan, EnforcePaths
    <3> QED
      BY <2>2, <3>1, <3>2, MergeIsObject DEF IsMerge
  <2>5. UNCHANGED <<baseline, plan, backups, clock>>
    BY <1>3 DEF Replace
  <2> HIDE DEF mine, by
  <2> QED
    BY <2>1, <2>2, <2>3, <2>4, <2>5
<1> QED
  BY <1>2, <1>3, StepsWrite

LEMMA HistoryPreserved ==
    ASSUME IInv, [Next]_vars
    PROVE  HistoryOK'
<1>1. HistoryOK
  BY DEF IInv
<1>2. CASE Quiet
  <2>1. history' = history
    BY <1>2, QuietKeepsHistory
  <2>2. clock' = clock \/ Tick
    BY <1>2 DEF Quiet, ExportBaseline, Start, BuildPlan, CpStep, MakeDirectory, OpenCopy,
         FinishCopy, ReadAndMerge, Die, vars
  <2>3. clock' \in clock..MaxTime
    BY <1>1, <2>2, TimeAssumption DEF HistoryOK, Tick
  <2> QED
    BY <1>1, <2>1, <2>3 DEF HistoryOK, Revision
<1>3. CASE ~ Quiet
  <2>0. PICK p \in Profile : \E tree, by :
            /\ Write(p, tree, by)
            /\ IsObject(tree)
            /\ UNCHANGED <<baseline, plan, backups, clock>>
    BY <1>3, WrittenIsSound
  <2>1. PICK tree, by :
            /\ Write(p, tree, by)
            /\ IsObject(tree)
            /\ UNCHANGED <<baseline, plan, backups, clock>>
    BY <2>0
  <2>2. /\ DOMAIN history' = Profile
        /\ \A r \in Profile : IsSequence(history[r]')
        /\ \A r \in Profile \ {p} : history'[r] = history[r]
        /\ Revision(p) \in Nat
        /\ Revision(p)' = Revision(p) + 1
        /\ \A n \in 1..Revision(p) : history'[p][n] = history[p][n]
        /\ history'[p][Revision(p) + 1] = [tree |-> tree, at |-> clock, by |-> by]
    BY <1>1, <2>1, WriteGrows
  <2>3. \A r \in Profile \ {p} : Revision(r)' = Revision(r)
    BY <2>2 DEF Revision
  <2>4. clock' = clock /\ clock \in 0..MaxTime /\ MaxTime \in Nat
    BY <1>1, <2>1, TimeAssumption DEF HistoryOK
  <2>5. \A n \in 1..Revision(p)' :
            IsObject(history'[p][n].tree) /\ history'[p][n].at \in 0..clock'
    <3>1. \A n \in 1..Revision(p) :
            IsObject(history'[p][n].tree) /\ history'[p][n].at \in 0..clock'
      BY <1>1, <2>2, <2>4 DEF HistoryOK
    <3>2. /\ IsObject(history'[p][Revision(p) + 1].tree)
          /\ history'[p][Revision(p) + 1].at \in 0..clock'
      BY <2>1, <2>2, <2>4
    <3> QED
      BY <2>2, <3>1, <3>2
  <2> QED
    BY <1>1, <2>2, <2>3, <2>4, <2>5 DEF HistoryOK
<1> QED
  BY <1>2, <1>3

LEMMA BaselinePreserved ==
    ASSUME IInv, [Next]_vars
    PROVE  BaselineOK'
<1>1. HistoryOK /\ BaselineOK /\ Grows
  BY StepGrows DEF IInv
<1>2. CASE baseline' = baseline
  <2> SUFFICES ASSUME baseline # None
               PROVE  /\ baseline.profile \in Profile
                      /\ baseline.revision \in 1..Revision(baseline.profile)'
                      /\ baseline.config
                            = Redact(history'[baseline.profile][baseline.revision].tree)
    BY <1>2 DEF BaselineOK, Revision
  <2>1. PICK p \in Profile, n \in Nat :
            /\ p = baseline.profile /\ n = baseline.revision
            /\ n \in 1..Revision(p)
            /\ baseline.config = Redact(history[p][n].tree)
    BY <1>1 DEF BaselineOK
  <2>2. n \in 1..Revision(p)' /\ history'[p][n] = history[p][n]
    BY <1>1, <2>1 DEF Grows
  <2> QED
    BY <1>2, <2>1, <2>2 DEF Revision
<1>3. ASSUME NEW p \in Profile, ExportBaseline(p)
      PROVE  BaselineOK'
  <2>1. Revision(p) \in 1..Revision(p)
    BY <1>1 DEF HistoryOK, Grows
  <2> QED
    BY <1>3, <2>1 DEF BaselineOK, ExportBaseline, Inventory, ConfigOf, Revision
<1>4. baseline' = baseline \/ \E p \in Profile : ExportBaseline(p)
  BY WrittenIsSound DEF Quiet, Start, BuildPlan, CpStep, MakeDirectory, OpenCopy,
         FinishCopy, ReadAndMerge, Die, Tick, vars
<1> QED
  BY <1>2, <1>3, <1>4

LEMMA PlanPreserved ==
    ASSUME IInv, [Next]_vars
    PROVE  PlanOK' /\ (IsPlan(plan) => IsPlan(plan)')
<1>1. HistoryOK /\ BaselineOK /\ PlanOK /\ Grows
  BY StepGrows DEF IInv
<1>2. CASE plan' = plan
  <2>1. PICK pl : pl = plan
    OBVIOUS
  <2>2. IsPlan(plan) => IsPlan(pl)'
    BY <1>1, <2>1, PlansStay
  <2> QED
    BY <1>1, <1>2, <2>1, <2>2 DEF PlanOK, IsPlan
<1>3. ASSUME NEW env \in Env, BuildPlan(env)
      PROVE  IsPlan(plan)'
  <2>1. history' = history /\ plan' = [
            profile |-> baseline.profile,
            revision |-> baseline.revision,
            enforce |-> Enforced(env),
            operations |-> Operations(baseline.config, Enforced(env))]
    BY <1>3 DEF BuildPlan
  <2>2. /\ baseline.profile \in Profile
        /\ baseline.revision \in 1..Revision(baseline.profile)
        /\ baseline.config = Redact(history[baseline.profile][baseline.revision].tree)
    BY <1>1, <1>3 DEF BuildPlan, BaselineOK
  <2> QED
    BY <2>1, <2>2, EnforcedFacts DEF IsPlan, Revision
<1>4. plan' = plan \/ \E env \in Env : BuildPlan(env)
  BY WrittenIsSound DEF Quiet, ExportBaseline, Start, CpStep, MakeDirectory, OpenCopy,
         FinishCopy, ReadAndMerge, Die, Tick, vars
<1> QED
  BY <1>2, <1>3, <1>4 DEF PlanOK

LEMMA BackupsStay ==
    ASSUME HistoryOK, Grows, NEW d, NEW backup, IsBackup(d, backup)
    PROVE  IsBackup(d, backup)'
<1>1. d \in (0..clock) \X Profile \X {"named", "within"}
  BY DEF IsBackup
<1>2. d[1] \in 0..clock /\ d[2] \in Profile /\ d \in (0..clock') \X Profile \X {"named", "within"}
  BY <1>1 DEF Grows
<1>3. ASSUME backup.file # "absent"
      PROVE  /\ backup.revision \in 1..Revision(d[2])'
             /\ \A m \in (backup.revision + 1)..Revision(d[2])' : history'[d[2]][m].at >= d[1]
  <2>1. /\ backup.revision \in 1..Revision(d[2])
        /\ \A m \in (backup.revision + 1)..Revision(d[2]) : history[d[2]][m].at >= d[1]
    BY <1>3 DEF IsBackup
  <2>2. backup.revision \in 1..Revision(d[2])'
    BY <1>2, <2>1 DEF Grows
  <2>3. ASSUME NEW m \in (backup.revision + 1)..Revision(d[2])'
        PROVE  history'[d[2]][m].at >= d[1]
    <3>1. CASE m <= Revision(d[2])
      BY <1>2, <2>1, <2>3, <3>1 DEF Grows
    <3>2. CASE m > Revision(d[2])
      BY <1>2, <2>1, <2>3, <3>2 DEF Grows
    <3> QED
      BY <1>2, <2>1, <2>3, <3>1, <3>2 DEF Grows
  <2> QED
    BY <2>2, <2>3
<1> QED
  BY <1>2, <1>3 DEF IsBackup

LEMMA BackupsPreserved ==
    ASSUME IInv, [Next]_vars
    PROVE  BackupsOK'
<1>1. HistoryOK /\ BackupsOK /\ RunsOK /\ Grows
  BY StepGrows DEF IInv
<1>2. ASSUME NEW d \in DOMAIN backups, backups'[d] = backups[d]
      PROVE  IsBackup(d, backups[d])'
  <2>1. PICK backup : backup = backups[d]
    OBVIOUS
  <2>2. IsBackup(d, backup)'
    BY <1>1, <2>1, BackupsStay DEF BackupsOK
  <2> QED
    BY <1>2, <2>1, <2>2 DEF IsBackup
<1>3. CASE backups' = backups
  BY <1>2, <1>3 DEF BackupsOK
<1>4. ASSUME NEW a \in Applier, MakeDirectory(a)
      PROVE  BackupsOK'
  <2>a. PICK mine, d : Makes(a, mine, d)
    BY <1>4, MakeDirectoryDoes
  <2>1. /\ mine = apply[a]
        /\ IsRun(mine)
        /\ d \in Directories(mine, mine.profile)
        /\ d \in DOMAIN backups => d[3] # "named"
        /\ DOMAIN backups' = DOMAIN backups \cup {d}
        /\ \A e \in DOMAIN backups \ {d} : backups'[e] = backups[e]
        /\ d \in DOMAIN backups => backups'[d] =
                [file |-> backups[d].file, revision |-> backups[d].revision,
                 runs |-> backups[d].runs + 1]
        /\ d \notin DOMAIN backups =>
                backups'[d] = [file |-> "absent", revision |-> 0, runs |-> 1]
        /\ history' = history /\ clock' = clock
    BY <2>a DEF Makes
  <2>2. d \in (0..clock) \X Profile \X {"named", "within"}
    BY <2>1 DEF IsRun, Directories
  <2>3. CASE d \in DOMAIN backups
    <3>1. IsBackup(d, backups[d])
      BY <1>1, <2>3 DEF BackupsOK
    <3>2. PICK old, new : old = backups[d] /\ new = backups'[d]
      OBVIOUS
    <3>3. IsBackup(d, old) /\ d[3] # "named"
          /\ new = [file |-> old.file, revision |-> old.revision, runs |-> old.runs + 1]
      BY <2>1, <2>3, <3>1, <3>2
    <3>4. IsBackup(d, new)
      BY <3>3 DEF IsBackup
    <3>5. IsBackup(d, new)'
      BY <1>1, <3>4, BackupsStay
    <3>6. IsBackup(d, backups[d])'
      BY <3>2, <3>5 DEF IsBackup
    <3> QED
      BY <1>2, <2>1, <3>6 DEF BackupsOK
  <2>4. CASE d \notin DOMAIN backups
    <3>1. IsBackup(d, backups[d])'
      BY <2>1, <2>2, <2>4 DEF IsBackup
    <3> QED
      BY <1>2, <2>1, <3>1 DEF BackupsOK
  <2> QED
    BY <2>3, <2>4
<1>5. ASSUME NEW a \in Applier, OpenCopy(a)
      PROVE  BackupsOK'
  <2>a. PICK mine, file : Opens(a, mine, file)
    BY <1>5, OpenCopyDoes
  <2>1. /\ mine = apply[a]
        /\ mine.step = "made" /\ IsRun(mine)
        /\ file \in {"torn", "mixed"}
        /\ DOMAIN backups' = DOMAIN backups
        /\ \A e \in DOMAIN backups \ {mine.dir} : backups'[e] = backups[e]
        /\ backups'[mine.dir] =
                [file |-> file, revision |-> Revision(mine.profile),
                 runs |-> backups[mine.dir].runs]
        /\ history' = history /\ clock' = clock
    BY <2>a DEF Opens
  <2>2. PICK d, p : d = mine.dir /\ p = mine.profile
    OBVIOUS
  <2>3. d \in DOMAIN backups /\ p \in Profile /\ d[2] = p
    BY <2>1, <2>2 DEF IsRun, IsClaim, Directories
  <2>4. Revision(p) \in Nat /\ Revision(p) >= 1
    BY <1>1, <2>3 DEF Grows, HistoryOK
  <2>5. PICK old, new : old = backups[d] /\ new = backups'[d]
    OBVIOUS
  <2>6. IsBackup(d, old) /\ new = [file |-> file, revision |-> Revision(p), runs |-> old.runs]
    BY <1>1, <2>1, <2>2, <2>3, <2>5 DEF BackupsOK
  <2>7. (Revision(p) + 1)..Revision(p) = {}
    BY <2>4
  <2>8. IsBackup(d, new)
    BY <2>1, <2>3, <2>4, <2>6, <2>7 DEF IsBackup
  <2>9. IsBackup(d, new)'
    BY <1>1, <2>8, BackupsStay
  <2>10. IsBackup(d, backups[d])'
    BY <2>5, <2>9 DEF IsBackup
  <2> QED
    BY <1>2, <2>1, <2>2, <2>10 DEF BackupsOK
<1>6. ASSUME NEW a \in Applier, FinishCopy(a)
      PROVE  BackupsOK'
  <2>a. PICK mine, file : Finishes(a, mine, file)
    BY <1>6, FinishCopyDoes
  <2>1. /\ mine = apply[a]
        /\ mine.step = "copying" /\ IsRun(mine)
        /\ file \in {"whole", "mixed"}
        /\ DOMAIN backups' = DOMAIN backups
        /\ \A e \in DOMAIN backups \ {mine.dir} : backups'[e] = backups[e]
        /\ backups'[mine.dir] =
                [file |-> file, revision |-> backups[mine.dir].revision,
                 runs |-> backups[mine.dir].runs]
    BY <2>a DEF Finishes
  <2>2. PICK d, old, new : d = mine.dir /\ old = backups[d] /\ new = backups'[d]
    OBVIOUS
  <2>3. /\ d \in DOMAIN backups /\ IsBackup(d, old) /\ old.file # "absent"
        /\ new = [file |-> file, revision |-> old.revision, runs |-> old.runs]
    BY <1>1, <2>1, <2>2 DEF IsRun, IsClaim, BackupsOK
  <2>4. IsBackup(d, new)
    BY <2>1, <2>3 DEF IsBackup
  <2>5. IsBackup(d, new)'
    BY <1>1, <2>4, BackupsStay
  <2>6. IsBackup(d, backups[d])'
    BY <2>2, <2>5 DEF IsBackup
  <2> QED
    BY <1>2, <2>1, <2>2, <2>6 DEF BackupsOK
<1>7. backups' = backups \/ \E a \in Applier : CpStep(a)
  BY StepsWrite DEF Quiet, ExportBaseline, Start, BuildPlan, ReadAndMerge, Die, Tick, vars,
     Touch, Replace
<1> QED
  BY <1>3, <1>4, <1>5, <1>6, <1>7 DEF CpStep

\* A run keeps its name, backs up before it merges, and merges what is there.
LEMMA RunsPreserved ==
    ASSUME IInv, [Next]_vars
    PROVE  RunsOK'
<1>1. HistoryOK /\ BackupsOK /\ RunsOK /\ PlanOK /\ Grows
  BY StepGrows DEF IInv
<1>2. IsPlan(plan) => IsPlan(plan)'
  BY PlanPreserved
<1>3. DOMAIN apply = Applier /\ \A a \in Applier : apply[a] # None => IsRun(apply[a]) /\ IsPlan(plan)
  BY <1>1 DEF RunsOK
<1>4. ASSUME NEW a \in Applier, apply'[a] = apply[a], apply[a] # None
      PROVE  IsRun(apply[a])' /\ IsPlan(plan)'
  <2>1. PICK mine : mine = apply[a]
    OBVIOUS
  <2>2. IsRun(mine)'
    <3>1. mine.step # "started" => Undisturbed(mine.dir)
      BY <1>4, <2>1, StepsDisturbNone DEF Claims
    <3> QED
      BY <1>1, <1>3, <1>4, <2>1, <3>1, RunsStay
  <2>3. mine = apply'[a]
    BY <1>4, <2>1
  <2> QED
    BY <1>2, <1>3, <1>4, <2>2, <2>3 DEF IsRun, IsClaim, IsMerge, Directories
<1>5. ASSUME NEW a \in Applier, DOMAIN apply' = Applier,
             \A b \in Applier \ {a} : apply'[b] = apply[b],
             apply'[a] # None => IsRun(apply[a])' /\ IsPlan(plan)'
      PROVE  RunsOK'
  <2>1. \A b \in Applier \ {a} : apply'[b] # None => IsRun(apply[b])' /\ IsPlan(plan)'
    BY <1>4, <1>5
  <2> QED
    BY <1>5, <2>1 DEF RunsOK
<1>6. CASE apply' = apply
  <2>1. \A b \in Applier : apply'[b] # None => IsRun(apply[b])' /\ IsPlan(plan)'
    BY <1>4, <1>6
  <2> QED
    BY <1>3, <1>6, <2>1 DEF RunsOK
<1>7. ASSUME NEW a \in Applier, NEW p \in Profile, Start(a, p)
      PROVE  RunsOK'
  <2>1. PICK new : new = [step |-> "started", profile |-> p, started |-> clock]
    OBVIOUS
  <2>2. apply' = [apply EXCEPT ![a] = new] /\ clock' = clock /\ plan # None
    BY <1>7, <2>1 DEF Start
  <2>3. IsRun(new)'
    BY <1>1, <2>1, <2>2 DEF IsRun, HistoryOK
  <2>4. IsPlan(plan)'
    BY <1>1, <1>2, <2>2 DEF PlanOK
  <2>5. /\ DOMAIN apply' = Applier /\ apply'[a] = new
        /\ \A b \in Applier \ {a} : apply'[b] = apply[b]
    BY <1>3, <2>2
  <2>6. IsRun(apply[a])'
    BY <2>3, <2>5 DEF IsRun, IsClaim, IsMerge, Directories
  <2> QED
    BY <1>5, <2>4, <2>5, <2>6
<1>8. ASSUME NEW a \in Applier, MakeDirectory(a)
      PROVE  RunsOK'
  <2>a. PICK mine, d : Makes(a, mine, d)
    BY <1>8, MakeDirectoryDoes
  <2>1. /\ mine = apply[a]
        /\ mine # None /\ mine.step = "started" /\ IsRun(mine)
        /\ d \in Directories(mine, mine.profile)
        /\ DOMAIN backups' = DOMAIN backups \cup {d}
        /\ apply' = [apply EXCEPT ![a] =
                [step |-> "made", profile |-> mine.profile,
                 started |-> mine.started, dir |-> d]]
        /\ history' = history /\ clock' = clock
    BY <2>a DEF Makes
  <2>2. PICK new : new = [step |-> "made", profile |-> mine.profile,
                          started |-> mine.started, dir |-> d]
    OBVIOUS
  <2>3. /\ DOMAIN apply' = Applier /\ apply'[a] = new
        /\ \A b \in Applier \ {a} : apply'[b] = apply[b]
    BY <1>3, <2>1, <2>2
  <2>4. IsClaim(new)'
    BY <2>1, <2>2 DEF IsClaim, Directories
  <2>5. IsRun(new)'
    BY <2>1, <2>2, <2>4 DEF IsRun
  <2>6. IsRun(apply[a])'
    BY <2>3, <2>5 DEF IsRun, IsClaim, IsMerge, Directories
  <2> QED
    BY <1>2, <1>3, <1>5, <2>1, <2>3, <2>6
<1>12. ASSUME NEW a \in Applier, OpenCopy(a)
       PROVE  RunsOK'
  <2>a. PICK mine, file : Opens(a, mine, file)
    BY <1>12, OpenCopyDoes
  <2>1. /\ mine = apply[a]
        /\ mine # None /\ mine.step = "made" /\ IsRun(mine)
        /\ file \in {"torn", "mixed"}
        /\ backups[mine.dir].runs = 1 => file = "torn"
        /\ DOMAIN backups' = DOMAIN backups
        /\ backups'[mine.dir] =
                [file |-> file, revision |-> Revision(mine.profile),
                 runs |-> backups[mine.dir].runs]
        /\ apply' = [apply EXCEPT ![a] = [mine EXCEPT !.step = "copying"]]
        /\ history' = history /\ clock' = clock
    BY <2>a DEF Opens
  <2>2. PICK new : new = [mine EXCEPT !.step = "copying"]
    OBVIOUS
  <2>3. /\ DOMAIN apply' = Applier /\ apply'[a] = new
        /\ \A b \in Applier \ {a} : apply'[b] = apply[b]
    BY <1>3, <2>1, <2>2
  <2>4. /\ new.step = "copying" /\ new.profile = mine.profile
        /\ new.started = mine.started /\ new.dir = mine.dir
    BY <2>1, <2>2 DEF IsRun
  <2>5. IsClaim(mine)
    BY <2>1 DEF IsRun
  <2>6. IsClaim(new)'
    BY <2>1, <2>4, <2>5 DEF IsClaim, Directories
  <2>7. IsRun(new)'
    BY <2>1, <2>4, <2>6 DEF IsRun
  <2>8. IsRun(apply[a])'
    BY <2>3, <2>7 DEF IsRun, IsClaim, IsMerge, Directories
  <2> QED
    BY <1>2, <1>3, <1>5, <2>1, <2>3, <2>8
<1>13. ASSUME NEW a \in Applier, FinishCopy(a)
       PROVE  RunsOK'
  <2>a. PICK mine, file : Finishes(a, mine, file)
    BY <1>13, FinishCopyDoes
  <2>1. /\ mine = apply[a]
        /\ mine # None /\ mine.step = "copying" /\ IsRun(mine)
        /\ backups[mine.dir].runs = 1 => file = "whole"
        /\ DOMAIN backups' = DOMAIN backups
        /\ backups'[mine.dir] =
                [file |-> file, revision |-> backups[mine.dir].revision,
                 runs |-> backups[mine.dir].runs]
        /\ apply' = [apply EXCEPT ![a] = [mine EXCEPT !.step = "backed_up"]]
        /\ history' = history /\ clock' = clock
    BY <2>a DEF Finishes
  <2>2. PICK new : new = [mine EXCEPT !.step = "backed_up"]
    OBVIOUS
  <2>3. /\ DOMAIN apply' = Applier /\ apply'[a] = new
        /\ \A b \in Applier \ {a} : apply'[b] = apply[b]
    BY <1>3, <2>1, <2>2
  <2>4. /\ new.step = "backed_up" /\ new.profile = mine.profile
        /\ new.started = mine.started /\ new.dir = mine.dir
    BY <2>1, <2>2 DEF IsRun
  <2>5. IsClaim(mine)
    BY <2>1 DEF IsRun
  <2>6. IsClaim(new)'
    BY <2>1, <2>4, <2>5 DEF IsClaim, Directories
  <2>7. IsRun(new)'
    BY <2>1, <2>4, <2>6 DEF IsRun
  <2>8. IsRun(apply[a])'
    BY <2>3, <2>7 DEF IsRun, IsClaim, IsMerge, Directories
  <2> QED
    BY <1>2, <1>3, <1>5, <2>1, <2>3, <2>8
<1>9. ASSUME NEW a \in Applier, ReadAndMerge(a)
      PROVE  RunsOK'
  <2>1. PICK mine : mine = apply[a]
    OBVIOUS
  <2>2. PICK pl : pl = plan
    OBVIOUS
  <2>3. PICK new : new = [step |-> "merged", profile |-> mine.profile,
                          started |-> mine.started, dir |-> mine.dir,
                          plan |-> pl, base |-> Revision(mine.profile),
                          merged |-> Merge(ConfigOf(mine.profile), pl.operations)]
    OBVIOUS
  <2>4. /\ mine # None /\ mine.step = "backed_up"
        /\ apply' = [apply EXCEPT ![a] = new]
        /\ UNCHANGED <<history, plan, backups, clock>>
    BY <1>9, <2>1, <2>2, <2>3 DEF ReadAndMerge
  <2>5. IsRun(mine) /\ IsPlan(pl)
    BY <1>3, <2>1, <2>2, <2>4
  <2>6. mine.profile \in Profile /\ mine.started \in 0..clock /\ IsClaim(mine)
    BY <2>4, <2>5 DEF IsRun
  <2>7. PICK d, backup : d = mine.dir /\ backup = backups[d]
    OBVIOUS
  <2>8. /\ d \in Directories(mine, mine.profile) /\ d \in DOMAIN backups
        /\ d[2] = mine.profile
        /\ backup.runs = 1 => backup.file = "whole"
        /\ IsBackup(d, backup)
    BY <1>1, <2>4, <2>6, <2>7 DEF IsClaim, Directories, BackupsOK
  <2>9. Revision(mine.profile) \in Nat /\ Revision(mine.profile) >= 1
        /\ (backup.runs = 1 => backup.revision <= Revision(mine.profile))
    BY <1>1, <2>6, <2>8 DEF IsBackup, HistoryOK, Grows
  <2>10. /\ IsMerge(new, mine.profile, new.merged)
         /\ new.step = "merged" /\ new.dir = mine.dir /\ new.profile = mine.profile
         /\ new.started = mine.started
    BY <2>3, <2>5, <2>6, <2>7, <2>8, <2>9 DEF IsMerge, ConfigOf, Directories
  <2>14. IsClaim(new)
    BY <2>6, <2>10 DEF IsClaim, Directories
  <2>15. IsRun(new)
    BY <2>6, <2>10, <2>14 DEF IsRun
  <2>16. Undisturbed(new.dir)
    BY <2>4, <2>14 DEF IsClaim, Undisturbed
  <2>11. IsRun(new)' /\ IsPlan(plan)'
    BY <1>1, <1>2, <2>2, <2>5, <2>15, <2>16, RunsStay
  <2>12. /\ DOMAIN apply' = Applier /\ apply'[a] = new
         /\ \A b \in Applier \ {a} : apply'[b] = apply[b]
    BY <1>3, <2>4
  <2>13. IsRun(apply[a])'
    BY <2>11, <2>12 DEF IsRun, IsClaim, IsMerge, Directories
  <2> QED
    BY <1>5, <2>11, <2>12, <2>13
<1>10. ASSUME NEW a \in Applier, apply' = [apply EXCEPT ![a] = None]
       PROVE  RunsOK'
  <2>1. /\ DOMAIN apply' = Applier /\ apply'[a] = None
        /\ \A b \in Applier \ {a} : apply'[b] = apply[b]
    BY <1>3, <1>10
  <2> QED
    BY <1>5, <2>1
<1>11. \/ apply' = apply
       \/ \E a \in Applier, p \in Profile : Start(a, p)
       \/ \E a \in Applier : CpStep(a) \/ ReadAndMerge(a)
       \/ \E a \in Applier : apply' = [apply EXCEPT ![a] = None]
  BY StepsWrite DEF Quiet, ExportBaseline, BuildPlan, Touch, Replace, Die, Tick, vars
<1> QED
  BY <1>6, <1>7, <1>8, <1>9, <1>10, <1>11, <1>12, <1>13 DEF CpStep

LEMMA WritesPreserved ==
    ASSUME IInv, [Next]_vars
    PROVE  WritesOK'
<1>1. HistoryOK /\ WritesOK /\ Grows
  BY StepGrows DEF IInv
<1>2. ASSUME NEW p \in Profile, NEW n \in 2..Revision(p), history[p][n].by # None
      PROVE  IsMerge(history[p][n].by, p, history[p][n].tree)'
  <2>1. PICK by, tree : by = history[p][n].by /\ tree = history[p][n].tree
    OBVIOUS
  <2>2. IsMerge(by, p, tree)
    BY <1>1, <1>2, <2>1 DEF WritesOK, Applied
  <2>3. IsMerge(by, p, tree)'
    <3>1. n \in Applied(p)
      BY <1>2 DEF Applied
    <3>2. Undisturbed(by.dir)
      BY <2>1, <3>1, StepsDisturbNone
    <3> QED
      BY <1>1, <2>2, <3>2, MergesStay
  <2>4. by = history'[p][n].by /\ tree = history'[p][n].tree
    BY <1>1, <2>1 DEF Grows
  <2> QED
    BY <2>3, <2>4 DEF IsMerge, Directories
<1>3. CASE Quiet
  <2>1. history' = history
    BY <1>3, QuietKeepsHistory
  <2> QED
    BY <1>2, <2>1 DEF WritesOK, Applied, Revision
<1>4. CASE ~ Quiet
  <2>0. PICK p \in Profile : \E tree, by :
            /\ Write(p, tree, by)
            /\ by # None => IsMerge(by, p, tree)
            /\ backups' = backups
    BY <1>4, WrittenIsSound
  <2>1. PICK tree, by :
            /\ Write(p, tree, by)
            /\ by # None => IsMerge(by, p, tree)
            /\ backups' = backups
    BY <2>0
  <2>2. /\ \A r \in Profile \ {p} : history'[r] = history[r]
        /\ Revision(p) \in Nat
        /\ Revision(p)' = Revision(p) + 1
        /\ \A n \in 1..Revision(p) : history'[p][n] = history[p][n]
        /\ history'[p][Revision(p) + 1] = [tree |-> tree, at |-> clock, by |-> by]
    BY <1>1, <2>1, WriteGrows
  <2>3. by # None => IsMerge(by, p, tree)'
    <3>1. IsMerge(by, p, tree) => Undisturbed(by.dir)
      BY <2>1 DEF Undisturbed, IsMerge
    <3> QED
      BY <1>1, <2>1, <3>1, MergesStay
  <2>4. ASSUME NEW r \in Profile, NEW n \in 2..Revision(r)', history'[r][n].by # None
        PROVE  IsMerge(history[r][n].by, r, history[r][n].tree)'
    <3>1. CASE n = Revision(p) + 1 /\ r = p
      <4>1. history'[r][n].by = by /\ history'[r][n].tree = tree
        BY <2>2, <3>1
      <4> QED
        BY <2>3, <2>4, <3>1, <4>1 DEF IsMerge, Directories
    <3>2. CASE ~ (n = Revision(p) + 1 /\ r = p)
      <4>1. n \in 2..Revision(r) /\ history'[r][n] = history[r][n]
        <5>1. CASE r = p
          BY <2>2, <2>4, <3>2, <5>1
        <5>2. CASE r # p
          BY <2>2, <2>4, <5>2 DEF Revision
        <5> QED
          BY <5>1, <5>2
      <4> QED
        BY <1>2, <2>4, <4>1
    <3> QED
      BY <3>1, <3>2
  <2> QED
    BY <2>4 DEF WritesOK, Applied
<1> QED
  BY <1>3, <1>4

\* A run that has claimed a directory keeps it, and the run that comes to one
\* that others have claimed makes the copies there more than one.
LEMMA ClaimsPreserved ==
    ASSUME IInv, [Next]_vars
    PROVE  ClaimsOK'
<1>1. HistoryOK /\ RunsOK /\ WritesOK /\ BackupsOK /\ ClaimsOK /\ Grows
  BY StepGrows DEF IInv
<1>2. DOMAIN apply = Applier
  BY <1>1 DEF RunsOK
<1>3. ASSUME NEW a \in Applier, Claims(a)
      PROVE  apply[a].dir \in DOMAIN backups
  BY <1>1, <1>3 DEF RunsOK, IsRun, IsClaim, Claims
<1>4. ASSUME NEW a \in Applier, MakeDirectory(a)
      PROVE  /\ \A b \in Applier \ {a} : apply'[b] = apply[b]
             /\ apply'[a].dir \in DOMAIN backups => backups'[apply'[a].dir].runs # 1
             /\ history' = history
  <2>a. PICK mine, d : Makes(a, mine, d)
    BY <1>4, MakeDirectoryDoes
  <2>1. /\ mine = apply[a]
        /\ d \in DOMAIN backups => backups'[d] =
                [file |-> backups[d].file, revision |-> backups[d].revision,
                 runs |-> backups[d].runs + 1]
        /\ apply' = [apply EXCEPT ![a] =
                [step |-> "made", profile |-> mine.profile,
                 started |-> mine.started, dir |-> d]]
        /\ history' = history
    BY <2>a DEF Makes
  <2>2. d \in DOMAIN backups => backups[d].runs \in Nat \ {0}
    BY <1>1 DEF BackupsOK, IsBackup
  <2>3. apply'[a].dir = d /\ \A b \in Applier \ {a} : apply'[b] = apply[b]
    BY <1>2, <2>1
  <2> QED
    BY <2>1, <2>2, <2>3
<1>9. ASSUME NEW b \in Applier, OpenCopy(b) \/ FinishCopy(b)
      PROVE  Claims(b) /\ apply'[b].dir = apply[b].dir
  <2>1. CASE OpenCopy(b)
    <3>a. PICK mine, file : Opens(b, mine, file)
      BY <2>1, OpenCopyDoes
    <3>1. /\ mine = apply[b]
          /\ mine # None /\ mine.step = "made" /\ IsRun(mine)
          /\ apply' = [apply EXCEPT ![b] = [mine EXCEPT !.step = "copying"]]
      BY <3>a DEF Opens
    <3>2. apply'[b].dir = mine.dir
      BY <1>2, <3>1 DEF IsRun
    <3> QED
      BY <3>1, <3>2 DEF Claims
  <2>2. CASE FinishCopy(b)
    <3>a. PICK mine, file : Finishes(b, mine, file)
      BY <2>2, FinishCopyDoes
    <3>1. /\ mine = apply[b]
          /\ mine # None /\ mine.step = "copying" /\ IsRun(mine)
          /\ apply' = [apply EXCEPT ![b] = [mine EXCEPT !.step = "backed_up"]]
      BY <3>a DEF Finishes
    <3>2. apply'[b].dir = mine.dir
      BY <1>2, <3>1 DEF IsRun
    <3> QED
      BY <3>1, <3>2 DEF Claims
  <2> QED
    BY <1>9, <2>1, <2>2
<1>5. ASSUME NEW b \in Applier, Claims(b)', ~ MakeDirectory(b)
      PROVE  Claims(b) /\ apply'[b].dir = apply[b].dir
  <2>1. CASE apply'[b] = apply[b]
    BY <1>5, <2>1 DEF Claims
  <2>2. CASE apply'[b] # apply[b]
    <3>1. \A a \in Applier : ApplyStep(a) => a = b
      BY <1>2, <2>2 DEF ApplyStep, MakeDirectory, OpenCopy, FinishCopy, ReadAndMerge, Replace, Die
    <3>2. \A p \in Profile : ~ Start(b, p)
      BY <1>2, <1>5 DEF Start, Claims
    <3>3. \A a \in Applier, p \in Profile : Start(a, p) => a = b
      BY <1>2, <2>2 DEF Start
    <3>4. ApplyStep(b)
      BY <2>2, <3>1, <3>2, <3>3 DEF Next, ExportBaseline, Touch, BuildPlan, Tick, vars
    <3>5. ~ Replace(b) /\ ~ Die(b)
      BY <1>2, <1>5 DEF Replace, Die, Claims
    <3>6. OpenCopy(b) \/ FinishCopy(b) \/ ReadAndMerge(b)
      BY <1>5, <3>4, <3>5 DEF ApplyStep
    <3>9. CASE ReadAndMerge(b)
      BY <1>2, <3>9 DEF Claims, ReadAndMerge
    <3> QED
      BY <1>9, <3>6, <3>9
  <2> QED
    BY <2>1, <2>2
<1>6. ASSUME NEW a \in Applier, Claims(a)', NEW b \in Applier \ {a}, Claims(b)',
             apply'[b].dir = apply'[a].dir
      PROVE  backups'[apply'[a].dir].runs # 1
  <2>1. CASE MakeDirectory(a)
    <3>1. apply'[b] = apply[b]
      BY <1>4, <2>1
    <3>2. apply[b].dir \in DOMAIN backups
      BY <1>3, <1>6, <3>1 DEF Claims
    <3> QED
      BY <1>4, <1>6, <2>1, <3>1, <3>2
  <2>2. CASE MakeDirectory(b)
    <3>1. apply'[a] = apply[a]
      BY <1>4, <2>2
    <3>2. apply[a].dir \in DOMAIN backups
      BY <1>3, <1>6, <3>1 DEF Claims
    <3> QED
      BY <1>4, <1>6, <2>2, <3>1, <3>2
  <2>3. CASE ~ MakeDirectory(a) /\ ~ MakeDirectory(b)
    <3>1. /\ Claims(a) /\ apply'[a].dir = apply[a].dir
          /\ Claims(b) /\ apply'[b].dir = apply[b].dir
      BY <1>5, <1>6, <2>3
    <3>2. apply[a].dir \in DOMAIN backups /\ backups[apply[a].dir].runs # 1
      BY <1>1, <1>3, <1>6, <3>1 DEF ClaimsOK
    <3> QED
      BY <1>1, <3>1, <3>2 DEF Grows
  <2> QED
    BY <2>1, <2>2, <2>3
<1>7. ASSUME NEW a \in Applier, Claims(a)', NEW p \in Profile, NEW n \in Applied(p),
             history[p][n].by.dir = apply'[a].dir
      PROVE  backups'[apply'[a].dir].runs # 1
  <2>1. history[p][n].by.dir \in DOMAIN backups
    BY <1>1 DEF WritesOK, IsMerge
  <2>2. CASE MakeDirectory(a)
    BY <1>4, <1>7, <2>1, <2>2
  <2>3. CASE ~ MakeDirectory(a)
    <3>1. Claims(a) /\ apply'[a].dir = apply[a].dir
      BY <1>5, <1>7, <2>3
    <3>2. backups[apply[a].dir].runs # 1
      BY <1>1, <1>7, <3>1 DEF ClaimsOK
    <3> QED
      BY <1>1, <1>7, <2>1, <3>1, <3>2 DEF Grows
  <2> QED
    BY <2>2, <2>3
<1>8. ASSUME NEW a \in Applier, Claims(a)', NEW p \in Profile, NEW n \in Applied(p)',
             history'[p][n].by.dir = apply'[a].dir
      PROVE  backups'[apply'[a].dir].runs # 1
  <2>1. Revision(p) \in Nat /\ n \in 2..Revision(p)' /\ history'[p][n].by # None
        /\ Revision(p)' \in Nat
    BY <1>1 DEF Applied, Grows
  <2>2. CASE n <= Revision(p)
    <3>1. history'[p][n] = history[p][n] /\ n \in 2..Revision(p)
      BY <1>1, <2>1, <2>2 DEF Grows
    <3>2. n \in Applied(p)
      BY <2>1, <3>1 DEF Applied
    <3> QED
      BY <1>7, <1>8, <3>1, <3>2
  <2>3. CASE n > Revision(p)
    <3>1. ~ Quiet
      BY <2>1, <2>3, QuietKeepsHistory DEF Revision
    <3>2. ASSUME NEW e \in Edit, Touch(e)
          PROVE  FALSE
      <4>1. /\ Write(e.profile, SetPath(ConfigOf(e.profile), e.path, e.value), None)
            /\ e.profile \in Profile
        BY <3>2, EditAssumption DEF Touch
      <4>2. /\ \A r \in Profile \ {e.profile} : history'[r] = history[r]
            /\ Revision(e.profile)' = Revision(e.profile) + 1
            /\ history'[e.profile][Revision(e.profile) + 1].by = None
        <5>1. PICK q, tree : q = e.profile /\ tree = SetPath(ConfigOf(q), e.path, e.value)
          OBVIOUS
        <5>2. q \in Profile /\ Write(q, tree, None)
          BY <4>1, <5>1
        <5>3. /\ \A r \in Profile \ {q} : history'[r] = history[r]
              /\ Revision(q)' = Revision(q) + 1
              /\ history'[q][Revision(q) + 1] = [tree |-> tree, at |-> clock, by |-> None]
          BY <1>1, <5>2, WriteGrows
        <5>4. history'[q][Revision(q) + 1].by = None
          BY <5>3
        <5> QED
          BY <5>1, <5>3, <5>4 DEF Revision
      <4>3. p = e.profile
        BY <2>1, <2>3, <4>2 DEF Revision
      <4> QED
        BY <2>1, <2>3, <4>2, <4>3
    <3>3. PICK b \in Applier : Replace(b)
      BY <3>1, <3>2, StepsWrite
    <3>4. PICK q, dir : q = apply[b].profile /\ dir = apply[b].dir
      OBVIOUS
    <3>5. /\ q \in Profile /\ Claims(b)
          /\ \E tree, by : by.dir = dir /\ Write(q, tree, by)
          /\ apply'[b] = None /\ \A c \in Applier \ {b} : apply'[c] = apply[c]
          /\ backups' = backups
      BY <1>1, <1>2, <3>3, <3>4 DEF Replace, RunsOK, IsRun, Claims
    <3>6. PICK tree, by : by.dir = dir /\ Write(q, tree, by)
      BY <3>5
    <3>7. /\ \A r \in Profile \ {q} : history'[r] = history[r]
          /\ Revision(q)' = Revision(q) + 1
          /\ history'[q][Revision(q) + 1] = [tree |-> tree, at |-> clock, by |-> by]
      BY <1>1, <3>5, <3>6, WriteGrows
    <3>8. p = q
      BY <2>1, <2>3, <3>7 DEF Revision
    <3>9. history'[p][n].by.dir = apply[b].dir
      BY <2>1, <2>3, <3>4, <3>6, <3>7, <3>8
    <3>10. a # b /\ Claims(a) /\ apply'[a] = apply[a]
      BY <1>8, <3>5 DEF Claims
    <3>11. backups[apply[a].dir].runs # 1
      BY <1>1, <1>8, <3>5, <3>9, <3>10 DEF ClaimsOK
    <3> QED
      BY <3>5, <3>10, <3>11
  <2> QED
    BY <2>1, <2>2, <2>3
<1> QED
  BY <1>6, <1>8 DEF ClaimsOK

\* The convergence's inductive invariant holds in every state.
THEOREM ConvergenceInvariant == Spec => []IInv
<1>1. Init => IInv
  BY InitEstablishes
<1>2. IInv /\ [Next]_vars => IInv'
  BY HistoryPreserved, BaselinePreserved, PlanPreserved, BackupsPreserved,
     RunsPreserved, WritesPreserved, ClaimsPreserved DEF IInv
<1> QED
  BY <1>1, <1>2, PTL DEF Spec

-----------------------------------------------------------------------------
(* What follows from it.                                                   *)

\* Every configuration that a profile has had, and every export of one, is an
\* object; a baseline and a backup name revisions there are.
THEOREM ConvergenceTypeCorrect == Spec => []TypeOK
<1>1. IInv => TypeOK
  <2> SUFFICES ASSUME IInv
               PROVE  TypeOK
    OBVIOUS
  <2>1. ASSUME baseline # None
        PROVE  /\ IsObject(baseline.config)
               /\ baseline.revision \in 1..Revision(baseline.profile)
    <3>1. PICK p \in Profile, n \in Nat :
            /\ p = baseline.profile /\ n = baseline.revision
            /\ n \in 1..Revision(p)
            /\ baseline.config = Redact(history[p][n].tree)
      BY <2>1 DEF IInv, BaselineOK
    <3>2. IsObject(history[p][n].tree)
      BY <3>1 DEF IInv, HistoryOK
    <3> QED
      BY <3>1, <3>2, RedactIsObject
  <2> QED
    BY <2>1 DEF TypeOK, IInv, HistoryOK, BackupsOK, IsBackup
<1> QED
  BY <1>1, ConvergenceInvariant, PTL

\* A plan built from the configuration it is applied to makes that
\* configuration what the .env and the policy say, although it names only
\* what differed in a redacted export.
THEOREM ConvergenceMergesConverge == Spec => []MergesConverge
<1>1. IInv => MergesConverge
  <2> SUFFICES ASSUME IInv, NEW p \in Profile, NEW n \in Applied(p),
                      NEW path \in EnforcePaths,
                      history[p][n].by.plan.profile = p,
                      history[p][n].by.plan.revision = history[p][n].by.base
               PROVE  Get(history[p][n].tree, path) = history[p][n].by.plan.enforce[path]
    BY DEF MergesConverge
  <2> DEFINE run == history[p][n].by
             base == history[p][run.base].tree
  <2>1. /\ history[p][n].tree = Merge(base, run.plan.operations)
        /\ IsPlan(run.plan)
    BY DEF IInv, WritesOK, IsMerge
  <2>2. run.plan.operations = Operations(Redact(base), run.plan.enforce)
    BY <2>1 DEF IsPlan
  <2>3. \A q \in EnforcePaths : run.plan.enforce[q] \notin {None, Redacted}
    BY <2>1 DEF IsPlan
  <2> QED
    BY <2>1, <2>2, <2>3, OperationsAsk
<1> QED
  BY <1>1, ConvergenceInvariant, PTL

\* Whatever plan is applied, stale or of the other profile, the configuration
\* that was read keeps everything next to what the plan names.
THEOREM ConvergenceMergesKeepTheRest == Spec => []MergesKeepTheRest
<1>1. IInv => MergesKeepTheRest
  <2> SUFFICES ASSUME IInv, NEW p \in Profile, NEW n \in Applied(p),
                      NEW path \in DOMAIN history[p][history[p][n].by.base].tree,
                      Unrelated(path, history[p][n].by.plan.operations)
               PROVE  Get(history[p][n].tree, path)
                        = history[p][history[p][n].by.base].tree[path]
    BY DEF MergesKeepTheRest
  <2> DEFINE run == history[p][n].by
             base == history[p][run.base].tree
             operations == run.plan.operations
  <2>1. /\ history[p][n].tree = Merge(base, operations)
        /\ IsPlan(run.plan)
        /\ run.base \in 1..Revision(p)
    BY DEF IInv, WritesOK, IsMerge
  <2>2. path \in Path
    BY <2>1 DEF IInv, HistoryOK, IsObject
  <2>3. DOMAIN operations \subseteq EnforcePaths
    BY <2>1 DEF IsPlan, Operations
  <2>4. \A q \in DOMAIN operations : Spared(base, q, path)
    BY <2>2, <2>3, NamedPaths, ParentsAreAbove DEF Unrelated, Spared
  <2>5. Get(Merge(base, operations), path) = Get(base, path)
    BY <2>2, <2>3, <2>4, MergeKeeps
  <2> QED
    BY <2>1, <2>5 DEF Get
<1> QED
  BY <1>1, ConvergenceInvariant, PTL

\* The directory that a run copied to holds a whole configuration, as it was
\* no earlier than the second the run began in and no later than what the run
\* merged, whatever other runs do and wherever they die: always in the
\* directory named by the second, and in the one within it unless another run
\* has copied there.
THEOREM ConvergenceBackupUndoesTheRun == Spec => []BackupUndoesTheRun
<1>1. IInv => BackupUndoesTheRun
  <2> SUFFICES ASSUME IInv, NEW p \in Profile, NEW n \in Applied(p),
                      NEW run, run = history[p][n].by,
                      NEW backup, backup = backups[run.dir],
                      run.dir = <<run.started, p, "named">> \/ backup.runs = 1
               PROVE  /\ backup.file = "whole"
                      /\ backup.revision \in 1..run.base
                      /\ \A m \in (backup.revision + 1)..run.base :
                              history[p][m].at >= run.started
    BY DEF BackupUndoesTheRun, Named
  <2>1. IsMerge(run, p, history[p][n].tree)
    BY DEF IInv, WritesOK
  <2>2. run.dir \in DOMAIN backups /\ run.dir[1] = run.started /\ run.dir[2] = p
    BY <2>1 DEF IsMerge, Directories
  <2>3. IsBackup(run.dir, backup)
    BY <2>2 DEF IInv, BackupsOK
  <2>4. backup.runs = 1
    <3>1. run.dir = <<run.started, p, "named">> => run.dir[3] = "named"
      OBVIOUS
    <3>2. run.dir[3] = "named" => backup.runs = 1
      BY <2>3 DEF IsBackup
    <3> QED
      BY <3>1, <3>2
  <2>5. backup.file = "whole" /\ backup.revision <= run.base /\ run.base \in 1..Revision(p)
    BY <2>1, <2>4 DEF IsMerge
  <2>6. /\ backup.revision \in 1..Revision(p)
        /\ \A m \in (backup.revision + 1)..Revision(p) : history[p][m].at >= run.started
    BY <2>2, <2>3, <2>5 DEF IsBackup
  <2>7. Revision(p) \in Nat
    BY AppendedHistory DEF IInv, HistoryOK, Revision
  <2>8. PICK rev, base : rev = backup.revision /\ base = run.base
    OBVIOUS
  <2>9. rev \in 1..Revision(p) /\ base \in 1..Revision(p) /\ rev <= base
    BY <2>5, <2>6, <2>8
  <2>10. rev \in 1..base /\ \A m \in (rev + 1)..base : m \in (rev + 1)..Revision(p)
    BY <2>7, <2>9
  <2> QED
    BY <2>5, <2>6, <2>8, <2>10
<1> QED
  BY <1>1, ConvergenceInvariant, PTL

\* Every non-empty set of naturals has a least element.
LEMMA LeastNat ==
    ASSUME NEW S \in SUBSET Nat, S # {}
    PROVE  \E x \in S : \A y \in S : x <= y
<1> DEFINE Less == OpToRel(<, Nat)
<1>1. IsWellFoundedOn(Less, Nat)
  BY NatLessThanWellFounded
<1>2. \A x, y \in Nat : x < y => <<x, y>> \in Less
  BY DEF OpToRel
<1> HIDE DEF Less
<1>3. PICK x \in S : \A y \in S : <<y, x>> \notin Less
  BY <1>1, WFMin
<1>4. \A y \in S : y \in Nat /\ x \in Nat /\ ~ (y < x)
  BY <1>2, <1>3, ZenonT(60)
<1> QED
  BY <1>4

\* The allowlist covers what is below what it covers.
LEMMA AllowedBelow ==
    ASSUME NEW path \in Path, NEW q \in Path, IsPrefix(q, path), IsAllowed(q)
    PROVE  IsAllowed(path)
<1>1. PICK item \in Allowed : IsPrefix(item, q)
  BY DEF IsAllowed
<1>2. Len(item) \in Nat /\ Len(item) <= Len(q) /\ SubSeq(item, 1, Len(item)) = SubSeq(q, 1, Len(item))
  BY <1>1 DEF Allowed, IsPrefix, Bind, Port, Every
<1>3. Len(q) <= Len(path) /\ \A i \in 1..Len(q) : q[i] = path[i]
  BY PrefixKeys
<1>4. SubSeq(q, 1, Len(item)) = SubSeq(path, 1, Len(item))
  BY <1>2, <1>3 DEF Path
<1> QED
  BY <1>2, <1>3, <1>4 DEF IsAllowed, IsPrefix, Path

\* Two exports that differ in allowed paths only come from configurations
\* that differ in allowed paths and in secrets only.  Where the exports differ
\* on the way to a path, the first difference is reported.
THEOREM ComparisonIsRight ==
    ASSUME NEW a, IsObject(a), NEW b, IsObject(b),
           Unexpected(Redact(a), Redact(b)) = {},
           NEW path \in DOMAIN a \cup DOMAIN b, ~ IsAllowed(path)
    PROVE  \/ Hidden(a, path) /\ Hidden(b, path)
           \/ Get(a, path) = Get(b, path)
<1> DEFINE ra == Redact(a)
           rb == Redact(b)
           Up(n) == SubSeq(path, 1, n)
           Differ == {n \in 1..Len(path) : Get(ra, Up(n)) # Get(rb, Up(n))}
<1>1. path \in Path
  BY DEF IsObject
<1>2. IsObject(ra) /\ IsObject(rb)
  BY RedactIsObject
<1>3. \A p \in Changes(ra, rb) : IsAllowed(p)
  BY DEF Unexpected
<1>4. Len(path) \in Nat /\ Len(path) >= 1 /\ Up(Len(path)) = path
  BY <1>1 DEF Path
<1>5. ASSUME NEW n \in 1..Len(path)
      PROVE  /\ Up(n) \in Path
             /\ IsPrefix(Up(n), path)
             /\ ParentsOf(Up(n)) = {Up(m) : m \in 1..(n - 1)}
  <2>1. Up(n) \in Path /\ Len(Up(n)) = n /\ \A i \in 1..n : Up(n)[i] = path[i]
    BY <1>1, <1>5 DEF Path
  <2>2. IsPrefix(Up(n), path)
    <3>1. n \in Nat /\ n <= Len(path)
      BY <1>4, <1>5
    <3> HIDE DEF Up
    <3> QED
      BY <1>1, <2>1, <3>1, PrefixKeys
  <2>3. \A m \in 1..(n - 1) : SubSeq(Up(n), 1, m) = Up(m)
    BY <1>1, <1>5, <2>1 DEF Path
  <2> QED
    BY <2>1, <2>2, <2>3 DEF ParentsOf
<1> HIDE DEF ra, rb, Up
<1>6. Differ = {}
  <2> SUFFICES ASSUME Differ # {}
               PROVE  FALSE
    OBVIOUS
  <2>1. Differ \in SUBSET Nat
    BY <1>4
  <2> HIDE DEF Differ
  <2>2. PICK n \in Differ : \A m \in Differ : n <= m
    BY <2>1, LeastNat
  <2>3. n \in 1..Len(path) /\ Get(ra, Up(n)) # Get(rb, Up(n))
    BY <2>2 DEF Differ
  <2>4. \A m \in 1..(n - 1) : Get(ra, Up(m)) = Get(rb, Up(m))
    BY <1>4, <2>1, <2>2, <2>3 DEF Differ
  <2>5. CASE \A m \in 1..(n - 1) : Get(ra, Up(m)) = Dict
    <3>1. \A q \in ParentsOf(Up(n)) : Get(ra, q) = Dict /\ Get(rb, q) = Dict
      BY <1>5, <2>3, <2>4, <2>5
    <3>2. Up(n) \in DOMAIN ra \cup DOMAIN rb
      BY <2>3 DEF Get
    <3>3. Up(n) \in Changes(ra, rb)
      BY <2>3, <3>1, <3>2 DEF Changes
    <3> QED
      BY <1>1, <1>3, <1>5, <2>3, <3>3, AllowedBelow
  <2>6. CASE \E m \in 1..(n - 1) : Get(ra, Up(m)) # Dict
    <3>1. PICK m \in 1..(n - 1) : Get(ra, Up(m)) # Dict
      BY <2>6
    <3>2. Up(m) \in ParentsOf(Up(n)) /\ Get(rb, Up(m)) # Dict
      BY <1>5, <2>3, <2>4, <3>1
    <3>3. Up(n) \notin DOMAIN ra /\ Up(n) \notin DOMAIN rb
      BY <1>2, <3>1, <3>2 DEF IsObject, IsTree, Get
    <3> QED
      BY <2>3, <3>3 DEF Get
  <2> QED
    BY <2>5, <2>6
<1>7. Get(ra, path) = Get(rb, path)
  BY <1>4, <1>6
<1>8. CASE Get(ra, path) \notin {None, Redacted}
  BY <1>7, <1>8, ShownIsReal DEF ra, rb
<1>9. CASE Get(ra, path) = Redacted
  BY <1>7, <1>9, MarkedIsHidden DEF ra, rb
<1>10. CASE Get(ra, path) = None
  <2>1. \E q \in ParentsOf(path) : Last(q) \in SecretKey
    BY <1>7, <1>10, MissingIsBelowSecret DEF ra, rb
  <2> QED
    BY <2>1 DEF Hidden
<1> QED
  BY <1>8, <1>9, <1>10

\* A report that says overall_ok is right: the two configurations, as they
\* really were, agree on everything outside the allowlist that is not a
\* secret, although only redacted exports were compared.
THEOREM ConvergenceReportIsRight == Spec => []ReportIsRight
<1>1. IInv => ReportIsRight
  <2> SUFFICES ASSUME IInv, baseline # None,
                      NEW p \in Profile, Accepted(Inventory(p)),
                      NEW path \in DOMAIN Real(baseline) \cup DOMAIN Real(Inventory(p))
               PROVE  \/ IsAllowed(path)
                      \/ Hidden(Real(baseline), path) /\ Hidden(Real(Inventory(p)), path)
                      \/ Get(Real(baseline), path) = Get(Real(Inventory(p)), path)
    BY DEF ReportIsRight, Posts
  <2> DEFINE a == Real(baseline)
             b == Real(Inventory(p))
  <2>1. IsObject(a) /\ baseline.config = Redact(a)
    BY DEF IInv, BaselineOK, HistoryOK, Real
  <2>2. b = ConfigOf(p) /\ Inventory(p).config = Redact(b)
    BY DEF Real, Inventory, ConfigOf
  <2>3. Revision(p) \in 1..Revision(p)
    BY AppendedHistory DEF IInv, HistoryOK, Revision
  <2>4. IsObject(b)
    BY <2>2, <2>3 DEF IInv, HistoryOK, ConfigOf
  <2>5. Unexpected(Redact(a), Redact(b)) = {}
    BY <2>1, <2>2 DEF Accepted, OverallOk
  <2> HIDE DEF a, b
  <2>6. IsAllowed(path) \/ (Hidden(a, path) /\ Hidden(b, path)) \/ Get(a, path) = Get(b, path)
    <3>1. path \in DOMAIN a \cup DOMAIN b
      BY DEF a, b
    <3> QED
      BY <2>1, <2>4, <2>5, <3>1, ComparisonIsRight
  <2> QED
    BY <2>6 DEF a, b
<1> QED
  BY <1>1, ConvergenceInvariant, PTL

\* The pipeline export, plan, apply, export, verify is accepted by its own
\* verification, if the baseline has the sections that the plan sets values in
\* and Telegram is enabled: the merge changes what it names and nothing else.
THEOREM ConvergencePipelinePasses == Spec => []PipelinePasses
<1>1. IInv => PipelinePasses
  <2> SUFFICES ASSUME IInv, baseline # None, HasSections(Real(baseline)),
                      Get(Real(baseline), TelegramEnabled) = Enabled,
                      NEW post \in Posts, Converged(post)
               PROVE  Accepted(post)
    BY DEF PipelinePasses
  <2>1. PICK p \in Profile : post = Inventory(p)
    BY DEF Posts
  <2> DEFINE run == history[p][Revision(p)].by
             base == Real(baseline)
             merged == ConfigOf(p)
             operations == run.plan.operations
  <2>2. /\ p = baseline.profile /\ run # None
        /\ run.plan.profile = p /\ run.plan.revision = run.base
        /\ run.base = baseline.revision
        /\ run.plan.enforce[Port] = CanonicalPort
        /\ run.plan.enforce[Every] = CanonicalEvery
    BY <2>1 DEF Converged, Inventory
  <2>3. Revision(p) \in 1..Revision(p)
    BY AppendedHistory DEF IInv, HistoryOK, Revision
  <2>4. Revision(p) \in Applied(p)
    <3>1. history[p][1].by = None
      BY DEF IInv, HistoryOK
    <3> QED
      BY <2>2, <2>3, <3>1 DEF Applied
  <2>5. /\ merged = Merge(base, operations)
        /\ IsPlan(run.plan)
        /\ IsObject(base) /\ IsObject(merged)
        /\ baseline.config = Redact(base) /\ post.config = Redact(merged)
    <3>1. IsMerge(run, p, merged)
      BY <2>4 DEF IInv, WritesOK, ConfigOf
    <3>2. base = history[p][run.base].tree
      BY <2>2 DEF Real
    <3>3. IsObject(base) /\ IsObject(merged)
      BY <2>2, <2>3, <3>1, <3>2 DEF IInv, HistoryOK, ConfigOf, IsMerge
    <3>4. baseline.config = Redact(base) /\ post.config = Redact(merged)
      BY <2>1 DEF IInv, BaselineOK, Real, Inventory
    <3> QED
      BY <3>1, <3>2, <3>3, <3>4 DEF IsMerge
  <2>6. /\ operations = Operations(Redact(base), run.plan.enforce)
        /\ \A q \in EnforcePaths : run.plan.enforce[q] \notin {None, Redacted}
        /\ run.plan.enforce[Bind] = Loopback
        /\ DOMAIN operations \subseteq EnforcePaths
    <3>1. base = history[run.plan.profile][run.plan.revision].tree
      BY <2>2 DEF Real
    <3>2. /\ operations = Operations(
                Redact(history[run.plan.profile][run.plan.revision].tree), run.plan.enforce)
          /\ \A q \in EnforcePaths : run.plan.enforce[q] \notin {None, Redacted}
          /\ run.plan.enforce[Bind] = Loopback
      BY <2>5 DEF IsPlan
    <3>3. DOMAIN operations \subseteq EnforcePaths
      <4> HIDE DEF run
      <4> QED
        BY <3>2 DEF Operations
    <3> HIDE DEF base, run
    <3> QED
      BY <3>1, <3>2, <3>3
  <2>7. ASSUME NEW path \in Path, \A q \in EnforcePaths : ~ IsPrefix(q, path)
        PROVE  Get(merged, path) = Get(base, path)
    <3>1. \A q \in DOMAIN operations : Spared(base, q, path)
      BY <2>6, <2>7 DEF Spared, HasSections
    <3> QED
      BY <2>5, <2>6, <3>1, MergeKeeps
  <2> HIDE DEF base, merged, operations
  <2>8. Unexpected(Redact(base), Redact(merged)) = {}
    <3> SUFFICES ASSUME NEW path \in Changes(Redact(base), Redact(merged)), ~ IsAllowed(path)
                 PROVE  FALSE
      BY DEF Unexpected
    <3>1. /\ path \in DOMAIN Redact(base) \cup DOMAIN Redact(merged)
          /\ Get(Redact(base), path) # Get(Redact(merged), path)
      BY DEF Changes
    <3>2. path \in Path
      BY <2>5, <3>1, RedactIsObject DEF IsObject
    <3>3. \A q \in EnforcePaths : ~ IsPrefix(q, path)
      BY DEF IsAllowed, Allowed, EnforcePaths
    <3> QED
      BY <2>5, <2>7, <3>1, <3>2, <3>3, RedactFollows
  <2>9. ASSUME NEW q \in EnforcePaths, run.plan.enforce[q] \notin SecretValue
        PROVE  Get(Redact(merged), q) = run.plan.enforce[q]
    <3>1. Get(merged, q) = run.plan.enforce[q]
      BY <2>5, <2>6, OperationsAsk
    <3> QED
      BY <2>9, <3>1, NamedAreShown
  <2>10. /\ Get(Redact(merged), Bind) = Loopback
         /\ Get(Redact(merged), Port) = CanonicalPort
         /\ Get(Redact(merged), Every) = CanonicalEvery
    <3>1. Loopback \notin SecretValue /\ CanonicalPort \notin SecretValue
          /\ CanonicalEvery \notin SecretValue
      BY PolicyAssumption
    <3> QED
      BY <2>2, <2>6, <2>9, <3>1 DEF EnforcePaths
  <2>11. Get(Redact(merged), TelegramEnabled) = Enabled
    <3>1. TelegramEnabled \notin EnforcePaths
      <4>1. TelegramEnabled[1] = "channels" /\ Bind[1] = "gateway"
            /\ Port[1] = "gateway" /\ Every[1] = "agents"
        BY DEF TelegramEnabled, Bind, Port, Every
      <4> QED
        BY <4>1 DEF EnforcePaths
    <3>2. \A q \in EnforcePaths : ~ IsPrefix(q, TelegramEnabled)
      BY <3>1, NamedPaths
    <3>3. Get(merged, TelegramEnabled) = Enabled
      BY <2>7, <3>2, NamedPaths DEF base
    <3>4. Enabled \notin SecretValue
      BY PolicyAssumption
    <3> QED
      BY <3>3, <3>4, NamedAreShown
  <2> QED
    BY <2>5, <2>8, <2>10, <2>11 DEF Accepted, OverallOk
<1> QED
  BY <1>1, ConvergenceInvariant, PTL
=============================================================================
