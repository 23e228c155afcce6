------------------------- MODULE RuntimeConvergence -------------------------
(***************************************************************************)
(* scripts/runtime: export the state of a profile, build a merge plan from *)
(* it and the .env, apply the plan to the profile's openclaw.json, export  *)
(* again and verify.  Each script is a process of its own and reads files  *)
(* that others may have written since; openclaw and its operator go on     *)
(* changing openclaw.json meanwhile.                                       *)
(***************************************************************************)
EXTENDS ConfigTree, Naturals

CONSTANTS
    Loopback,       \* "loopback"
    CanonicalPort,  \* 18789
    CanonicalEvery, \* "15m"
    Enabled,        \* true
    BadPort,        \* an OPENCLAW_GATEWAY_PORT that is not a number
    Profile,        \* active and dev
    Config,         \* the configuration each profile starts with
    Edit,           \* what openclaw or its operator write: profile, path, value
    Env,            \* what the .env may say
    Applier,        \* runs of apply_runtime_merge_plan.sh at once
    MaxWrites,      \* bound on the writes of openclaw.json
    MaxCopies,      \* bound on the copies made by cp
    MaxTime         \* bound on the clock, in seconds

VARIABLES
    history,    \* history[p]: every openclaw.json profile p has had
    baseline,   \* the exported inventory that plans and reports start from
    plan,       \* the merge plan file
    apply,      \* apply[a]: where run a of the apply script is
    backups,    \* runtime-backups: the openclaw.json of each directory
    clock

vars == <<history, baseline, plan, apply, backups, clock>>

\* A revision is the position of a configuration in its profile's history.
Revision(p) == Len(history[p])
ConfigOf(p) == history[p][Revision(p)].tree

Bind == <<"gateway", "bind">>
Port == <<"gateway", "port">>
Every == <<"agents", "defaults", "heartbeat", "every">>
TelegramEnabled == <<"channels", "telegram", "enabled">>
EnforcePaths == {Bind, Port, Every}

ASSUME ConfigAssumption == \A p \in Profile : IsObject(Config[p])

ASSUME EditAssumption ==
    \A e \in Edit : e.profile \in Profile /\ e.path \in Path /\ e.value # None

\* What the policy wants is neither a secret nor the mark of one, and nor are
\* the port and the minutes of a .env.
ASSUME PolicyAssumption ==
    /\ \A v \in {Loopback, CanonicalPort, CanonicalEvery, Enabled} :
            v \notin {None, Redacted} \cup SecretValue
    /\ \A env \in Env : Redacted \notin {env.port, env.url_port, env.minutes}

\* No word of key_blocklist is in a key that the scripts name.
ASSUME KeyAssumption ==
    \A p \in EnforcePaths \cup {TelegramEnabled} : \A i \in 1..Len(p) : p[i] \in Key \ SecretKey

ASSUME TimeAssumption == MaxTime \in Nat

Init ==
    /\ history = [p \in Profile |-> <<[tree |-> Config[p], at |-> 0, by |-> None]>>]
    /\ baseline = None
    /\ plan = None
    /\ apply = [a \in Applier |-> None]
    /\ backups = <<>>
    /\ clock = 0

Writes == Cardinality({w \in Profile \X (2..MaxWrites + 1) : w[2] <= Revision(w[1])})

Write(p, tree, by) ==
    /\ Writes < MaxWrites
    /\ history' = [history EXCEPT
            ![p] = Append(@, [tree |-> tree, at |-> clock, by |-> by])]

\* openclaw or its operator, by no script of the repository.
Touch(e) ==
    /\ Write(e.profile, SetPath(ConfigOf(e.profile), e.path, e.value), None)
    /\ UNCHANGED <<baseline, plan, apply, backups, clock>>

\* export_runtime_state.sh, with its default --redact-secrets true.
Inventory(p) ==
    [profile |-> p, revision |-> Revision(p),
     config |-> Redact(ConfigOf(p))]

ExportBaseline(p) ==
    /\ baseline' = Inventory(p)
    /\ UNCHANGED <<history, plan, apply, backups, clock>>

-----------------------------------------------------------------------------
(***************************************************************************)
(* build_runtime_merge_plan.py                                             *)
(***************************************************************************)
GatewayPort(env) ==
    IF env.port # None THEN env.port
    ELSE IF env.url_port # None THEN env.url_port ELSE CanonicalPort

Heartbeat(env) == IF env.minutes # None THEN env.minutes ELSE CanonicalEvery

Enforced(env) ==
    [p \in EnforcePaths |->
        IF p = Bind THEN Loopback
        ELSE IF p = Port THEN GatewayPort(env) ELSE Heartbeat(env)]

\* Mutant of Operations: only paths the runtime has already.
OperationsOnPresent(config, enforced) ==
    [p \in {q \in EnforcePaths : Get(config, q) \notin {None, enforced[q]}} |->
        enforced[p]]

\* The paths to set, with their values.
Operations(config, enforced) ==
    [p \in {q \in EnforcePaths : Get(config, q) # enforced[q]} |-> enforced[p]]

BuildPlan(env) ==
    /\ baseline # None
    /\ GatewayPort(env) # BadPort
    /\ plan' = [profile |-> baseline.profile,
                revision |-> baseline.revision,
                enforce |-> Enforced(env),
                operations |-> Operations(baseline.config, Enforced(env))]
    /\ UNCHANGED <<history, baseline, apply, backups, clock>>

-----------------------------------------------------------------------------
(***************************************************************************)
(* apply_runtime_merge_plan.sh --dry-run false.  (A dry run ends before it *)
(* writes.)  A plan of no operations is applied like any other.            *)
(***************************************************************************)
Start(a, p) ==
    /\ apply[a] = None
    /\ plan # None
    /\ apply' = [apply EXCEPT
            ![a] = [step |-> "started", profile |-> p, started |-> clock]]
    /\ UNCHANGED <<history, baseline, plan, backups, clock>>

\* BACKUP_DIR, named by the second the run began in, and the directory of the
\* profile within it.
Named(mine) == <<mine.started, mine.profile, "named">>
Within(mine) == <<mine.started, mine.profile, "within">>

\* Mutant of Directory: the contents of the profile are copied, not the
\* directory (cp -a "$STATE_DIR/." "$BACKUP_DIR").
DirectoryNamed(mine) == Named(mine)

\* Where cp -a "$STATE_DIR" "$BACKUP_DIR" copies to: into a directory that
\* exists, dead runs' ones included, it copies a subdirectory.
Directory(mine) == IF Named(mine) \in DOMAIN backups THEN Within(mine) ELSE Named(mine)

\* backups[d].runs, how many runs have copied to d, is history only.
Copies == MapThenSumSet(LAMBDA d : backups[d].runs, DOMAIN backups)

\* cp makes the directory, or goes on with the one that is there.  (It may
\* lose a race to make it, or fail in any other way, and the script ends: Die.)
MakeDirectory(a) ==
    LET mine == apply[a]
        dir == Directory(mine)
    IN  /\ mine # None /\ mine.step = "started"
        /\ Copies < MaxCopies
        /\ backups' = [d \in DOMAIN backups \cup {dir} |->
                IF d \in DOMAIN backups
                THEN IF d = dir THEN [backups[d] EXCEPT !.runs = @ + 1] ELSE backups[d]
                ELSE [file |-> "absent", revision |-> 0, runs |-> 1]]
        /\ apply' = [apply EXCEPT ![a] =
                [step |-> "made", profile |-> mine.profile,
                 started |-> mine.started, dir |-> dir]]
        /\ UNCHANGED <<history, baseline, plan, clock>>

\* Another run is writing the same copy of openclaw.json.
Shared(a) ==
    \E b \in Applier \ {a} :
        apply[b] # None /\ apply[b].step = "copying" /\ apply[b].dir = apply[a].dir

\* cp opens openclaw.json, so that it reads one revision whatever replaces
\* the file meanwhile, and truncates its copy.  What two copies leave that
\* were written at once is "mixed".
OpenCopy(a) ==
    LET mine == apply[a]
    IN  /\ mine # None /\ mine.step = "made"
        /\ backups' = [backups EXCEPT
                ![mine.dir].file = IF Shared(a) THEN "mixed" ELSE "torn",
                ![mine.dir].revision = Revision(mine.profile)]
        /\ apply' = [apply EXCEPT ![a].step = "copying"]
        /\ UNCHANGED <<history, baseline, plan, clock>>

FinishCopy(a) ==
    LET mine == apply[a]
    IN  /\ mine # None /\ mine.step = "copying"
        /\ backups' = [backups EXCEPT
                ![mine.dir].file = IF @ = "torn" THEN "whole" ELSE "mixed"]
        /\ apply' = [apply EXCEPT ![a].step = "backed_up"]
        /\ UNCHANGED <<history, baseline, plan, clock>>

Operate(config, operations, p) ==
    IF p \in DOMAIN operations THEN SetPath(config, p, operations[p]) ELSE config

\* In the order of the plan, which is that of enforce_paths.
Merge(config, operations) ==
    Operate(Operate(Operate(config, operations, Bind), operations, Port), operations, Every)

\* The plan and the configuration are read again, and merged.
ReadAndMerge(a) ==
    LET mine == apply[a]
    IN  /\ mine # None /\ mine.step = "backed_up"
        /\ apply' = [apply EXCEPT ![a] =
                [step |-> "merged", profile |-> mine.profile,
                 started |-> mine.started, dir |-> mine.dir,
                 plan |-> plan, base |-> Revision(mine.profile),
                 merged |-> Merge(ConfigOf(mine.profile), plan.operations)]]
        /\ UNCHANGED <<history, baseline, plan, backups, clock>>

\* os.replace: all of the new file or all of the old one.
Replace(a) ==
    LET mine == apply[a]
    IN  /\ mine # None /\ mine.step = "merged"
        /\ Write(mine.profile, mine.merged,
                 [plan |-> mine.plan, base |-> mine.base,
                  started |-> mine.started, dir |-> mine.dir])
        /\ apply' = [apply EXCEPT ![a] = None]
        /\ UNCHANGED <<baseline, plan, backups, clock>>

\* A script that is killed, or that a failing command ends.
Die(a) ==
    /\ apply[a] # None
    /\ apply' = [apply EXCEPT ![a] = None]
    /\ UNCHANGED <<history, baseline, plan, backups, clock>>

-----------------------------------------------------------------------------
(***************************************************************************)
(* verify_runtime_convergence.sh                                           *)
(***************************************************************************)
\* Mutant of Allowed: the list lacks a path that plans enforce.
AllowedGateway ==
    {Bind, Port, <<"meta", "lastTouchedAt">>, <<"meta", "lastTouchedVersion">>}

Allowed ==
    {Bind, Port, Every, <<"meta", "lastTouchedAt">>, <<"meta", "lastTouchedVersion">>}

IsAllowed(p) == \E item \in Allowed : IsPrefix(item, p)

Unexpected(base, post) == {p \in Changes(base, post) : ~ IsAllowed(p)}

\* overall_ok of two inventories and Telegram's probe.  The report is all
\* the script writes, and no script reads it.
OverallOk(base, post, probe) ==
    /\ Unexpected(base.config, post.config) = {}
    /\ Get(post.config, Bind) = Loopback
    /\ Get(post.config, Port) = CanonicalPort
    /\ Get(post.config, Every) = CanonicalEvery
    /\ Get(post.config, TelegramEnabled) = Enabled
    /\ probe

Tick ==
    /\ clock < MaxTime
    /\ clock' = clock + 1
    /\ UNCHANGED <<history, baseline, plan, apply, backups>>

ApplyStep(a) ==
    \/ MakeDirectory(a) \/ OpenCopy(a) \/ FinishCopy(a)
    \/ ReadAndMerge(a) \/ Replace(a) \/ Die(a)

Next ==
    \/ \E p \in Profile :
        \/ ExportBaseline(p)
        \/ \E a \in Applier : Start(a, p)
    \/ \E e \in Edit : Touch(e)
    \/ \E env \in Env : BuildPlan(env)
    \/ \E a \in Applier : ApplyStep(a)
    \/ Tick

Spec == Init /\ [][Next]_vars
-----------------------------------------------------------------------------
TypeOK ==
    /\ \A p \in Profile : \A n \in 1..Revision(p) :
        IsObject(history[p][n].tree) /\ history[p][n].at \in 0..clock
    /\ baseline # None =>
        /\ IsObject(baseline.config)
        /\ baseline.revision \in 1..Revision(baseline.profile)
    /\ \A d \in DOMAIN backups :
        /\ d \in (0..clock) \X Profile \X {"named", "within"}
        /\ backups[d].file # "absent" => backups[d].revision \in 1..Revision(d[2])
    /\ clock \in 0..MaxTime

\* The writes of the apply script, as revisions of the profile.
Applied(p) == {n \in 2..Revision(p) : history[p][n].by # None}

\* A plan built from the configuration it is applied to makes that
\* configuration what the .env and the policy say, although it names only
\* what differed when it was built.
MergesConverge ==
    \A p \in Profile : \A n \in Applied(p) :
        LET run == history[p][n].by
        IN  run.plan.profile = p /\ run.plan.revision = run.base =>
                \A path \in EnforcePaths :
                    Get(history[p][n].tree, path) = run.plan.enforce[path]

Unrelated(path, operations) ==
    \A p \in DOMAIN operations : ~ IsPrefix(path, p) /\ ~ IsPrefix(p, path)

\* "preservacao integral" (EPIC-F10-02): whatever plan is applied, even one
\* that is stale or was built for the other profile, the configuration that
\* was read keeps everything the plan does not name, next to what it names.
MergesKeepTheRest ==
    \A p \in Profile : \A n \in Applied(p) :
        LET run == history[p][n].by
            base == history[p][run.base].tree
        IN  \A path \in DOMAIN base :
                Unrelated(path, run.plan.operations) =>
                    Get(history[p][n].tree, path) = base[path]

\* "backup e criado antes da primeira mutacao" (EPIC-F10-02): the directory
\* that a run copied to holds a whole openclaw.json, as it was no earlier than
\* the second the run began in and no later than what the run has merged, so
\* that restoring it undoes the run: whatever other runs, of the same second
\* too, do or leave undone meanwhile.  The first run of a second has its
\* directory to itself; the others share the one within it, and what is there
\* is the run's own only if no other has copied to it.
BackupUndoesTheRun ==
    \A p \in Profile : \A n \in Applied(p) :
        LET run == history[p][n].by
            backup == backups[run.dir]
        IN  run.dir = Named([started |-> run.started, profile |-> p]) \/ backup.runs = 1 =>
                /\ backup.file = "whole"
                /\ backup.revision \in 1..run.base
                /\ \A m \in (backup.revision + 1)..run.base :
                        history[p][m].at >= run.started

Real(export) == history[export.profile][export.revision].tree

Hidden(config, path) ==
    \/ \E q \in ParentsOf(path) \cup {path} : Last(q) \in SecretKey
    \/ Get(config, path) \in SecretValue \cup {Redacted}

\* The inventories that an export made now may hold, to be verified against
\* the baseline.
Posts == {Inventory(p) : p \in Profile}

Accepted(post) == OverallOk(baseline, post, TRUE)

\* A report that says overall_ok is right: the two configurations, as they
\* really were, agree on everything outside the allowlist that is not a
\* secret, although only redacted inventories were compared.
ReportIsRight ==
    baseline # None =>
        \A post \in {q \in Posts : Accepted(q)} :
            \A path \in DOMAIN Real(baseline) \cup DOMAIN Real(post) :
                \/ IsAllowed(path)
                \/ Hidden(Real(baseline), path) /\ Hidden(Real(post), path)
                \/ Get(Real(baseline), path) = Get(Real(post), path)

HasSections(config) ==
    \A path \in EnforcePaths : \A q \in ParentsOf(path) : Get(config, q) = Dict

\* The run that made a configuration merged a plan of the canonical .env,
\* built from the baseline, into the configuration of the baseline.
Converged(post) ==
    LET run == history[post.profile][post.revision].by
    IN  /\ post.profile = baseline.profile
        /\ run # None
        /\ run.plan.profile = baseline.profile
        /\ run.plan.revision = baseline.revision
        /\ run.base = baseline.revision
        /\ run.plan.enforce[Port] = CanonicalPort
        /\ run.plan.enforce[Every] = CanonicalEvery

\* The pipeline of EPIC-F10-03 is accepted by its own verification, if the
\* baseline has the sections the plan sets values in and Telegram is up.
PipelinePasses ==
    /\ baseline # None
    /\ HasSections(Real(baseline))
    /\ Get(Real(baseline), TelegramEnabled) = Enabled
    => \A post \in Posts :
            Converged(post) => Accepted(post)

-----------------------------------------------------------------------------
(***************************************************************************)
(* A claim of the repository that the code does not meet.                  *)
(***************************************************************************)
PreservePaths ==
    {<<k>> : k \in {"auth", "channels", "agents", "messages", "commands", "plugins", "wizard"}}

\* EPIC-F10-02: verify fails if any preserved path of a profile diverges.
PreservedDivergenceFails ==
    baseline # None =>
        \A post \in {q \in Posts : q.profile = baseline.profile /\ Accepted(q)} :
            \A path \in DOMAIN Real(baseline) \cup DOMAIN Real(post) :
                (\E root \in PreservePaths : IsPrefix(root, path)) /\ ~ IsAllowed(path)
                    => Get(Real(baseline), path) = Get(Real(post), path)
=============================================================================
