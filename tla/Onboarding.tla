------------------------------ MODULE Onboarding ------------------------------
(***************************************************************************)
(* scripts/onboard_linux.sh fills .env prompt by prompt, each answer       *)
(* written to the file before the next question; it may stop between any   *)
(* two and is run again over what it left.  scripts/verify_linux.sh judges *)
(* the result.  generate_litellm_virtual_key.py asks the LiteLLM proxy for *)
(* the virtual key.                                                        *)
(*                                                                         *)
(* A value is what normalize_env_value leaves of it.  The template is      *)
(* there: create_templates does not die.  Keys are independent but for the *)
(* ones the scripts relate, so an instance may watch some of them.         *)
(***************************************************************************)
EXTENDS Integers, Sequences, FiniteSets, FiniteSetsExt

CONSTANTS
    Watched,    \* the keys of .env that the instance follows
    Payload,    \* chat types a Telegram payload may have, and "none"
    Edited,     \* those the operator may edit by hand between two runs
    MaxRuns,    \* bound on the interactive runs
    MaxTyped,   \* bound on the answers typed where Enter would do
    MaxEdits,   \* bound on the edits by hand
    MaxIssued   \* bound on the virtual keys the proxy issues

\* The keys whose values the scripts relate to each other.
ASSUME WatchedAssumption ==
    /\ {"OPENCLAW_RUNTIME_MODE", "LITELLM_MASTER_KEY", "LITELLM_BASE_URL",
        "LITELLM_API_KEY", "TELEGRAM_CHAT_ID"} \subseteq Watched
    /\ Edited \subseteq Watched
    /\ "none" \in Payload

ASSUME BoundsAssumption ==
    MaxRuns \in Nat /\ MaxTyped \in Nat /\ MaxEdits \in Nat /\ MaxIssued \in Nat

VARIABLES
    file,       \* .env: the lines of every key, or NoFile
    at,         \* the prompt a run is at, 0 when none is in progress
    mode,       \* runtime_mode of the run
    preload,    \* chat type of the Telegram payload of the run, or "none"
    auto,       \* the run is still to ask the proxy for a key
    issued,     \* how many virtual keys the proxy has issued
    concluded,  \* the last run ended with "OK", and nothing touched .env since
    said,       \* said[k]: what was last typed for k at a prompt that insists
    touched,    \* the keys for which something was ever typed or edited
    left        \* what is left of the bounds

vars == <<file, at, mode, preload, auto, issued, concluded, said, touched, left>>

-----------------------------------------------------------------------------
(***************************************************************************)
(* Values, and .env as a file                                              *)
(***************************************************************************)
Value(kind) == [kind |-> kind, of |-> 0]
Blank == Value("blank")
Placeholder == Value("placeholder")
Default == Value("default")
Typed(n) == [kind |-> "typed", of |-> n]
VirtualKey(n) == [kind |-> "key", of |-> n]
Nothing == Value("nothing")
NoFile == Value("no-file")

RuntimeModes == {"local-only", "hybrid", "cloud"}

\* config/openclaw.env.example.  OPENAI_API_KEY=sk-proj-... and
\* SLACK_APP_TOKEN=xapp-... are none of the placeholders the scripts know.
TemplateValue(k) ==
    CASE k = "OPENCLAW_RUNTIME_MODE" -> Value("cloud")
      [] k = "LITELLM_AUTO_GENERATE_KEY" -> Value("true")
      [] k \in {"OPENCLAW_SUPERVISOR_PRIMARY", "OPENCLAW_SUPERVISOR_SECONDARY",
                "LITELLM_MODELS"} -> Value("remote")
      [] k \in {"OPENAI_API_KEY", "SLACK_APP_TOKEN"} -> Value("example")
      [] k \in {"TELEGRAM_BOT_TOKEN", "TELEGRAM_USER_ID", "TELEGRAM_GROUP_ID",
                "SLACK_BOT_TOKEN", "SLACK_SIGNING_SECRET"} -> Placeholder
      [] k \in {"TZ", "LITELLM_BASE_URL", "LITELLM_PROXY_URL", "HEARTBEAT_MINUTES",
                "STANDUP_TIME", "OPENCLAW_GATEWAY_URL", "OPENCLAW_WORKER_CODE_MODEL",
                "OPENCLAW_WORKER_REASON_MODEL"} -> Default
      [] OTHER -> Blank

Line(v) == [indented |-> FALSE, value |-> v]

Template == [k \in Watched |-> <<Line(TemplateValue(k))>>]

\* Mutant of CreateTemplates: the template is always copied.
CopyTemplates(env) == Template

\* create_templates
CreateTemplates(env) == IF env = NoFile THEN Template ELSE env

\* Mutant of SetKv: the line is appended.
AppendKv(env, k, v) == [env EXCEPT ![k] = Append(@, Line(v))]

\* set_env_kv replaces every line that begins with the key, and appends one
\* when none does.  It writes a temporary file and moves it over .env (mktemp,
\* mv), which is one step as long as both are on one file system: assumed.
SetKv(env, k, v) ==
    IF \E i \in DOMAIN env[k] : ~ env[k][i].indented
    THEN [env EXCEPT ![k] =
            [i \in DOMAIN @ |-> IF @[i].indented THEN @[i] ELSE Line(v)]]
    ELSE [env EXCEPT ![k] = Append(@, Line(v))]

\* get_env_kv and value_for_key read the first line of the key, indented or
\* not.
GetKv(env, k) ==
    IF env = NoFile \/ env[k] = <<>> THEN Blank ELSE env[k][1].value

\* is_effective_env_value
Effective(v) == v \notin {Blank, Placeholder}

-----------------------------------------------------------------------------
(***************************************************************************)
(* verify_linux.sh                                                         *)
(***************************************************************************)
ModeOf(env) ==
    LET v == GetKv(env, "OPENCLAW_RUNTIME_MODE")
    IN  IF v.kind \in RuntimeModes THEN v.kind ELSE "cloud"

RequiredKeys(m) ==
    {"TZ", "OPENCLAW_SUPERVISOR_PRIMARY", "OPENCLAW_SUPERVISOR_SECONDARY",
     "OPENCLAW_WORKER_CODE_MODEL", "OPENCLAW_WORKER_REASON_MODEL",
     "TELEGRAM_BOT_TOKEN", "SLACK_BOT_TOKEN", "SLACK_SIGNING_SECRET",
     "CONVEX_DEPLOYMENT_URL", "CONVEX_DEPLOY_KEY", "HEARTBEAT_MINUTES",
     "STANDUP_TIME", "OPENCLAW_GATEWAY_URL"}
    \cup IF m = "local-only" THEN {}
         ELSE {"LITELLM_API_KEY", "LITELLM_MASTER_KEY", "LITELLM_BASE_URL",
               "OPENROUTER_API_KEY"}

TelegramIds == {"TELEGRAM_CHAT_ID", "TELEGRAM_USER_ID", "TELEGRAM_GROUP_ID"}

HasTelegramId(env) ==
    \E k \in TelegramIds \cap Watched : Effective(GetKv(env, k))

Supervisors == {"OPENCLAW_SUPERVISOR_PRIMARY", "OPENCLAW_SUPERVISOR_SECONDARY"}

SupervisorDefault(m) == IF m = "local-only" THEN Value("local") ELSE Value("remote")

\* check_exact_default, in runtime mode m
HasExactDefault(env, m, k) ==
    /\ k \in Supervisors => GetKv(env, k) = SupervisorDefault(m)
    /\ k \in {"HEARTBEAT_MINUTES", "STANDUP_TIME", "OPENCLAW_GATEWAY_URL"} =>
            GetKv(env, k) = Default
    /\ k = "LITELLM_BASE_URL" /\ m # "local-only" => GetKv(env, k) = Default

\* The keys that verify_linux.sh counts as failures.
Failing(env) ==
    {k \in Watched :
        \/ k \in RequiredKeys(ModeOf(env)) /\ ~ Effective(GetKv(env, k))
        \/ k = "OPENCLAW_RUNTIME_MODE"
            /\ GetKv(env, k) \notin {Blank} \cup {Value(m) : m \in RuntimeModes}
        \/ k = "TELEGRAM_CHAT_ID" /\ ~ HasTelegramId(env)
        \/ ~ HasExactDefault(env, ModeOf(env), k)}
-----------------------------------------------------------------------------
(***************************************************************************)
(* configure_env_interactive                                               *)
(***************************************************************************)
\* TELEGRAM_CHAT_ID and TELEGRAM_USER_ID come from any payload, and the group
\* from one of a chat that is not private.
Preloaded(k) ==
    IF preload = "none" \/ (k = "TELEGRAM_GROUP_ID" /\ preload = "private")
    THEN Blank ELSE Default

\* Defaults that a run finds when it comes to the prompt.
FromPayload == Value("payload")
FromBaseUrl == Value("base-url")
FromMode == Value("mode-default")

\* In which runtime modes a prompt is come to, and what it does there.
Prompt(modes, k, kind, default) ==
    [modes |-> modes, key |-> k, kind |-> kind, default |-> default]
Insists(modes, k) == Prompt(modes, k, "secret", Blank)
Optional(modes, k) == Prompt(modes, k, "optional-secret", Blank)
Text(k, default) == Prompt(RuntimeModes, k, "text", default)
Fixed(modes, k, v) == Prompt(modes, k, "fixed", v)

\* What a run knows ends with its process.
RunEnds ==
    /\ at' = 0
    /\ mode' = "cloud"
    /\ preload' = "none"
    /\ auto' = FALSE

Local == {"local-only"}
Remote == {"hybrid", "cloud"}

\* The prompts of configure_env_interactive in their order, and the lines it
\* writes unasked.
Script ==
    <<Prompt(RuntimeModes, "OPENCLAW_RUNTIME_MODE", "mode", Value("cloud")),
      Prompt(RuntimeModes, "TZ", "required-text", Default),
      Fixed(Local, "LITELLM_AUTO_GENERATE_KEY", Value("false")),
      Fixed(Local, "OPENCLAW_SUPERVISOR_PRIMARY", FromMode),
      Fixed(Local, "OPENCLAW_SUPERVISOR_SECONDARY", FromMode),
      Insists(Remote, "LITELLM_MASTER_KEY"),
      Prompt(Remote, "LITELLM_BASE_URL", "required-text", Default),
      Prompt(Remote, "LITELLM_PROXY_URL", "text", FromBaseUrl),
      Optional(RuntimeModes, "OPENAI_API_KEY"),
      Optional(Local, "OPENROUTER_API_KEY"),
      Insists(Remote, "OPENROUTER_API_KEY"),
      Fixed(Local, "LITELLM_AUTO_GENERATE_KEY", Value("false")),
      Prompt(Remote, "LITELLM_AUTO_GENERATE_KEY", "question", Value("true")),
      Text("LITELLM_MODELS", FromMode),
      Insists(Remote, "LITELLM_API_KEY"),
      Insists(RuntimeModes, "TELEGRAM_BOT_TOKEN"),
      Text("TELEGRAM_CHAT_ID", FromPayload),
      Text("TELEGRAM_USER_ID", FromPayload),
      Text("TELEGRAM_GROUP_ID", FromPayload),
      Insists(RuntimeModes, "SLACK_BOT_TOKEN"),
      Insists(RuntimeModes, "SLACK_SIGNING_SECRET"),
      Optional(RuntimeModes, "SLACK_APP_TOKEN"),
      Text("SLACK_ALERT_CHANNEL_ID", Blank),
      Prompt(RuntimeModes, "CONVEX_DEPLOYMENT_URL", "required-text", Blank),
      Insists(RuntimeModes, "CONVEX_DEPLOY_KEY"),
      Text("HEARTBEAT_MINUTES", Default),
      Text("STANDUP_TIME", Default),
      Text("OPENCLAW_GATEWAY_URL", Default),
      Text("OPENCLAW_SUPERVISOR_PRIMARY", FromMode),
      Text("OPENCLAW_SUPERVISOR_SECONDARY", FromMode),
      Text("OPENCLAW_WORKER_CODE_MODEL", Default),
      Text("OPENCLAW_WORKER_REASON_MODEL", Default)>>

Last == Len(Script)

\* A run of mode m comes to prompt i, and the instance follows it.
IsAsked(i, m) == m \in Script[i].modes /\ Script[i].key \in Watched

\* Where a run of mode m is after prompt i.
After(i, m) == Min({j \in (i + 1)..(Last + 1) : j = Last + 1 \/ IsAsked(j, m)})

Asked == Script[at]

\* Mutant of DefaultFor: the defaults of one mode for all.
DefaultForCloud(m) == Value("remote")

\* openrouter-main and openrouter-review, or local-main and local-review; the
\* models of a virtual key alike.
DefaultFor(m) == IF m = "local-only" THEN Value("local") ELSE Value("remote")

\* litellm_proxy_default is the base URL without its /v1: as good as the URL.
DefaultOf(p) ==
    CASE p.default = FromPayload -> Preloaded(p.key)
      [] p.default = FromBaseUrl -> GetKv(file, "LITELLM_BASE_URL")
      [] p.default = FromMode -> DefaultFor(mode)
      [] OTHER -> p.default

\* What stands when only Enter is pressed: a prompt that insists keeps what
\* .env has, the others write their default over it.
OnEnter(p) ==
    IF p.kind \in {"secret", "required-text"} /\ Effective(GetKv(file, p.key))
    THEN GetKv(file, p.key)
    ELSE DefaultOf(p)

Init ==
    /\ file = NoFile
    /\ at = 0
    /\ mode = "cloud"
    /\ preload = "none"
    /\ auto = FALSE
    /\ issued = 0
    /\ concluded = FALSE
    /\ said = [k \in Watched |-> Nothing]
    /\ touched = {}
    /\ left = [runs |-> MaxRuns, typed |-> MaxTyped, edits |-> MaxEdits]

\* A run reaches configure_env_interactive.
Start ==
    /\ at = 0
    /\ left.runs > 0
    /\ left' = [left EXCEPT !.runs = @ - 1]
    /\ file' = CreateTemplates(file)
    /\ at' = 1
    /\ preload' \in Payload
    /\ concluded' = FALSE
    /\ UNCHANGED <<mode, auto, issued, said, touched>>

\* A run without INTERACTIVE=1.
StartUnattended ==
    /\ at = 0
    /\ file' = CreateTemplates(file)
    /\ UNCHANGED <<at, mode, preload, auto, issued, concluded, said, touched, left>>

\* A run of mode m writes a line and goes on.
Write(m, k, v) ==
    /\ file' = SetKv(file, k, v)
    /\ at' = After(at, m)

InProgress(kinds) ==
    /\ at \in 1..Last
    /\ Asked.kind \in kinds

\* normalize_runtime_mode: whatever is not a mode is cloud.
ChooseMode ==
    /\ InProgress({"mode"})
    /\ mode' \in RuntimeModes
    /\ Write(mode', Asked.key, Value(mode'))
    /\ UNCHANGED <<preload, auto, issued, concluded, said, touched, left>>

\* LITELLM_AUTO_GENERATE_KEY via /key/generate? (Y/n)
ChooseGeneration ==
    /\ InProgress({"question"})
    /\ auto' \in BOOLEAN
    /\ Write(mode, Asked.key, Value(IF auto' THEN "true" ELSE "false"))
    /\ UNCHANGED <<mode, preload, issued, concluded, said, touched, left>>

\* generate_litellm_key_and_write_env is called before LITELLM_API_KEY is
\* asked for.
GeneratesKey == auto /\ Asked.key = "LITELLM_API_KEY"

\* After the fallback prompt the key must be readable, or the run dies.
KeyIsReadable(env) ==
    Asked.key = "LITELLM_API_KEY" => Effective(GetKv(env, "LITELLM_API_KEY"))

WriteOrDie(k, v) ==
    /\ file' = SetKv(file, k, v)
    /\ IF KeyIsReadable(file')
       THEN at' = After(at, mode) /\ UNCHANGED <<mode, preload, auto>>
       ELSE RunEnds

\* Enter, or a line the script writes unasked.
AcceptDefault ==
    /\ InProgress({"secret", "required-text", "text", "optional-secret", "fixed"})
    /\ ~ GeneratesKey
    /\ LET v == OnEnter(Asked) IN
        /\ Asked.kind \in {"secret", "required-text"} => Effective(v)
        /\ IF v = Blank
           THEN at' = After(at, mode) /\ UNCHANGED <<file, mode, preload, auto>>
           ELSE WriteOrDie(Asked.key, v)
    /\ UNCHANGED <<issued, concluded, said, touched, left>>

\* An answer is typed: an effective value, since a prompt that insists asks
\* again after any other.  Values are told apart by the run they are typed in.
\* "$var" of an optional secret begins with a line break, which puts the
\* secret on a line of its own and nothing after "KEY=".
Type ==
    /\ InProgress({"secret", "required-text", "text", "optional-secret"})
    /\ ~ GeneratesKey
    /\ LET insists == Asked.kind \in {"secret", "required-text"}
           needed == insists /\ ~ Effective(OnEnter(Asked))
           answer == Typed(MaxRuns - left.runs)
       IN
        /\ needed \/ left.typed > 0
        /\ left' = [left EXCEPT !.typed = IF needed THEN @ ELSE @ - 1]
        /\ WriteOrDie(Asked.key,
                IF Asked.kind = "optional-secret" THEN Blank ELSE answer)
        /\ said' = [said EXCEPT ![Asked.key] = IF insists THEN answer ELSE Nothing]
        /\ touched' = touched \cup {Asked.key}
    /\ UNCHANGED <<issued, concluded>>

ProxyCanIssue ==
    /\ Blank \notin {GetKv(file, "LITELLM_MASTER_KEY"), GetKv(file, "LITELLM_BASE_URL")}
    /\ issued < MaxIssued

\* POST /key/generate, and the key of the answer goes to .env; the URL and
\* the models are written again as they are there.
KeyArrives ==
    /\ InProgress({"secret"})
    /\ GeneratesKey
    /\ ProxyCanIssue
    /\ issued' = issued + 1
    /\ Write(mode, "LITELLM_API_KEY", VirtualKey(issued'))
    /\ said' = [said EXCEPT !["LITELLM_API_KEY"] = Nothing]
    /\ UNCHANGED <<mode, preload, auto, concluded, touched, left>>

\* The proxy is not asked or refuses, or its answer is lost after it has
\* issued a key: the key is asked for.
KeyFails ==
    /\ InProgress({"secret"})
    /\ GeneratesKey
    /\ auto' = FALSE
    /\ issued' \in issued..(IF ProxyCanIssue THEN issued + 1 ELSE issued)
    /\ UNCHANGED <<file, at, mode, preload, concluded, said, touched, left>>

\* The last check, and "OK: .env atualizado." or die.
Conclude ==
    /\ at = Last + 1
    /\ RunEnds
    /\ concluded' = HasTelegramId(file)
    /\ UNCHANGED <<file, issued, said, touched, left>>

\* Ctrl-C, a closed terminal, a crash: a run ends between two writes.
Interrupt ==
    /\ at > 0
    /\ RunEnds
    /\ UNCHANGED <<file, issued, concluded, said, touched, left>>

\* What an edit by hand makes of the lines of a key: changed, emptied, indented
\* or deleted.
LinesByHand ==
    {<<>>} \cup {<<[indented |-> i, value |-> v]>> : i \in BOOLEAN, v \in {Blank, Typed(0)}}

\* The operator edits .env.
EditByHand(k) ==
    /\ at = 0
    /\ file # NoFile
    /\ left.edits > 0
    /\ left' = [left EXCEPT !.edits = @ - 1]
    /\ \E lines \in LinesByHand : file' = [file EXCEPT ![k] = lines]
    /\ concluded' = FALSE
    /\ said' = [said EXCEPT ![k] = Nothing]
    /\ touched' = touched \cup {k}
    /\ UNCHANGED <<at, mode, preload, auto, issued>>

Next ==
    \/ Start
    \/ StartUnattended
    \/ ChooseMode
    \/ ChooseGeneration
    \/ AcceptDefault
    \/ Type
    \/ KeyArrives
    \/ KeyFails
    \/ Conclude
    \/ Interrupt
    \/ \E k \in Edited : EditByHand(k)

Spec == Init /\ [][Next]_vars
-----------------------------------------------------------------------------
Values ==
    {Blank, Placeholder, Default}
    \cup {Value(k) : k \in RuntimeModes \cup {"true", "false", "local", "remote", "example"}}
    \cup {Typed(n) : n \in 0..MaxRuns} \cup {VirtualKey(n) : n \in 1..MaxIssued}

Unindented(k) == {i \in DOMAIN file[k] : ~ file[k][i].indented}

\* .env keeps at most one line per key that set_env_kv can replace, and at
\* most one more that it cannot.
TypeOK ==
    /\ file # NoFile => \A k \in Watched :
        /\ Cardinality(Unindented(k)) <= 1
        /\ Len(file[k]) <= 2
        /\ \A i \in DOMAIN file[k] : file[k][i].value \in Values
    /\ file = NoFile => at = 0
    /\ at \in 0..Last + 1
    /\ mode \in RuntimeModes
    /\ issued \in 0..MaxIssued
    /\ \A k \in Watched : said[k] \in Values \cup {Nothing}
    /\ touched \subseteq Watched

\* A line that set_env_kv does not see stands before the one it writes.
Shadowed(env, k) == \E i \in DOMAIN env[k] : env[k][i].indented

\* The two scripts agree on the contract of .env, which each states for
\* itself: after a run that ended with "OK", whatever runs stopped half way
\* before it and whatever their modes, verify_linux.sh finds fault only with
\* keys whose value the operator has chosen.
ConcludedVerifies ==
    concluded /\ ~ Shadowed(file, "OPENCLAW_RUNTIME_MODE") => Failing(file) \subseteq touched

\* No answer has to be given twice: what was typed at a prompt that insists
\* is in .env from then on, through interruptions, dead runs, other runtime
\* modes and runs of Enter alone, until another is typed, generated or edited.
AnswersSurvive ==
    \A k \in Watched :
        said[k] # Nothing /\ ~ Shadowed(file, k) => GetKv(file, k) = said[k]
=============================================================================
