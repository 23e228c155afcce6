-------------------------- MODULE OnboardingProofs --------------------------
(***************************************************************************)
(* What onboarding promises, for every set of keys followed and any number *)
(* of runs, answers, edits by hand and virtual keys.                       *)
(***************************************************************************)
EXTENDS Onboarding, FiniteSetTheorems, WellFoundedInduction, TLAPS

-----------------------------------------------------------------------------
(* The script of prompts, row by row.                                      *)

LEMMA Rows ==
    /\ Last = 32
    /\ Script[1] = Prompt(RuntimeModes, "OPENCLAW_RUNTIME_MODE", "mode", Value("cloud"))
    /\ Script[2] = Prompt(RuntimeModes, "TZ", "required-text", Default)
    /\ Script[3] = Prompt(Local, "LITELLM_AUTO_GENERATE_KEY", "fixed", Value("false"))
    /\ Script[4] = Prompt(Local, "OPENCLAW_SUPERVISOR_PRIMARY", "fixed", FromMode)
    /\ Script[5] = Prompt(Local, "OPENCLAW_SUPERVISOR_SECONDARY", "fixed", FromMode)
    /\ Script[6] = Prompt(Remote, "LITELLM_MASTER_KEY", "secret", Blank)
    /\ Script[7] = Prompt(Remote, "LITELLM_BASE_URL", "required-text", Default)
    /\ Script[8] = Prompt(Remote, "LITELLM_PROXY_URL", "text", FromBaseUrl)
    /\ Script[9] = Prompt(RuntimeModes, "OPENAI_API_KEY", "optional-secret", Blank)
    /\ Script[10] = Prompt(Local, "OPENROUTER_API_KEY", "optional-secret", Blank)
    /\ Script[11] = Prompt(Remote, "OPENROUTER_API_KEY", "secret", Blank)
    /\ Script[12] = Prompt(Local, "LITELLM_AUTO_GENERATE_KEY", "fixed", Value("false"))
    /\ Script[13] = Prompt(Remote, "LITELLM_AUTO_GENERATE_KEY", "question", Value("true"))
    /\ Script[14] = Prompt(RuntimeModes, "LITELLM_MODELS", "text", FromMode)
    /\ Script[15] = Prompt(Remote, "LITELLM_API_KEY", "secret", Blank)
    /\ Script[16] = Prompt(RuntimeModes, "TELEGRAM_BOT_TOKEN", "secret", Blank)
    /\ Script[17] = Prompt(RuntimeModes, "TELEGRAM_CHAT_ID", "text", FromPayload)
    /\ Script[18] = Prompt(RuntimeModes, "TELEGRAM_USER_ID", "text", FromPayload)
    /\ Script[19] = Prompt(RuntimeModes, "TELEGRAM_GROUP_ID", "text", FromPayload)
    /\ Script[20] = Prompt(RuntimeModes, "SLACK_BOT_TOKEN", "secret", Blank)
    /\ Script[21] = Prompt(RuntimeModes, "SLACK_SIGNING_SECRET", "secret", Blank)
    /\ Script[22] = Prompt(RuntimeModes, "SLACK_APP_TOKEN", "optional-secret", Blank)
    /\ Script[23] = Prompt(RuntimeModes, "SLACK_ALERT_CHANNEL_ID", "text", Blank)
    /\ Script[24] = Prompt(RuntimeModes, "CONVEX_DEPLOYMENT_URL", "required-text", Blank)
    /\ Script[25] = Prompt(RuntimeModes, "CONVEX_DEPLOY_KEY", "secret", Blank)
    /\ Script[26] = Prompt(RuntimeModes, "HEARTBEAT_MINUTES", "text", Default)
    /\ Script[27] = Prompt(RuntimeModes, "STANDUP_TIME", "text", Default)
    /\ Script[28] = Prompt(RuntimeModes, "OPENCLAW_GATEWAY_URL", "text", Default)
    /\ Script[29] = Prompt(RuntimeModes, "OPENCLAW_SUPERVISOR_PRIMARY", "text", FromMode)
    /\ Script[30] = Prompt(RuntimeModes, "OPENCLAW_SUPERVISOR_SECONDARY", "text", FromMode)
    /\ Script[31] = Prompt(RuntimeModes, "OPENCLAW_WORKER_CODE_MODEL", "text", Default)
    /\ Script[32] = Prompt(RuntimeModes, "OPENCLAW_WORKER_REASON_MODEL", "text", Default)
<1> QED
  BY DEF Script, Last, Insists, Optional, Text, Fixed

\* The keys that some mode insists on.
InsistedKeys ==
    {"TZ", "LITELLM_MASTER_KEY", "LITELLM_BASE_URL", "LITELLM_API_KEY",
     "OPENROUTER_API_KEY", "TELEGRAM_BOT_TOKEN", "SLACK_BOT_TOKEN",
     "SLACK_SIGNING_SECRET", "CONVEX_DEPLOYMENT_URL", "CONVEX_DEPLOY_KEY"}

ExactKeys == {"HEARTBEAT_MINUTES", "STANDUP_TIME", "OPENCLAW_GATEWAY_URL"}

Workers == {"OPENCLAW_WORKER_CODE_MODEL", "OPENCLAW_WORKER_REASON_MODEL"}

\* What all prompts have in common: which kinds of prompt a key has, and with
\* which default.
PromptOK(i, p) ==
    /\ p.kind \in {"mode", "question", "fixed", "text", "optional-secret",
                   "required-text", "secret"}
    /\ p.default \in {Blank, Default, FromPayload, FromBaseUrl, FromMode,
                      Value("false"), Value("true"), Value("cloud")}
    /\ p.kind \in {"secret", "required-text"} =>
            p.key \in InsistedKeys /\ p.default \in {Blank, Default}
    /\ p.key \in InsistedKeys => p.kind \in {"secret", "required-text", "optional-secret"}
    /\ p.kind = "optional-secret" =>
            /\ p.default = Blank
            /\ \/ p.key = "OPENROUTER_API_KEY" /\ p.modes = Local
               \/ p.key \in {"OPENAI_API_KEY", "SLACK_APP_TOKEN"}
    /\ p.kind = "mode" <=> i = 1
    /\ p.key = "OPENCLAW_RUNTIME_MODE" <=> i = 1
    /\ p.kind = "question" => p.key = "LITELLM_AUTO_GENERATE_KEY"
    /\ p.key = "LITELLM_API_KEY" => p.kind = "secret"
    /\ p.key \in Supervisors => p.kind \in {"text", "fixed"} /\ p.default = FromMode
    /\ p.key \in ExactKeys \cup Workers => p.kind = "text" /\ p.default = Default
    /\ p.key = "LITELLM_BASE_URL" => p.kind = "required-text" /\ p.default = Default

LEMMA PromptsOK ==
    /\ \A i \in 1..Last : PromptOK(i, Script[i])
    /\ \A m \in RuntimeModes : IsAsked(1, m)
<1>1. /\ PromptOK(1, Prompt(RuntimeModes, "OPENCLAW_RUNTIME_MODE", "mode", Value("cloud")))
      /\ PromptOK(2, Prompt(RuntimeModes, "TZ", "required-text", Default))
      /\ PromptOK(3, Prompt(Local, "LITELLM_AUTO_GENERATE_KEY", "fixed", Value("false")))
      /\ PromptOK(4, Prompt(Local, "OPENCLAW_SUPERVISOR_PRIMARY", "fixed", FromMode))
  BY DEF PromptOK, Prompt, InsistedKeys, ExactKeys, Workers, Supervisors
<1>2. /\ PromptOK(5, Prompt(Local, "OPENCLAW_SUPERVISOR_SECONDARY", "fixed", FromMode))
      /\ PromptOK(6, Prompt(Remote, "LITELLM_MASTER_KEY", "secret", Blank))
      /\ PromptOK(7, Prompt(Remote, "LITELLM_BASE_URL", "required-text", Default))
      /\ PromptOK(8, Prompt(Remote, "LITELLM_PROXY_URL", "text", FromBaseUrl))
  BY DEF PromptOK, Prompt, InsistedKeys, ExactKeys, Workers, Supervisors
<1>3. /\ PromptOK(9, Prompt(RuntimeModes, "OPENAI_API_KEY", "optional-secret", Blank))
      /\ PromptOK(10, Prompt(Local, "OPENROUTER_API_KEY", "optional-secret", Blank))
      /\ PromptOK(11, Prompt(Remote, "OPENROUTER_API_KEY", "secret", Blank))
      /\ PromptOK(12, Prompt(Local, "LITELLM_AUTO_GENERATE_KEY", "fixed", Value("false")))
  BY DEF PromptOK, Prompt, InsistedKeys, ExactKeys, Workers, Supervisors
<1>4. /\ PromptOK(13, Prompt(Remote, "LITELLM_AUTO_GENERATE_KEY", "question", Value("true")))
      /\ PromptOK(14, Prompt(RuntimeModes, "LITELLM_MODELS", "text", FromMode))
      /\ PromptOK(15, Prompt(Remote, "LITELLM_API_KEY", "secret", Blank))
      /\ PromptOK(16, Prompt(RuntimeModes, "TELEGRAM_BOT_TOKEN", "secret", Blank))
  BY DEF PromptOK, Prompt, InsistedKeys, ExactKeys, Workers, Supervisors
<1>5. /\ PromptOK(17, Prompt(RuntimeModes, "TELEGRAM_CHAT_ID", "text", FromPayload))
      /\ PromptOK(18, Prompt(RuntimeModes, "TELEGRAM_USER_ID", "text", FromPayload))
      /\ PromptOK(19, Prompt(RuntimeModes, "TELEGRAM_GROUP_ID", "text", FromPayload))
      /\ PromptOK(20, Prompt(RuntimeModes, "SLACK_BOT_TOKEN", "secret", Blank))
  BY DEF PromptOK, Prompt, InsistedKeys, ExactKeys, Workers, Supervisors
<1>6. /\ PromptOK(21, Prompt(RuntimeModes, "SLACK_SIGNING_SECRET", "secret", Blank))
      /\ PromptOK(22, Prompt(RuntimeModes, "SLACK_APP_TOKEN", "optional-secret", Blank))
      /\ PromptOK(23, Prompt(RuntimeModes, "SLACK_ALERT_CHANNEL_ID", "text", Blank))
      /\ PromptOK(24, Prompt(RuntimeModes, "CONVEX_DEPLOYMENT_URL", "required-text", Blank))
  BY DEF PromptOK, Prompt, InsistedKeys, ExactKeys, Workers, Supervisors
<1>7. /\ PromptOK(25, Prompt(RuntimeModes, "CONVEX_DEPLOY_KEY", "secret", Blank))
      /\ PromptOK(26, Prompt(RuntimeModes, "HEARTBEAT_MINUTES", "text", Default))
      /\ PromptOK(27, Prompt(RuntimeModes, "STANDUP_TIME", "text", Default))
      /\ PromptOK(28, Prompt(RuntimeModes, "OPENCLAW_GATEWAY_URL", "text", Default))
  BY DEF PromptOK, Prompt, InsistedKeys, ExactKeys, Workers, Supervisors
<1>8. /\ PromptOK(29, Prompt(RuntimeModes, "OPENCLAW_SUPERVISOR_PRIMARY", "text", FromMode))
      /\ PromptOK(30, Prompt(RuntimeModes, "OPENCLAW_SUPERVISOR_SECONDARY", "text", FromMode))
      /\ PromptOK(31, Prompt(RuntimeModes, "OPENCLAW_WORKER_CODE_MODEL", "text", Default))
      /\ PromptOK(32, Prompt(RuntimeModes, "OPENCLAW_WORKER_REASON_MODEL", "text", Default))
  BY DEF PromptOK, Prompt, InsistedKeys, ExactKeys, Workers, Supervisors
<1>9. ASSUME NEW i \in 1..32
      PROVE  PromptOK(i, Script[i])
  <2>1. i \in 1..4 => i \in {1, 2, 3, 4}
    OBVIOUS
  <2>2. i \in 5..8 => i \in {5, 6, 7, 8}
    OBVIOUS
  <2>3. i \in 9..12 => i \in {9, 10, 11, 12}
    OBVIOUS
  <2>4. i \in 13..16 => i \in {13, 14, 15, 16}
    OBVIOUS
  <2>5. i \in 17..20 => i \in {17, 18, 19, 20}
    OBVIOUS
  <2>6. i \in 21..24 => i \in {21, 22, 23, 24}
    OBVIOUS
  <2>7. i \in 25..28 => i \in {25, 26, 27, 28}
    OBVIOUS
  <2>8. i \in 29..32 => i \in {29, 30, 31, 32}
    OBVIOUS
  <2>9. CASE i \in {1, 2, 3, 4}
    BY <1>1, <2>9, Rows
  <2>10. CASE i \in {5, 6, 7, 8}
    BY <1>2, <2>10, Rows
  <2>11. CASE i \in {9, 10, 11, 12}
    BY <1>3, <2>11, Rows
  <2>12. CASE i \in {13, 14, 15, 16}
    BY <1>4, <2>12, Rows
  <2>13. CASE i \in {17, 18, 19, 20}
    BY <1>5, <2>13, Rows
  <2>14. CASE i \in {21, 22, 23, 24}
    BY <1>6, <2>14, Rows
  <2>15. CASE i \in {25, 26, 27, 28}
    BY <1>7, <2>15, Rows
  <2>16. CASE i \in {29, 30, 31, 32}
    BY <1>8, <2>16, Rows
  <2> QED
    BY <1>9, <2>1, <2>2, <2>3, <2>4, <2>5, <2>6, <2>7, <2>8, <2>9, <2>10, <2>11, <2>12, <2>13, <2>14, <2>15, <2>16
<1>10. Script[1].modes = RuntimeModes /\ Script[1].key = "OPENCLAW_RUNTIME_MODE"
  <2>1. Script[1] = Prompt(RuntimeModes, "OPENCLAW_RUNTIME_MODE", "mode", Value("cloud"))
    BY Rows
  <2> QED
    BY <2>1 DEF Prompt
<1>11. \A m \in RuntimeModes : IsAsked(1, m)
  BY <1>10, WatchedAssumption DEF IsAsked
<1> QED
  BY <1>9, <1>11, Rows

\* Every non-empty set of naturals has a least element.
LEMMA LeastNat ==
    ASSUME NEW S \in SUBSET Nat, S # {}
    PROVE  \E x \in S : \A y \in S : x <= y
<1> DEFINE Less == OpToRel(<, Nat)
<1>1. IsWellFoundedOn(Less, Nat)
  BY NatLessThanWellFounded
<1>2. \A x, y \in Nat : x < y => <<x, y>> \in Less
  BY DEF OpToRel
<1> HIDE DEF Less
<1>3. PICK x \in S : \A y \in S : <<y, x>> \notin Less
  BY <1>1, WFMin
<1>4. \A y \in S : y \in Nat /\ x \in Nat /\ ~ (y < x)
  BY <1>2, <1>3, ZenonT(60)
<1> QED
  BY <1>4

\* What a prompt is asked for, and when.
LEMMA Fields ==
    \A modes, k, kind, default :
        LET p == Prompt(modes, k, kind, default)
        IN  p.key = k /\ p.modes = modes /\ p.kind = kind /\ p.default = default
<1> QED
  BY DEF Prompt

\* Every key that verify_linux.sh requires in a mode is asked for in it.
LEMMA RequiredAreAsked ==
    ASSUME NEW m \in RuntimeModes, NEW k \in RequiredKeys(m)
    PROVE  \E i \in 1..Last : Script[i].key = k /\ m \in Script[i].modes
<1> DEFINE Row(i, key, modes) == Script[i].key = key /\ modes = Script[i].modes
<1>1. /\ Row(2, "TZ", RuntimeModes)
      /\ Row(16, "TELEGRAM_BOT_TOKEN", RuntimeModes)
      /\ Row(20, "SLACK_BOT_TOKEN", RuntimeModes)
  <2>1. /\ Script[2] = Prompt(RuntimeModes, "TZ", "required-text", Default)
        /\ Script[16] = Prompt(RuntimeModes, "TELEGRAM_BOT_TOKEN", "secret", Blank)
        /\ Script[20] = Prompt(RuntimeModes, "SLACK_BOT_TOKEN", "secret", Blank)
    BY Rows
  <2> QED
    BY <2>1, Fields
<1>2. /\ Row(21, "SLACK_SIGNING_SECRET", RuntimeModes)
      /\ Row(24, "CONVEX_DEPLOYMENT_URL", RuntimeModes)
      /\ Row(25, "CONVEX_DEPLOY_KEY", RuntimeModes)
  <2>1. /\ Script[21] = Prompt(RuntimeModes, "SLACK_SIGNING_SECRET", "secret", Blank)
        /\ Script[24] = Prompt(RuntimeModes, "CONVEX_DEPLOYMENT_URL", "required-text", Blank)
        /\ Script[25] = Prompt(RuntimeModes, "CONVEX_DEPLOY_KEY", "secret", Blank)
    BY Rows
  <2> QED
    BY <2>1, Fields
<1>3. /\ Row(26, "HEARTBEAT_MINUTES", RuntimeModes)
      /\ Row(27, "STANDUP_TIME", RuntimeModes)
      /\ Row(28, "OPENCLAW_GATEWAY_URL", RuntimeModes)
      /\ Row(29, "OPENCLAW_SUPERVISOR_PRIMARY", RuntimeModes)
  <2>1. /\ Script[26] = Prompt(RuntimeModes, "HEARTBEAT_MINUTES", "text", Default)
        /\ Script[27] = Prompt(RuntimeModes, "STANDUP_TIME", "text", Default)
        /\ Script[28] = Prompt(RuntimeModes, "OPENCLAW_GATEWAY_URL", "text", Default)
        /\ Script[29] = Prompt(RuntimeModes, "OPENCLAW_SUPERVISOR_PRIMARY", "text", FromMode)
    BY Rows
  <2> QED
    BY <2>1, Fields
<1>4. /\ Row(30, "OPENCLAW_SUPERVISOR_SECONDARY", RuntimeModes)
      /\ Row(31, "OPENCLAW_WORKER_CODE_MODEL", RuntimeModes)
      /\ Row(32, "OPENCLAW_WORKER_REASON_MODEL", RuntimeModes)
  <2>1. /\ Script[30] = Prompt(RuntimeModes, "OPENCLAW_SUPERVISOR_SECONDARY", "text", FromMode)
        /\ Script[31] = Prompt(RuntimeModes, "OPENCLAW_WORKER_CODE_MODEL", "text", Default)
        /\ Script[32] = Prompt(RuntimeModes, "OPENCLAW_WORKER_REASON_MODEL", "text", Default)
    BY Rows
  <2> QED
    BY <2>1, Fields
<1>5. /\ Row(6, "LITELLM_MASTER_KEY", Remote)
      /\ Row(7, "LITELLM_BASE_URL", Remote)
      /\ Row(11, "OPENROUTER_API_KEY", Remote)
      /\ Row(15, "LITELLM_API_KEY", Remote)
  <2>1. /\ Script[6] = Prompt(Remote, "LITELLM_MASTER_KEY", "secret", Blank)
        /\ Script[7] = Prompt(Remote, "LITELLM_BASE_URL", "required-text", Default)
        /\ Script[11] = Prompt(Remote, "OPENROUTER_API_KEY", "secret", Blank)
        /\ Script[15] = Prompt(Remote, "LITELLM_API_KEY", "secret", Blank)
    BY Rows
  <2> QED
    BY <2>1, Fields
<1>6. ASSUME NEW i \in 1..32, NEW modes, Row(i, k, modes), m \in modes
      PROVE  \E j \in 1..Last : Script[j].key = k /\ m \in Script[j].modes
  BY <1>6, Rows
<1> HIDE DEF Row
<1>7. CASE k \in {"TZ", "TELEGRAM_BOT_TOKEN", "SLACK_BOT_TOKEN", "SLACK_SIGNING_SECRET", "CONVEX_DEPLOYMENT_URL", "CONVEX_DEPLOY_KEY"}
  BY <1>1, <1>2, <1>6, <1>7
<1>8. CASE k \in {"HEARTBEAT_MINUTES", "STANDUP_TIME", "OPENCLAW_GATEWAY_URL", "OPENCLAW_SUPERVISOR_PRIMARY", "OPENCLAW_SUPERVISOR_SECONDARY", "OPENCLAW_WORKER_CODE_MODEL", "OPENCLAW_WORKER_REASON_MODEL"}
  BY <1>3, <1>4, <1>6, <1>8
<1>9. CASE m # "local-only" /\ k \in {"LITELLM_MASTER_KEY", "LITELLM_BASE_URL", "OPENROUTER_API_KEY", "LITELLM_API_KEY"}
  BY <1>5, <1>6, <1>9 DEF RuntimeModes, Remote
<1> QED
  BY <1>7, <1>8, <1>9 DEF RequiredKeys

\* Where a run goes on: at a prompt of its mode, or at the end.
LEMMA AfterFacts ==
    ASSUME NEW i \in 0..Last, NEW m \in RuntimeModes
    PROVE  /\ After(i, m) \in (i + 1)..(Last + 1)
           /\ After(i, m) # Last + 1 => IsAsked(After(i, m), m)
           /\ \A j \in (i + 1)..(After(i, m) - 1) : ~ IsAsked(j, m)
<1> DEFINE S == {j \in (i + 1)..(Last + 1) : j = Last + 1 \/ IsAsked(j, m)}
<1>1. Last \in Nat
  BY Rows
<1>2. S \in SUBSET Nat /\ S # {}
  <2>1. Last + 1 \in S
    BY <1>1
  <2> QED
    BY <1>1, <2>1
<1>3. ASSUME NEW x \in S, \A y \in S : x <= y
      PROVE  /\ x \in (i + 1)..(Last + 1)
             /\ x # Last + 1 => IsAsked(x, m)
             /\ \A j \in (i + 1)..(x - 1) : ~ IsAsked(j, m)
  <2>1. x \in (i + 1)..(Last + 1) /\ (x # Last + 1 => IsAsked(x, m))
    OBVIOUS
  <2>2. ASSUME NEW j \in (i + 1)..(x - 1), IsAsked(j, m)
        PROVE  FALSE
    <3>1. j \in S
      BY <1>1, <2>1, <2>2
    <3> QED
      BY <1>1, <1>3, <2>1, <3>1
  <2> QED
    BY <2>1, <2>2
<1> HIDE DEF S
<1>4. \E x \in S : \A y \in S : x <= y
  BY <1>2, LeastNat
<1>5. Min(S) \in S /\ \A y \in S : Min(S) <= y
  <2> DEFINE Least(x) == x \in S /\ \A y \in S : x <= y
  <2>1. Min(S) = CHOOSE x \in S : \A y \in S : x <= y
    BY DEF Min
  <2> QED
    BY <1>4, <2>1, ZenonT(60)
<1>6. After(i, m) = Min(S)
  BY DEF After, S
<1> QED
  BY <1>3, <1>5, <1>6

-----------------------------------------------------------------------------
(* .env: what set_env_kv does to the lines of one key.                     *)

\* The lines a key may have: at most one that set_env_kv can replace, and
\* before it at most one that it does not see.
Entry == [indented : BOOLEAN, value : Values]
Lines ==
    {ls \in Seq(Entry) :
        /\ Len(ls) <= 2
        /\ Len(ls) = 2 => ls[1].indented /\ ~ ls[2].indented}
Files == [Watched -> Lines]

\* One line, and one that set_env_kv replaces.
Plain(ls) == Len(ls) = 1 /\ ~ ls[1].indented

LEMMA FileIsThere ==
    ASSUME NEW env \in Files
    PROVE  env # NoFile
<1>1. DOMAIN env = Watched /\ DOMAIN NoFile = {"kind", "of"}
  BY DEF Files, NoFile, Value
<1>2. "OPENCLAW_RUNTIME_MODE" \in Watched
  BY WatchedAssumption
<1> QED
  BY <1>1, <1>2

LEMMA LinesFacts ==
    ASSUME NEW ls \in Lines
    PROVE  /\ ls \in Seq(Entry) /\ Len(ls) \in 0..2 /\ DOMAIN ls = 1..Len(ls)
           /\ Len(ls) = 2 => ls[1].indented /\ ~ ls[2].indented
           /\ \A i \in 1..Len(ls) : ls[i] \in Entry /\ ls[i].value \in Values
<1>1. ls \in Seq(Entry) /\ Len(ls) <= 2
      /\ (Len(ls) = 2 => ls[1].indented /\ ~ ls[2].indented)
  BY DEF Lines
<1>2. Len(ls) \in Nat /\ DOMAIN ls = 1..Len(ls) /\ \A i \in 1..Len(ls) : ls[i] \in Entry
  BY <1>1
<1>3. \A i \in 1..Len(ls) : ls[i].value \in Values
  BY <1>2 DEF Entry
<1> QED
  BY <1>1, <1>2, <1>3

\* SetKv replaces or appends, in the lines of one key.
LEMMA SetLine ==
    ASSUME NEW ls \in Lines, NEW v \in Values
    PROVE  /\ (\E i \in DOMAIN ls : ~ ls[i].indented) =>
                LET new == [i \in DOMAIN ls |-> IF ls[i].indented THEN ls[i] ELSE Line(v)]
                IN  /\ new \in Lines
                    /\ (\E i \in DOMAIN new : new[i].indented)
                            <=> (\E i \in DOMAIN ls : ls[i].indented)
                    /\ ~ (\E i \in DOMAIN ls : ls[i].indented) =>
                            new # <<>> /\ new[1].value = v
                    /\ Plain(ls) => Plain(new)
           /\ ~ (\E i \in DOMAIN ls : ~ ls[i].indented) =>
                LET new == Append(ls, Line(v))
                IN  /\ new \in Lines
                    /\ (\E i \in DOMAIN new : new[i].indented)
                            <=> (\E i \in DOMAIN ls : ls[i].indented)
                    /\ ~ (\E i \in DOMAIN ls : ls[i].indented) =>
                            new # <<>> /\ new[1].value = v
                    /\ ~ Plain(ls)
<1>1. ls \in Seq(Entry) /\ Len(ls) \in 0..2 /\ DOMAIN ls = 1..Len(ls)
      /\ (Len(ls) = 2 => ls[1].indented /\ ~ ls[2].indented)
      /\ \A i \in 1..Len(ls) : ls[i] \in Entry
  BY LinesFacts
<1>2. Line(v) \in Entry /\ ~ Line(v).indented /\ Line(v).value = v
  BY DEF Line, Entry
<1>3. ASSUME \E i \in DOMAIN ls : ~ ls[i].indented
      PROVE  LET new == [i \in DOMAIN ls |-> IF ls[i].indented THEN ls[i] ELSE Line(v)]
             IN  /\ new \in Lines
                 /\ (\E i \in DOMAIN new : new[i].indented)
                         <=> (\E i \in DOMAIN ls : ls[i].indented)
                 /\ ~ (\E i \in DOMAIN ls : ls[i].indented) =>
                         new # <<>> /\ new[1].value = v
                 /\ Plain(ls) => Plain(new)
  <2> DEFINE new == [i \in DOMAIN ls |-> IF ls[i].indented THEN ls[i] ELSE Line(v)]
  <2>1. new \in Seq(Entry) /\ Len(new) = Len(ls) /\ DOMAIN new = DOMAIN ls
    BY <1>1, <1>2
  <2>2. \A i \in DOMAIN ls : (new[i].indented <=> ls[i].indented)
                            /\ (~ ls[i].indented => new[i].value = v)
    BY <1>2
  <2> HIDE DEF new
  <2>3. new \in Lines
    BY <1>1, <2>1, <2>2 DEF Lines
  <2>4. (\E i \in DOMAIN new : new[i].indented) <=> (\E i \in DOMAIN ls : ls[i].indented)
    BY <2>1, <2>2
  <2>5. ~ (\E i \in DOMAIN ls : ls[i].indented) => new # <<>> /\ new[1].value = v
    <3>1. 1 \in DOMAIN ls /\ Len(new) > 0
      BY <1>1, <1>3, <2>1
    <3> QED
      BY <2>1, <2>2, <3>1
  <2>6. Plain(ls) => Plain(new)
    BY <1>1, <2>1, <2>2 DEF Plain
  <2> QED
    BY <2>3, <2>4, <2>5, <2>6 DEF new
<1>4. ASSUME ~ \E i \in DOMAIN ls : ~ ls[i].indented
      PROVE  LET new == Append(ls, Line(v))
             IN  /\ new \in Lines
                 /\ (\E i \in DOMAIN new : new[i].indented)
                         <=> (\E i \in DOMAIN ls : ls[i].indented)
                 /\ ~ (\E i \in DOMAIN ls : ls[i].indented) =>
                         new # <<>> /\ new[1].value = v
                 /\ ~ Plain(ls)
  <2> DEFINE new == Append(ls, Line(v))
  <2>1. Len(ls) \in 0..1
    BY <1>1, <1>4
  <2>2. /\ new \in Seq(Entry) /\ Len(new) = Len(ls) + 1 /\ DOMAIN new = 1..(Len(ls) + 1)
        /\ \A i \in 1..Len(ls) : new[i] = ls[i]
        /\ new[Len(ls) + 1] = Line(v)
    BY <1>1, <1>2
  <2> HIDE DEF new
  <2>3. new \in Lines
    BY <1>1, <1>2, <1>4, <2>1, <2>2 DEF Lines
  <2>4. (\E i \in DOMAIN new : new[i].indented) <=> (\E i \in DOMAIN ls : ls[i].indented)
    <3>1. \A i \in DOMAIN new : i \in DOMAIN ls \/ i = Len(ls) + 1
      BY <1>1, <2>2
    <3> QED
      BY <1>1, <1>2, <2>1, <2>2, <3>1
  <2>5. ~ (\E i \in DOMAIN ls : ls[i].indented) => new # <<>> /\ new[1].value = v
    <3>1. ~ (\E i \in DOMAIN ls : ls[i].indented) => Len(ls) = 0
      BY <1>1, <1>4, <2>1
    <3> QED
      BY <1>2, <2>2, <3>1
  <2>6. ~ Plain(ls)
    BY <1>1, <1>4 DEF Plain
  <2> QED
    BY <2>3, <2>4, <2>5, <2>6 DEF new
<1> QED
  BY <1>3, <1>4, ZenonT(60)

\* set_env_kv changes no other key, hides and shows none, and what it has
\* written is what is read unless an older line stands before it.
LEMMA SetKvFacts ==
    ASSUME NEW env \in Files, NEW k \in Watched, NEW v \in Values
    PROVE  /\ SetKv(env, k, v) \in Files
           /\ \A j \in Watched \ {k} : SetKv(env, k, v)[j] = env[j]
           /\ \A j \in Watched : Shadowed(SetKv(env, k, v), j) <=> Shadowed(env, j)
           /\ ~ Shadowed(env, k) => GetKv(SetKv(env, k, v), k) = v
           /\ Plain(env[k]) => Plain(SetKv(env, k, v)[k]) /\ SetKv(env, k, v)[k][1].value = v
<1> DEFINE ls == env[k]
           replaced == [i \in DOMAIN ls |-> IF ls[i].indented THEN ls[i] ELSE Line(v)]
           appended == Append(ls, Line(v))
           Hidden(l) == \E i \in DOMAIN l : l[i].indented
           new == IF \E i \in DOMAIN ls : ~ ls[i].indented THEN replaced ELSE appended
<1>1. ls \in Lines /\ DOMAIN env = Watched
  BY DEF Files
<1>2. /\ new \in Lines
      /\ Hidden(new) <=> Hidden(ls)
      /\ ~ Hidden(ls) => new # <<>> /\ new[1].value = v
      /\ Plain(ls) => Plain(new)
  <2>1. CASE \E i \in DOMAIN ls : ~ ls[i].indented
    BY <1>1, <2>1, SetLine
  <2>2. CASE ~ \E i \in DOMAIN ls : ~ ls[i].indented
    <3>1. new = appended
      BY <2>2
    <3>2. /\ appended \in Lines
          /\ Hidden(appended) <=> Hidden(ls)
          /\ ~ Hidden(ls) => appended # <<>> /\ appended[1].value = v
          /\ ~ Plain(ls)
      BY <1>1, <2>2, SetLine, ZenonT(60)
    <3> HIDE DEF new, appended
    <3> QED
      BY <3>1, <3>2
  <2> QED
    BY <2>1, <2>2
<1>3. SetKv(env, k, v) = [env EXCEPT ![k] = new]
  BY DEF SetKv
<1>4. Plain(ls) => ~ Hidden(ls)
  BY <1>1 DEF Plain, Lines
<1>5. \A e, j : Shadowed(e, j) <=> Hidden(e[j])
  BY DEF Shadowed
<1> HIDE DEF ls, new, Hidden
<1>6. SetKv(env, k, v) \in Files
  BY <1>1, <1>2, <1>3 DEF Files
<1>7. SetKv(env, k, v)[k] = new /\ \A j \in Watched \ {k} : SetKv(env, k, v)[j] = env[j]
  BY <1>1, <1>3
<1>8. \A j \in Watched : Shadowed(SetKv(env, k, v), j) <=> Shadowed(env, j)
  BY <1>2, <1>5, <1>7 DEF ls
<1>9. ~ Shadowed(env, k) => new # <<>> /\ new[1].value = v
  BY <1>2, <1>5 DEF ls
<1>10. ~ Shadowed(env, k) => GetKv(SetKv(env, k, v), k) = v
  BY <1>6, <1>7, <1>9, FileIsThere DEF GetKv
<1>11. Plain(env[k]) => Plain(new) /\ new[1].value = v
  BY <1>2, <1>4 DEF ls
<1> QED
  BY <1>6, <1>7, <1>8, <1>10, <1>11

\* What is read of a key is a value, whatever the file.
LEMMA GetKvFacts ==
    ASSUME NEW env \in Files, NEW k \in Watched
    PROVE  /\ GetKv(env, k) \in Values
           /\ Plain(env[k]) => GetKv(env, k) = env[k][1].value /\ ~ Shadowed(env, k)
<1>1. env # NoFile
  BY FileIsThere
<1>2. /\ env[k] \in Seq(Entry) /\ Len(env[k]) \in Nat /\ DOMAIN env[k] = 1..Len(env[k])
      /\ \A i \in 1..Len(env[k]) : env[k][i].value \in Values
  <2>1. env[k] \in Lines
    BY DEF Files
  <2> QED
    BY <2>1, LinesFacts
<1>3. Blank \in Values
  BY DEF Values
<1>4. env[k] # <<>> => env[k][1].value \in Values
  BY <1>2
<1>5. GetKv(env, k) \in Values
  BY <1>1, <1>3, <1>4 DEF GetKv
<1>6. Plain(env[k]) => GetKv(env, k) = env[k][1].value /\ ~ Shadowed(env, k)
  BY <1>1, <1>2 DEF GetKv, Plain, Shadowed
<1> QED
  BY <1>5, <1>6

\* The values are values, and which of them are effective.
LEMMA ValueFacts ==
    /\ {Blank, Placeholder, Default} \subseteq Values
    /\ \A k \in RuntimeModes \cup {"true", "false", "local", "remote", "example"} :
            Value(k) \in Values /\ Effective(Value(k))
    /\ \A n \in 0..MaxRuns : Typed(n) \in Values /\ Effective(Typed(n)) /\ Typed(n) # Nothing
    /\ \A n \in 1..MaxIssued : VirtualKey(n) \in Values /\ Effective(VirtualKey(n))
    /\ Effective(Default) /\ ~ Effective(Blank) /\ Default # Blank
    /\ \A n \in 0..MaxRuns : Typed(n) # Blank
<1>1. \A k \in RuntimeModes \cup {"true", "false", "local", "remote", "example"} :
          Effective(Value(k))
  BY DEF Effective, Value, Blank, Placeholder, RuntimeModes
<1>2. \A n : Effective(Typed(n)) /\ Typed(n) # Nothing /\ Typed(n) # Blank
  BY DEF Effective, Typed, Value, Blank, Placeholder, Nothing
<1>3. \A n : Effective(VirtualKey(n))
  BY DEF Effective, VirtualKey, Value, Blank, Placeholder
<1>4. Effective(Default) /\ ~ Effective(Blank) /\ Default # Blank
  BY DEF Effective, Default, Value, Blank, Placeholder
<1> QED
  BY <1>1, <1>2, <1>3, <1>4 DEF Values

LEMMA TemplateFacts ==
    /\ Template \in Files
    /\ \A k \in Watched : Plain(Template[k])
    /\ Template["LITELLM_BASE_URL"][1].value = Default
<1>1. ASSUME NEW k \in Watched
      PROVE  TemplateValue(k) \in Values
  BY ValueFacts DEF TemplateValue, RuntimeModes
<1>2. ASSUME NEW k \in Watched
      PROVE  <<Line(TemplateValue(k))>> \in Lines /\ Plain(<<Line(TemplateValue(k))>>)
  <2>1. Line(TemplateValue(k)) \in Entry /\ ~ Line(TemplateValue(k)).indented
    BY <1>1 DEF Line, Entry
  <2> QED
    BY <2>1 DEF Lines, Plain
<1>3. TemplateValue("LITELLM_BASE_URL") = Default
  BY DEF TemplateValue
<1>4. Template["LITELLM_BASE_URL"] = <<Line(Default)>>
  BY <1>3, WatchedAssumption DEF Template
<1>5. Template["LITELLM_BASE_URL"][1].value = Default
  BY <1>4 DEF Line
<1> QED
  BY <1>2, <1>5 DEF Template, Files

-----------------------------------------------------------------------------
(* The invariant.                                                          *)

\* verify_linux.sh finds no fault with the value in runtime mode m.
Fit(m, k, v) ==
    /\ k \in RequiredKeys(m) => Effective(v)
    /\ k \in Supervisors => v = SupervisorDefault(m)
    /\ k \in ExactKeys => v = Default
    /\ k = "LITELLM_BASE_URL" /\ m # "local-only" => v = Default

\* So it is with every key a run of mode m has passed on its way to prompt i,
\* those of T apart.
Done(env, m, i, T) ==
    \A j \in 1..(i - 1) :
        IsAsked(j, m) /\ Script[j].key \notin T =>
            Fit(m, Script[j].key, GetKv(env, Script[j].key))

FileOK == file = NoFile \/ file \in Files

RunOK ==
    /\ at \in 0..Last + 1
    /\ mode \in RuntimeModes
    /\ issued \in 0..MaxIssued
    /\ left.runs \in 0..MaxRuns
    /\ touched \subseteq Watched
    /\ file = NoFile => at = 0
    /\ at \in 1..Last => IsAsked(at, mode)

Answers == {Typed(n) : n \in 0..MaxRuns}

SaidOK ==
    /\ said \in [Watched -> {Nothing} \cup Answers]
    /\ \A k \in Watched : said[k] # Nothing => k \in InsistedKeys /\ file # NoFile

UntouchedOK ==
    file # NoFile => \A k \in Watched \ touched :
        /\ Plain(file[k])
        /\ k = "LITELLM_BASE_URL" => file[k][1].value = Default

ModeKept ==
    at > 1 /\ ~ Shadowed(file, "OPENCLAW_RUNTIME_MODE") =>
        GetKv(file, "OPENCLAW_RUNTIME_MODE") = Value(mode)

PromptsDone == Done(file, mode, at, touched)

ConcludedOK == concluded => at = 0 /\ file # NoFile /\ ConcludedVerifies

IInv ==
    /\ FileOK
    /\ RunOK
    /\ SaidOK
    /\ AnswersSurvive
    /\ UntouchedOK
    /\ ModeKept
    /\ PromptsDone
    /\ ConcludedOK

LEMMA FitFacts ==
    ASSUME NEW m \in RuntimeModes, NEW k
    PROVE  /\ \A env : Fit(m, k, GetKv(env, k)) =>
                /\ k \in RequiredKeys(m) => Effective(GetKv(env, k))
                /\ HasExactDefault(env, m, k)
           /\ Fit(m, k, Blank) => \A v : Fit(m, k, v)
<1>1. ASSUME NEW env, Fit(m, k, GetKv(env, k))
      PROVE  /\ k \in RequiredKeys(m) => Effective(GetKv(env, k))
             /\ HasExactDefault(env, m, k)
  BY <1>1 DEF Fit, HasExactDefault, ExactKeys
<1>2. Blank # SupervisorDefault(m)
  BY DEF Blank, SupervisorDefault, Value
<1>3. ASSUME Fit(m, k, Blank), NEW v
      PROVE  Fit(m, k, v)
  BY <1>2, <1>3, ValueFacts DEF Fit
<1> QED
  BY <1>1, <1>3

\* A run goes on from prompt i to the next of its mode: what it has passed is
\* as it was, but for the key of prompt i.
LEMMA GoesOn ==
    ASSUME NEW old \in Files, NEW new \in Files, NEW m \in RuntimeModes,
           NEW i \in 1..Last, NEW S, NEW T, S \subseteq T,
           Done(old, m, i, S),
           \A k \in Watched \ {Script[i].key} : new[k] = old[k],
           Script[i].key \notin T => Fit(m, Script[i].key, GetKv(new, Script[i].key))
    PROVE  Done(new, m, After(i, m), T)
<1> SUFFICES ASSUME NEW j \in 1..(After(i, m) - 1), IsAsked(j, m), Script[j].key \notin T
             PROVE  Fit(m, Script[j].key, GetKv(new, Script[j].key))
  BY DEF Done
<1>1. Last \in Nat /\ i \in 0..Last
  BY Rows
<1>2. After(i, m) \in (i + 1)..(Last + 1) /\ \A n \in (i + 1)..(After(i, m) - 1) : ~ IsAsked(n, m)
  BY <1>1, AfterFacts
<1>3. j \in 1..i
  BY <1>1, <1>2
<1>4. CASE Script[j].key = Script[i].key
  BY <1>4
<1>5. CASE Script[j].key # Script[i].key
  <2>1. j \in 1..(i - 1)
    BY <1>1, <1>3, <1>5
  <2>2. Script[j].key \in Watched /\ Script[j].key \notin S
    BY DEF IsAsked
  <2>3. Fit(m, Script[j].key, GetKv(old, Script[j].key))
    BY <2>1, <2>2 DEF Done
  <2>4. GetKv(new, Script[j].key) = GetKv(old, Script[j].key)
    BY <1>5, <2>2, FileIsThere DEF GetKv
  <2> QED
    BY <2>3, <2>4
<1> QED
  BY <1>4, <1>5

\* The prompt a run is at.
LEMMA AskedFacts ==
    ASSUME IInv, at \in 1..Last
    PROVE  /\ file \in Files
           /\ PromptOK(at, Asked)
           /\ Asked.key \in Watched /\ mode \in Asked.modes
           /\ ~ concluded
<1>1. IsAsked(at, mode) /\ at # 0
  BY Rows DEF IInv, RunOK
<1>2. file \in Files
  BY <1>1 DEF IInv, FileOK, RunOK
<1>3. PromptOK(at, Asked)
  BY PromptsOK DEF Asked
<1> QED
  BY <1>1, <1>2, <1>3 DEF IInv, ConcludedOK, IsAsked, Asked

\* A run writes a line for the key it asks for, and goes on or dies.
LEMMA LineWritten ==
    ASSUME IInv, at \in 1..Last, NEW v \in Values,
           file' = SetKv(file, Asked.key, v),
           mode' \in RuntimeModes,
           at' = After(at, mode') \/ at' = 0,
           at # 1 /\ at' # 0 => mode' = mode,
           at = 1 => v = Value(mode'),
           touched' = touched \/ touched' = touched \cup {Asked.key},
           Asked.key \notin touched' => /\ at' # 0 => Fit(mode', Asked.key, v)
                                        /\ Asked.key = "LITELLM_BASE_URL" => v = Default,
           \A k \in Watched \ {Asked.key} : said'[k] = said[k],
           said' \in [Watched -> {Nothing} \cup Answers],
           said'[Asked.key] # Nothing =>
                /\ Asked.key \in InsistedKeys
                /\ said'[Asked.key] = v \/ Shadowed(file, Asked.key),
           issued' \in 0..MaxIssued, left'.runs \in 0..MaxRuns,
           concluded' = concluded
    PROVE  IInv'
<1>1. file \in Files /\ PromptOK(at, Asked) /\ Asked.key \in Watched /\ ~ concluded
  BY AskedFacts
<1>2. /\ file' \in Files
      /\ \A k \in Watched \ {Asked.key} : file'[k] = file[k]
      /\ \A k \in Watched : Shadowed(file', k) <=> Shadowed(file, k)
      /\ ~ Shadowed(file, Asked.key) => GetKv(file', Asked.key) = v
      /\ Plain(file[Asked.key]) => Plain(file'[Asked.key]) /\ file'[Asked.key][1].value = v
  BY <1>1, SetKvFacts
<1>3. file # NoFile /\ file' # NoFile
  BY <1>1, <1>2, FileIsThere
<1>4. \A k \in Watched \ {Asked.key} : GetKv(file', k) = GetKv(file, k)
  BY <1>2, <1>3 DEF GetKv
<1>5. FileOK'
  BY <1>2 DEF FileOK
<1>6. Last \in Nat /\ After(at, mode') \in (at + 1)..(Last + 1)
      /\ (After(at, mode') # Last + 1 => IsAsked(After(at, mode'), mode'))
  <2>1. Last \in Nat /\ at \in 0..Last
    BY Rows
  <2> QED
    BY <2>1, AfterFacts
<1>7. RunOK'
  <2>1. at' \in 0..Last + 1 /\ (at' \in 1..Last => IsAsked(at', mode'))
    BY <1>6
  <2>2. touched' \subseteq Watched
    BY <1>1 DEF IInv, RunOK
  <2> QED
    BY <1>3, <2>1, <2>2, Rows DEF RunOK
<1>8. SaidOK'
  BY <1>3 DEF IInv, SaidOK
<1>9. AnswersSurvive'
  <2>1. ASSUME NEW k \in Watched, said'[k] # Nothing, ~ Shadowed(file', k), k # Asked.key
        PROVE  GetKv(file', k) = said'[k]
    BY <1>2, <1>4, <2>1 DEF IInv, AnswersSurvive
  <2>2. ASSUME said'[Asked.key] # Nothing, ~ Shadowed(file', Asked.key)
        PROVE  GetKv(file', Asked.key) = said'[Asked.key]
    BY <1>1, <1>2, <2>2
  <2> QED
    BY <2>1, <2>2 DEF AnswersSurvive
<1>10. \A k \in Watched \ touched' :
            Plain(file'[k]) /\ (k = "LITELLM_BASE_URL" => file'[k][1].value = Default)
  <2>1. ASSUME NEW k \in Watched \ touched'
        PROVE  Plain(file[k]) /\ (k = "LITELLM_BASE_URL" => file[k][1].value = Default)
    BY <1>3 DEF IInv, UntouchedOK
  <2>2. ASSUME NEW k \in Watched \ touched'
        PROVE  Plain(file'[k]) /\ (k = "LITELLM_BASE_URL" => file'[k][1].value = Default)
    <3>1. CASE k # Asked.key
      BY <1>2, <2>1, <3>1
    <3>2. CASE k = Asked.key
      BY <1>2, <2>1, <3>2
    <3> QED
      BY <3>1, <3>2
  <2> QED
    BY <2>2
<1>11. UntouchedOK'
  BY <1>10 DEF UntouchedOK
<1>12. ModeKept'
  <2> SUFFICES ASSUME at' > 1, ~ Shadowed(file', "OPENCLAW_RUNTIME_MODE")
               PROVE  GetKv(file', "OPENCLAW_RUNTIME_MODE") = Value(mode')
    BY DEF ModeKept
  <2>1. "OPENCLAW_RUNTIME_MODE" \in Watched /\ (Asked.key = "OPENCLAW_RUNTIME_MODE" <=> at = 1)
    BY <1>1, WatchedAssumption DEF PromptOK
  <2>2. CASE at = 1
    BY <1>2, <2>1, <2>2
  <2>3. CASE at # 1
    <3>1. at > 1 /\ mode' = mode
      BY <2>3, <1>6
    <3>2. ~ Shadowed(file, "OPENCLAW_RUNTIME_MODE")
      BY <1>2, <2>1
    <3>3. GetKv(file, "OPENCLAW_RUNTIME_MODE") = Value(mode)
      BY <3>1, <3>2 DEF IInv, ModeKept
    <3> QED
      BY <1>4, <2>1, <2>3, <3>1, <3>3
  <2> QED
    BY <2>2, <2>3
<1>13. PromptsDone'
  <2>1. CASE at' = 0
    BY <2>1 DEF PromptsDone, Done
  <2>2. CASE at' # 0
    <3>1. Done(file, mode', at, touched)
      <4>1. CASE at = 1
        BY <4>1 DEF Done
      <4>2. CASE at # 1
        BY <2>2, <4>2 DEF IInv, PromptsDone
      <4> QED
        BY <4>1, <4>2
    <3>2. Asked.key \notin touched' => GetKv(file', Asked.key) = v
      <4>1. Asked.key \notin touched' => Plain(file[Asked.key])
        BY <1>1, <1>3 DEF IInv, UntouchedOK
      <4>2. Plain(file[Asked.key]) => ~ Shadowed(file, Asked.key)
        BY <1>1, GetKvFacts
      <4> QED
        BY <1>2, <4>1, <4>2
    <3>3. Script[at].key \notin touched' => Fit(mode', Script[at].key, GetKv(file', Script[at].key))
      BY <2>2, <3>2 DEF Asked
    <3>4. \A k \in Watched \ {Script[at].key} : file'[k] = file[k]
      BY <1>2 DEF Asked
    <3>5. touched \subseteq touched'
      OBVIOUS
    <3>6. Done(file', mode', After(at, mode'), touched')
      BY <1>1, <1>2, <3>1, <3>3, <3>4, <3>5, GoesOn
    <3> QED
      BY <2>2, <3>6 DEF PromptsDone
  <2> QED
    BY <2>1, <2>2
<1>14. ConcludedOK'
  BY <1>1 DEF ConcludedOK
<1> QED
  BY <1>5, <1>7, <1>8, <1>9, <1>11, <1>12, <1>13, <1>14 DEF IInv

\* What Enter, or the script by itself, writes at a prompt: verify_linux.sh
\* finds no fault with it, and an answer given before is what it writes.
LEMMA EnterFacts ==
    ASSUME IInv, at \in 1..Last,
           Asked.kind \in {"secret", "required-text", "text", "optional-secret", "fixed"},
           Asked.kind \in {"secret", "required-text"} => Effective(OnEnter(Asked))
    PROVE  /\ OnEnter(Asked) \in Values
           /\ Asked.key \notin touched =>
                /\ Fit(mode, Asked.key, OnEnter(Asked))
                /\ Asked.key = "LITELLM_BASE_URL" => OnEnter(Asked) = Default
           /\ said[Asked.key] # Nothing /\ ~ Shadowed(file, Asked.key) =>
                OnEnter(Asked) \in {said[Asked.key], Blank}
<1>1. file \in Files /\ PromptOK(at, Asked) /\ Asked.key \in Watched /\ mode \in Asked.modes
  BY AskedFacts
<1>2. mode \in RuntimeModes /\ "LITELLM_BASE_URL" \in Watched /\ file # NoFile
  BY <1>1, WatchedAssumption, FileIsThere DEF IInv, RunOK
<1>3. DefaultFor(mode) \in Values /\ Effective(DefaultFor(mode))
      /\ DefaultFor(mode) = SupervisorDefault(mode)
  BY ValueFacts DEF DefaultFor, SupervisorDefault
<1>4. /\ Asked.default \in {Blank, Default, Value("false"), Value("true"), Value("cloud")} =>
            DefaultOf(Asked) = Asked.default
      /\ Asked.default = FromMode => DefaultOf(Asked) = DefaultFor(mode)
      /\ Asked.default = FromBaseUrl => DefaultOf(Asked) = GetKv(file, "LITELLM_BASE_URL")
      /\ Asked.default = FromPayload => DefaultOf(Asked) \in {Blank, Default}
  BY DEF DefaultOf, Preloaded, Blank, Default, FromMode, FromBaseUrl, FromPayload, Value
<1>5. DefaultOf(Asked) \in Values
  <2>1. {Blank, Default, Value("false"), Value("true"), Value("cloud")} \subseteq Values
    BY ValueFacts DEF RuntimeModes
  <2>2. GetKv(file, "LITELLM_BASE_URL") \in Values
    BY <1>1, <1>2, GetKvFacts
  <2> QED
    BY <1>1, <1>3, <1>4, <2>1, <2>2 DEF PromptOK
<1>6. OnEnter(Asked) \in {DefaultOf(Asked), GetKv(file, Asked.key)}
      /\ (Asked.kind \notin {"secret", "required-text"} => OnEnter(Asked) = DefaultOf(Asked))
      /\ (Effective(GetKv(file, Asked.key)) /\ Asked.kind \in {"secret", "required-text"} =>
            OnEnter(Asked) = GetKv(file, Asked.key))
  BY DEF OnEnter
<1>7. OnEnter(Asked) \in Values
  BY <1>1, <1>5, <1>6, GetKvFacts
<1>8. Asked.key \in Supervisors => OnEnter(Asked) = DefaultFor(mode)
  BY <1>1, <1>4, <1>6 DEF PromptOK
<1>9. Asked.key \in ExactKeys \cup Workers => OnEnter(Asked) = Default
  BY <1>1, <1>4, <1>6 DEF PromptOK
<1>10. Asked.key = "LITELLM_BASE_URL" /\ Asked.key \notin touched => OnEnter(Asked) = Default
  <2> SUFFICES ASSUME Asked.key = "LITELLM_BASE_URL", Asked.key \notin touched
               PROVE  OnEnter(Asked) = Default
    OBVIOUS
  <2>1. Plain(file[Asked.key]) /\ file[Asked.key][1].value = Default
    BY <1>1, <1>2 DEF IInv, UntouchedOK
  <2>2. GetKv(file, Asked.key) = Default
    BY <1>1, <2>1, GetKvFacts
  <2>3. DefaultOf(Asked) = Default
    BY <1>1, <1>4 DEF PromptOK
  <2> QED
    BY <1>6, <2>2, <2>3
<1>11. Asked.key \in RequiredKeys(mode) => Effective(OnEnter(Asked))
  <2> SUFFICES ASSUME Asked.key \in RequiredKeys(mode)
               PROVE  Effective(OnEnter(Asked))
    OBVIOUS
  <2>1. Asked.key \in InsistedKeys \cup Supervisors \cup ExactKeys \cup Workers
    BY DEF RequiredKeys, InsistedKeys, Supervisors, ExactKeys, Workers
  <2>2. CASE Asked.key \in InsistedKeys
    <3>1. ~ (Asked.key = "OPENROUTER_API_KEY" /\ mode \in Local)
      BY DEF RequiredKeys, Local
    <3>2. Asked.key \notin {"OPENAI_API_KEY", "SLACK_APP_TOKEN"}
      BY <2>2 DEF InsistedKeys
    <3>3. Asked.kind # "optional-secret"
      BY <1>1, <3>1, <3>2 DEF PromptOK
    <3>4. Asked.kind \in {"secret", "required-text"}
      BY <1>1, <2>2, <3>3 DEF PromptOK
    <3> QED
      BY <3>4
  <2> QED
    BY <1>3, <1>8, <1>9, <2>1, <2>2, ValueFacts
<1>12. Asked.key \notin touched =>
            /\ Fit(mode, Asked.key, OnEnter(Asked))
            /\ Asked.key = "LITELLM_BASE_URL" => OnEnter(Asked) = Default
  BY <1>3, <1>8, <1>9, <1>10, <1>11 DEF Fit
<1>13. said[Asked.key] # Nothing /\ ~ Shadowed(file, Asked.key) =>
            OnEnter(Asked) \in {said[Asked.key], Blank}
  <2> SUFFICES ASSUME said[Asked.key] # Nothing, ~ Shadowed(file, Asked.key)
               PROVE  OnEnter(Asked) \in {said[Asked.key], Blank}
    OBVIOUS
  <2>1. GetKv(file, Asked.key) = said[Asked.key]
    BY <1>1 DEF IInv, AnswersSurvive
  <2>2. Asked.key \in InsistedKeys /\ Effective(said[Asked.key])
    BY <1>1, ValueFacts DEF IInv, SaidOK, Answers
  <2>3. CASE Asked.kind \in {"secret", "required-text"}
    BY <1>6, <2>1, <2>2, <2>3
  <2>4. CASE Asked.kind = "optional-secret"
    BY <1>1, <1>4, <1>6, <2>4 DEF PromptOK
  <2> QED
    BY <1>1, <2>2, <2>3, <2>4 DEF PromptOK
<1> QED
  BY <1>7, <1>12, <1>13

-----------------------------------------------------------------------------
(* Each action keeps the invariant.                                        *)

LEMMA InitKeeps == Init => IInv
<1> SUFFICES ASSUME Init PROVE IInv
  OBVIOUS
<1>1. FileOK /\ UntouchedOK /\ SaidOK /\ AnswersSurvive
  BY DEF Init, FileOK, UntouchedOK, SaidOK, AnswersSurvive
<1>2. RunOK
  BY BoundsAssumption, Rows DEF Init, RunOK, RuntimeModes
<1>3. ModeKept /\ PromptsDone /\ ConcludedOK
  BY DEF Init, ModeKept, PromptsDone, Done, ConcludedOK
<1> QED
  BY <1>1, <1>2, <1>3 DEF IInv

\* create_templates leaves a file that is there alone.
LEMMA TemplatesCreated ==
    ASSUME IInv, file' = CreateTemplates(file), said' = said, touched' = touched
    PROVE  /\ FileOK' /\ file' # NoFile
           /\ SaidOK' /\ AnswersSurvive' /\ UntouchedOK'
           /\ file # NoFile => file' = file
<1>1. CASE file = NoFile
  <2>1. file' = Template
    BY <1>1 DEF CreateTemplates
  <2>2. file' \in Files /\ file' # NoFile
    BY <2>1, TemplateFacts, FileIsThere
  <2>3. \A k \in Watched : said[k] = Nothing
    BY <1>1 DEF IInv, SaidOK
  <2>4. UntouchedOK'
    BY <2>1, TemplateFacts DEF UntouchedOK
  <2>5. SaidOK' /\ AnswersSurvive'
    BY <2>3 DEF IInv, SaidOK, AnswersSurvive
  <2> QED
    BY <1>1, <2>2, <2>4, <2>5 DEF FileOK
<1>2. CASE file # NoFile
  <2>1. file' = file
    BY <1>2 DEF CreateTemplates
  <2> QED
    BY <1>2, <2>1 DEF IInv, FileOK, SaidOK, AnswersSurvive, UntouchedOK
<1> QED
  BY <1>1, <1>2

LEMMA StartKeeps == IInv /\ Start => IInv'
<1> SUFFICES ASSUME IInv, Start PROVE IInv'
  OBVIOUS
<1>1. FileOK' /\ file' # NoFile /\ SaidOK' /\ AnswersSurvive' /\ UntouchedOK'
  BY TemplatesCreated DEF Start
<1>2. left.runs \in Nat /\ left'.runs \in 0..MaxRuns
  <2>1. left.runs \in 0..MaxRuns /\ left.runs > 0
    BY DEF IInv, RunOK, Start
  <2>2. left'.runs \in {left.runs, left.runs - 1}
    BY DEF Start
  <2> QED
    BY <2>1, <2>2, BoundsAssumption
<1>3. RunOK'
  BY <1>1, <1>2, Rows, PromptsOK DEF IInv, RunOK, Start
<1>4. ModeKept' /\ PromptsDone' /\ ConcludedOK'
  BY DEF Start, ModeKept, PromptsDone, Done, ConcludedOK
<1> QED
  BY <1>1, <1>3, <1>4 DEF IInv

LEMMA StartUnattendedKeeps == IInv /\ StartUnattended => IInv'
<1> SUFFICES ASSUME IInv, StartUnattended PROVE IInv'
  OBVIOUS
<1>1. FileOK' /\ file' # NoFile /\ SaidOK' /\ AnswersSurvive' /\ UntouchedOK'
      /\ (file # NoFile => file' = file)
  BY TemplatesCreated DEF StartUnattended
<1>2. RunOK'
  BY <1>1, Rows DEF IInv, RunOK, StartUnattended
<1>3. ModeKept' /\ PromptsDone'
  BY DEF StartUnattended, ModeKept, PromptsDone, Done
<1>4. ConcludedOK'
  BY <1>1 DEF IInv, StartUnattended, ConcludedOK, ConcludedVerifies
<1> QED
  BY <1>1, <1>2, <1>3, <1>4 DEF IInv

LEMMA ChooseModeKeeps == IInv /\ ChooseMode => IInv'
<1> SUFFICES ASSUME IInv, ChooseMode PROVE IInv'
  OBVIOUS
<1>1. at \in 1..Last /\ Asked.kind = "mode"
  BY DEF ChooseMode, InProgress
<1>2. PromptOK(at, Asked) /\ Asked.key \in Watched
  BY <1>1, AskedFacts
<1>3. at = 1 /\ Asked.key = "OPENCLAW_RUNTIME_MODE"
  BY <1>1, <1>2 DEF PromptOK
<1>4. PICK v : v = Value(mode')
  OBVIOUS
<1>5. mode' \in RuntimeModes /\ v \in Values
  BY <1>4, ValueFacts DEF ChooseMode
<1>6. file' = SetKv(file, Asked.key, v) /\ at' = After(at, mode')
  BY <1>4 DEF ChooseMode, Write
<1>7. Fit(mode', Asked.key, v)
  BY <1>3 DEF Fit, RequiredKeys, Supervisors, ExactKeys
<1>8. touched' = touched /\ said' = said /\ issued' = issued /\ left' = left /\ concluded' = concluded
  BY DEF ChooseMode
<1>9. said[Asked.key] = Nothing /\ said \in [Watched -> {Nothing} \cup Answers]
      /\ issued \in 0..MaxIssued /\ left.runs \in 0..MaxRuns
  BY <1>2, <1>3 DEF IInv, SaidOK, RunOK, InsistedKeys
<1> QED
  BY <1>1, <1>3, <1>4, <1>5, <1>6, <1>7, <1>8, <1>9, LineWritten

LEMMA ChooseGenerationKeeps == IInv /\ ChooseGeneration => IInv'
<1> SUFFICES ASSUME IInv, ChooseGeneration PROVE IInv'
  OBVIOUS
<1>1. at \in 1..Last /\ Asked.kind = "question"
  BY DEF ChooseGeneration, InProgress
<1>2. PromptOK(at, Asked) /\ Asked.key \in Watched
  BY <1>1, AskedFacts
<1>3. at # 1 /\ Asked.key = "LITELLM_AUTO_GENERATE_KEY"
  BY <1>1, <1>2 DEF PromptOK
<1>4. PICK v : v = Value(IF auto' THEN "true" ELSE "false")
  OBVIOUS
<1>5. v \in Values
  BY <1>4, ValueFacts
<1>6. file' = SetKv(file, Asked.key, v) /\ at' = After(at, mode') /\ mode' = mode
  BY <1>4 DEF ChooseGeneration, Write
<1>7. Fit(mode', Asked.key, v)
  BY <1>3 DEF Fit, RequiredKeys, Supervisors, ExactKeys
<1>8. touched' = touched /\ said' = said /\ issued' = issued /\ left' = left /\ concluded' = concluded
  BY DEF ChooseGeneration
<1>9. said[Asked.key] = Nothing /\ said \in [Watched -> {Nothing} \cup Answers]
      /\ issued \in 0..MaxIssued /\ left.runs \in 0..MaxRuns /\ mode \in RuntimeModes
  BY <1>2, <1>3 DEF IInv, SaidOK, RunOK, InsistedKeys
<1> QED
  BY <1>1, <1>3, <1>5, <1>6, <1>7, <1>8, <1>9, LineWritten

\* Where a run is after a line that it may die of.
LEMMA WriteOrDieFacts ==
    ASSUME NEW k, NEW v, WriteOrDie(k, v), mode \in RuntimeModes
    PROVE  /\ file' = SetKv(file, k, v)
           /\ mode' \in RuntimeModes
           /\ at' = After(at, mode') \/ at' = 0
           /\ at' # 0 => mode' = mode
<1>1. file' = SetKv(file, k, v)
  BY DEF WriteOrDie
<1>2. CASE KeyIsReadable(file')
  BY <1>1, <1>2 DEF WriteOrDie
<1>3. CASE ~ KeyIsReadable(file')
  BY <1>1, <1>3 DEF WriteOrDie, RunEnds, RuntimeModes
<1> QED
  BY <1>2, <1>3

LEMMA AcceptDefaultKeeps == IInv /\ AcceptDefault => IInv'
<1> SUFFICES ASSUME IInv, AcceptDefault PROVE IInv'
  OBVIOUS
<1>1. /\ at \in 1..Last
      /\ Asked.kind \in {"secret", "required-text", "text", "optional-secret", "fixed"}
      /\ Asked.kind \in {"secret", "required-text"} => Effective(OnEnter(Asked))
  BY DEF AcceptDefault, InProgress
<1>2. /\ PromptOK(at, Asked) /\ Asked.key \in Watched /\ file \in Files /\ file # NoFile
      /\ mode \in RuntimeModes /\ ~ concluded
  BY <1>1, AskedFacts, FileIsThere DEF IInv, RunOK
<1>3. at # 1
  BY <1>1, <1>2 DEF PromptOK
<1>4. PICK v : v = OnEnter(Asked)
  OBVIOUS
<1>5. /\ v \in Values
      /\ Asked.key \notin touched =>
            Fit(mode, Asked.key, v) /\ (Asked.key = "LITELLM_BASE_URL" => v = Default)
      /\ said[Asked.key] # Nothing /\ ~ Shadowed(file, Asked.key) => v \in {said[Asked.key], Blank}
  BY <1>1, <1>4, EnterFacts
<1>6. touched' = touched /\ said' = said /\ issued' = issued /\ left' = left /\ concluded' = concluded
  BY DEF AcceptDefault
<1>7. /\ said \in [Watched -> {Nothing} \cup Answers]
      /\ said[Asked.key] # Nothing => Asked.key \in InsistedKeys
      /\ issued \in 0..MaxIssued /\ left.runs \in 0..MaxRuns
  BY <1>2 DEF IInv, SaidOK, RunOK
<1>8. CASE v = Blank
  <2>1. at' = After(at, mode) /\ file' = file /\ mode' = mode
    BY <1>4, <1>8 DEF AcceptDefault
  <2>2. Last \in Nat /\ at \in 0..Last
    BY <1>1, Rows
  <2>3. /\ After(at, mode) \in (at + 1)..(Last + 1)
        /\ After(at, mode) # Last + 1 => IsAsked(After(at, mode), mode)
    BY <1>2, <2>2, AfterFacts
  <2>4. RunOK'
    <3>1. at' \in 0..Last + 1 /\ (at' \in 1..Last => IsAsked(at', mode'))
      BY <2>1, <2>2, <2>3
    <3> QED
      BY <1>2, <1>6, <2>1, <3>1, Rows DEF IInv, RunOK
  <2>5. FileOK' /\ SaidOK' /\ AnswersSurvive' /\ UntouchedOK'
    BY <1>6, <2>1 DEF IInv, FileOK, SaidOK, AnswersSurvive, UntouchedOK
  <2>6. ModeKept'
    <3>1. at > 1
      BY <1>1, <1>3, <2>2
    <3> QED
      BY <2>1, <3>1 DEF IInv, ModeKept
  <2>7. PromptsDone'
    <3>1. Done(file, mode, at, touched)
      BY DEF IInv, PromptsDone
    <3>2. Script[at].key \notin touched => Fit(mode, Script[at].key, GetKv(file, Script[at].key))
      BY <1>2, <1>5, <1>8, FitFacts DEF Asked
    <3>3. Done(file, mode, After(at, mode), touched)
      BY <1>1, <1>2, <3>1, <3>2, GoesOn
    <3> QED
      BY <1>6, <2>1, <3>3 DEF PromptsDone
  <2>8. ConcludedOK'
    BY <1>2, <1>6 DEF ConcludedOK
  <2> QED
    BY <2>4, <2>5, <2>6, <2>7, <2>8 DEF IInv
<1>9. CASE v # Blank
  <2>1. WriteOrDie(Asked.key, v)
    BY <1>4, <1>9 DEF AcceptDefault
  <2>2. /\ file' = SetKv(file, Asked.key, v) /\ mode' \in RuntimeModes
        /\ at' = After(at, mode') \/ at' = 0
        /\ at' # 0 => mode' = mode
    BY <1>2, <2>1, WriteOrDieFacts
  <2>3. said'[Asked.key] # Nothing => said'[Asked.key] = v \/ Shadowed(file, Asked.key)
    BY <1>5, <1>6, <1>9
  <2> QED
    BY <1>1, <1>3, <1>5, <1>6, <1>7, <2>2, <2>3, LineWritten
<1> QED
  BY <1>8, <1>9

LEMMA TypeKeeps == IInv /\ Type => IInv'
<1> SUFFICES ASSUME IInv, Type PROVE IInv'
  OBVIOUS
<1>1. /\ at \in 1..Last
      /\ Asked.kind \in {"secret", "required-text", "text", "optional-secret"}
  BY DEF Type, InProgress
<1>2. /\ PromptOK(at, Asked) /\ Asked.key \in Watched /\ mode \in RuntimeModes
      /\ said \in [Watched -> {Nothing} \cup Answers]
      /\ issued \in 0..MaxIssued /\ left.runs \in 0..MaxRuns
  BY <1>1, AskedFacts DEF IInv, RunOK, SaidOK
<1>3. at # 1
  BY <1>1, <1>2 DEF PromptOK
<1>4. PICK answer : answer = Typed(MaxRuns - left.runs)
  OBVIOUS
<1>5. answer \in Answers /\ answer \in Values
  <2>1. MaxRuns - left.runs \in 0..MaxRuns
    BY <1>2, BoundsAssumption
  <2> QED
    BY <1>4, <2>1, ValueFacts DEF Answers
<1>6. PICK v : v = IF Asked.kind = "optional-secret" THEN Blank ELSE answer
  OBVIOUS
<1>7. v \in Values
  BY <1>5, <1>6, ValueFacts
<1>8. WriteOrDie(Asked.key, v)
  BY <1>4, <1>6 DEF Type
<1>9. /\ file' = SetKv(file, Asked.key, v) /\ mode' \in RuntimeModes
      /\ at' = After(at, mode') \/ at' = 0
      /\ at' # 0 => mode' = mode
  BY <1>2, <1>8, WriteOrDieFacts
<1>10. PICK now : now = IF Asked.kind \in {"secret", "required-text"} THEN answer ELSE Nothing
  OBVIOUS
<1>11. said' = [said EXCEPT ![Asked.key] = now]
  BY <1>4, <1>10 DEF Type
<1>12. /\ now \in {Nothing} \cup Answers
       /\ now # Nothing => Asked.key \in InsistedKeys /\ now = v
  BY <1>1, <1>2, <1>5, <1>6, <1>10 DEF PromptOK
<1>13. /\ said' \in [Watched -> {Nothing} \cup Answers]
       /\ said'[Asked.key] = now
       /\ \A k \in Watched \ {Asked.key} : said'[k] = said[k]
  BY <1>2, <1>11, <1>12
<1>14. /\ touched' = touched \cup {Asked.key}
       /\ issued' = issued /\ left'.runs = left.runs /\ concluded' = concluded
  <2>1. left'.runs = left.runs
    BY DEF Type
  <2> QED
    BY <2>1 DEF Type
<1> QED
  BY <1>1, <1>2, <1>3, <1>7, <1>9, <1>12, <1>13, <1>14, LineWritten

LEMMA KeyArrivesKeeps == IInv /\ KeyArrives => IInv'
<1> SUFFICES ASSUME IInv, KeyArrives PROVE IInv'
  OBVIOUS
<1>1. /\ at \in 1..Last /\ Asked.key = "LITELLM_API_KEY"
      /\ issued < MaxIssued /\ issued' = issued + 1
  BY DEF KeyArrives, InProgress, GeneratesKey, ProxyCanIssue
<1>2. /\ PromptOK(at, Asked) /\ Asked.key \in Watched /\ mode \in RuntimeModes
      /\ said \in [Watched -> {Nothing} \cup Answers]
      /\ issued \in 0..MaxIssued /\ left.runs \in 0..MaxRuns
  BY <1>1, AskedFacts DEF IInv, RunOK, SaidOK
<1>3. at # 1
  BY <1>1, <1>2 DEF PromptOK
<1>4. PICK v : v = VirtualKey(issued')
  OBVIOUS
<1>5. issued' \in 1..MaxIssued
  BY <1>1, <1>2, BoundsAssumption
<1>6. v \in Values /\ Effective(v)
  BY <1>4, <1>5, ValueFacts
<1>7. Fit(mode, Asked.key, v)
  BY <1>1, <1>6 DEF Fit, Supervisors, ExactKeys
<1>8. /\ file' = SetKv(file, Asked.key, v) /\ at' = After(at, mode') /\ mode' = mode
      /\ said' = [said EXCEPT ![Asked.key] = Nothing]
      /\ touched' = touched /\ left' = left /\ concluded' = concluded
  BY <1>1, <1>4 DEF KeyArrives, Write
<1>9. /\ said' \in [Watched -> {Nothing} \cup Answers]
      /\ said'[Asked.key] = Nothing
      /\ \A k \in Watched \ {Asked.key} : said'[k] = said[k]
  BY <1>2, <1>8
<1>10. issued' \in 0..MaxIssued
  BY <1>5, BoundsAssumption
<1> QED
  BY <1>1, <1>2, <1>3, <1>6, <1>7, <1>8, <1>9, <1>10, LineWritten

LEMMA KeyFailsKeeps == IInv /\ KeyFails => IInv'
<1> SUFFICES ASSUME IInv, KeyFails PROVE IInv'
  OBVIOUS
<1>1. /\ file' = file /\ at' = at /\ mode' = mode /\ concluded' = concluded
      /\ said' = said /\ touched' = touched /\ left' = left
  BY DEF KeyFails
<1>2. issued' \in 0..MaxIssued
  <2>1. issued \in 0..MaxIssued
    BY DEF IInv, RunOK
  <2>2. CASE ProxyCanIssue
    BY <2>1, <2>2, BoundsAssumption DEF KeyFails, ProxyCanIssue
  <2>3. CASE ~ ProxyCanIssue
    BY <2>1, <2>3, BoundsAssumption DEF KeyFails
  <2> QED
    BY <2>2, <2>3
<1>3. RunOK'
  BY <1>1, <1>2 DEF IInv, RunOK
<1>4. FileOK' /\ SaidOK' /\ AnswersSurvive' /\ UntouchedOK'
  BY <1>1 DEF IInv, FileOK, SaidOK, AnswersSurvive, UntouchedOK
<1>5. ModeKept' /\ PromptsDone' /\ ConcludedOK'
  BY <1>1 DEF IInv, ModeKept, PromptsDone, ConcludedOK, ConcludedVerifies
<1> QED
  BY <1>3, <1>4, <1>5 DEF IInv

\* The run that comes to its end has passed all its prompts, so that
\* verify_linux.sh finds no fault with what nobody has typed or edited.
LEMMA EndVerifies ==
    ASSUME IInv, at = Last + 1, HasTelegramId(file),
           ~ Shadowed(file, "OPENCLAW_RUNTIME_MODE")
    PROVE  Failing(file) \subseteq touched
<1> SUFFICES ASSUME NEW k \in Watched, k \in Failing(file), k \notin touched
             PROVE  FALSE
  BY DEF Failing
<1>1. file \in Files /\ mode \in RuntimeModes /\ Last = 32 /\ at > 1
  BY Rows DEF IInv, RunOK, FileOK
<1>2. GetKv(file, "OPENCLAW_RUNTIME_MODE") = Value(mode)
  BY <1>1 DEF IInv, ModeKept
<1>3. ModeOf(file) = mode
  BY <1>1, <1>2 DEF ModeOf, Value
<1>4. ASSUME NEW i \in 1..Last, Script[i].key = k, mode \in Script[i].modes
      PROVE  Fit(mode, k, GetKv(file, k))
  <2>1. IsAsked(i, mode) /\ i \in 1..(at - 1)
    BY <1>1, <1>4 DEF IsAsked
  <2> QED
    BY <1>4, <2>1 DEF IInv, PromptsDone, Done
<1>5. k \in RequiredKeys(mode) => Effective(GetKv(file, k))
  BY <1>1, <1>4, RequiredAreAsked, FitFacts
<1>6. HasExactDefault(file, mode, k)
  <2>1. CASE k \in RequiredKeys(mode)
    BY <1>1, <1>4, <2>1, RequiredAreAsked, FitFacts
  <2>2. CASE k \notin RequiredKeys(mode)
    BY <2>2 DEF HasExactDefault, RequiredKeys, Supervisors
  <2> QED
    BY <2>1, <2>2
<1>7. ~ (k = "OPENCLAW_RUNTIME_MODE"
            /\ GetKv(file, k) \notin {Blank} \cup {Value(m) : m \in RuntimeModes})
  BY <1>1, <1>2
<1> QED
  BY <1>3, <1>5, <1>6, <1>7 DEF Failing

LEMMA ConcludeKeeps == IInv /\ Conclude => IInv'
<1> SUFFICES ASSUME IInv, Conclude PROVE IInv'
  OBVIOUS
<1>1. /\ at = Last + 1 /\ at' = 0 /\ mode' = "cloud" /\ concluded' = HasTelegramId(file)
      /\ file' = file /\ issued' = issued /\ said' = said /\ touched' = touched /\ left' = left
  BY DEF Conclude, RunEnds
<1>2. file # NoFile
  BY <1>1, Rows DEF IInv, RunOK
<1>3. RunOK'
  BY <1>1, Rows DEF IInv, RunOK, RuntimeModes
<1>4. FileOK' /\ SaidOK' /\ AnswersSurvive' /\ UntouchedOK'
  BY <1>1 DEF IInv, FileOK, SaidOK, AnswersSurvive, UntouchedOK
<1>5. ModeKept' /\ PromptsDone'
  BY <1>1 DEF ModeKept, PromptsDone, Done
<1>6. ConcludedOK'
  BY <1>1, <1>2, EndVerifies DEF ConcludedOK, ConcludedVerifies
<1> QED
  BY <1>3, <1>4, <1>5, <1>6 DEF IInv

LEMMA InterruptKeeps == IInv /\ Interrupt => IInv'
<1> SUFFICES ASSUME IInv, Interrupt PROVE IInv'
  OBVIOUS
<1>1. /\ at > 0 /\ at' = 0 /\ mode' = "cloud" /\ concluded' = concluded
      /\ file' = file /\ issued' = issued /\ said' = said /\ touched' = touched /\ left' = left
  BY DEF Interrupt, RunEnds
<1>2. RunOK'
  BY <1>1, Rows DEF IInv, RunOK, RuntimeModes
<1>3. FileOK' /\ SaidOK' /\ AnswersSurvive' /\ UntouchedOK'
  BY <1>1 DEF IInv, FileOK, SaidOK, AnswersSurvive, UntouchedOK
<1>4. ModeKept' /\ PromptsDone' /\ ConcludedOK'
  BY <1>1 DEF IInv, ModeKept, PromptsDone, Done, ConcludedOK
<1> QED
  BY <1>2, <1>3, <1>4 DEF IInv

LEMMA EditByHandKeeps == ASSUME NEW k \in Edited PROVE IInv /\ EditByHand(k) => IInv'
<1> SUFFICES ASSUME IInv, EditByHand(k) PROVE IInv'
  OBVIOUS
<1>1. PICK lines \in LinesByHand : file' = [file EXCEPT ![k] = lines]
  BY DEF EditByHand
<1>2. /\ at = 0 /\ file # NoFile /\ at' = at /\ mode' = mode /\ concluded' = FALSE
      /\ issued' = issued /\ touched' = touched \cup {k}
      /\ said' = [said EXCEPT ![k] = Nothing]
      /\ left'.runs = left.runs
  BY DEF EditByHand
<1>3. k \in Watched /\ file \in Files /\ said \in [Watched -> {Nothing} \cup Answers]
  BY <1>2, WatchedAssumption DEF IInv, FileOK, SaidOK
<1>4. lines \in Lines
  <2>1. CASE lines = <<>>
    BY <2>1 DEF Lines
  <2>2. CASE lines # <<>>
    <3>1. PICK i \in BOOLEAN, v \in {Blank, Typed(0)} : lines = <<[indented |-> i, value |-> v]>>
      BY <2>2 DEF LinesByHand
    <3>2. v \in Values
      BY ValueFacts, BoundsAssumption
    <3>3. [indented |-> i, value |-> v] \in Entry
      BY <3>2 DEF Entry
    <3> QED
      BY <3>1, <3>3 DEF Lines
  <2> QED
    BY <2>1, <2>2
<1>5. file' \in Files /\ file' # NoFile /\ \A j \in Watched \ {k} : file'[j] = file[j]
  <2>1. file' \in Files /\ \A j \in Watched \ {k} : file'[j] = file[j]
    BY <1>1, <1>3, <1>4 DEF Files
  <2> QED
    BY <2>1, FileIsThere
<1>6. /\ said' \in [Watched -> {Nothing} \cup Answers] /\ said'[k] = Nothing
      /\ \A j \in Watched \ {k} : said'[j] = said[j]
  BY <1>2, <1>3
<1>7. FileOK' /\ SaidOK'
  BY <1>5, <1>6 DEF IInv, FileOK, SaidOK
<1>8. AnswersSurvive'
  <2> SUFFICES ASSUME NEW j \in Watched, said'[j] # Nothing, ~ Shadowed(file', j)
               PROVE  GetKv(file', j) = said'[j]
    BY DEF AnswersSurvive
  <2>1. j # k /\ said'[j] = said[j] /\ file'[j] = file[j]
    BY <1>5, <1>6
  <2>2. GetKv(file', j) = GetKv(file, j) /\ (Shadowed(file', j) <=> Shadowed(file, j))
    BY <1>2, <1>5, <2>1 DEF GetKv, Shadowed
  <2> QED
    BY <2>1, <2>2 DEF IInv, AnswersSurvive
<1>9. UntouchedOK'
  BY <1>2, <1>5 DEF IInv, UntouchedOK
<1>10. RunOK'
  BY <1>2, <1>3, <1>5, Rows DEF IInv, RunOK
<1>11. ModeKept' /\ PromptsDone' /\ ConcludedOK'
  BY <1>2 DEF ModeKept, PromptsDone, Done, ConcludedOK
<1> QED
  BY <1>7, <1>8, <1>9, <1>10, <1>11 DEF IInv

-----------------------------------------------------------------------------
(* The theorems.                                                           *)

\* The invariant is inductive: configure_env_interactive and the runs of
\* onboard_linux.sh, whole or cut short, keep it.
THEOREM OnboardingInvariant == Spec => []IInv
<1>1. Init => IInv
  BY InitKeeps
<1>2. IInv /\ [Next]_vars => IInv'
  <2> SUFFICES ASSUME IInv, [Next]_vars PROVE IInv'
    OBVIOUS
  <2>1. CASE Start
    BY <2>1, StartKeeps
  <2>2. CASE StartUnattended
    BY <2>2, StartUnattendedKeeps
  <2>3. CASE ChooseMode
    BY <2>3, ChooseModeKeeps
  <2>4. CASE ChooseGeneration
    BY <2>4, ChooseGenerationKeeps
  <2>5. CASE AcceptDefault
    BY <2>5, AcceptDefaultKeeps
  <2>6. CASE Type
    BY <2>6, TypeKeeps
  <2>7. CASE KeyArrives
    BY <2>7, KeyArrivesKeeps
  <2>8. CASE KeyFails
    BY <2>8, KeyFailsKeeps
  <2>9. CASE Conclude
    BY <2>9, ConcludeKeeps
  <2>10. CASE Interrupt
    BY <2>10, InterruptKeeps
  <2>11. CASE \E k \in Edited : EditByHand(k)
    BY <2>11, EditByHandKeeps
  <2>12. CASE UNCHANGED vars
    <3>1. FileOK' /\ RunOK' /\ SaidOK' /\ AnswersSurvive'
      BY <2>12 DEF vars, IInv, FileOK, RunOK, SaidOK, AnswersSurvive
    <3>2. UntouchedOK' /\ ModeKept' /\ PromptsDone' /\ ConcludedOK'
      BY <2>12 DEF vars, IInv, UntouchedOK, ModeKept, PromptsDone, ConcludedOK, ConcludedVerifies
    <3> QED
      BY <3>1, <3>2 DEF IInv
  <2> QED
    BY <2>1, <2>2, <2>3, <2>4, <2>5, <2>6, <2>7, <2>8, <2>9, <2>10, <2>11, <2>12 DEF Next
<1> QED
  BY <1>1, <1>2, PTL DEF Spec

\* .env keeps at most one line per key that set_env_kv can replace and one
\* more that it cannot, whatever is typed, edited and interrupted.
THEOREM OnboardingTypeCorrect == Spec => []TypeOK
<1>1. IInv => TypeOK
  <2> SUFFICES ASSUME IInv PROVE TypeOK
    OBVIOUS
  <2>1. ASSUME file # NoFile, NEW k \in Watched
        PROVE  /\ Cardinality(Unindented(k)) <= 1
               /\ Len(file[k]) <= 2
               /\ \A i \in DOMAIN file[k] : file[k][i].value \in Values
    <3>1. file[k] \in Lines
      BY <2>1 DEF IInv, FileOK, Files
    <3>2. /\ file[k] \in Seq(Entry) /\ Len(file[k]) \in 0..2 /\ DOMAIN file[k] = 1..Len(file[k])
          /\ Len(file[k]) = 2 => file[k][1].indented
          /\ \A i \in 1..Len(file[k]) : file[k][i].value \in Values
      BY <3>1, LinesFacts
    <3>3. \A i \in DOMAIN file[k] : file[k][i].value \in Values
      BY <3>2
    <3>4. PICK n \in Nat : Unindented(k) \subseteq {n}
      <4>1. CASE Len(file[k]) = 2
        <5>1. Unindented(k) \subseteq {2}
          BY <3>2, <4>1 DEF Unindented
        <5> QED
          BY <5>1
      <4>2. CASE Len(file[k]) # 2
        <5>1. Unindented(k) \subseteq {1}
          BY <3>2, <4>2 DEF Unindented
        <5> QED
          BY <5>1
      <4> QED
        BY <4>1, <4>2
    <3>5. IsFiniteSet({n}) /\ Cardinality({n}) = 1
      BY FS_Singleton
    <3>6. Cardinality(Unindented(k)) <= 1
      BY <3>4, <3>5, FS_Subset
    <3> QED
      BY <3>2, <3>3, <3>6
  <2>2. \A k \in Watched : said[k] \in Values \cup {Nothing}
    BY ValueFacts DEF IInv, SaidOK, Answers
  <2> QED
    BY <2>1, <2>2 DEF IInv, RunOK, TypeOK
<1> QED
  BY <1>1, OnboardingInvariant, PTL

\* No answer has to be given twice: what was typed at a prompt that insists
\* outlives interruptions, dead runs, other modes and runs of Enter alone.
THEOREM OnboardingAnswersSurvive == Spec => []AnswersSurvive
<1>1. IInv => AnswersSurvive
  BY DEF IInv
<1> QED
  BY <1>1, OnboardingInvariant, PTL

\* The prompts of onboard_linux.sh and the checks of verify_linux.sh agree:
\* after a run that said "OK" the verification finds fault only with what the
\* operator has typed or edited.
THEOREM OnboardingConcludedVerifies == Spec => []ConcludedVerifies
<1>1. IInv => ConcludedVerifies
  BY DEF IInv, ConcludedOK, ConcludedVerifies
<1> QED
  BY <1>1, OnboardingInvariant, PTL
=============================================================================
