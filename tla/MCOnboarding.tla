---------------------------- MODULE MCOnboarding ----------------------------
(***************************************************************************)
(* A finite instance of Onboarding: at least one key of every kind of      *)
(* prompt in every mode, and every key the two scripts relate.             *)
(***************************************************************************)
EXTENDS Onboarding

MCWatched ==
    {"OPENCLAW_RUNTIME_MODE", "TZ", "LITELLM_MASTER_KEY", "LITELLM_BASE_URL",
     "LITELLM_API_KEY", "LITELLM_AUTO_GENERATE_KEY",
     "OPENROUTER_API_KEY", "TELEGRAM_BOT_TOKEN", "TELEGRAM_CHAT_ID",
     "TELEGRAM_GROUP_ID", "CONVEX_DEPLOYMENT_URL", "HEARTBEAT_MINUTES",
     "OPENCLAW_SUPERVISOR_PRIMARY"}

MCEdited == {"OPENCLAW_RUNTIME_MODE", "LITELLM_BASE_URL", "LITELLM_API_KEY"}
=============================================================================
