------------------------ MODULE MCRuntimeConvergence ------------------------
(***************************************************************************)
(* Finite instances of RuntimeConvergence.                                 *)
(***************************************************************************)
EXTENDS RuntimeConvergence, TLC

CONSTANTS active, dev, lan, local, remote, thirty, other_port, tokA, tokB

MCKey ==
    {"gateway", "bind", "port", "mode", "agents", "defaults", "heartbeat",
     "every", "channels", "telegram", "enabled", "auth", "token", "meta"}

\* A configuration with every section, off its heartbeat, and a secret.
Full ==
    [p \in {<<"gateway">>, <<"agents">>, <<"agents", "defaults">>,
            <<"agents", "defaults", "heartbeat">>, <<"channels">>,
            <<"channels", "telegram">>, <<"auth">>, <<"meta">>} |-> Dict]
    @@ Bind :> Loopback
    @@ Port :> CanonicalPort
    @@ <<"gateway", "mode">> :> local
    @@ Every :> thirty
    @@ TelegramEnabled :> Enabled
    @@ <<"auth", "token">> :> tokA

\* One that lacks the heartbeat section and is open to the network.
Sparse ==
    [p \in {<<"gateway">>, <<"agents">>, <<"agents", "defaults">>,
            <<"channels">>, <<"channels", "telegram">>} |-> Dict]
    @@ Bind :> lan
    @@ Port :> CanonicalPort
    @@ TelegramEnabled :> Enabled

MCConfig == active :> Full @@ dev :> Sparse

MCEdit ==
    {e \in {[profile |-> active, path |-> <<"gateway", "mode">>, value |-> remote],
            [profile |-> active, path |-> <<"auth", "token">>, value |-> tokB],
            [profile |-> dev, path |-> Every, value |-> thirty]} :
        e.profile \in Profile}

\* For the runs about backups, where it only matters when a file is replaced.
MCBackupsEdit ==
    {[profile |-> active, path |-> <<"gateway", "mode">>, value |-> remote]}

CanonicalEnv == [port |-> None, url_port |-> None, minutes |-> None]
MCBackupsEnv == {CanonicalEnv}

\* Which run does what is all the same.
Runs == Permutations(Applier)

MCEnv ==
    {CanonicalEnv,
     [port |-> None, url_port |-> other_port, minutes |-> thirty],
     [port |-> BadPort, url_port |-> None, minutes |-> None]}
=============================================================================
