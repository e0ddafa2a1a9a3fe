--------------------------- MODULE MCNodeLifecycle ---------------------------
EXTENDS NodeLifecycle

(* Every subcommand class; every chain and relay chain argument; the four  *)
(* switches of a node run.                                                 *)
Runs ==
    [command : {"run"}, chain : {"", "dev", "live.json", "lost.json"},
     relay_chain : {"", "paseo", "bad"}, authority : BOOLEAN, telemetry : BOOLEAN,
     offchain : {TRUE}, hwbench : BOOLEAN, remote_relay : BOOLEAN]
Tools ==
    [command : {"partial", "purge", "spec", "refused"}, chain : {"", "dev"},
     relay_chain : {"", "paseo", "bad"}, authority : {FALSE}, telemetry : {FALSE},
     offchain : {FALSE}, hwbench : {FALSE}, remote_relay : {FALSE}]
AllLaunches == Runs \cup Tools
=============================================================================
