---------------------------- MODULE NodeLifecycle ----------------------------
(***************************************************************************)
(* The life of the collator process (node/src/command.rs, service.rs,      *)
(* cli.rs): a launch parses its arguments, builds the services one after   *)
(* the other, any of which may fail, and spawns tasks that run while the   *)
(* start-up is still going on.  An essential task may end at any moment;   *)
(* the process can be told to stop, or be killed, and launched again on    *)
(* the databases it left behind.                                           *)
(***************************************************************************)
EXTENDS Naturals, FiniteSets

CONSTANTS Launches,      \* the command lines an operator may use
          MaxLaunches    \* bound: launches of the process in one behaviour

VARIABLES options,    \* the command line of the present launch
          step,       \* where the process is; "down" when there is none
          tasks,      \* tasks the task manager runs
          failed,     \* essential tasks that have ended, still to be noticed
          network,    \* start_network has been called
          signalled,  \* a termination signal is pending
          disk,       \* database directories: what for, which chain, who made it
          launches    \* launches so far

nodeVars == <<options, step, tasks, failed, network, signalled, disk, launches>>

(* The subcommands, by what they need: nothing, the chain specification,   *)
(* the partial components, or both chains' configurations.                 *)
Commands == {"refused", "spec", "partial", "purge", "run"}

CommandLines ==
    [command : Commands, chain : STRING, relay_chain : STRING, authority : BOOLEAN,
     telemetry : BOOLEAN, offchain : BOOLEAN, hwbench : BOOLEAN, remote_relay : BOOLEAN]

ASSUME LaunchesAssumption == Launches \subseteq CommandLines /\ MaxLaunches \in Nat

NoSpec == [id |-> "none", relay_chain |-> "none"]

(* A chain specification by its id: the two built-in ones, or a JSON file, *)
(* which is refused when it cannot be read or lacks the extensions.        *)
load_spec(id) ==
    CASE id = "dev" -> [id |-> "dev", relay_chain |-> "rococo-local"]
      [] id \in {"", "local", "template-paseo"} ->
            [id |-> "local_testnet", relay_chain |-> "rococo-local"]
      [] id = "live.json" -> [id |-> "live", relay_chain |-> "paseo"]
      [] OTHER -> NoSpec

spec == load_spec(options.chain)

(* RelayChainCli::chain_id: the relay chain named after "--", or else the  *)
(* one the parachain's specification names.                                *)
chain_id ==
    IF options.relay_chain # "" THEN options.relay_chain ELSE spec.relay_chain

Arguments == <<options.chain, options.relay_chain>>

Database(kind, chain) == [kind |-> kind, chain |-> chain, by |-> Arguments]

NodeInit ==
    /\ options \in Launches
    /\ step = "down"
    /\ tasks = {} /\ failed = {}
    /\ network = FALSE /\ signalled = FALSE
    /\ disk = {}
    /\ launches = 0

Launch ==
    /\ step = "down"
    /\ launches < MaxLaunches
    /\ launches' = launches + 1
    /\ options' \in Launches
    /\ step' = "create_runner"
    /\ UNCHANGED <<tasks, failed, network, signalled, disk>>

(* The process ends: the task manager is dropped, and its tasks with it.   *)
Exit ==
    /\ step' = "down"
    /\ tasks' = {} /\ failed' = {}
    /\ network' = FALSE /\ signalled' = FALSE
    /\ UNCHANGED <<options, disk, launches>>

Continue(next, spawned) ==
    /\ step' = next
    /\ tasks' = tasks \cup spawned
    /\ UNCHANGED <<options, failed, network, signalled, disk, launches>>

When(condition, names) == IF condition THEN names ELSE {}

(* cli.create_runner, and the dispatch of run() on the subcommand.         *)
create_runner ==
    /\ step = "create_runner"
    /\ \/ spec = NoSpec /\ Exit
       \/ /\ spec # NoSpec
          /\ \/ options.command = "refused" /\ Exit
             \/ options.command = "spec" /\ Exit
             \/ options.command = "partial" /\ Continue("new_partial", {})
             \/ options.command = "purge" /\ Continue("relay_config", {})
             \/ options.command = "run" /\ Continue("hwbench", {})

(* The hardware benchmark creates the database directory to measure it.    *)
gather_hwbench ==
    /\ step = "hwbench"
    /\ step' = "relay_config"
    /\ disk' = disk \cup When(options.hwbench, {Database("para", spec.id)})
    /\ UNCHANGED <<options, tasks, failed, network, signalled, launches>>

(* RelayChainCli::new leaves the process when the arguments after "--" do  *)
(* not parse; create_configuration may refuse them.                        *)
create_relay_configuration ==
    /\ step = "relay_config"
    /\ \/ Exit
       \/ options.relay_chain # "bad" /\ options.command = "purge"
            /\ Continue("purge", {})
       \/ options.relay_chain # "bad" /\ options.command = "run"
            /\ Continue("new_partial", {})

purge_chain_SpecRelay ==
    /\ step = "purge"
    /\ step' = "down"
    /\ disk' = {d \in disk : /\ <<d.kind, d.chain>> # <<"para", spec.id>>
                             /\ <<d.kind, d.chain>> # <<"relay", spec.relay_chain>>}
    /\ UNCHANGED <<options, tasks, failed, network, signalled, launches>>

(* PurgeChain, confirmed and in full: both databases of this command line, *)
(* whoever made them.                                                      *)
purge_chain ==
    /\ step = "purge"
    /\ step' = "down"
    /\ disk' = {d \in disk : /\ <<d.kind, d.chain>> # <<"para", spec.id>>
                             /\ <<d.kind, d.chain>> # <<"relay", chain_id>>}
    /\ UNCHANGED <<options, tasks, failed, network, signalled, launches>>

(* PurgeChain in part: not confirmed at the prompt, asked for one database *)
(* only (--parachain, --relaychain), or stopped by a removal that fails.   *)
purge_part ==
    /\ step = "purge"
    /\ step' = "down"
    /\ \/ UNCHANGED disk
       \/ disk' = {d \in disk : <<d.kind, d.chain>> # <<"para", spec.id>>}
       \/ disk' = {d \in disk : <<d.kind, d.chain>> # <<"relay", chain_id>>}
    /\ UNCHANGED <<options, tasks, failed, network, signalled, launches>>

(* new_partial: the telemetry worker may fail before anything is opened;   *)
(* the client opens the database; the pool spawns an essential task.       *)
new_partial ==
    /\ step = "new_partial"
    /\ \/ Exit
       \/ /\ step' = "import_queue"
          /\ disk' = disk \cup {Database("para", spec.id)}
          /\ tasks' = tasks \cup {"transaction-pool"}
                            \cup When(options.telemetry, {"telemetry"})
          /\ UNCHANGED <<options, failed, network, signalled, launches>>

build_import_queue ==
    /\ step = "import_queue"
    /\ \/ Exit
       \/ Continue(IF options.command = "run" THEN "relay_chain" ELSE "command",
                   {"import-queue"})

(* A subcommand that only needs the partial components runs and is done.   *)
run_subcommand == step = "command" /\ Exit

(* build_relay_chain_interface: an embedded relay chain node (or a client  *)
(* of a remote one) becomes part of the task manager.  A collator key      *)
(* comes with it for an authority, and always for a remote one.            *)
build_relay_chain_interface ==
    /\ step = "relay_chain"
    /\ \/ Exit
       \/ /\ step' = "network"
          /\ tasks' = tasks \cup {"relay-chain"}
          /\ disk' = disk \cup When(~options.remote_relay, {Database("relay", chain_id)})
          /\ UNCHANGED <<options, failed, network, signalled, launches>>

collator_key == options.authority \/ options.remote_relay

build_network ==
    /\ step = "network"
    /\ Exit \/ Continue("spawn_tasks", When(options.offchain, {"offchain-workers-runner"}))

(* spawn_tasks starts the RPC servers; then the benchmark's telemetry.     *)
spawn_tasks ==
    /\ step = "spawn_tasks"
    /\ Exit \/ Continue("relay_tasks",
                  {"rpc"} \cup When(options.hwbench /\ options.telemetry, {"telemetry_hwbench"}))

start_relay_chain_tasks_Later ==
    /\ step = "relay_tasks"
    /\ Continue("consensus", {})

(* overseer_handle, then the tasks that follow the relay chain.            *)
start_relay_chain_tasks ==
    /\ step = "relay_tasks"
    /\ Exit \/ Continue("consensus", {"cumulus-consensus", "pov-recovery"})

(* aura::run is spawned as an essential task.  The collator key is         *)
(* expected to be there: a missing one is a panic.                         *)
start_consensus ==
    Continue(IF collator_key THEN "start_network" ELSE "panicked", {"aura"})

validator == options.authority

Consensus ==
    /\ step = "consensus"
    /\ \/ validator /\ start_consensus
       \/ ~validator /\ Continue("start_network", {})

start_network ==
    /\ step = "start_network"
    /\ step' = "running"
    /\ network' = TRUE
    /\ UNCHANGED <<options, tasks, failed, signalled, disk, launches>>

Startup ==
    \/ create_runner \/ gather_hwbench \/ create_relay_configuration
    \/ purge_chain \/ purge_part \/ new_partial \/ build_import_queue \/ run_subcommand
    \/ build_relay_chain_interface \/ build_network \/ spawn_tasks
    \/ start_relay_chain_tasks \/ Consensus \/ start_network

EssentialTasks ==
    {"transaction-pool", "import-queue", "relay-chain", "cumulus-consensus",
     "pov-recovery", "aura"}

(* One essential task of the launch ends; the task manager is told.        *)
TaskEnds ==
    /\ failed = {}
    /\ \E t \in tasks \cap EssentialTasks :
         failed' = {t} /\ tasks' = tasks \ {t}
    /\ UNCHANGED <<options, step, network, signalled, disk, launches>>

Signal ==
    /\ step # "down" /\ ~signalled
    /\ signalled' = TRUE
    /\ UNCHANGED <<options, step, tasks, failed, network, disk, launches>>

run_node_until_exit_IgnoresTasks ==
    step = "running" /\ signalled /\ Exit

(* run_node_until_exit waits for the signal or for a failed essential task *)
(* once the start-up has returned, and not before.                         *)
run_node_until_exit ==
    step = "running" /\ (signalled \/ failed # {}) /\ Exit

(* The process is killed: the databases stay as they are.                  *)
Crash == step # "down" /\ Exit

NodeNext == Launch \/ Startup \/ TaskEnds \/ Signal \/ run_node_until_exit \/ Crash

NodeSpec == NodeInit /\ [][NodeNext]_nodeVars

(* The executor polls the start-up and the final select; nothing obliges   *)
(* an operator to launch or signal, or a task to end.                      *)
NodeFairSpec == NodeSpec /\ WF_nodeVars(Startup) /\ WF_nodeVars(run_node_until_exit)

-----------------------------------------------------------------------------

(* A collator starts authoring (service.rs:289) only on a node that is     *)
(* allowed to, and whose pool, import queue, relay chain node and relay    *)
(* chain followers were spawned earlier in the same launch, whatever the   *)
(* restarts and failures before it.                                        *)
AuthoringReady ==
    "aura" \in tasks \cup failed =>
        /\ options.authority
        /\ EssentialTasks \subseteq tasks \cup failed

(* A confirmed purge-chain of both databases that meets no error removes   *)
(* every one that an earlier launch with the same chain and relay chain    *)
(* arguments made, also when the relay chain was named on the command line *)
(* (command.rs:145, cli.rs:104) and after purges in part.                  *)
PurgeUndoesLaunch ==
    [][purge_chain => \A d \in disk' : d.by # Arguments]_nodeVars

(* An essential task that ends, even in the middle of the start-up before  *)
(* anyone waits for it, takes the process down.                            *)
EssentialFailureEndsNode == failed # {} ~> step = "down"

=============================================================================
