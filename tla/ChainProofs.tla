---------------------------- MODULE ChainProofs ----------------------------
(***************************************************************************)
(* The chain as its collators run it: the blocks of a slot, the process    *)
(* and its databases, and the messages and assets that pass between this   *)
(* chain and Asset Hub.                                                    *)
(***************************************************************************)
EXTENDS AsyncBacking, CrossChain, NodeLifecycle, SumLemmas, SequenceTheorems

\* The obligations are large; each prover call may take a minute.
USE SMTT(60)

-----------------------------------------------------------------------------
(***************************************************************************)
(* The blocks of a slot: a block that can_build_upon allows never panics,  *)
(* for every capacity, velocity, slot duration and minimum period that     *)
(* fits.                                                                   *)
(***************************************************************************)

(* The blocks of a slot, a minimum period apart, leave room for one more.  *)
LEMMA PeriodsFit ==
    ASSUME NEW k \in 1 .. BLOCK_PROCESSING_VELOCITY + 1
    PROVE  /\ (k - 1) * MinimumPeriod + MinimumPeriod = k * MinimumPeriod
           /\ k * MinimumPeriod <= SLOT_DURATION
           /\ (k - 1) * MinimumPeriod + MinimumPeriod <= SLOT_DURATION
           /\ (k - 1) * MinimumPeriod \in Nat
<1>1. k \in Nat /\ k - 1 \in Nat /\ MinimumPeriod \in Nat /\ SLOT_DURATION \in Nat
      /\ BLOCK_PROCESSING_VELOCITY + 1 - k \in Nat
  BY VelocityAssumption, DurationAssumption
<1>2. (k - 1) * MinimumPeriod \in Nat /\ k * MinimumPeriod \in Nat
      /\ (BLOCK_PROCESSING_VELOCITY + 1 - k) * MinimumPeriod \in Nat
  BY <1>1
<1>3. (k - 1) * MinimumPeriod + MinimumPeriod = k * MinimumPeriod
  BY <1>1
<1>4. k * MinimumPeriod + (BLOCK_PROCESSING_VELOCITY + 1 - k) * MinimumPeriod
        = (BLOCK_PROCESSING_VELOCITY + 1) * MinimumPeriod
  BY <1>1, VelocityAssumption
<1> QED
  BY <1>1, <1>2, <1>3, <1>4, PeriodAssumption, VelocityAssumption

(* The block collators build on is timely.                                 *)
LEMMA TipTimely == ChainTimely => Timely(Tip)
  BY DEF ChainTimely, Tip

(* A block within the limits of its slot fails at nothing.                 *)
LEMMA BuiltAccepted ==
    ASSUME ChainTimely, can_build_upon,
           slot_info \in 1 .. BLOCK_PROCESSING_VELOCITY + 1,
           next_time \in Nat, next_time <= (slot_info - 1) * MinimumPeriod,
           next_time < SLOT_DURATION
    PROVE  Failures = {} /\ Timely(Block(0, slot_info, next_time))
<1>1. ~(slot_info > BLOCK_PROCESSING_VELOCITY + 1) /\ ~(next_time >= SLOT_DURATION)
  BY VelocityAssumption, DurationAssumption
<1>2. ~(Len(segment) >= UNINCLUDED_SEGMENT_CAPACITY)
  BY CapacityAssumption DEF can_build_upon, ChainTimely
<1>3. Failures = {}
  BY <1>1, <1>2, RelayAssumption DEF Failures, Assertions
<1>4. 0 \in 0 .. MaxAge
  BY AgeAssumption
<1> QED
  BY <1>3, <1>4 DEF Timely, Block

(* The block after a timely one is timely, and in its slot.                *)
LEMMA BuiltTimely ==
    ASSUME ChainTimely, can_build_upon
    PROVE  Failures = {} /\ Timely(Block(0, slot_info, next_time))
<1> DEFINE t == Tip
<1>1. Timely(t)
  BY TipTimely
<1>2. t.age \in 0 .. MaxAge /\ t.authored \in 1 .. BLOCK_PROCESSING_VELOCITY + 1
      /\ t.offset \in Nat /\ t.offset <= (t.authored - 1) * MinimumPeriod
  BY <1>1 DEF Timely
<1>3. t.age = 0 => t.authored < BLOCK_PROCESSING_VELOCITY + 1
  BY DEF can_build_upon
<1> HIDE DEF t
<1>4. slot_info \in 1 .. BLOCK_PROCESSING_VELOCITY + 1
  BY <1>2, <1>3, VelocityAssumption DEF slot_info, t
<1>5. (t.authored - 1) * MinimumPeriod + MinimumPeriod = t.authored * MinimumPeriod
      /\ t.authored * MinimumPeriod <= SLOT_DURATION
      /\ (t.authored - 1) * MinimumPeriod \in Nat
  BY Zenon, <1>2, PeriodsFit
<1>6. t.offset + MinimumPeriod <= SLOT_DURATION
      /\ t.offset + MinimumPeriod <= t.authored * MinimumPeriod
  BY <1>2, <1>5, DurationAssumption, VelocityAssumption
<1>7. CASE t.age = 0
  <2>1. next_time = IF t.offset + MinimumPeriod > 0 THEN t.offset + MinimumPeriod ELSE 0
    BY <1>2, <1>7, DurationAssumption DEF next_time, t
  <2>2. next_time \in Nat /\ next_time <= (slot_info - 1) * MinimumPeriod
    BY <1>2, <1>5, <1>6, <1>7, <2>1, DurationAssumption DEF slot_info, t
  <2>3. t.authored + 1 \in 1 .. BLOCK_PROCESSING_VELOCITY + 1
    BY <1>2, <1>3, <1>7, VelocityAssumption
  <2>4. next_time < SLOT_DURATION
    <3>1. PICK k \in 1 .. BLOCK_PROCESSING_VELOCITY + 1 : k = t.authored + 1
      BY <2>3
    <3>2. k - 1 = t.authored
      BY <1>2, <3>1, VelocityAssumption
    <3>3. t.authored * MinimumPeriod + MinimumPeriod <= SLOT_DURATION
      <4>1. (k - 1) * MinimumPeriod + MinimumPeriod <= SLOT_DURATION
        BY PeriodsFit
      <4> QED
        BY <3>2, <4>1, Zenon
    <3>4. next_time = t.offset + MinimumPeriod
      BY <1>2, <2>1, DurationAssumption
    <3>5. t.authored * MinimumPeriod \in Nat
      BY <1>2, DurationAssumption, VelocityAssumption
    <3> QED
      BY <1>2, <1>6, <3>3, <3>4, <3>5, DurationAssumption
  <2> QED
    BY Zenon, <1>4, <2>2, <2>4, BuiltAccepted
<1>8. CASE t.age # 0
  <2>1. t.age * SLOT_DURATION \in Nat /\ t.age * SLOT_DURATION >= SLOT_DURATION
    <3>1. t.age - 1 \in Nat /\ SLOT_DURATION \in Nat
      BY <1>2, <1>8, AgeAssumption, DurationAssumption
    <3>2. (t.age - 1) * SLOT_DURATION \in Nat
      BY <3>1
    <3>3. t.age * SLOT_DURATION = (t.age - 1) * SLOT_DURATION + SLOT_DURATION
      BY <3>1, <1>2, AgeAssumption
    <3> QED
      BY <3>1, <3>2, <3>3
  <2>2. next_time = 0
    BY <1>2, <1>6, <2>1, DurationAssumption DEF next_time, t
  <2>3. slot_info = 1
    BY <1>8 DEF slot_info, t
  <2>4. (slot_info - 1) * MinimumPeriod = 0
    BY <2>3, DurationAssumption
  <2> QED
    BY <1>4, <2>2, <2>4, BuiltAccepted, DurationAssumption
<1> QED
  BY <1>7, <1>8

\* Growing older, as blocks do with every slot, keeps a block timely.
LEMMA OlderTimely ==
    ASSUME NEW b, Timely(b)
    PROVE  Timely(Older(b))
  BY AgeAssumption DEF Timely, Older

(* Every step keeps the chain timely and panics at nothing.                *)
LEMMA ChainTimelyStep == ChainTimely /\ NoPanic /\ [Next]_vars => ChainTimely' /\ NoPanic'
<1> SUFFICES ASSUME ChainTimely, NoPanic, [Next]_vars
             PROVE  ChainTimely' /\ NoPanic'
  OBVIOUS
<1> DEFINE AnyBlock == [age : 0 .. MaxAge, authored : Nat, offset : Nat]
<1>0. \A b : Timely(b) => b \in AnyBlock
  BY VelocityAssumption DEF Timely
<1>1. CASE Author
  <2>1. Failures = {} /\ Timely(Block(0, slot_info, next_time))
    BY <1>1, BuiltTimely DEF Author
  <2>2. segment' = Append(segment, Block(0, slot_info, next_time))
        /\ panicked' = panicked /\ included' = included
    BY <1>1, <2>1 DEF Author
  <2> DEFINE b == Block(0, slot_info, next_time)
  <2>3. b \in AnyBlock
    BY Zenon, <1>0, <2>1
  <2> HIDE DEF b
  <2>4. /\ segment' \in Seq(AnyBlock)
        /\ \A i \in 1 .. Len(segment') :
              segment'[i] = b \/ \E j \in 1 .. Len(segment) : segment'[i] = segment[j]
    BY <2>2, <2>3 DEF ChainTimely, b
  <2> QED
    BY Zenon, <2>1, <2>2, <2>4 DEF ChainTimely, NoPanic, b, Timely
<1>2. CASE NextSlot
  <2>1. \A i \in 1 .. Len(segment) : Timely(Older(segment[i])) /\ Older(segment[i]) \in AnyBlock
    BY Zenon, <1>0, OlderTimely DEF ChainTimely
  <2>2. segment' \in Seq(AnyBlock) /\ Len(segment') = Len(segment)
        /\ \A i \in 1 .. Len(segment) : segment'[i] = Older(segment[i])
    <3>1. segment \in Seq(AnyBlock) /\ Len(segment) \in Nat /\ DOMAIN segment = 1 .. Len(segment)
      BY LenProperties DEF ChainTimely
    <3>2. segment' = [i \in 1 .. Len(segment) |-> Older(segment[i])]
      BY <1>2, <3>1 DEF NextSlot
    <3>3. segment' \in [1 .. Len(segment) -> AnyBlock]
      BY <2>1, <3>2
    <3>4. segment' \in Seq(AnyBlock)
      BY <3>1, <3>3
    <3> QED
      BY <3>1, <3>2, <3>3, <3>4, LenProperties
  <2> QED
    BY <1>2, <2>1, <2>2, OlderTimely DEF ChainTimely, NoPanic, NextSlot, Timely
<1>3. CASE Include
  <2>1. Timely(Head(segment))
    BY <1>3 DEF Include, ChainTimely
  <2>2. Tail(segment) \in Seq(AnyBlock) /\ Len(Tail(segment)) = Len(segment) - 1
        /\ \A i \in 1 .. Len(Tail(segment)) : Tail(segment)[i] = segment[i + 1]
    BY <1>3 DEF Include, ChainTimely
  <2> QED
    BY <1>3, <2>1, <2>2 DEF ChainTimely, NoPanic, Include, Timely
<1>4. CASE \E n \in 0 .. Len(segment) - 1 : Abandon(n)
  <2>1. PICK n \in 0 .. Len(segment) - 1 : Abandon(n)
    BY <1>4
  <2>2. segment' \in Seq(AnyBlock) /\ Len(segment') = n
        /\ \A i \in 1 .. n : segment'[i] = segment[i]
    <3>1. Len(segment) \in Nat /\ n \in Nat /\ 1 .. n \subseteq 1 .. Len(segment)
      BY LenProperties DEF ChainTimely
    <3>2. \A i \in 1 .. n : segment[i] \in AnyBlock
      BY Zenon, <3>1, ElementOfSeq DEF ChainTimely
    <3>3. segment' = SubSeq(segment, 1, n)
      BY <2>1 DEF Abandon
    <3> HIDE DEF AnyBlock
    <3> QED
      BY <3>1, <3>2, <3>3, SubSeqProperties
  <2>3. 1 .. n \subseteq 1 .. Len(segment)
    BY LenProperties DEF ChainTimely
  <2>4. \A i \in 1 .. Len(segment') : Timely(segment'[i])
    BY <2>2, <2>3, Zenon DEF ChainTimely
  <2> QED
    BY Zenon, <2>1, <2>2, <2>4 DEF ChainTimely, NoPanic, Abandon, Timely
<1>5. CASE UNCHANGED vars
  BY <1>5 DEF ChainTimely, NoPanic, vars, Timely
<1> QED
  BY Zenon, <1>1, <1>2, <1>3, <1>4, <1>5 DEF Next

(* A block that can_build_upon lets a collator build passes the hook's     *)
(* checks, the timestamp inherent and Aura, whatever candidates were lost: *)
(* for every capacity and velocity, as long as the blocks of a slot, one   *)
(* MinimumPeriod apart, fit into SLOT_DURATION.                            *)
THEOREM NothingPanics == Spec => [](ChainTimely /\ NoPanic)
<1>1. Init => ChainTimely /\ NoPanic
  BY VelocityAssumption, AgeAssumption, DurationAssumption
     DEF Init, ChainTimely, NoPanic, Timely, Block
<1> QED
  BY <1>1, ChainTimelyStep, PTL DEF Spec

-----------------------------------------------------------------------------
(***************************************************************************)
(* The life of the process.                                                *)
(***************************************************************************)

\* Steps before the first task is spawned, and after the last.
EarlySteps == {"down", "create_runner", "hwbench", "relay_config", "purge", "new_partial"}
LateSteps == {"start_network", "running", "panicked"}

\* The tasks that new_partial, build_import_queue, build_relay_chain_interface
\* and start_relay_chain_tasks have spawned when the process is at step s.
Spawned(s) ==
    (IF s \in EarlySteps THEN {} ELSE {"transaction-pool"})
    \cup (IF s \in EarlySteps \cup {"import_queue"} THEN {} ELSE {"import-queue"})
    \cup (IF s \in EarlySteps \cup {"import_queue", "relay_chain", "command"}
          THEN {} ELSE {"relay-chain"})
    \cup (IF s \in LateSteps \cup {"consensus"} THEN {"cumulus-consensus", "pov-recovery"} ELSE {})

\* The inductive invariant: what was spawned runs or has failed in this
\* launch, and nothing of an earlier one does.
TasksInv ==
    /\ step \in EarlySteps => tasks = {} /\ failed = {}
    /\ Spawned(step) \subseteq tasks \cup failed
    /\ "aura" \in tasks \cup failed => options.authority /\ step \in LateSteps

LEMMA ExitKeepsTasks ==
  ASSUME Exit
  PROVE  TasksInv'
BY DEF Exit, TasksInv, Spawned, EarlySteps, LateSteps

LEMMA StartupKeepsTasks ==
  ASSUME TasksInv, Startup
  PROVE  TasksInv'
<1> USE DEF Spawned, EarlySteps, LateSteps, Continue, When
<1>1. CASE create_runner
  BY Zenon, <1>1, ExitKeepsTasks DEF create_runner, TasksInv
<1>2. CASE gather_hwbench
  BY Zenon, <1>2 DEF gather_hwbench, TasksInv
<1>3. CASE create_relay_configuration
  BY Zenon, <1>3, ExitKeepsTasks DEF create_relay_configuration, TasksInv
<1>4. CASE purge_chain \/ purge_part
  BY Zenon, <1>4 DEF purge_chain, purge_part, TasksInv
<1>5. CASE new_partial
  BY Zenon, <1>5, ExitKeepsTasks DEF new_partial, TasksInv
<1>6. CASE build_import_queue
  BY <1>6, ExitKeepsTasks DEF build_import_queue, TasksInv
<1>7. CASE run_subcommand
  BY <1>7, ExitKeepsTasks DEF run_subcommand
<1>8. CASE build_relay_chain_interface
  BY Zenon, <1>8, ExitKeepsTasks DEF build_relay_chain_interface, TasksInv
<1>9. CASE build_network
  BY Zenon, <1>9, ExitKeepsTasks DEF build_network, TasksInv
<1>10. CASE spawn_tasks
  BY Zenon, <1>10, ExitKeepsTasks DEF spawn_tasks, TasksInv
<1>11. CASE start_relay_chain_tasks
  BY Zenon, <1>11, ExitKeepsTasks DEF start_relay_chain_tasks, TasksInv
<1>12. CASE Consensus
  BY Zenon, <1>12 DEF Consensus, validator, start_consensus, TasksInv
<1>13. CASE start_network
  BY <1>13 DEF start_network, TasksInv
<1> QED
  BY Zenon, <1>1, <1>2, <1>3, <1>4, <1>5, <1>6, <1>7, <1>8, <1>9, <1>10, <1>11, <1>12, <1>13
     DEF Startup

LEMMA TasksStep ==
  ASSUME TasksInv, [NodeNext]_nodeVars
  PROVE  TasksInv'
<1>1. CASE Launch
  BY <1>1 DEF Launch, TasksInv, Spawned, EarlySteps, LateSteps
<1>2. CASE TaskEnds
  <2>1. tasks' \cup failed' = tasks \cup failed /\ step' = step /\ options' = options
        /\ tasks # {}
    BY <1>2 DEF TaskEnds
  <2> QED BY <2>1 DEF TasksInv
<1>3. CASE Signal
  BY <1>3 DEF Signal, TasksInv
<1>4. CASE run_node_until_exit
  BY <1>4, ExitKeepsTasks DEF run_node_until_exit
<1>5. CASE Crash
  BY Zenon, <1>5, ExitKeepsTasks DEF Crash
<1>6. CASE UNCHANGED nodeVars
  BY <1>6 DEF nodeVars, TasksInv
<1> QED
  BY Zenon, <1>1, <1>2, <1>3, <1>4, <1>5, <1>6, StartupKeepsTasks DEF NodeNext

\* The spawning order of new_partial, build_relay_chain_interface and
\* start_parachain_node: whatever fails, ends or is restarted on the way,
\* authoring starts on an authority only, after every task it needs.
THEOREM AuthoringStaysReady ==
  NodeSpec => []AuthoringReady
<1>1. NodeInit => TasksInv
  BY DEF NodeInit, TasksInv, Spawned, EarlySteps, LateSteps
<1>2. TasksInv => AuthoringReady
  BY DEF TasksInv, Spawned, EarlySteps, LateSteps, AuthoringReady, EssentialTasks
<1> QED BY <1>1, <1>2, TasksStep, PTL DEF NodeSpec

-----------------------------------------------------------------------------
(***************************************************************************)
(* The databases.                                                          *)
(***************************************************************************)

\* A database directory is named by the arguments of the launch that made
\* it, the way load_spec and RelayChainCli::chain_id resolve them.
NamedByArguments(d) ==
    \E c, r :
        /\ d.by = <<c, r>>
        /\ \/ d.kind = "para" /\ d.chain = load_spec(c).id
           \/ d.kind = "relay"
                /\ d.chain = IF r # "" THEN r ELSE load_spec(c).relay_chain

DiskInv == \A d \in disk : NamedByArguments(d)

LEMMA ParaNamed == NamedByArguments(Database("para", spec.id))
BY DEF NamedByArguments, Database, spec, Arguments

LEMMA RelayNamed == NamedByArguments(Database("relay", chain_id))
<1> DEFINE d == Database("relay", chain_id)
<1>1. d.by = <<options.chain, options.relay_chain>> /\ d.kind = "relay" /\ d.chain = chain_id
  BY DEF Database, Arguments
<1> HIDE DEF d
<1>2. NamedByArguments(d)
  BY Zenon, <1>1 DEF NamedByArguments, spec, chain_id
<1> QED BY Zenon, <1>2 DEF d

LEMMA DiskStep ==
  ASSUME DiskInv, [NodeNext]_nodeVars
  PROVE  DiskInv'
<1>1. SUFFICES disk' \subseteq disk \cup {Database("para", spec.id),
                                        Database("relay", chain_id)}
  BY <1>1, ParaNamed, RelayNamed, Zenon DEF DiskInv
<1> USE DEF Exit, Continue, When
<1>2. CASE Launch \/ TaskEnds \/ Signal \/ UNCHANGED nodeVars
  BY <1>2 DEF Launch, TaskEnds, Signal, nodeVars
<1>3. CASE run_node_until_exit \/ Crash
  BY Zenon, <1>3 DEF run_node_until_exit, Crash
<1>4. CASE create_runner \/ create_relay_configuration \/ run_subcommand
           \/ build_import_queue
  BY Zenon, <1>4 DEF create_runner, create_relay_configuration, run_subcommand,
              build_import_queue
<1>5. CASE build_network \/ spawn_tasks \/ start_relay_chain_tasks
           \/ Consensus \/ start_network
  BY Zenon, <1>5 DEF build_network, spawn_tasks, start_relay_chain_tasks,
              Consensus, validator, start_consensus, start_network
<1>6. CASE gather_hwbench
  BY Zenon, <1>6 DEF gather_hwbench
<1>7. CASE purge_chain \/ purge_part
  BY Zenon, <1>7 DEF purge_chain, purge_part
<1>8. CASE new_partial
  BY Zenon, <1>8 DEF new_partial
<1>9. CASE build_relay_chain_interface
  BY <1>9 DEF build_relay_chain_interface
<1> QED
  BY Zenon, <1>2, <1>3, <1>4, <1>5, <1>6, <1>7, <1>8, <1>9 DEF NodeNext, Startup

\* PurgeChain resolves the same arguments to the same two directories as the
\* launch that created them, so none of that launch's databases is left.
THEOREM PurgeStaysComplete ==
  NodeSpec => PurgeUndoesLaunch
<1>1. NodeInit => DiskInv
  BY DEF NodeInit, DiskInv
<1>2. ASSUME DiskInv, purge_chain
      PROVE  \A d \in disk' : d.by # Arguments
  <2>1. SUFFICES ASSUME NEW d \in disk', d.by = Arguments
                 PROVE  FALSE
    BY Zenon
  <2>2. /\ d \in disk
        /\ ~(d.kind = "para" /\ d.chain = spec.id)
        /\ ~(d.kind = "relay" /\ d.chain = chain_id)
    BY Zenon, <1>2, <2>1 DEF purge_chain
  <2>3. PICK c, r :
          /\ d.by = <<c, r>>
          /\ \/ d.kind = "para" /\ d.chain = load_spec(c).id
             \/ d.kind = "relay"
                  /\ d.chain = IF r # "" THEN r ELSE load_spec(c).relay_chain
    BY <1>2, <2>2, Zenon DEF DiskInv, NamedByArguments
  <2>4. c = options.chain /\ r = options.relay_chain
    <3>1. <<c, r>> = <<options.chain, options.relay_chain>>
      BY Zenon, <2>1, <2>3 DEF Arguments
    <3> QED BY <3>1
  <2> QED BY <2>2, <2>3, <2>4, Zenon DEF spec, chain_id
<1> QED BY <1>1, <1>2, DiskStep, PTL DEF NodeSpec, PurgeUndoesLaunch

-----------------------------------------------------------------------------
(***************************************************************************)
(* Messages between the chains.                                            *)
(***************************************************************************)

Locations == {"USDC_PATH", "USDT_PATH"}

Answers == {Response("success"), Response("failure")}

\* What the queue of a source and the queue to Asset Hub may contain.
Incoming(s) == Inbound[s] \cup (IF s = "hub" THEN Answers ELSE {})
Outgoing == [kind : {"withdraw"}, asset : Locations, amount : Nat]
            \cup [kind : {"sent"}, by : Users] \cup [kind : {"pay"}]

QueuesInv ==
    /\ DOMAIN inbound = Sources
    /\ \A s \in Sources : inbound[s] \in Seq(Incoming(s))
    /\ outbound \in Seq(Outgoing)

\* No message of kind k, not the message m, at most one message of kind k.
None(q, k) == \A i \in 1 .. Len(q) : q[i].kind # k
Absent(q, m) == \A i \in 1 .. Len(q) : q[i] # m
One(q, k) == \A i, j \in 1 .. Len(q) : q[i].kind = k /\ q[j].kind = k => i = j

\* Where the two supported assets are kept.
LEMMA Converted ==
  /\ \A l \in Locations : convert(l) \in AssetIds
  /\ \A l, k \in Locations : convert(l) = convert(k) => l = k
  /\ \A a \in AssetIds : convert_back(a) \in Locations
                              /\ convert(convert_back(a)) = a
  /\ \A l : l \in Locations <=> SupportedAssets(l)
BY DEF Locations, convert, convert_back, AssetIds, SupportedAssets,
       USDC_PATH, USDT_PATH

\* A withdrawal is a message to Asset Hub.
LEMMA WithdrawalKind ==
  ASSUME NEW k \in Locations, NEW n \in Nat
  PROVE  [kind |-> "withdraw", asset |-> k, amount |-> n] \in Outgoing
BY DEF Outgoing

LEMMA AppendKinds ==
  ASSUME NEW S, NEW q \in Seq(S), NEW m \in S, NEW k
  PROVE  /\ Append(q, m) \in Seq(S)
         /\ None(q, k) /\ m.kind # k => None(Append(q, m), k)
         /\ None(q, k) => One(Append(q, m), k)
         /\ One(q, k) /\ m.kind # k => One(Append(q, m), k)
         /\ \A x : Absent(q, x) /\ m # x => Absent(Append(q, m), x)
<1>1. /\ Append(q, m) \in Seq(S) /\ Len(Append(q, m)) = Len(q) + 1 /\ Len(q) \in Nat
      /\ \A i \in 1 .. Len(q) : Append(q, m)[i] = q[i]
      /\ Append(q, m)[Len(q) + 1] = m
  BY AppendProperties, LenProperties
<1> DEFINE a == Append(q, m)
<1> HIDE DEF a
<1>2. \A i \in 1 .. Len(a) : i \in 1 .. Len(q) \/ (i = Len(q) + 1 /\ a[i] = m)
  BY <1>1 DEF a
<1>3. \A i \in 1 .. Len(q) : a[i] = q[i]
  BY <1>1 DEF a
<1>4. /\ None(q, k) /\ m.kind # k => None(a, k)
      /\ None(q, k) => One(a, k)
      /\ One(q, k) /\ m.kind # k => One(a, k)
      /\ \A x : Absent(q, x) /\ m # x => Absent(a, x)
  BY Zenon, <1>2, <1>3 DEF None, One, Absent
<1> QED BY Zenon, <1>1, <1>4 DEF a

LEMMA TailKinds ==
  ASSUME NEW S, NEW q \in Seq(S), q # <<>>, NEW k
  PROVE  /\ Tail(q) \in Seq(S) /\ Head(q) \in S
         /\ None(q, k) => None(Tail(q), k) /\ Head(q).kind # k
         /\ One(q, k) => One(Tail(q), k)
         /\ One(q, k) /\ Head(q).kind = k => None(Tail(q), k)
         /\ \A x : Absent(q, x) => Absent(Tail(q), x) /\ Head(q) # x
<1>1. /\ Tail(q) \in Seq(S) /\ Len(Tail(q)) = Len(q) - 1 /\ Len(q) \in Nat /\ Len(q) # 0
      /\ \A i \in 1 .. Len(Tail(q)) : Tail(q)[i] = q[i + 1]
      /\ Head(q) = q[1] /\ Head(q) \in S
  BY HeadTailProperties, LenProperties, EmptySeq
<1> DEFINE t == Tail(q)
<1> HIDE DEF t
<1>2. \A i \in 1 .. Len(t) : i + 1 \in 1 .. Len(q) /\ t[i] = q[i + 1] /\ i + 1 # 1
  BY <1>1 DEF t
<1>3. \A i, j \in 1 .. Len(t) : i + 1 = j + 1 => i = j
  BY <1>1 DEF t
<1>4. 1 \in 1 .. Len(q)
  BY <1>1
<1>5. None(q, k) => None(t, k) /\ q[1].kind # k
  BY Zenon, <1>2, <1>4 DEF None
<1>6. One(q, k) => One(t, k)
  BY Zenon, <1>2, <1>3 DEF One
<1>7. One(q, k) /\ q[1].kind = k => None(t, k)
  BY Zenon, <1>2, <1>4 DEF One, None
<1>8. \A x : Absent(q, x) => Absent(t, x) /\ q[1] # x
  BY Zenon, <1>2, <1>4 DEF Absent
<1> QED BY Zenon, <1>1, <1>5, <1>6, <1>7, <1>8 DEF t

\* Nothing is in an empty queue.
LEMMA EmptyKinds ==
  ASSUME NEW k
  PROVE  None(<<>>, k) /\ One(<<>>, k) /\ Absent(<<>>, k)
BY DEF None, One, Absent

\* Queues keep their types.
LEMMA QueuesStep ==
  ASSUME QueuesInv, Withdrawals \subseteq Nat, [XcmNext]_xcmVars
  PROVE  QueuesInv'
<1> USE DEF QueuesInv
<1>1. ASSUME NEW s \in Sources, Process(s)
      PROVE  QueuesInv'
  <2>1. inbound' = [inbound EXCEPT ![s] = Tail(@)] /\ outbound' = outbound /\ inbound[s] # <<>>
    BY Zenon, <1>1 DEF Process
  <2>2. Tail(inbound[s]) \in Seq(Incoming(s))
    BY Zenon, <2>1, TailKinds
  <2> QED BY Zenon, <2>1, <2>2
<1>2. ASSUME NEW s \in Sources, NEW m \in Inbound[s], Arrive(s, m)
      PROVE  QueuesInv'
  <2>1. inbound' = [inbound EXCEPT ![s] = Append(@, m)] /\ outbound' = outbound
    BY <1>2 DEF Arrive
  <2>2. Append(inbound[s], m) \in Seq(Incoming(s))
    <3>1. m \in Incoming(s)
      BY DEF Incoming
    <3> QED BY Zenon, <3>1, AppendKinds
  <2> QED BY Zenon, <2>1, <2>2
<1>3. ASSUME NEW u, NEW a \in AssetIds, NEW n \in Withdrawals,
             reserve_transfer_assets(u, a, n)
      PROVE  QueuesInv'
  <2>1. inbound' = inbound
        /\ outbound' = Append(outbound, [kind |-> "withdraw", asset |-> convert_back(a),
                                         amount |-> n])
    BY Zenon, <1>3 DEF reserve_transfer_assets
  <2>2. [kind |-> "withdraw", asset |-> convert_back(a), amount |-> n] \in Outgoing
    <3>1. convert_back(a) \in Locations
      BY DEF convert_back, USDC_PATH, USDT_PATH, Locations
    <3>2. n \in Nat
      BY Zenon
    <3> HIDE DEF convert_back, Locations
    <3> QED BY Zenon, <3>1, <3>2 DEF Outgoing
  <2> QED BY Zenon, <2>1, <2>2, AppendKinds
<1>4. ASSUME NEW u \in Users, send(u)
      PROVE  QueuesInv'
  <2>1. inbound' = inbound /\ outbound' = Append(outbound, [kind |-> "sent", by |-> u])
    BY Zenon, <1>4 DEF send
  <2>2. [kind |-> "sent", by |-> u] \in Outgoing
    BY DEF Outgoing
  <2> QED BY Zenon, <2>1, <2>2, AppendKinds
<1>5. CASE payout
  <2>1. inbound' = inbound /\ outbound' = Append(outbound, [kind |-> "pay"])
    BY <1>5 DEF payout
  <2>2. [kind |-> "pay"] \in Outgoing
    BY DEF Outgoing
  <2> QED BY Zenon, <2>1, <2>2, AppendKinds
<1>6. CASE check_status \/ UNCHANGED xcmVars
  BY <1>6 DEF check_status, xcmVars
<1>7. CASE HubProcess
  <2>1. outbound # <<>> /\ outbound' = Tail(outbound)
    BY Zenon, <1>7 DEF HubProcess
  <2>2. outbound' \in Seq(Outgoing)
    BY Zenon, <2>1, TailKinds
  <2>3. \/ inbound' = inbound
        \/ \E result \in {"success", "failure"} :
             inbound' = [inbound EXCEPT !["hub"] = Append(@, Response(result))]
    BY <1>7 DEF HubProcess
  <2>4. ASSUME NEW r \in {"success", "failure"}
        PROVE  Append(inbound["hub"], Response(r)) \in Seq(Incoming("hub"))
    <3>1. Response(r) \in Incoming("hub")
      BY DEF Incoming, Answers
    <3>2. inbound["hub"] \in Seq(Incoming("hub"))
      BY DEF Sources
    <3> QED BY Zenon, <3>1, <3>2, AppendKinds
  <2>5. CASE inbound' = inbound
    BY Zenon, <2>2, <2>5
  <2>6. ASSUME NEW r \in {"success", "failure"},
               inbound' = [inbound EXCEPT !["hub"] = Append(@, Response(r))]
        PROVE  QueuesInv'
    <3>1. Append(inbound["hub"], Response(r)) \in Seq(Incoming("hub"))
      BY <2>4
    <3> QED BY Zenon, <2>2, <2>6, <3>1
  <2> QED BY Zenon, <2>3, <2>5, <2>6
<1> HIDE DEF QueuesInv
<1> QED BY Zenon, <1>1, <1>2, <1>3, <1>4, <1>5, <1>6, <1>7 DEF XcmNext

\* Answers come from the executor's reports and from nowhere else.
AnswersGenuine == \A s \in Sources : \A m \in Inbound[s] : m.kind # "response"

\* The inductive invariant of a payment: at any time at most one payment
\* order or one answer is on its way, only while the spend waits for it, and
\* only a failure that Asset Hub reports allows another attempt.
Waiting == spend.query = "pending"

PaymentInv ==
    /\ QueuesInv
    /\ paid \in {0, 1}
    /\ spend \in [state : {"pending", "attempted", "failed", "processed"},
                 query : {"none", "pending", "success", "failure"}]
    /\ None(inbound["relay"], "response") /\ None(inbound["sibling"], "response")
    /\ One(outbound, "pay") /\ One(inbound["hub"], "response")
    /\ ~Waiting => None(outbound, "pay") /\ None(inbound["hub"], "response")
    /\ spend.state \in {"pending", "failed"} => spend.query = "none" /\ paid = 0
    /\ spend.query = "failure" => paid = 0
    /\ ~None(outbound, "pay") => paid = 0 /\ None(inbound["hub"], "response")
    /\ ~Absent(inbound["hub"], Response("failure")) => paid = 0

\* Steps that touch neither the spend nor what is on its way for it.
LEMMA OtherPayments ==
  ASSUME PaymentInv, QueuesInv', paid' = paid, spend' = spend,
         \A s \in Sources : None(inbound[s], "response") => None(inbound'[s], "response"),
         One(inbound["hub"], "response") => One(inbound'["hub"], "response"),
         Absent(inbound["hub"], Response("failure"))
            => Absent(inbound'["hub"], Response("failure")),
         None(outbound, "pay") => None(outbound', "pay"),
         One(outbound, "pay") => One(outbound', "pay")
  PROVE  PaymentInv'
BY Zenon DEF PaymentInv, Waiting, Sources

LEMMA ProcessPayment ==
  ASSUME AnswersGenuine, PaymentInv, QueuesInv', NEW s \in Sources, Process(s)
  PROVE  PaymentInv'
<1> DEFINE q == inbound[s]
           m == Head(inbound[s])
<1>1. /\ q # <<>> /\ inbound' = [inbound EXCEPT ![s] = Tail(@)]
      /\ outbound' = outbound /\ paid' = paid
      /\ \/ spend' = spend
         \/ m.kind = "response" /\ spend' = [spend EXCEPT !.query = m.result]
  BY DEF Process, Execute, Ignored
<1>2. q \in Seq(Incoming(s)) /\ DOMAIN inbound = Sources
  BY DEF PaymentInv, QueuesInv
<1>3. inbound'[s] = Tail(q) /\ \A z \in Sources : z # s => inbound'[z] = inbound[z]
  BY Zenon, <1>1, <1>2
<1>4. /\ m \in Incoming(s)
      /\ None(q, "response") => None(Tail(q), "response") /\ m.kind # "response"
      /\ One(q, "response") => One(Tail(q), "response")
      /\ One(q, "response") /\ m.kind = "response" => None(Tail(q), "response")
      /\ \A x : Absent(q, x) => Absent(Tail(q), x) /\ m # x
  BY <1>1, <1>2, TailKinds
<1>5. CASE spend' = spend
  <2>1. /\ \A z \in Sources : None(inbound[z], "response") => None(inbound'[z], "response")
        /\ One(inbound["hub"], "response") => One(inbound'["hub"], "response")
        /\ Absent(inbound["hub"], Response("failure"))
              => Absent(inbound'["hub"], Response("failure"))
    <3> HIDE DEF m
    <3> QED BY Zenon, <1>3, <1>4 DEF Sources
  <2> QED BY Zenon, <1>1, <1>5, <2>1, OtherPayments
<1>6. CASE m.kind = "response" /\ spend' = [spend EXCEPT !.query = m.result]
  <2>1. s = "hub"
    BY <1>4, <1>6 DEF PaymentInv, Sources
  <2>2. m \in Answers
    BY Zenon, <1>4, <1>6, <2>1 DEF AnswersGenuine, Incoming
  <2>3. /\ m.result \in {"success", "failure"}
        /\ m.result = "failure" => m = Response("failure")
    BY <2>2 DEF Answers, Response
  <2> HIDE DEF m
  <2>4. ~None(q, "response")
    BY Zenon, <1>4, <1>6
  <2>5. /\ spend.query = "pending" /\ spend.state \in {"attempted", "processed"}
        /\ None(outbound, "pay")
    BY Zenon, <2>1, <2>4 DEF PaymentInv, Waiting
  <2>6. m.result = "failure" => paid = 0
    BY Zenon, <1>4, <2>1, <2>3 DEF PaymentInv
  <2>7. /\ spend' \in [state : {"pending", "attempted", "failed", "processed"},
                      query : {"none", "pending", "success", "failure"}]
        /\ spend'.query = m.result /\ spend'.state = spend.state
    BY <1>6, <2>3 DEF PaymentInv
  <2>8. /\ None(inbound'["hub"], "response") /\ One(inbound'["hub"], "response")
        /\ ~Absent(inbound'["hub"], Response("failure")) => paid = 0
    BY Zenon, <1>3, <1>4, <1>6, <2>1 DEF PaymentInv
  <2>9. inbound'["relay"] = inbound["relay"] /\ inbound'["sibling"] = inbound["sibling"]
    BY Zenon, <1>3, <2>1 DEF Sources
  <2>10. /\ paid' \in {0, 1} /\ One(outbound', "pay") /\ None(outbound', "pay")
         /\ None(inbound'["relay"], "response") /\ None(inbound'["sibling"], "response")
    BY Zenon, <1>1, <2>5, <2>9 DEF PaymentInv
  <2> QED BY Zenon, <1>1, <2>5, <2>3, <2>6, <2>7, <2>8, <2>10 DEF PaymentInv, Waiting
<1> QED BY Zenon, <1>1, <1>5, <1>6

LEMMA HubPayment ==
  ASSUME PaymentInv, QueuesInv', HubProcess
  PROVE  PaymentInv'
<1> DEFINE m == Head(outbound)
           hub == inbound["hub"]
<1>1. outbound # <<>> /\ outbound' = Tail(outbound) /\ spend' = spend
  BY Zenon DEF HubProcess
<1>2. /\ outbound \in Seq(Outgoing) /\ DOMAIN inbound = Sources
      /\ hub \in Seq(Incoming("hub"))
  BY DEF PaymentInv, QueuesInv, Sources
<1>3. /\ None(outbound, "pay") => None(outbound', "pay") /\ m.kind # "pay"
      /\ One(outbound, "pay") => One(outbound', "pay")
      /\ One(outbound, "pay") /\ m.kind = "pay" => None(outbound', "pay")
  BY Zenon, <1>1, <1>2, TailKinds
<1>4. \/ inbound' = inbound /\ paid' = paid
      \/ /\ m.kind = "pay"
         /\ \E result \in {"success", "failure"}, answers \in BOOLEAN :
              /\ paid' = IF result = "success" THEN paid + 1 ELSE paid
              /\ inbound' = IF answers
                            THEN [inbound EXCEPT !["hub"] = Append(@, Response(result))]
                            ELSE inbound
  BY DEF HubProcess
<1>5. CASE inbound' = inbound /\ paid' = paid
  <2> HIDE DEF m
  <2> QED BY Zenon, <1>1, <1>3, <1>5, OtherPayments
<1>6. ASSUME m.kind = "pay", NEW result \in {"success", "failure"}, NEW answers \in BOOLEAN,
             paid' = IF result = "success" THEN paid + 1 ELSE paid,
             inbound' = IF answers
                        THEN [inbound EXCEPT !["hub"] = Append(@, Response(result))]
                        ELSE inbound
      PROVE  PaymentInv'
  <2> HIDE DEF m
  <2>1. /\ paid = 0 /\ None(hub, "response") /\ spend.query = "pending"
        /\ ~(spend.state \in {"pending", "failed"})
        /\ None(outbound', "pay") /\ One(outbound', "pay")
    BY <1>3, <1>6 DEF PaymentInv, Waiting
  <2>2. paid' \in {0, 1} /\ (result = "failure" => paid' = 0)
    BY <1>6, <2>1
  <2>3. Absent(hub, Response("failure")) /\ One(hub, "response")
    BY <2>1 DEF None, Absent, One, Response
  <2>4. inbound'["relay"] = inbound["relay"] /\ inbound'["sibling"] = inbound["sibling"]
    BY Zenon, <1>2, <1>6 DEF Sources
  <2>5. inbound'["hub"] = IF answers THEN Append(hub, Response(result)) ELSE hub
    BY Zenon, <1>2, <1>6 DEF Sources
  <2>6. /\ One(Append(hub, Response(result)), "response")
        /\ result # "failure" => Absent(Append(hub, Response(result)), Response("failure"))
    <3>1. Response(result) \in Incoming("hub")
      BY DEF Incoming, Answers
    <3>2. result # "failure" => Response(result) # Response("failure")
      <4>1. Response(result).result = result /\ Response("failure").result = "failure"
        BY DEF Response
      <4> QED BY Zenon, <4>1
    <3> QED BY <1>2, <2>1, <2>3, <3>1, <3>2, AppendKinds
  <2>7. One(inbound'["hub"], "response")
    BY Zenon, <2>3, <2>5, <2>6
  <2>8. ~Absent(inbound'["hub"], Response("failure")) => paid' = 0
    BY Zenon, <2>1, <2>2, <2>3, <2>5, <2>6, <1>6
  <2> QED BY Zenon, <1>1, <2>1, <2>2, <2>4, <2>7, <2>8 DEF PaymentInv, Waiting
<1> QED BY Zenon, <1>4, <1>5, <1>6

\* A payout is only attempted again after a failure that Asset Hub reported.
LEMMA PayoutPayment ==
  ASSUME PaymentInv, QueuesInv', payout
  PROVE  PaymentInv'
<1>1. /\ spend.state \in {"pending", "failed"} /\ inbound' = inbound /\ paid' = paid
      /\ spend' = [state |-> "attempted", query |-> "pending"]
      /\ outbound' = Append(outbound, [kind |-> "pay"])
  BY DEF payout
<1>2. spend.query = "none" /\ paid = 0 /\ None(outbound, "pay") /\ None(inbound["hub"], "response")
  BY Zenon, <1>1 DEF PaymentInv, Waiting
<1>3. One(outbound', "pay")
  <2>1. [kind |-> "pay"] \in Outgoing
    BY DEF Outgoing
  <2> QED BY Zenon, <1>1, <1>2, <2>1, AppendKinds DEF PaymentInv, QueuesInv
<1>4. /\ spend'.state = "attempted" /\ spend'.query = "pending"
      /\ spend' \in [state : {"pending", "attempted", "failed", "processed"},
                    query : {"none", "pending", "success", "failure"}]
  BY <1>1
<1> QED BY Zenon, <1>1, <1>2, <1>3, <1>4 DEF PaymentInv, Waiting

LEMMA PaymentStep ==
  ASSUME AnswersGenuine, Withdrawals \subseteq Nat, PaymentInv, [XcmNext]_xcmVars
  PROVE  PaymentInv'
<1>0. QueuesInv'
  BY QueuesStep DEF PaymentInv
<1>1. ASSUME NEW s \in Sources, NEW m \in Inbound[s], Arrive(s, m)
      PROVE  PaymentInv'
  <2>1. /\ inbound' = [inbound EXCEPT ![s] = Append(@, m)] /\ outbound' = outbound
        /\ spend' = spend /\ paid' = paid
    BY Zenon, <1>1 DEF Arrive
  <2>2. m.kind # "response" /\ m # Response("failure") /\ m \in Incoming(s)
    BY <1>1 DEF AnswersGenuine, Response, Incoming
  <2>3. inbound[s] \in Seq(Incoming(s)) /\ DOMAIN inbound = Sources
    BY DEF PaymentInv, QueuesInv
  <2>4. /\ inbound'[s] = Append(inbound[s], m)
        /\ \A z \in Sources : z # s => inbound'[z] = inbound[z]
    BY Zenon, <2>1, <2>3
  <2>5. LET a == Append(inbound[s], m)
        IN  /\ None(inbound[s], "response") => None(a, "response")
            /\ One(inbound[s], "response") => One(a, "response")
            /\ \A x : Absent(inbound[s], x) /\ m # x => Absent(a, x)
    BY <2>2, <2>3, AppendKinds
  <2>6. /\ \A z \in Sources : None(inbound[z], "response") => None(inbound'[z], "response")
        /\ One(inbound["hub"], "response") => One(inbound'["hub"], "response")
        /\ Absent(inbound["hub"], Response("failure"))
              => Absent(inbound'["hub"], Response("failure"))
    BY Zenon, <2>2, <2>4, <2>5 DEF Sources
  <2> QED BY Zenon, <1>0, <2>1, <2>6, OtherPayments
<1>2. ASSUME NEW u, NEW a \in AssetIds, NEW n \in Withdrawals,
             reserve_transfer_assets(u, a, n)
      PROVE  PaymentInv'
  <2>1. /\ inbound' = inbound /\ spend' = spend /\ paid' = paid
        /\ \E m \in Outgoing : m.kind # "pay" /\ outbound' = Append(outbound, m)
    <3>1. [kind |-> "withdraw", asset |-> convert_back(a), amount |-> n] \in Outgoing
      <4>1. n \in Nat
        BY Zenon
      <4> QED BY Zenon, <4>1, Converted, WithdrawalKind
    <3>2. [kind |-> "withdraw", asset |-> convert_back(a), amount |-> n].kind # "pay"
      OBVIOUS
    <3> QED BY Zenon, <1>2, <3>1, <3>2 DEF reserve_transfer_assets
  <2>2. /\ None(outbound, "pay") => None(outbound', "pay")
        /\ One(outbound, "pay") => One(outbound', "pay")
    BY <2>1, AppendKinds DEF PaymentInv, QueuesInv
  <2> QED BY Zenon, <1>0, <2>1, <2>2, OtherPayments
<1>3. ASSUME NEW u \in Users, send(u)
      PROVE  PaymentInv'
  <2>1. /\ inbound' = inbound /\ spend' = spend /\ paid' = paid
        /\ outbound' = Append(outbound, [kind |-> "sent", by |-> u])
    BY <1>3 DEF send
  <2>2. [kind |-> "sent", by |-> u] \in Outgoing /\ [kind |-> "sent", by |-> u].kind # "pay"
    BY Zenon DEF Outgoing
  <2>3. /\ None(outbound, "pay") => None(outbound', "pay")
        /\ One(outbound, "pay") => One(outbound', "pay")
    BY <2>1, <2>2, AppendKinds DEF PaymentInv, QueuesInv
  <2> QED BY Zenon, <1>0, <2>1, <2>3, OtherPayments
<1>4. CASE check_status
  <2>1. /\ spend.state = "attempted" /\ spend.query \in {"success", "failure"}
        /\ spend' = [state |-> IF spend.query = "success" THEN "processed" ELSE "failed",
                     query |-> "none"]
        /\ inbound' = inbound /\ outbound' = outbound /\ paid' = paid
    BY <1>4 DEF check_status
  <2>2. /\ spend'.state \in {"processed", "failed"} /\ spend'.query = "none"
        /\ spend'.state = "failed" => spend.query = "failure"
        /\ spend' \in [state : {"pending", "attempted", "failed", "processed"},
                      query : {"none", "pending", "success", "failure"}]
    BY <2>1
  <2>3. spend.query # "pending"
    BY <2>1
  <2> QED BY Zenon, <1>0, <2>1, <2>2, <2>3 DEF PaymentInv, Waiting
<1>5. CASE UNCHANGED xcmVars
  BY <1>0, <1>5, OtherPayments DEF xcmVars
<1> QED
  BY Zenon, <1>0, <1>1, <1>2, <1>3, <1>4, <1>5, ProcessPayment, HubPayment, PayoutPayment
     DEF XcmNext

\* The treasury's spend through PayOverXcm: whatever fails, gets lost or is
\* retried, Asset Hub pays it at most once.
THEOREM SpendPaidOnce ==
  ASSUME AnswersGenuine, Withdrawals \subseteq Nat
  PROVE  XcmSpec => []PaidOnce
<1>1. XcmInit => PaymentInv
  <2> SUFFICES ASSUME XcmInit PROVE PaymentInv
    OBVIOUS
  <2>1. /\ inbound = [s \in Sources |-> <<>>] /\ outbound = <<>> /\ paid = 0
        /\ spend = [state |-> "pending", query |-> "none"]
    BY DEF XcmInit
  <2>2. QueuesInv
    BY <2>1 DEF QueuesInv
  <2>3. \A s \in Sources : inbound[s] = <<>>
    BY <2>1
  <2> QED BY Zenon, <2>1, <2>2, <2>3, EmptyKinds DEF PaymentInv, Waiting, Sources
<1>2. PaymentInv => PaidOnce
  BY DEF PaymentInv, PaidOnce
<1> QED BY <1>1, <1>2, PaymentStep, PTL DEF XcmSpec

-----------------------------------------------------------------------------
(***************************************************************************)
(* The assets.                                                             *)
(***************************************************************************)

LEMMA XcmSum ==
  ASSUME NEW f, NEW S
  PROVE  SumFunctionOnSet(f, S) = SumFunctionOnSet(f, S)
BY DEF SumFunctionOnSet, FoldFunctionOnSet, MapThenFoldSet,
       SumFunctionOnSet, FoldFunctionOnSet, MapThenFoldSet

\* The last and the first of n + 1 summands.
LEMMA SumLast ==
  ASSUME NEW n \in Nat, NEW f, \A i \in 1 .. n + 1 : f[i] \in Int
  PROVE  SumFunctionOnSet(f, 1 .. n + 1) = f[n + 1] + SumFunctionOnSet(f, 1 .. n)
<1>1. IsFiniteSet(1 .. n + 1)
  BY FS_Interval
<1>2. n + 1 \in 1 .. n + 1 /\ (1 .. n + 1) \ {n + 1} = 1 .. n
  OBVIOUS
<1>3. SumFunctionOnSet(f, 1 .. n + 1)
        = f[n + 1] + SumFunctionOnSet(f, (1 .. n + 1) \ {n + 1})
  BY Zenon, <1>1, <1>2, SumRemove
<1> QED BY Zenon, <1>2, <1>3

LEMMA SumFirst ==
  ASSUME NEW N \in Nat, NEW f, NEW g, \A i \in 1 .. N + 1 : f[i] \in Int,
         \A i \in 1 .. N : g[i] = f[i + 1]
  PROVE  SumFunctionOnSet(f, 1 .. N + 1) = f[1] + SumFunctionOnSet(g, 1 .. N)
<1> DEFINE F(n) == SumFunctionOnSet(f, 1 .. n)
           G(n) == SumFunctionOnSet(g, 1 .. n)
           Good == {n \in Nat : n <= N => F(n + 1) = f[1] + G(n)}
<1>1. F(0) = 0 /\ G(0) = 0
  <2>1. 1 .. 0 = {}
    OBVIOUS
  <2>2. SumFunctionOnSet(f, {}) = 0 /\ SumFunctionOnSet(g, {}) = 0
    BY Zenon, SumEquation, FS_EmptySet
  <2> QED BY Zenon, <2>1, <2>2
<1>2. ASSUME NEW n \in Nat, n <= N PROVE F(n + 1) = f[n + 1] + F(n) /\ F(n) \in Int
  <2>1. \A i \in 1 .. n + 1 : f[i] \in Int
    BY <1>2
  <2>2. \A i \in 1 .. n : f[i] \in Int
    BY <1>2
  <2>3. F(n) \in Int
    <3>1. IsFiniteSet(1 .. n) /\ 1 .. n \in SUBSET (1 .. n)
      BY FS_Interval
    <3> QED BY Zenon, <2>2, <3>1, SumType
  <2> QED BY Zenon, <2>1, <2>3, SumLast
<1>3. ASSUME NEW n \in Nat, n + 1 <= N PROVE G(n + 1) = f[n + 2] + G(n) /\ G(n) \in Int
  <2>1. \A i \in 1 .. n + 1 : g[i] \in Int
    BY <1>3
  <2>2. \A i \in 1 .. n : g[i] \in Int
    BY <1>3
  <2>3. G(n) \in Int
    <3>1. IsFiniteSet(1 .. n) /\ 1 .. n \in SUBSET (1 .. n)
      BY FS_Interval
    <3> QED BY Zenon, <2>2, <3>1, SumType
  <2>4. g[n + 1] = f[n + 2]
    BY <1>3
  <2> QED BY Zenon, <2>1, <2>3, <2>4, SumLast
<1> HIDE DEF F, G
<1>4. 0 \in Good
  <2>1. f[1] \in Int
    OBVIOUS
  <2>2. F(0 + 1) = f[0 + 1] + F(0)
    BY <1>2
  <2> QED BY <1>1, <2>1, <2>2
<1>5. ASSUME NEW n \in Nat, n \in Good PROVE n + 1 \in Good
  <2>1. SUFFICES ASSUME n + 1 <= N PROVE F((n + 1) + 1) = f[1] + G(n + 1)
    OBVIOUS
  <2>2. F(n + 1) = f[1] + G(n)
    BY <1>5, <2>1
  <2>3. F((n + 1) + 1) = f[(n + 1) + 1] + F(n + 1)
    BY <1>2, <2>1
  <2>4. f[(n + 1) + 1] = f[n + 2] /\ f[1] \in Int /\ f[n + 2] \in Int
    BY <2>1
  <2> QED BY <1>3, <2>1, <2>2, <2>3, <2>4
<1>6. N \in Good
  <2> HIDE DEF Good
  <2> QED BY Zenon, <1>4, <1>5, NatSetInduction
<1> QED BY <1>6 DEF F, G

\* What a message adds to the amounts in transit.
Weight(m, k, l) == IF m.kind = k /\ m.asset = l THEN m.amount ELSE 0

LEMMA TransitIs ==
  ASSUME NEW S, NEW q \in Seq(S), NEW k, NEW l
  PROVE  InTransit(q, k, l)
           = SumFunctionOnSet([i \in 1 .. Len(q) |-> Weight(q[i], k, l)], 1 .. Len(q))
<1> DEFINE w == [i \in DOMAIN q |-> Weight(q[i], k, l)]
<1>1. InTransit(q, k, l) = SumFunctionOnSet(w, DOMAIN w)
  BY Zenon, XcmSum DEF InTransit, SumFunction, Weight
<1>2. DOMAIN w = 1 .. Len(q) /\ DOMAIN q = 1 .. Len(q)
  BY LenProperties
<1> QED BY Zenon, <1>1, <1>2

LEMMA AppendTransit ==
  ASSUME NEW S, NEW q \in Seq(S), NEW m \in S, NEW k, NEW l,
         \A x \in S : Weight(x, k, l) \in Nat
  PROVE  /\ InTransit(Append(q, m), k, l) = Weight(m, k, l) + InTransit(q, k, l)
         /\ InTransit(q, k, l) \in Nat
<1> DEFINE n == Len(q)
           a == Append(q, m)
           f == [i \in 1 .. Len(a) |-> Weight(a[i], k, l)]
           g == [i \in 1 .. n |-> Weight(q[i], k, l)]
<1>1. /\ a \in Seq(S) /\ Len(a) = n + 1 /\ n \in Nat
      /\ \A i \in 1 .. n : a[i] = q[i] /\ q[i] \in S
      /\ a[n + 1] = m
  BY AppendProperties, LenProperties, ElementOfSeq
<1> HIDE DEF a, n
<1>2. \A i \in 1 .. n : f[i] = g[i] /\ g[i] \in Nat
  BY <1>1
<1>3. f[n + 1] = Weight(m, k, l)
  BY <1>1
<1>4. \A i \in 1 .. n + 1 : f[i] \in Int
  <2>1. \A i \in 1 .. n + 1 : i \in 1 .. n \/ i = n + 1
    BY <1>1
  <2>2. Weight(m, k, l) \in Int /\ \A i \in 1 .. n : g[i] \in Int
    <3> HIDE DEF f, g
    <3> QED BY <1>2
  <2> HIDE DEF f, g
  <2> QED BY Zenon, <1>2, <1>3, <2>1, <2>2
<1>5. InTransit(a, k, l) = SumFunctionOnSet(f, 1 .. n + 1)
  BY Zenon, <1>1, TransitIs
<1>6. InTransit(q, k, l) = SumFunctionOnSet(g, 1 .. n)
  BY Zenon, TransitIs DEF n
<1> HIDE DEF f, g
<1>7. SumFunctionOnSet(f, 1 .. n + 1) = f[n + 1] + SumFunctionOnSet(f, 1 .. n)
  BY Zenon, <1>1, <1>4, SumLast
<1>8. /\ SumFunctionOnSet(f, 1 .. n) = SumFunctionOnSet(g, 1 .. n)
      /\ SumFunctionOnSet(g, 1 .. n) \in Nat
  <2>1. IsFiniteSet(1 .. n)
    BY <1>1, FS_Interval
  <2> QED BY Zenon, <1>2, <2>1, SumSame, SumNat
<1>9. InTransit(a, k, l) = Weight(m, k, l) + InTransit(q, k, l)
  BY Zenon, <1>3, <1>5, <1>6, <1>7, <1>8
<1> QED BY Zenon, <1>6, <1>8, <1>9 DEF a

LEMMA TailTransit ==
  ASSUME NEW S, NEW q \in Seq(S), q # <<>>, NEW k, NEW l,
         \A x \in S : Weight(x, k, l) \in Nat
  PROVE  InTransit(q, k, l) = Weight(Head(q), k, l) + InTransit(Tail(q), k, l)
<1> DEFINE t == Tail(q)
           n == Len(t)
           f == [i \in 1 .. Len(q) |-> Weight(q[i], k, l)]
           g == [i \in 1 .. n |-> Weight(t[i], k, l)]
<1>1. /\ t \in Seq(S) /\ Len(q) = n + 1 /\ n \in Nat
      /\ \A i \in 1 .. n : t[i] = q[i + 1]
      /\ \A i \in 1 .. Len(q) : q[i] \in S
      /\ Head(q) = q[1]
  BY HeadTailProperties, LenProperties, ElementOfSeq, EmptySeq
<1>2. InTransit(t, k, l) = SumFunctionOnSet(g, 1 .. n)
  BY Zenon, <1>1, TransitIs
<1> HIDE DEF t, n
<1>3. InTransit(q, k, l) = SumFunctionOnSet(f, 1 .. n + 1)
  BY Zenon, <1>1, TransitIs
<1>4. \A i \in 1 .. n + 1 : f[i] \in Int
  BY <1>1
<1>5. \A i \in 1 .. n : g[i] = f[i + 1]
  BY <1>1
<1>6. f[1] = Weight(Head(q), k, l)
  BY <1>1
<1> HIDE DEF f, g
<1>7. SumFunctionOnSet(f, 1 .. n + 1) = f[1] + SumFunctionOnSet(g, 1 .. n)
  BY Zenon, <1>1, <1>4, <1>5, SumFirst
<1>8. InTransit(q, k, l) = Weight(Head(q), k, l) + InTransit(t, k, l)
  BY Zenon, <1>2, <1>3, <1>6, <1>7
<1> QED BY Zenon, <1>8 DEF t

LEMMA EmptyTransit ==
  ASSUME NEW k, NEW l
  PROVE  InTransit(<<>>, k, l) = 0
<1> DEFINE e == <<>>
           w == [i \in 1 .. Len(e) |-> Weight(e[i], k, l)]
<1>1. e \in Seq({}) /\ 1 .. Len(e) = {}
  OBVIOUS
<1> HIDE DEF e
<1>2. InTransit(e, k, l) = SumFunctionOnSet(w, 1 .. Len(e))
  BY Zenon, <1>1, TransitIs
<1>3. SumFunctionOnSet(w, {}) = 0
  BY Zenon, SumEquation, FS_EmptySet
<1> QED BY Zenon, <1>1, <1>2, <1>3 DEF e

\* A change of one summand.
LEMMA SumChange ==
  ASSUME NEW S, IsFiniteSet(S), NEW f, NEW g, NEW x \in S,
         \A y \in S : f[y] \in Int /\ g[y] \in Int,
         \A y \in S : y # x => g[y] = f[y]
  PROVE  SumFunctionOnSet(g, S) = (SumFunctionOnSet(f, S) - f[x]) + g[x]
<1> DEFINE R == S \ {x}
<1>1. IsFiniteSet(R) /\ R \in SUBSET S
  BY FS_Subset
<1>2. \A y \in R : f[y] = g[y]
  OBVIOUS
<1>3. /\ SumFunctionOnSet(f, S) = f[x] + SumFunctionOnSet(f, R)
      /\ SumFunctionOnSet(g, S) = g[x] + SumFunctionOnSet(g, R)
  BY Zenon, SumRemove
<1>4. SumFunctionOnSet(f, R) \in Int
  BY Zenon, <1>1, SumType
<1> HIDE DEF R
<1>5. SumFunctionOnSet(f, R) = SumFunctionOnSet(g, R)
  BY Zenon, <1>1, <1>2, SumSame
<1>6. f[x] \in Int /\ g[x] \in Int
  OBVIOUS
<1> QED BY <1>3, <1>4, <1>5, <1>6

\* Deposits of the two assets come from Asset Hub, for one of the accounts,
\* and pay for their execution or need not.
DepositsGenuine ==
    \A s \in Sources : \A m \in Inbound[s] :
        m.kind = "deposit" =>
            /\ m.amount \in Nat /\ m.to \in Accounts
            /\ s = "hub" <=> m.origin = "AssetHub"
            /\ s = "hub" => m.pay \in {"bought", "unpaid"}

XcmInputs ==
    /\ MinBalance \in Nat \ {0} /\ GenesisIssue \in Nat /\ Withdrawals \subseteq Nat
    /\ IsFiniteSet(Users)
    /\ DepositsGenuine

\* What this chain's ledger, fees and trap hold of an asset, and what is on
\* its way in each direction.
Local(a) == SumFunctionOnSet(held[a], Accounts) + trapped[a] + lost[a]
Entering(l) == InTransit(inbound["hub"], "deposit", l)
Leaving(l) == InTransit(outbound, "withdraw", l)

LedgerInv ==
    /\ held \in [AssetIds -> [Accounts -> Nat]]
    /\ trapped \in [AssetIds -> Nat] /\ lost \in [AssetIds -> Nat]

\* The inductive invariant of the assets.
BackingInv ==
    /\ QueuesInv
    /\ LedgerInv
    /\ reserve \in [Locations -> Nat] /\ short \in [Locations -> Nat]
    /\ \A l \in Locations :
         Local(convert(l)) + short[l] + Entering(l) + Leaving(l) = reserve[l] + GenesisIssue

LEMMA AccountsFinite ==
  ASSUME XcmInputs
  PROVE  IsFiniteSet(Accounts)
<1>1. IsFiniteSet(Users)
  BY DEF XcmInputs
<1> QED BY Zenon, <1>1, FS_AddElement DEF Accounts

\* The weights of messages are amounts.
LEMMA WeightsNat ==
  ASSUME XcmInputs, NEW l
  PROVE  /\ \A m \in Incoming("hub") : Weight(m, "deposit", l) \in Nat
         /\ \A m \in Outgoing : Weight(m, "withdraw", l) \in Nat
<1>1. ASSUME NEW m \in Incoming("hub") PROVE Weight(m, "deposit", l) \in Nat
  <2>1. m.kind = "deposit" => m \in Inbound["hub"]
    BY DEF Incoming, Answers, Response
  <2> QED BY Zenon, <2>1 DEF Weight, XcmInputs, DepositsGenuine, Sources
<1>2. ASSUME NEW m \in Outgoing PROVE Weight(m, "withdraw", l) \in Nat
  BY DEF Outgoing, Weight
<1> QED BY <1>1, <1>2

\* A message joins or leaves one of the two queues that carry assets.
LEMMA HubArrival ==
  ASSUME XcmInputs, NEW q \in Seq(Incoming("hub")), NEW m \in Incoming("hub"), NEW l
  PROVE  InTransit(Append(q, m), "deposit", l)
           = Weight(m, "deposit", l) + InTransit(q, "deposit", l)
<1>1. \A x \in Incoming("hub") : Weight(x, "deposit", l) \in Nat
  BY Zenon, WeightsNat
<1> QED BY <1>1, AppendTransit

LEMMA HubDeparture ==
  ASSUME XcmInputs, NEW q \in Seq(Outgoing), q # <<>>, NEW l
  PROVE  InTransit(q, "withdraw", l)
           = Weight(Head(q), "withdraw", l) + InTransit(Tail(q), "withdraw", l)
<1>1. \A x \in Outgoing : Weight(x, "withdraw", l) \in Nat
  BY Zenon, WeightsNat
<1> QED BY <1>1, TailTransit

\* All the terms of the balance are natural numbers.
LEMMA LocalNat ==
  ASSUME XcmInputs, LedgerInv, NEW a \in AssetIds
  PROVE  /\ SumFunctionOnSet(held[a], Accounts) \in Nat /\ Local(a) \in Nat
         /\ trapped[a] \in Nat /\ lost[a] \in Nat
<1>1. \A u \in Accounts : held[a][u] \in Nat
  BY DEF LedgerInv
<1>2. SumFunctionOnSet(held[a], Accounts) \in Nat
  BY Zenon, <1>1, AccountsFinite, SumNat
<1>3. trapped[a] \in Nat /\ lost[a] \in Nat
  BY DEF LedgerInv
<1> QED BY <1>2, <1>3 DEF Local

LEMMA TransitNat ==
  ASSUME XcmInputs, QueuesInv, NEW l
  PROVE  Entering(l) \in Nat /\ Leaving(l) \in Nat
<1>1. inbound["hub"] \in Seq(Incoming("hub")) /\ outbound \in Seq(Outgoing)
  BY DEF QueuesInv, Sources
<1>2. Response("success") \in Incoming("hub") /\ [kind |-> "pay"] \in Outgoing
  BY DEF Incoming, Answers, Outgoing
<1> QED BY Zenon, <1>1, <1>2, WeightsNat, AppendTransit DEF Entering, Leaving

\* A change of one account's balance of one asset.
LEMMA HeldChange ==
  ASSUME XcmInputs, LedgerInv, NEW a \in AssetIds, NEW u \in Accounts, NEW v \in Nat,
         held' = [held EXCEPT ![a][u] = v]
  PROVE  /\ held' \in [AssetIds -> [Accounts -> Nat]]
         /\ \A b \in AssetIds : b # a => held'[b] = held[b]
         /\ SumFunctionOnSet(held'[a], Accounts)
              = (SumFunctionOnSet(held[a], Accounts) - held[a][u]) + v
<1>1. /\ held' \in [AssetIds -> [Accounts -> Nat]]
      /\ \A b \in AssetIds : b # a => held'[b] = held[b]
  BY DEF LedgerInv
<1>2. /\ \A y \in Accounts : held[a][y] \in Int /\ held'[a][y] \in Int
      /\ \A y \in Accounts : y # u => held'[a][y] = held[a][y]
      /\ held'[a][u] = v
  BY DEF LedgerInv
<1>3. SumFunctionOnSet(held'[a], Accounts)
        = (SumFunctionOnSet(held[a], Accounts) - held[a][u]) + held'[a][u]
  <2> DEFINE f == held[a]
             g == held'[a]
  <2> HIDE DEF f, g
  <2>1. IsFiniteSet(Accounts)
    BY AccountsFinite
  <2>2. /\ \A y \in Accounts : f[y] \in Int /\ g[y] \in Int
        /\ \A y \in Accounts : y # u => g[y] = f[y]
    BY <1>2 DEF f, g
  <2>3. SumFunctionOnSet(g, Accounts) = (SumFunctionOnSet(f, Accounts) - f[u]) + g[u]
    BY <2>1, <2>2, SumChange
  <2> QED BY <2>3 DEF f, g
<1> QED BY Zenon, <1>1, <1>2, <1>3

\* Whatever the fee and the minimum balance make of a deposit, what enters is
\* held, trapped or taken.
LEMMA DepositBacked ==
  ASSUME XcmInputs, LedgerInv, NEW m, m.asset \in Locations, m.amount \in Nat,
         m.to \in Accounts, DepositAsset(m)
  PROVE  /\ LedgerInv'
         /\ Local(convert(m.asset))' = Local(convert(m.asset)) + m.amount
         /\ \A b \in AssetIds : b # convert(m.asset) => Local(b)' = Local(b)
<1> DEFINE a == convert(m.asset)
           fee == IF m.pay = "bought" THEN Fee ELSE 0
           rest == m.amount - fee
           sum == SumFunctionOnSet(held[a], Accounts)
<1>1. a \in AssetIds
  BY Converted
<1>2. fee \in Nat
  BY DEF Fee, UnitWeight
<1>3. /\ sum \in Nat /\ trapped[a] \in Nat /\ lost[a] \in Nat
      /\ held[a][m.to] \in Nat
  BY Zenon, <1>1, LocalNat DEF LedgerInv
<1>4. \/ /\ rest < 0 /\ held' = held /\ lost' = lost
         /\ trapped' = [trapped EXCEPT ![a] = @ + m.amount]
      \/ /\ ~(rest < 0) /\ held' = held /\ lost' = [lost EXCEPT ![a] = @ + fee]
         /\ trapped' = [trapped EXCEPT ![a] = @ + rest]
      \/ /\ ~(rest < 0) /\ held' = [held EXCEPT ![a][m.to] = @ + rest]
         /\ lost' = [lost EXCEPT ![a] = @ + fee] /\ trapped' = trapped
  BY DEF DepositAsset, Trapped
<1> HIDE DEF a, fee
<1>5. rest \in Int /\ fee + rest = m.amount /\ (~(rest < 0) => rest \in Nat)
  BY <1>2
<1> HIDE DEF rest
<1>6. CASE /\ rest < 0 /\ held' = held /\ lost' = lost
           /\ trapped' = [trapped EXCEPT ![a] = @ + m.amount]
  <2>1. trapped' \in [AssetIds -> Nat] /\ trapped'[a] = trapped[a] + m.amount
        /\ \A b \in AssetIds : b # a => trapped'[b] = trapped[b]
    BY <1>1, <1>6 DEF LedgerInv
  <2>2. Local(a)' = Local(a) + m.amount
    BY <1>3, <1>6, <2>1 DEF Local
  <2>3. \A b \in AssetIds : b # a => Local(b)' = Local(b)
    BY Zenon, <1>6, <2>1 DEF Local
  <2>4. LedgerInv'
    BY Zenon, <1>6, <2>1 DEF LedgerInv
  <2> QED BY Zenon, <2>2, <2>3, <2>4 DEF a
<1>7. CASE /\ ~(rest < 0) /\ held' = held /\ lost' = [lost EXCEPT ![a] = @ + fee]
           /\ trapped' = [trapped EXCEPT ![a] = @ + rest]
  <2>1. /\ trapped' \in [AssetIds -> Nat] /\ trapped'[a] = trapped[a] + rest
        /\ \A b \in AssetIds : b # a => trapped'[b] = trapped[b]
    BY <1>1, <1>5, <1>7 DEF LedgerInv
  <2>2. /\ lost' \in [AssetIds -> Nat] /\ lost'[a] = lost[a] + fee
        /\ \A b \in AssetIds : b # a => lost'[b] = lost[b]
    BY <1>1, <1>2, <1>7 DEF LedgerInv
  <2>3. Local(a)' = Local(a) + m.amount
    <3>1. Local(a)' = sum + trapped'[a] + lost'[a] /\ Local(a) = sum + trapped[a] + lost[a]
      BY Zenon, <1>7 DEF Local
    <3> HIDE DEF sum
    <3> QED BY <1>2, <1>3, <1>5, <2>1, <2>2, <3>1
  <2>4. \A b \in AssetIds : b # a => Local(b)' = Local(b)
    BY Zenon, <1>7, <2>1, <2>2 DEF Local
  <2>5. LedgerInv'
    BY Zenon, <1>7, <2>1, <2>2 DEF LedgerInv
  <2> QED BY <2>3, <2>4, <2>5 DEF a
<1>8. CASE /\ ~(rest < 0) /\ held' = [held EXCEPT ![a][m.to] = @ + rest]
           /\ lost' = [lost EXCEPT ![a] = @ + fee] /\ trapped' = trapped
  <2> DEFINE v == held[a][m.to] + rest
  <2>1. v \in Nat /\ held' = [held EXCEPT ![a][m.to] = v]
    BY <1>1, <1>3, <1>5, <1>8 DEF LedgerInv
  <2> HIDE DEF v
  <2>2. /\ held' \in [AssetIds -> [Accounts -> Nat]]
        /\ \A b \in AssetIds : b # a => held'[b] = held[b]
        /\ SumFunctionOnSet(held'[a], Accounts) = (sum - held[a][m.to]) + v
    BY Zenon, <1>1, <2>1, HeldChange
  <2>3. /\ lost' \in [AssetIds -> Nat] /\ lost'[a] = lost[a] + fee
        /\ \A b \in AssetIds : b # a => lost'[b] = lost[b]
    BY <1>1, <1>2, <1>8 DEF LedgerInv
  <2>4. Local(a)' = Local(a) + m.amount
    <3>1. /\ Local(a)' = SumFunctionOnSet(held'[a], Accounts) + trapped[a] + lost'[a]
          /\ Local(a) = sum + trapped[a] + lost[a]
      BY Zenon, <1>8 DEF Local
    <3>2. SumFunctionOnSet(held'[a], Accounts) = sum + rest
      <4> HIDE DEF sum
      <4> QED BY <1>3, <1>5, <2>2 DEF v
    <3> HIDE DEF sum
    <3> QED BY <1>2, <1>3, <1>5, <2>3, <3>1, <3>2
  <2>5. \A b \in AssetIds : b # a => Local(b)' = Local(b)
    BY Zenon, <1>8, <2>2, <2>3 DEF Local
  <2>6. LedgerInv'
    BY Zenon, <1>8, <2>2, <2>3 DEF LedgerInv
  <2> QED BY <2>4, <2>5, <2>6 DEF a
<1> QED BY Zenon, <1>4, <1>6, <1>7, <1>8

\* The terms of the balance are natural numbers.
LEMMA Terms ==
  ASSUME XcmInputs, BackingInv, NEW l \in Locations
  PROVE  /\ Local(convert(l)) \in Nat /\ short[l] \in Nat /\ reserve[l] \in Nat
         /\ Entering(l) \in Nat /\ Leaving(l) \in Nat /\ GenesisIssue \in Nat
         /\ Local(convert(l)) + short[l] + Entering(l) + Leaving(l)
              = reserve[l] + GenesisIssue
<1>1. convert(l) \in AssetIds
  BY Converted
<1>2. Local(convert(l)) \in Nat
  BY Zenon, <1>1, LocalNat DEF BackingInv
<1>3. Entering(l) \in Nat /\ Leaving(l) \in Nat
  BY Zenon, TransitNat DEF BackingInv
<1> QED BY Zenon, <1>2, <1>3 DEF BackingInv, XcmInputs

\* A message is handed to the executor.
LEMMA ProcessBacked ==
  ASSUME XcmInputs, BackingInv, QueuesInv', NEW s \in Sources, Process(s)
  PROVE  BackingInv'
<1>0. PICK q, m : q = inbound[s] /\ m = Head(inbound[s])
  OBVIOUS
<1> DEFINE d == /\ m.kind = "deposit" /\ Barrier(m) /\ Reserves(m.asset, m.origin)
                /\ m.asset # RelayLocation
<1>1. /\ q # <<>> /\ inbound' = [inbound EXCEPT ![s] = Tail(@)]
      /\ outbound' = outbound /\ reserve' = reserve /\ short' = short
      /\ IF d THEN DepositAsset(m) ELSE UNCHANGED <<held, trapped, lost>>
  BY <1>0 DEF Process, Execute, Ignored, Deposit
<1>2. q \in Seq(Incoming(s)) /\ DOMAIN inbound = Sources /\ m = Head(q)
  BY Zenon, <1>0 DEF BackingInv, QueuesInv
<1>3. inbound'[s] = Tail(q) /\ \A z \in Sources : z # s => inbound'[z] = inbound[z]
  BY Zenon, <1>0, <1>1, <1>2
<1>4. m \in Incoming(s)
  BY Zenon, <1>1, <1>2, TailKinds
<1>5. m.kind = "deposit" => m \in Inbound[s]
  BY <1>4 DEF Incoming, Answers, Response
<1>6. m.kind = "deposit" =>
        /\ m.amount \in Nat /\ m.to \in Accounts
        /\ s = "hub" <=> m.origin = "AssetHub"
        /\ s = "hub" => m.pay \in {"bought", "unpaid"}
  BY Zenon, <1>5 DEF XcmInputs, DepositsGenuine
<1>7. d <=> s = "hub" /\ m.kind = "deposit" /\ m.asset \in Locations
  <2>1. \A l : l \in Locations <=> SupportedAssets(l)
    BY Converted
  <2>2. d => s = "hub" /\ m.kind = "deposit" /\ m.asset \in Locations
    BY <1>6, <2>1 DEF Reserves, NativeAsset, AssetHubAssets
  <2>3. ASSUME s = "hub", m.kind = "deposit", m.asset \in Locations PROVE d
    <3>1. Barrier(m)
      BY Zenon, <1>6, <2>3 DEF Barrier, AssetHubParachain
    <3>2. Reserves(m.asset, m.origin)
      BY Zenon, <1>6, <2>1, <2>3 DEF Reserves, AssetHubAssets
    <3>3. m.asset # RelayLocation
      BY <2>3 DEF Locations, RelayLocation
    <3> QED BY Zenon, <2>3, <3>1, <3>2, <3>3
  <2> QED BY Zenon, <2>2, <2>3
<1> HIDE DEF d
<1>8. \A l \in Locations : Leaving(l)' = Leaving(l)
  BY <1>1 DEF Leaving
<1>9. \A l : Entering(l) = (IF s = "hub" THEN Weight(m, "deposit", l) ELSE 0) + Entering(l)'
              /\ Entering(l)' \in Nat
  <2> SUFFICES ASSUME NEW l
               PROVE  /\ Entering(l) = (IF s = "hub" THEN Weight(m, "deposit", l) ELSE 0)
                                          + Entering(l)'
                      /\ Entering(l)' \in Nat
    BY Zenon
  <2>1. CASE s = "hub"
    <3>1. \A x \in Incoming("hub") : Weight(x, "deposit", l) \in Nat
      BY WeightsNat
    <3>2. InTransit(q, "deposit", l)
            = Weight(m, "deposit", l) + InTransit(Tail(q), "deposit", l)
      <4>1. q \in Seq(Incoming("hub")) /\ q # <<>>
        BY Zenon, <1>1, <1>2, <2>1
      <4>2. InTransit(q, "deposit", l)
              = Weight(Head(q), "deposit", l) + InTransit(Tail(q), "deposit", l)
        BY <3>1, <4>1, TailTransit
      <4> QED BY Zenon, <1>2, <4>2
    <3>3. InTransit(Tail(q), "deposit", l) \in Nat
      <4>1. Tail(q) \in Seq(Incoming("hub"))
        BY Zenon, <1>1, <1>2, <2>1, TailKinds
      <4>2. Response("success") \in Incoming("hub")
        BY DEF Incoming, Answers
      <4> QED BY Zenon, <3>1, <4>1, <4>2, AppendTransit
    <3>4. Entering(l)' = InTransit(Tail(q), "deposit", l)
          /\ Entering(l) = InTransit(q, "deposit", l)
      BY Zenon, <1>0, <1>3, <2>1 DEF Entering
    <3> QED BY Zenon, <2>1, <3>2, <3>3, <3>4
  <2>2. CASE s # "hub"
    <3>1. inbound'["hub"] = inbound["hub"]
      BY <1>3, <2>2 DEF Sources
    <3>2. Entering(l)' = Entering(l)
      BY Zenon, <3>1 DEF Entering
    <3>3. Entering(l) \in Nat
      BY Zenon, TransitNat DEF BackingInv
    <3> QED BY <2>2, <3>2, <3>3
  <2> QED BY <2>1, <2>2
<1>10. /\ LedgerInv'
       /\ \A l \in Locations :
            Local(convert(l))' = Local(convert(l))
                + (IF s = "hub" THEN Weight(m, "deposit", l) ELSE 0)
  <2>1. CASE d
    <3>1. /\ LedgerInv'
          /\ Local(convert(m.asset))' = Local(convert(m.asset)) + m.amount
          /\ \A b \in AssetIds : b # convert(m.asset) => Local(b)' = Local(b)
      BY Zenon, <1>1, <1>6, <1>7, <2>1, DepositBacked DEF BackingInv
    <3>2. ASSUME NEW l \in Locations
          PROVE  Local(convert(l))' = Local(convert(l)) + Weight(m, "deposit", l)
      <4>1. CASE l = m.asset
        BY Zenon, <1>7, <2>1, <3>1, <4>1 DEF Weight
      <4>2. CASE l # m.asset
        <5>1. Weight(m, "deposit", l) = 0
          BY <4>2 DEF Weight
        <5>2. convert(l) \in AssetIds /\ convert(l) # convert(m.asset)
          BY Zenon, <1>7, <2>1, <4>2, Converted
        <5>3. Local(convert(l))' = Local(convert(l)) /\ Local(convert(l)) \in Nat
          BY Zenon, <3>1, <5>2, Terms
        <5> QED BY <5>1, <5>3
      <4> QED BY Zenon, <4>1, <4>2
    <3> QED BY Zenon, <1>7, <2>1, <3>1, <3>2
  <2>2. CASE ~d
    <3>1. held' = held /\ trapped' = trapped /\ lost' = lost
      BY Zenon, <1>1, <2>2
    <3>2. LedgerInv'
      BY <3>1 DEF BackingInv, LedgerInv
    <3>3. ASSUME NEW l \in Locations
          PROVE  Local(convert(l))' = Local(convert(l))
                   + (IF s = "hub" THEN Weight(m, "deposit", l) ELSE 0)
      <4>1. (IF s = "hub" THEN Weight(m, "deposit", l) ELSE 0) = 0
        BY Zenon, <1>7, <2>2 DEF Weight
      <4>2. Local(convert(l))' = Local(convert(l)) /\ Local(convert(l)) \in Nat
        BY Zenon, <3>1, Terms DEF Local
      <4> QED BY <4>1, <4>2
    <3> QED BY Zenon, <3>2, <3>3
  <2> QED BY Zenon, <2>1, <2>2
<1>11. ASSUME NEW l \in Locations
       PROVE  Local(convert(l))' + short'[l] + Entering(l)' + Leaving(l)'
                = reserve'[l] + GenesisIssue
  <2>1. /\ Local(convert(l)) \in Nat /\ short[l] \in Nat /\ reserve[l] \in Nat
        /\ Entering(l) \in Nat /\ Leaving(l) \in Nat /\ GenesisIssue \in Nat
        /\ Local(convert(l)) + short[l] + Entering(l) + Leaving(l)
             = reserve[l] + GenesisIssue
    BY Zenon, Terms
  <2> DEFINE w == IF s = "hub" THEN Weight(m, "deposit", l) ELSE 0
  <2>2. w \in Nat
    BY <1>4, WeightsNat
  <2>3. /\ Local(convert(l))' = Local(convert(l)) + w
        /\ Entering(l) = w + Entering(l)' /\ Entering(l)' \in Nat
        /\ Leaving(l)' = Leaving(l) /\ short'[l] = short[l] /\ reserve'[l] = reserve[l]
    BY Zenon, <1>1, <1>8, <1>9, <1>10
  <2> HIDE DEF w
  <2> QED BY <2>1, <2>2, <2>3
<1> QED BY Zenon, <1>1, <1>10, <1>11 DEF BackingInv

\* Assets set out: what leaves the account is on its way or dust.
LEMMA TransferBacked ==
  ASSUME XcmInputs, BackingInv, QueuesInv', NEW u \in Accounts, NEW a \in AssetIds,
         NEW n \in Withdrawals, reserve_transfer_assets(u, a, n)
  PROVE  BackingInv'
<1> DEFINE h == held[a][u]
           v == AfterDebit(held[a][u], n)
           k == convert_back(a)
           m == [kind |-> "withdraw", asset |-> k, amount |-> n]
           sum == SumFunctionOnSet(held[a], Accounts)
<1>1. /\ held[a][u] >= n /\ held' = [held EXCEPT ![a][u] = AfterDebit(@, n)]
      /\ lost' = [lost EXCEPT ![a] = @ + h - n - v]
      /\ outbound' = Append(outbound, m) /\ inbound' = inbound
      /\ reserve' = reserve /\ trapped' = trapped /\ short' = short
  BY Zenon DEF reserve_transfer_assets
<1>2. /\ h \in Nat /\ n \in Nat /\ lost[a] \in Nat /\ trapped[a] \in Nat /\ sum \in Nat
      /\ MinBalance \in Nat
  BY Zenon, LocalNat DEF BackingInv, LedgerInv, XcmInputs
<1>3. v \in Nat /\ v <= h - n
  BY <1>1, <1>2 DEF AfterDebit
<1>4. held' = [held EXCEPT ![a][u] = v]
  BY Zenon, <1>1 DEF BackingInv, LedgerInv
<1>5. k \in Locations /\ convert(k) = a
  BY Zenon, Converted
<1>6. m \in Outgoing
  BY Zenon, <1>2, <1>5, WithdrawalKind
<1>7. \A l : Weight(m, "withdraw", l) = IF l = k THEN n ELSE 0
  BY Zenon DEF Weight
<1> HIDE DEF h, v, m, k
<1>8. /\ held' \in [AssetIds -> [Accounts -> Nat]]
      /\ \A b \in AssetIds : b # a => held'[b] = held[b]
      /\ SumFunctionOnSet(held'[a], Accounts) = (sum - h) + v
  BY Zenon, <1>3, <1>4, HeldChange DEF BackingInv, h
<1>9. /\ lost' \in [AssetIds -> Nat] /\ lost'[a] = lost[a] + h - n - v
      /\ \A b \in AssetIds : b # a => lost'[b] = lost[b]
  <2>1. lost[a] + h - n - v \in Nat
    BY <1>2, <1>3
  <2> QED BY Zenon, <1>1, <2>1 DEF BackingInv, LedgerInv
<1>10. LedgerInv'
  BY Zenon, <1>1, <1>8, <1>9 DEF BackingInv, LedgerInv
<1>11. \A l : Leaving(l)' = Weight(m, "withdraw", l) + Leaving(l)
  <2> SUFFICES ASSUME NEW l PROVE Leaving(l)' = Weight(m, "withdraw", l) + Leaving(l)
    BY Zenon
  <2>1. outbound \in Seq(Outgoing) /\ \A x \in Outgoing : Weight(x, "withdraw", l) \in Nat
    <3>1. outbound \in Seq(Outgoing)
      BY Zenon DEF BackingInv, QueuesInv
    <3>2. \A x \in Outgoing : Weight(x, "withdraw", l) \in Nat
      BY WeightsNat
    <3> QED BY Zenon, <3>1, <3>2
  <2>2. InTransit(Append(outbound, m), "withdraw", l)
          = Weight(m, "withdraw", l) + InTransit(outbound, "withdraw", l)
    BY <1>6, <2>1, AppendTransit
  <2> QED BY Zenon, <1>1, <2>2 DEF Leaving
<1>12. \A l : Entering(l)' = Entering(l)
  BY <1>1 DEF Entering
<1>13. ASSUME NEW l \in Locations
       PROVE  Local(convert(l))' + short'[l] + Entering(l)' + Leaving(l)'
                = reserve'[l] + GenesisIssue
  <2>1. /\ Local(convert(l)) \in Nat /\ short[l] \in Nat /\ reserve[l] \in Nat
        /\ Entering(l) \in Nat /\ Leaving(l) \in Nat /\ GenesisIssue \in Nat
        /\ Local(convert(l)) + short[l] + Entering(l) + Leaving(l)
             = reserve[l] + GenesisIssue
    BY Zenon, Terms
  <2>2. CASE l = k
    <3>1. /\ Local(a)' = SumFunctionOnSet(held'[a], Accounts) + trapped[a] + lost'[a]
          /\ Local(a) = sum + trapped[a] + lost[a]
      BY Zenon, <1>1 DEF Local
    <3>2. Local(a)' = Local(a) - n
      <4> HIDE DEF sum
      <4> QED BY <1>2, <1>3, <1>8, <1>9, <3>1
    <3>3. convert(l) = a
      BY Zenon, <1>5, <2>2
    <3>4. Local(convert(l))' = Local(convert(l)) - n
      BY Zenon, <3>2, <3>3
    <3>5. Leaving(l)' = n + Leaving(l) /\ Entering(l)' = Entering(l)
      BY Zenon, <1>7, <1>11, <1>12, <2>2
    <3> QED BY <1>1, <1>2, <2>1, <3>4, <3>5
  <2>3. CASE l # k
    <3>1. convert(l) \in AssetIds /\ convert(l) # a
      BY Zenon, <1>5, <2>3, Converted
    <3>2. Local(convert(l))' = Local(convert(l))
      BY Zenon, <1>1, <1>8, <1>9, <3>1 DEF Local
    <3>3. Leaving(l)' = 0 + Leaving(l) /\ Entering(l)' = Entering(l)
      BY Zenon, <1>7, <1>11, <1>12, <2>3
    <3> QED BY <1>1, <2>1, <3>2, <3>3
  <2> QED BY Zenon, <2>2, <2>3
<1> QED BY Zenon, <1>1, <1>10, <1>13 DEF BackingInv

\* A message arrives; a deposit of a supported asset is in the reserve.
LEMMA ArriveBacked ==
  ASSUME XcmInputs, BackingInv, QueuesInv', NEW s \in Sources, NEW m \in Inbound[s],
         Arrive(s, m)
  PROVE  BackingInv'
<1> DEFINE w(l) == IF s = "hub" THEN Weight(m, "deposit", l) ELSE 0
<1>1. /\ inbound' = [inbound EXCEPT ![s] = Append(@, m)] /\ outbound' = outbound
      /\ reserve' = IF s = "hub" /\ m.kind = "deposit" /\ SupportedAssets(m.asset)
                    THEN [reserve EXCEPT ![m.asset] = @ + m.amount] ELSE reserve
      /\ held' = held /\ trapped' = trapped /\ lost' = lost /\ short' = short
  BY Zenon DEF Arrive
<1>2. /\ DOMAIN inbound = Sources /\ inbound["hub"] \in Seq(Incoming("hub"))
      /\ reserve \in [Locations -> Nat]
  BY Zenon DEF BackingInv, QueuesInv, Sources
<1>3. s = "hub" => m \in Incoming("hub")
  BY Zenon DEF Incoming
<1>4. ASSUME NEW l PROVE w(l) \in Nat
  <2>1. 0 \in Nat
    BY Zenon
  <2> QED BY Zenon, <1>3, <2>1, WeightsNat
<1>5. ASSUME NEW l PROVE Entering(l)' = w(l) + Entering(l)
  <2>1. CASE s = "hub"
    <3>2. InTransit(Append(inbound["hub"], m), "deposit", l)
            = Weight(m, "deposit", l) + InTransit(inbound["hub"], "deposit", l)
      BY Zenon, <1>2, <1>3, <2>1, HubArrival
    <3>3. inbound'["hub"] = Append(inbound["hub"], m)
      BY Zenon, <1>1, <1>2, <2>1
    <3> QED BY Zenon, <2>1, <3>2, <3>3 DEF Entering
  <2>2. CASE s # "hub"
    <3>1. inbound'["hub"] = inbound["hub"]
      <4>1. "hub" \in DOMAIN inbound
        BY Zenon, <1>2 DEF Sources
      <4> QED BY Zenon, <1>1, <2>2, <4>1
    <3>2. Entering(l)' = Entering(l) /\ Entering(l) \in Nat
      BY Zenon, <3>1, TransitNat DEF Entering, BackingInv
    <3>3. w(l) = 0
      BY Zenon, <2>2
    <3> HIDE DEF w
    <3> QED BY <3>2, <3>3
  <2> QED BY Zenon, <2>1, <2>2
<1>6. reserve' \in [Locations -> Nat] /\ \A l \in Locations : reserve'[l] = reserve[l] + w(l)
  <2>1. \A l : l \in Locations <=> SupportedAssets(l)
    BY Zenon, Converted
  <2>2. CASE s = "hub" /\ m.kind = "deposit" /\ SupportedAssets(m.asset)
    <3>1. m.asset \in Locations
      BY Zenon, <2>1, <2>2
    <3>2. m.amount \in Nat
      BY <2>2 DEF XcmInputs, DepositsGenuine, Sources
    <3>3. \A l : w(l) = IF m.asset = l THEN m.amount ELSE 0
      BY Zenon, <2>2 DEF Weight
    <3>4. reserve' = [reserve EXCEPT ![m.asset] = @ + m.amount]
      BY Zenon, <1>1, <2>2
    <3> HIDE DEF w
    <3> QED BY <1>2, <3>1, <3>2, <3>3, <3>4
  <2>3. CASE ~(s = "hub" /\ m.kind = "deposit" /\ SupportedAssets(m.asset))
    <3>1. \A l \in Locations : w(l) = 0
      BY Zenon, <2>1, <2>3 DEF Weight
    <3>2. reserve' = reserve
      BY Zenon, <1>1, <2>3
    <3> HIDE DEF w
    <3> QED BY <1>2, <3>1, <3>2
  <2> QED BY <2>2, <2>3
<1> HIDE DEF w
<1>7. ASSUME NEW l \in Locations
      PROVE  Local(convert(l))' + short'[l] + Entering(l)' + Leaving(l)'
                = reserve'[l] + GenesisIssue
  <2>1. /\ Local(convert(l)) \in Nat /\ short[l] \in Nat /\ reserve[l] \in Nat
        /\ Entering(l) \in Nat /\ Leaving(l) \in Nat /\ GenesisIssue \in Nat
        /\ Local(convert(l)) + short[l] + Entering(l) + Leaving(l)
             = reserve[l] + GenesisIssue
    BY Zenon, Terms
  <2>2. Local(convert(l))' = Local(convert(l)) /\ Leaving(l)' = Leaving(l)
    BY Zenon, <1>1 DEF Local, Leaving
  <2>3. Entering(l)' = w(l) + Entering(l) /\ w(l) \in Nat /\ reserve'[l] = reserve[l] + w(l)
    BY Zenon, <1>4, <1>5, <1>6
  <2>4. short'[l] = short[l]
    BY Zenon, <1>1
  <2> QED BY <2>1, <2>2, <2>3, <2>4
<1>8. LedgerInv'
  BY Zenon, <1>1 DEF BackingInv, LedgerInv
<1> QED BY Zenon, <1>1, <1>6, <1>7, <1>8 DEF BackingInv

\* Asset Hub takes a withdrawal from the reserve or refuses it.
LEMMA HubBacked ==
  ASSUME XcmInputs, BackingInv, QueuesInv', HubProcess
  PROVE  BackingInv'
<1>0. PICK q, m : q = outbound /\ m = Head(outbound)
  OBVIOUS
<1>1. /\ q # <<>> /\ outbound' = Tail(q) /\ held' = held /\ trapped' = trapped /\ lost' = lost
      /\ \/ /\ m.kind = "withdraw" /\ m.amount <= reserve[m.asset]
            /\ reserve' = [reserve EXCEPT ![m.asset] = @ - m.amount] /\ short' = short
         \/ /\ m.kind = "withdraw" /\ reserve' = reserve
            /\ short' = [short EXCEPT ![m.asset] = @ + m.amount]
         \/ m.kind # "withdraw" /\ reserve' = reserve /\ short' = short
  BY Zenon, <1>0 DEF HubProcess
<1>2. /\ q \in Seq(Outgoing) /\ m = Head(q)
      /\ reserve \in [Locations -> Nat] /\ short \in [Locations -> Nat]
  BY Zenon, <1>0 DEF BackingInv, QueuesInv
<1>3. m \in Outgoing
  BY Zenon, <1>1, <1>2, TailKinds
<1>4. m.kind = "withdraw" => m.asset \in Locations /\ m.amount \in Nat
  BY <1>3 DEF Outgoing
<1> DEFINE w(l) == Weight(m, "withdraw", l)
<1>5. ASSUME NEW l PROVE w(l) \in Nat
  BY Zenon, <1>3, WeightsNat
<1>6. ASSUME NEW l PROVE Leaving(l) = w(l) + Leaving(l)' /\ Leaving(l)' \in Nat
  <2>1. \A x \in Outgoing : Weight(x, "withdraw", l) \in Nat
    BY Zenon, WeightsNat
  <2>2. InTransit(q, "withdraw", l)
          = Weight(Head(q), "withdraw", l) + InTransit(Tail(q), "withdraw", l)
    BY Zenon, <1>1, <1>2, HubDeparture
  <2>3. InTransit(Tail(q), "withdraw", l) \in Nat
    <3>1. Tail(q) \in Seq(Outgoing)
      BY Zenon, <1>1, <1>2, TailKinds
    <3> QED BY Zenon, <1>3, <2>1, <3>1, AppendTransit
  <2>4. Leaving(l)' = InTransit(Tail(q), "withdraw", l)
        /\ Leaving(l) = InTransit(q, "withdraw", l)
    BY Zenon, <1>0, <1>1 DEF Leaving
  <2> QED BY Zenon, <1>2, <2>2, <2>3, <2>4
<1>7. ASSUME NEW l PROVE Entering(l)' = Entering(l)
  <2>1. \/ inbound' = inbound
        \/ \E r \in {"success", "failure"} :
             inbound' = [inbound EXCEPT !["hub"] = Append(@, Response(r))]
    BY Zenon DEF HubProcess
  <2>2. CASE inbound' = inbound
    BY Zenon, <2>2 DEF Entering
  <2>3. ASSUME NEW r \in {"success", "failure"},
               inbound' = [inbound EXCEPT !["hub"] = Append(@, Response(r))]
        PROVE  Entering(l)' = Entering(l)
    <3>1. /\ DOMAIN inbound = Sources /\ inbound["hub"] \in Seq(Incoming("hub"))
      BY Zenon DEF BackingInv, QueuesInv, Sources
    <3>2. inbound'["hub"] = Append(inbound["hub"], Response(r))
      BY Zenon, <2>3, <3>1 DEF Sources
    <3>3. Response(r) \in Incoming("hub") /\ Weight(Response(r), "deposit", l) = 0
      BY DEF Incoming, Answers, Weight, Response
    <3>5. InTransit(Append(inbound["hub"], Response(r)), "deposit", l)
            = Weight(Response(r), "deposit", l) + InTransit(inbound["hub"], "deposit", l)
      BY Zenon, <3>1, <3>3, HubArrival
    <3>6. Entering(l)' = 0 + Entering(l)
      BY Zenon, <3>2, <3>3, <3>5 DEF Entering
    <3>7. Entering(l) \in Nat
      BY Zenon, TransitNat DEF BackingInv
    <3> QED BY <3>6, <3>7
  <2> QED BY Zenon, <2>1, <2>2, <2>3
<1>8. /\ reserve' \in [Locations -> Nat] /\ short' \in [Locations -> Nat]
      /\ \A l \in Locations : reserve'[l] - short'[l] = reserve[l] - short[l] - w(l)
  <2>1. CASE m.kind = "withdraw"
    <3>1. \A l : w(l) = IF m.asset = l THEN m.amount ELSE 0
      BY Zenon, <2>1 DEF Weight
    <3> HIDE DEF w
    <3>2. CASE /\ m.amount <= reserve[m.asset] /\ short' = short
               /\ reserve' = [reserve EXCEPT ![m.asset] = @ - m.amount]
      BY <1>2, <1>4, <2>1, <3>1, <3>2
    <3>3. CASE reserve' = reserve /\ short' = [short EXCEPT ![m.asset] = @ + m.amount]
      <4>1. /\ short' \in [Locations -> Nat] /\ short'[m.asset] = short[m.asset] + m.amount
            /\ \A l \in Locations : l # m.asset => short'[l] = short[l]
        BY <1>2, <1>4, <2>1, <3>3
      <4>2. ASSUME NEW l \in Locations
            PROVE  reserve'[l] - short'[l] = reserve[l] - short[l] - w(l)
        <5>1. reserve[l] \in Nat /\ short[l] \in Nat /\ reserve'[l] = reserve[l]
          BY Zenon, <1>2, <3>3
        <5>2. short'[l] = short[l] + w(l) /\ w(l) \in Nat
          BY <1>4, <1>5, <2>1, <3>1, <4>1, <5>1
        <5> QED BY <5>1, <5>2
      <4> QED BY Zenon, <1>2, <3>3, <4>1, <4>2
    <3> QED BY Zenon, <1>1, <2>1, <3>2, <3>3
  <2>2. CASE m.kind # "withdraw"
    <3>1. \A l : w(l) = 0
      BY Zenon, <2>2 DEF Weight
    <3> HIDE DEF w
    <3> QED BY <1>1, <1>2, <2>2, <3>1
  <2> QED BY Zenon, <2>1, <2>2
<1> HIDE DEF w
<1>9. ASSUME NEW l \in Locations
      PROVE  Local(convert(l))' + short'[l] + Entering(l)' + Leaving(l)'
                = reserve'[l] + GenesisIssue
  <2>1. /\ Local(convert(l)) \in Nat /\ short[l] \in Nat /\ reserve[l] \in Nat
        /\ Entering(l) \in Nat /\ Leaving(l) \in Nat /\ GenesisIssue \in Nat
        /\ Local(convert(l)) + short[l] + Entering(l) + Leaving(l)
             = reserve[l] + GenesisIssue
    BY Zenon, Terms
  <2>2. Local(convert(l))' = Local(convert(l))
    BY <1>1 DEF Local
  <2>3. /\ Leaving(l) = w(l) + Leaving(l)' /\ w(l) \in Nat /\ Leaving(l)' \in Nat
        /\ Entering(l)' = Entering(l)
    BY Zenon, <1>5, <1>6, <1>7
  <2>4. /\ reserve'[l] - short'[l] = reserve[l] - short[l] - w(l)
        /\ reserve'[l] \in Nat /\ short'[l] \in Nat
    BY Zenon, <1>8
  <2> QED BY <2>1, <2>2, <2>3, <2>4
<1>10. LedgerInv'
  BY Zenon, <1>1 DEF BackingInv, LedgerInv
<1> QED BY Zenon, <1>8, <1>9, <1>10 DEF BackingInv

\* Messages without assets, payouts and their answers.
LEMMA OthersBacked ==
  ASSUME XcmInputs, BackingInv, QueuesInv',
         UNCHANGED <<inbound, reserve, held, trapped, lost, short>>,
         \/ outbound' = outbound
         \/ \E m \in Outgoing : m.kind # "withdraw" /\ outbound' = Append(outbound, m)
  PROVE  BackingInv'
<1>1. ASSUME NEW l PROVE Leaving(l)' = Leaving(l)
  <2>1. CASE outbound' = outbound
    BY <2>1 DEF Leaving
  <2>2. ASSUME NEW m \in Outgoing, m.kind # "withdraw", outbound' = Append(outbound, m)
        PROVE  Leaving(l)' = Leaving(l)
    <3>1. outbound \in Seq(Outgoing)
      BY DEF BackingInv, QueuesInv
    <3>2. \A x \in Outgoing : Weight(x, "withdraw", l) \in Nat
      BY Zenon, WeightsNat
    <3>3. InTransit(Append(outbound, m), "withdraw", l)
            = Weight(m, "withdraw", l) + InTransit(outbound, "withdraw", l)
      BY <3>1, <3>2, AppendTransit
    <3>4. Weight(m, "withdraw", l) = 0
      BY <2>2 DEF Weight
    <3>5. Leaving(l)' = 0 + Leaving(l)
      BY Zenon, <2>2, <3>3, <3>4 DEF Leaving
    <3>6. Leaving(l) \in Nat
      BY Zenon, TransitNat DEF BackingInv
    <3> QED BY <3>5, <3>6
  <2> QED BY Zenon, <2>1, <2>2
<1>2. \A l \in Locations : /\ Local(convert(l))' = Local(convert(l))
                          /\ Entering(l)' = Entering(l)
  BY DEF Local, Entering
<1>3. LedgerInv'
  BY DEF BackingInv, LedgerInv
<1> QED BY Zenon, <1>1, <1>2, <1>3 DEF BackingInv

LEMMA BackingStep ==
  ASSUME XcmInputs, BackingInv, [XcmNext]_xcmVars
  PROVE  BackingInv'
<1>0. QueuesInv'
  BY QueuesStep DEF BackingInv, XcmInputs
<1>1. ASSUME NEW u \in Users, send(u)
      PROVE  BackingInv'
  <2>1. [kind |-> "sent", by |-> u] \in Outgoing /\ [kind |-> "sent", by |-> u].kind # "withdraw"
    BY Zenon DEF Outgoing
  <2>2. /\ UNCHANGED <<inbound, reserve, held, trapped, lost, short>>
        /\ outbound' = Append(outbound, [kind |-> "sent", by |-> u])
    BY <1>1 DEF send
  <2> QED BY Zenon, <1>0, <2>1, <2>2, OthersBacked
<1>2. CASE payout
  <2>1. [kind |-> "pay"] \in Outgoing /\ [kind |-> "pay"].kind # "withdraw"
    BY Zenon DEF Outgoing
  <2>2. /\ UNCHANGED <<inbound, reserve, held, trapped, lost, short>>
        /\ outbound' = Append(outbound, [kind |-> "pay"])
    BY <1>2 DEF payout
  <2> QED BY Zenon, <1>0, <2>1, <2>2, OthersBacked
<1>3. CASE check_status \/ UNCHANGED xcmVars
  <2>1. UNCHANGED <<inbound, reserve, held, trapped, lost, short>> /\ outbound' = outbound
    BY <1>3 DEF check_status, xcmVars
  <2> QED BY Zenon, <1>0, <2>1, OthersBacked
<1> QED
  BY Zenon, <1>0, <1>1, <1>2, <1>3, ProcessBacked, ArriveBacked, TransferBacked, HubBacked
     DEF XcmNext

\* testnet_genesis gives the issue to one account.
LEMMA BackingInit ==
  ASSUME XcmInputs, XcmInit
  PROVE  BackingInv
<1>1. /\ inbound = [s \in Sources |-> <<>>] /\ outbound = <<>>
      /\ reserve = [l \in Locations |-> 0] /\ short = [l \in Locations |-> 0]
      /\ held = [a \in AssetIds |->
                  [u \in Accounts |-> IF u = Holder THEN GenesisIssue ELSE 0]]
      /\ trapped = [a \in AssetIds |-> 0] /\ lost = [a \in AssetIds |-> 0]
  BY Zenon DEF XcmInit, Locations, USDC_PATH, USDT_PATH
<1>2. QueuesInv
  BY <1>1 DEF QueuesInv
<1>3. LedgerInv /\ GenesisIssue \in Nat
  BY <1>1 DEF LedgerInv, XcmInputs
<1>4. reserve \in [Locations -> Nat] /\ short \in [Locations -> Nat]
  BY <1>1
<1>5. ASSUME NEW l \in Locations
      PROVE  Local(convert(l)) + short[l] + Entering(l) + Leaving(l)
               = reserve[l] + GenesisIssue
  <2> DEFINE a == convert(l)
             f == held[a]
             R == Accounts \ {Holder}
  <2>1. a \in AssetIds /\ trapped[a] = 0 /\ lost[a] = 0
    BY Zenon, <1>1, Converted
  <2>2. inbound["hub"] = <<>>
    BY <1>1 DEF Sources
  <2>3. Entering(l) = 0 /\ Leaving(l) = 0 /\ reserve[l] = 0 /\ short[l] = 0
    BY Zenon, <1>1, <2>2, EmptyTransit DEF Entering, Leaving
  <2>4. /\ \A u \in Accounts : f[u] \in Int
        /\ \A u \in R : f[u] \in Nat /\ f[u] = 0
        /\ Holder \in Accounts /\ f[Holder] = GenesisIssue
    BY <1>1, <1>3, <2>1 DEF Accounts
  <2>5. IsFiniteSet(Accounts) /\ IsFiniteSet(R)
    BY AccountsFinite, FS_Subset
  <2> HIDE DEF f, a
  <2>6. SumFunctionOnSet(f, Accounts) = f[Holder] + SumFunctionOnSet(f, R)
    BY Zenon, <2>4, <2>5, SumRemove
  <2> HIDE DEF R
  <2>7. SumFunctionOnSet(f, R) = 0
    BY Zenon, <2>4, <2>5, SumNat
  <2>8. Local(a) = GenesisIssue
    BY <1>3, <2>1, <2>4, <2>6, <2>7 DEF Local, f
  <2> QED BY <1>3, <2>3, <2>8 DEF a
<1> QED BY Zenon, <1>2, <1>3, <1>4, <1>5 DEF BackingInv

LEMMA BackingMeans ==
  ASSUME XcmInputs, BackingInv
  PROVE  BackingAccounted
<1>1. Locations = {USDC_PATH, USDT_PATH}
  BY DEF Locations, USDC_PATH, USDT_PATH
<1>2. ASSUME NEW l \in Locations
      PROVE  LET a == convert(l)
             IN  SumFunctionOnSet(held[a], Accounts) + trapped[a] + lost[a] + short[l]
                   + InTransit(inbound["hub"], "deposit", l)
                   + InTransit(outbound, "withdraw", l)
                 = reserve[l] + GenesisIssue
  BY Zenon, XcmSum, Terms DEF Local, Entering, Leaving
<1> QED BY Zenon, <1>1, <1>2 DEF BackingAccounted

\* AssetHubAssets, the trader, the transactors and the reserve transfers of
\* xcm_config.rs: no order of deposits, fees, dust and withdrawals makes or
\* loses a unit of the two assets.
THEOREM EveryUnitBacked ==
  ASSUME XcmInputs
  PROVE  XcmSpec => []BackingAccounted
<1>1. XcmInit => BackingInv
  BY BackingInit
<1>2. BackingInv => BackingAccounted
  BY Zenon, BackingMeans
<1> QED BY <1>1, <1>2, BackingStep, PTL DEF XcmSpec

=============================================================================
