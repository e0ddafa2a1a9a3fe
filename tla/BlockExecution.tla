--------------------------- MODULE BlockExecution ---------------------------
(***************************************************************************)
(* How a block of the runtime spends its weight: the hooks run first, the  *)
(* scheduler up to its limit and then the message queue up to its own, the *)
(* inherents next, transactions as far as the limits of their class let    *)
(* them in, and the message queue once more with what is left.  The limits *)
(* are those of runtime/src/configs, the weights those of Weights.         *)
(***************************************************************************)
EXTENDS Weights, SequencesExt

CONSTANTS Workloads,      \* what the blocks meet: tasks, messages and a transaction
          Fillers,        \* weights of other transactions, by class
          MaxRivals,      \* how many of them come before the one that waits
          DownwardMessages,   \* numbers of downward messages of the inherent
          HorizontalMessages  \* and of messages from siblings

VARIABLES phase,          \* "closed", "initialized" or "open"
          used,           \* weight of the block by class
          load,           \* the workload
          agendas,        \* the scheduler's agendas, from IncompleteSince on
          fate,           \* what became of each task
          queue,          \* messages waiting
          handled,        \* what became of each message
          rivals,         \* transactions that may still come first
          applied         \* whether the transaction is in a block

blockVars == <<phase, used, load, agendas, fate, queue, handled, rivals, applied>>

(* A task has a preimage of some length, none if 0, that stays noted after *)
(* the scheduler gave it up or goes with it.                               *)
Tasks == UNION {l.tasks : l \in Workloads}
Messages == UNION {l.messages : l \in Workloads}

MAXIMUM_BLOCK_WEIGHT == [t |-> 2000000, p |-> 5 * 1024 * 1024]

NORMAL_DISPATCH_RATIO == 75
AVERAGE_ON_INITIALIZE_RATIO == 5

Classes == {"normal", "operational", "mandatory"}

(* RuntimeBlockWeights: the most a class may use, what it may use of a     *)
(* full block, and the most of one transaction.                            *)
max_total == [normal |-> Percent(NORMAL_DISPATCH_RATIO, MAXIMUM_BLOCK_WEIGHT),
              operational |-> MAXIMUM_BLOCK_WEIGHT]

reserved == [normal |-> ZeroWeight,
             operational |-> Sub(MAXIMUM_BLOCK_WEIGHT,
                                 Percent(NORMAL_DISPATCH_RATIO, MAXIMUM_BLOCK_WEIGHT))]

max_extrinsic_Fifth(class) == Percent(20, MAXIMUM_BLOCK_WEIGHT)

max_extrinsic(class) ==
    Sub(Sub(max_total[class], Percent(AVERAGE_ON_INITIALIZE_RATIO, MAXIMUM_BLOCK_WEIGHT)),
        ExtrinsicBaseWeight)

MaximumSchedulerWeight == Percent(80, MAXIMUM_BLOCK_WEIGHT)
MaxScheduledRuntimeCallsPerBlock == 50

MessageQueueServiceWeight_Tenth == Percent(10, MAXIMUM_BLOCK_WEIGHT)

MessageQueueServiceWeight == Percent(35, MAXIMUM_BLOCK_WEIGHT)

(* A millisecond and 64 KiB for every instruction.                         *)
UnitWeightCost == [t |-> 1000, p |-> 64 * 1024]

Total(u) == Add(Add(u.normal, u.operational), u.mandatory)

BlockInit ==
    /\ phase = "closed"
    /\ used = [c \in Classes |-> ZeroWeight]
    /\ load \in Workloads
    /\ agendas = <<<<>>>> /\ fate = [task \in Tasks |-> "new"]
    /\ queue = <<>> /\ handled = [msg \in Messages |-> "new"]
    /\ rivals = MaxRivals /\ applied = FALSE

(* A task enters the agenda of the next block, and may be scheduled again  *)
(* once it has left the agendas.                                           *)
schedule(task) ==
    /\ phase = "closed"
    /\ \A i \in DOMAIN agendas : task \notin Range(agendas[i])
    /\ Len(Last(agendas)) < MaxScheduledRuntimeCallsPerBlock
    /\ agendas' = [agendas EXCEPT ![Len(agendas)] = Append(@, task)]
    /\ fate' = [fate EXCEPT ![task] = "waiting"]
    /\ UNCHANGED <<phase, used, load, queue, handled, rivals, applied>>

Enqueue(msg) ==
    /\ phase = "closed" /\ msg \notin Range(queue)
    /\ queue' = Append(queue, msg)
    /\ handled' = [handled EXCEPT ![msg] = "waiting"]
    /\ UNCHANGED <<phase, used, load, agendas, fate, rivals, applied>>

-----------------------------------------------------------------------------

service_task(task) ==
    IF task.len = 0 THEN scheduler_service.service_task_base
    ELSE service_task_fetched(task.len)

dispatch(task) == Add(scheduler_service.execute_dispatch_unsigned, task.call)

(* A task given up gives up its request for the preimage.                  *)
Available(st, task) == task.len = 0 \/ task.noted \/ st.fate[task] # "overweight"

(* One task under the scheduler's meter.  It is taken from its slot first: *)
(* when there is no weight to look at it, the agenda is left there and the *)
(* slot stays empty.  A task too heavy for what is left goes back to its   *)
(* slot, put off, or given up if nothing was dispatched before it.         *)
ServeTask(st, task) ==
    LET served == Add(st.meter, service_task(task))
        all == Add(served, dispatch(task))
    IN  IF st.broke THEN [st EXCEPT !.left = Append(@, task)]
        ELSE IF ~Fits(served, MaximumSchedulerWeight)
        THEN [st EXCEPT !.broke = TRUE, !.postponed = TRUE, !.fate[task] = "lost"]
        ELSE IF Available(st, task) /\ Fits(all, MaximumSchedulerWeight)
        THEN [st EXCEPT !.meter = all, !.executed = @ + 1, !.fate[task] = "dispatched"]
        ELSE IF Available(st, task) /\ st.executed > 0
        THEN [st EXCEPT !.meter = served, !.left = Append(@, task), !.postponed = TRUE]
        ELSE [st EXCEPT !.meter = served, !.left = Append(@, task), !.fate[task] = "overweight"]

(* An agenda with tasks put off is incomplete; one not reached is, too.    *)
ServeAgenda(st, agenda) ==
    IF st.halted \/ ~Fits(Add(st.meter, service_agenda_base(MaxScheduledRuntimeCallsPerBlock)),
                          MaximumSchedulerWeight)
    THEN [st EXCEPT !.halted = TRUE, !.agendas = Append(@, agenda),
                    !.incomplete = @ \cup {Len(st.agendas) + 1}]
    ELSE LET s == FoldLeft(ServeTask,
                           [st EXCEPT !.meter = Add(@, service_agenda_base(Len(agenda))),
                                      !.broke = FALSE, !.postponed = FALSE, !.left = <<>>], agenda)
         IN  [s EXCEPT !.agendas = Append(@, s.left),
                       !.incomplete = @ \cup IF s.postponed THEN {Len(st.agendas) + 1} ELSE {}]

service_agendas ==
    FoldLeft(ServeAgenda,
             [meter |-> scheduler_service.service_agendas_base, executed |-> 0, fate |-> fate,
              broke |-> FALSE, postponed |-> FALSE, halted |-> FALSE, left |-> <<>>,
              agendas |-> <<>>, incomplete |-> {}], agendas)


Incomplete(st) ==
    IF st.incomplete = {} THEN <<>> ELSE SubSeq(st.agendas, Min(st.incomplete), Len(st.agendas))

ServiceOverhead ==
    Add(Add(message_queue_service.bump_service_head, message_queue_service.service_queue_base),
        Add(message_queue_service.ready_ring_unknit,
            message_queue_service.service_page_base_no_completion))

MessageWeight(msg) ==
    [t |-> msg.instructions * UnitWeightCost.t, p |-> msg.instructions * UnitWeightCost.p]

(* The messages of the queue under a meter with a limit.  One too heavy    *)
(* even when it is the first is set aside for good, as `overweight`; at    *)
(* another one that does not fit, the service stops.                       *)
service_queues(limit, overweight) ==
    LET largest == Remaining(limit, Add(ServiceOverhead, message_queue_service.service_page_item))
        Serve(st, msg) ==
            LET item == Add(st.meter, message_queue_service.service_page_item)
                all == Add(item, MessageWeight(msg))
            IN  IF st.stopped \/ ~Fits(item, limit)
                THEN [st EXCEPT !.stopped = TRUE, !.left = Append(@, msg)]
                ELSE IF Fits(all, limit)
                THEN [st EXCEPT !.meter = all, !.handled[msg] = "executed"]
                ELSE IF ~Fits(MessageWeight(msg), largest)
                THEN [st EXCEPT !.meter = item, !.handled[msg] = overweight]
                ELSE [st EXCEPT !.meter = item, !.stopped = TRUE, !.left = Append(@, msg)]
    IN  IF queue = <<>> \/ ~Fits(ServiceOverhead, limit)
        THEN [meter |-> message_queue_service.bump_service_head, stopped |-> FALSE,
              left |-> queue, handled |-> handled]
        ELSE FoldLeft(Serve, [meter |-> ServiceOverhead, stopped |-> FALSE,
                              left |-> <<>>, handled |-> handled], queue)

-----------------------------------------------------------------------------

(* Sessions and spend periods end in some blocks.                          *)
OtherHooks == {ZeroWeight, new_session(100, 100), on_initialize_proposals(99)}

(* Executive::initialize_block: the hooks in the order of the pallets.     *)
initialize_block ==
    /\ phase = "closed"
    /\ LET sched == service_agendas
           msgs == service_queues(MessageQueueServiceWeight, "aside")
       IN  /\ \E other \in OtherHooks :
                 used' = [c \in Classes |->
                            IF c = "mandatory"
                            THEN Add(Add(Add(BlockExecutionWeight, sched.meter), msgs.meter),
                                     Add(collator_hooks.note_author, other))
                            ELSE ZeroWeight]
           /\ agendas' = Append(Incomplete(sched), <<>>) /\ fate' = sched.fate
           /\ queue' = msgs.left /\ handled' = msgs.handled
    /\ phase' = "initialized"
    /\ UNCHANGED <<load, rivals, applied>>

(* What the block may spend on taking in messages from siblings.           *)
ReservedXcmpWeight == Percent(25, MAXIMUM_BLOCK_WEIGHT)

EnqueueHorizontal(n) ==
    LET each == Add(xcmp_queue_service.take_first_concatenated_xcm,
                    xcmp_queue_service.enqueue_xcmp_message)
    IN  [t |-> n * each.t, p |-> n * each.p]

Charge(class, w) == used' = [used EXCEPT ![class] = Add(@, Add(w, ExtrinsicBaseWeight))]

(* The inherents: the time and the parachain's validation data with its    *)
(* messages.  Mandatory extrinsics are let in whatever is used.            *)
inherent_extrinsics ==
    /\ phase = "initialized"
    /\ \E n \in DownwardMessages, h \in HorizontalMessages :
          /\ Fits(EnqueueHorizontal(h), ReservedXcmpWeight)
          /\ Charge("mandatory", Add(Add(Add(pallet_timestamp.set, pallet_timestamp.on_finalize),
                                         enqueue_inbound_downward_messages(n)),
                                     EnqueueHorizontal(h)))
    /\ phase' = "open"
    /\ UNCHANGED <<load, agendas, fate, queue, handled, rivals, applied>>

(* frame_system::CheckWeight: the class has room, and so has the block or  *)
(* what the class has reserved of it.                                      *)
CheckWeight(class, w) ==
    LET extrinsic == Add(w, ExtrinsicBaseWeight)
        consumed == Add(used[class], extrinsic)
    IN  /\ Fits(w, max_extrinsic(class))
        /\ Fits(consumed, max_total[class])
        /\ \/ Fits(Add(Total(used), extrinsic), MAXIMUM_BLOCK_WEIGHT)
           \/ Fits(consumed, reserved[class])

apply_pending ==
    /\ phase = "open" /\ ~applied
    /\ CheckWeight("normal", load.transaction) /\ Charge("normal", load.transaction)
    /\ applied' = TRUE
    /\ UNCHANGED <<phase, load, agendas, fate, queue, handled, rivals>>

(* Other transactions; so many have a higher priority than the one that    *)
(* waits, the rest follow it.                                              *)
apply_extrinsic(class, w) ==
    /\ phase = "open"
    /\ CheckWeight(class, w) /\ Charge(class, w)
    /\ \/ applied /\ UNCHANGED rivals
       \/ ~applied /\ rivals > 0 /\ rivals' = rivals - 1
    /\ UNCHANGED <<phase, load, agendas, fate, queue, handled, applied>>

(* Executive::finalize_block, when the proposer has no transaction left    *)
(* that fits: on_idle serves messages with the weight that is left.        *)
finalize_block ==
    LET left == Remaining(MAXIMUM_BLOCK_WEIGHT, Total(used))
        msgs == service_queues([t |-> Min({left.t, MessageQueueServiceWeight.t}),
                                p |-> Min({left.p, MessageQueueServiceWeight.p})], "aside_idle")
    IN  /\ phase = "open"
        /\ applied \/ ~CheckWeight("normal", load.transaction)
        /\ queue' = msgs.left /\ handled' = msgs.handled
        /\ phase' = "closed"
        /\ used' = [c \in Classes |-> ZeroWeight]
        /\ UNCHANGED <<load, agendas, fate, rivals, applied>>

BlockNext ==
    \/ \E task \in load.tasks : schedule(task)
    \/ \E msg \in load.messages : Enqueue(msg)
    \/ initialize_block \/ inherent_extrinsics \/ apply_pending
    \/ \E c \in DOMAIN Fillers : \E w \in Fillers[c] : apply_extrinsic(c, w)
    \/ finalize_block

BlockSpec == BlockInit /\ [][BlockNext]_blockVars

(* Collators go on building blocks: the block steps, always possible in    *)
(* their phases, are weakly fair, which comes to no phase lasting forever. *)
BlockFairSpec == /\ BlockSpec
            /\ \A p \in {"closed", "initialized", "open"} : []<>(phase # p)

-----------------------------------------------------------------------------

(* A block whose hooks keep to AVERAGE_ON_INITIALIZE_RATIO.                *)
LightBlock ==
    /\ phase = "initialized"
    /\ Fits(used.mandatory, Percent(AVERAGE_ON_INITIALIZE_RATIO, MAXIMUM_BLOCK_WEIGHT))

(* A transaction of one benchmarked call, however large, is included in    *)
(* the end, when again and again the hooks of some block keep to the share *)
(* that avg_block_initialization sets aside for them, and only so many     *)
(* transactions come before it: the largest inherents leave the room that  *)
(* the limits of one transaction promise.  Tasks and messages that keep    *)
(* coming may else take 80% and 35% of every block and leave it none.      *)
PendingIncluded == []<>LightBlock => <>applied


(* The instructions for which the service weight is enough, by proof size. *)
ServiceableInstructions == 26

(* No message waits forever, though new ones keep coming: each is executed *)
(* or set aside as overweight.  Up to 26 instructions, on_initialize does  *)
(* not set it aside; on_idle, with what a full block leaves, may.          *)
MessagesServed ==
    \A msg \in Messages :
        handled[msg] = "waiting" ~>
            \/ handled[msg] \in {"executed", "aside_idle"}
            \/ handled[msg] = "aside" /\ msg.instructions > ServiceableInstructions
=============================================================================
