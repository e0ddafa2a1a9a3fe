-------------------------- MODULE MCBlockExecution --------------------------
(* Instances of BlockExecution for TLC.                                    *)
EXTENDS BlockExecution, RuntimeCalls

Task(i, len, noted, call) == [id |-> i, len |-> len, noted |-> noted, call |-> call]
Message(i, n) == [id |-> i, instructions |-> n]

(* Every call but the one whose largest size exceeds a transaction.        *)
AllCalls == CallWeights \ {pallet_whitelist.dispatch_whitelisted_call}

(* A call lighter than another is let in wherever the other is.            *)
HeaviestCalls == {w \in AllCalls : \A v \in AllCalls : Fits(w, v) => v = w}

(* Each of the heaviest calls waits, while two tasks that do not fit one   *)
(* block together and two messages that do not keep coming.                *)
Backlogs ==
    {[tasks |-> {Task(1, 0, TRUE, [t |-> 900000, p |-> 100000]),
                 Task(2, 0, TRUE, [t |-> 900000, p |-> 100000])},
      messages |-> {Message(1, 26), Message(2, 26)},
      transaction |-> w] : w \in HeaviestCalls}

(* Tasks at the limits of the scheduler: with a preimage that leaves no    *)
(* weight for the call, then none for another call, of the largest size,   *)
(* and with a call that is too heavy.                                      *)
LimitTasks ==
    {Task(1, 0, TRUE, [t |-> 900000, p |-> 100000]),
     Task(2, 3900000, FALSE, [t |-> 1000, p |-> 300000]),
     Task(3, 0, TRUE, [t |-> 1000, p |-> 250000]),
     Task(4, 4194304, TRUE, [t |-> 1000, p |-> 1000]),
     Task(5, 0, TRUE, [t |-> 1700000, p |-> 100000])}

(* Messages around the largest one that the service weight allows.         *)
LimitMessages == {Message(1, 10), Message(2, 26), Message(3, 27)}

MCWorkloads ==
    Backlogs \cup
    {[tasks |-> {}, messages |-> LimitMessages, transaction |-> pallet_utility.batch]} \cup
    {[tasks |-> tasks, messages |-> {Message(1, 40)}, transaction |-> pallet_utility.batch] :
        tasks \in kSubset(3, LimitTasks)}

MCFillers == [normal |-> {max_extrinsic("normal")}, operational |-> {[t |-> 499875, p |-> 1000],
                                                                    [t |-> 1500000, p |-> 1000]}]

MCDownwardMessages == {0, 1000}

MCHorizontalMessages == {0, 372}
=============================================================================
