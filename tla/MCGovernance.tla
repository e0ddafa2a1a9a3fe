---------------------------- MODULE MCGovernance ----------------------------
(* Instances of Governance for TLC.                                        *)
EXTENDS Governance

Spending(o, a) == [origin |-> o, call |-> [kind |-> "spend", amount |-> a]]
Approving(o, a) == [origin |-> o, call |-> [kind |-> "approve_proposal", amount |-> a]]
Proposal(o, k) == [origin |-> o, call |-> [kind |-> k]]
Removing(o, k, r) == [origin |-> o, call |-> [kind |-> k, of |-> r]]

(* Spends at and beyond a track's limit, a proposal beyond all limits, and *)
(* the whitelist, by who may and who may not add to it.                    *)
Firsts == {Spending("SmallTipper", 750), Spending("SmallTipper", 751),
           Approving("Treasurer", 1000000001),
           Proposal("Root", "whitelist_call"), Proposal("WhitelistedCaller", "whitelist_call")}

(* The second referendum may remove the first.                             *)
Cancelling == Removing("Root", "cancel", 0)

Seconds == {Proposal("WhitelistedCaller", "dispatch_whitelisted_call"), Cancelling}

(* One of each; and three on Root's track, which has one slot: the second  *)
(* queues, and the third finds the queue full.                             *)
AllPlans == {[r \in 0 .. 1 |-> IF r = 0 THEN p ELSE q] : p \in Firsts, q \in Seconds}
            \cup {[r \in 0 .. 2 |-> Cancelling]}

(* The sudo key may remove the first referendum at any moment.             *)
KillFirst == {Removing("Root", "kill", 0).call}

(* A block between the moments at which something is due.                  *)
OneMoment == {5}
=============================================================================
