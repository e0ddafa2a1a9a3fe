--------------------------- MODULE SavingsCircles ---------------------------
(***************************************************************************)
(* What the pallet promises of savings circles, without money or storage:  *)
(* people gather, the circle starts with one turn to receive the pot for   *)
(* every member, the turns go by one after the other, and when the last    *)
(* one has gone by the circle is over.  Several turns may go by at once,   *)
(* when nobody called the pallet for a while, but only turns whose         *)
(* deadline is past and at most one more: the round that the call itself   *)
(* fills.                                                                  *)
(***************************************************************************)
EXTENDS Integers

CONSTANTS
    Ids,        \* identifiers of circles
    People

VARIABLES
    now,        \* the time
    phase,      \* phase[i]: "unused", "forming", "running" or "over"
    members,    \* members[i]: who is in the circle
    ahead       \* ahead[i]: the turns to come, the present one among them:
                \* whose it is (who), and its deadline (by)

circles == <<now, phase, members, ahead>>

Init ==
    /\ now = 0
    /\ phase = [i \in Ids |-> "unused"]
    /\ members = [i \in Ids |-> {}]
    /\ ahead = [i \in Ids |-> {}]

Tick ==
    /\ now' > now
    /\ UNCHANGED <<phase, members, ahead>>

Open(i, p) ==
    /\ phase[i] = "unused"
    /\ phase' = [phase EXCEPT ![i] = "forming"]
    /\ members' = [members EXCEPT ![i] = {p}]
    /\ UNCHANGED <<now, ahead>>

Enter(i, p) ==
    /\ phase[i] = "forming"
    /\ p \notin members[i]
    /\ members' = [members EXCEPT ![i] = @ \cup {p}]
    /\ UNCHANGED <<now, phase, ahead>>

Leave(i, p) ==
    /\ phase[i] = "forming"
    /\ p \in members[i]
    /\ members' = [members EXCEPT ![i] = @ \ {p}]
    /\ UNCHANGED <<now, phase, ahead>>

\* One turn for everybody in the group, each with a deadline of its own to come.
OneTurnEach(group, turns) ==
    /\ {t.who : t \in turns} = group
    /\ \A t, u \in turns : t.who = u.who \/ t.by = u.by => t = u
    /\ \A t \in turns : t.by > now

Start(i) ==
    /\ phase[i] = "forming"
    /\ phase' = [phase EXCEPT ![i] = "running"]
    /\ OneTurnEach(members[i], ahead'[i])
    /\ ahead' = [ahead EXCEPT ![i] = ahead'[i]]
    /\ UNCHANGED <<now, members>>

\* Turns go by: those with the earliest deadlines, of which only the last may
\* be before its deadline.  The circle is over when none is left.
Pass(i, gone) ==
    /\ phase[i] = "running"
    /\ gone # {}
    /\ \A t \in gone, u \in ahead[i] \ gone : t.by < u.by
    /\ \A t, u \in gone : t.by < u.by => t.by <= now
    /\ ahead' = [ahead EXCEPT ![i] = @ \ gone]
    /\ phase' = [phase EXCEPT ![i] = IF gone = ahead[i] THEN "over" ELSE "running"]
    /\ UNCHANGED <<now, members>>

Next ==
    \/ Tick
    \/ \E i \in Ids :
          \/ \E p \in People : Open(i, p) \/ Enter(i, p) \/ Leave(i, p)
          \/ Start(i)
          \/ \E gone \in SUBSET ahead[i] : Pass(i, gone)

Spec == Init /\ [][Next]_circles

=============================================================================
