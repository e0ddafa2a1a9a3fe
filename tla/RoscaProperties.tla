-------------------------- MODULE RoscaProperties --------------------------
(***************************************************************************)
(* What the rosca pallet promises, as properties of RoscaPallet.           *)
(***************************************************************************)
EXTENDS RoscaPallet, Functions

-----------------------------------------------------------------------------
(***************************************************************************)
(* State invariants                                                        *)
(***************************************************************************)

Pending(c)   == c.rosca_details # None
Active(c)    == c.active_roscas # None
Completed(c) == c.completed_roscas

\* The three records of who is in a circle agree through any sequence of
\* create, join and leave calls: the stored count is the number of members,
\* every member's stored position is the slot that names them, no slot names
\* anyone else, and only invited accounts are members.  start_rosca sizes the
\* schedule with the count and the order with the slots.
MembershipConsistentIn(c) ==
    /\ c.participants_count = Cardinality(Members(c))
    /\ Len(c.pending_order) = Cardinality(c.invited)
    /\ Members(c) \subseteq c.invited
    /\ \A p \in Members(c) :
          /\ c.participants[p] + 1 \in 1..Len(c.pending_order)
          /\ c.pending_order[c.participants[p] + 1] = p
    /\ \A i \in FilledSlots(c.pending_order) :
          c.participants[c.pending_order[i]] = i - 1

MembershipConsistent == \A id \in RoscaIds : MembershipConsistentIn(circle[id])

\* A circle is in one phase: storage under an unused id is empty, and a used
\* id is pending, active or completed and no two of them; the payment times
\* exist from the start on, so claim_security_deposit's test for a pending
\* circle can never be what lets a claim through.
OnePhaseIn(id, c) ==
    /\ id >= next_rosca_id => c = NoCircle
    /\ id < next_rosca_id =>
          \/ Pending(c) /\ ~Active(c) /\ ~Completed(c)
          \/ Active(c) /\ ~Pending(c) /\ ~Completed(c)
          \/ Completed(c) /\ ~Pending(c) /\ ~Active(c)
    /\ (Active(c) \/ Completed(c)) <=> c.final_pay_by # None
    /\ c.final_pay_by # None <=> c.next_pay_by # None
    /\ c.final_pay_by # None <=> c.eligible_claimant # None

OnePhase == \A id \in RoscaIds : OnePhaseIn(id, circle[id])

\* The sequence names every element of S once and nothing else.
Lists(order, S) ==
    /\ \A i \in 1..Len(order) : order[i] \in S
    /\ \A p \in S : \E i \in 1..Len(order) : order[i] = p
    /\ \A i, j \in 1..Len(order) : order[i] = order[j] => i = j

\* The order of an active circle is a rotation schedule of exactly its
\* members: each appears once, the claimant is the one at the front, and the
\* open round's cutoff is one of the cutoffs announced at the start.  Even the
\* round after the last fits the Moment type, so closing a round can never
\* fail on the addition.
ScheduleSoundIn(c) ==
    LET n == Len(c.active_order)
        f == c.active_roscas.contribution_frequency
    IN  Active(c) =>
          /\ n = c.participants_count
          /\ Lists(c.active_order, Members(c))
          /\ c.eligible_claimant = c.active_order[1]
          /\ \E left \in 0..(n - 1) : c.final_pay_by = c.next_pay_by + left * f
          /\ c.final_pay_by + f <= MaxMoment

ScheduleSound == \A id \in RoscaIds : ScheduleSoundIn(circle[id])

\* The count that closes a round is the number of recorded contributors, all
\* of them members, and an open round always has a contribution missing; so
\* clear_prefix's limit of one less than the members empties the record.
\* Before the start nothing is recorded.
ContributionsCountedIn(c) ==
    /\ c.final_pay_by = None =>
          c.current_contributors = {} /\ c.current_contribution_count = 0
    /\ Active(c) =>
          /\ c.current_contribution_count = Cardinality(c.current_contributors)
          /\ c.current_contributors \subseteq Members(c)
          /\ \/ c.current_contribution_count = 0
             \/ c.current_contribution_count < Len(c.active_order) - 1

ContributionsCounted == \A id \in RoscaIds : ContributionsCountedIn(circle[id])

\* Assets the deposits of a circle can be in; the record of a completed circle
\* is gone, so any.
DepositAssets(c) ==
    CASE Pending(c) -> {c.rosca_details.payment_asset}
      [] Active(c)  -> {c.active_roscas.payment_asset}
      [] OTHER      -> PaymentAssets

\* "The total security deposit one has in the Rosca fund": the account of a
\* circle holds at least the deposits recorded for it, whatever was charged,
\* claimed, or sent to it from outside.
FundCoversDeposits ==
    \A id \in RoscaIds :
        \E a \in DepositAssets(circle[id]) :
            balance[a][rosca_account_id(id)] >= SumFunction(circle[id].security_deposit)

\* The recipient of round k from now: the open one's stands at the front of
\* the order, the following ones' from its end.
RecipientIn(c, k) ==
    IF k = 0 THEN c.active_order[1] ELSE c.active_order[Len(c.active_order) + 1 - k]

\* The rounds of active circle c that are over at time t, numbered from 0 (the
\* open one); no more than are left.
LateRounds(c, t) ==
    LET f == c.active_roscas.contribution_frequency
    IN  {k \in 0..(Len(c.active_order) - 1) :
            /\ c.next_pay_by + k * f <= t
            /\ c.next_pay_by + k * f <= c.final_pay_by}

\* Closing the rounds that are over never fails, and it reaches the round the
\* present belongs to, with the recipient announced for it and without the
\* contributions of the rounds before: otherwise the members could not
\* contribute to it, and the circle could not be left behind.
CatchUpReachesPresent ==
    \A id \in RoscaIds :
        Active(circle[id]) =>
            LET c    == circle[id]
                over == Cardinality(LateRounds(c, now))
                s    == CatchUp(id, OpenLayer(c, balance), now)
            IN  /\ s.ok
                /\ Active(s.circle) <=> now < s.circle.final_pay_by
                /\ Active(s.circle) =>
                      /\ now < s.circle.next_pay_by
                      /\ s.circle.eligible_claimant = RecipientIn(c, over)
                      /\ s.circle.current_contributors =
                            (IF over = 0 THEN c.current_contributors ELSE {})

\* Once the last cutoff has passed, anyone can end the circle, so no deposit is
\* locked up in it for good.
CanAlwaysEnd ==
    \A id \in RoscaIds :
        Active(circle[id]) /\ now > circle[id].final_pay_by => ManualEnd(id).ok

\* The announced rounds are those of circle c: every member receives in exactly
\* one of them and is expected to contribute to the others, and the first and
\* the last agree with the stored schedule.
RoundsMatch(c, rounds) ==
    LET n == Len(rounds)
    IN  /\ \A p \in Members(c) : \E k \in 1..n :
              /\ rounds[k].recipient = p
              /\ RecipientIn(c, k - 1) = p
        /\ \A k \in 1..n :
              /\ rounds[k].expected_contributors = Members(c) \ {rounds[k].recipient}
              /\ rounds[k].payment_cutoff = c.next_pay_by
                      + (k - 1) * c.active_roscas.contribution_frequency
        /\ n = Cardinality(Members(c))
        /\ rounds[1].recipient = c.eligible_claimant
        /\ rounds[n].payment_cutoff = c.final_pay_by

\* The rounds start_rosca announces are the ones the circle then runs, with the
\* recipients, the contributors and the cutoffs that the event names.
AnnouncedRoundsMatch ==
    \A i \in DOMAIN events : events[i].type = "RoscaStarted" =>
        RoundsMatch(circle[events[i].rosca_id], events[i].rounds)

-----------------------------------------------------------------------------
(***************************************************************************)
(* Action properties                                                       *)
(***************************************************************************)

\* The late rounds that p has not paid into and is not the recipient of.
MissedRounds(c, p, t) ==
    {k \in LateRounds(c, t) : RecipientIn(c, k) # p
                              /\ ~(k = 0 /\ p \in c.current_contributors)}

\* What p's deposit pays into missed round k, after the missed rounds before.
CoveredIn(c, p, t, k) ==
    LET a    == c.active_roscas.contribution_amount
        left == c.security_deposit[p] - a * Cardinality({j \in MissedRounds(c, p, t) : j < k})
    IN  IF k \notin MissedRounds(c, p, t) \/ left < 0 THEN 0
        ELSE IF left < a THEN left ELSE a

\* Calls that work on the rounds of circle id: contributions and manual ends.
RoundsMove(id) ==
    /\ Active(circle[id])
    /\ \/ circle'[id].next_pay_by # circle[id].next_pay_by
       \/ circle'[id].current_contributors # circle[id].current_contributors
       \/ Completed(circle'[id])

\* What the missed rounds cost member p of circle id in a step.
MissesCharged(id, p) ==
    LET c      == circle[id]
        a      == c.active_roscas.contribution_amount
        missed == Cardinality(MissedRounds(c, p, now))
        d      == c.security_deposit[p]
        unpaid == IF missed > d \div a THEN missed - d \div a ELSE 0
        counts == c.default_count[p] + unpaid
    IN  /\ circle'[id].security_deposit[p] = (IF d > missed * a THEN d - missed * a ELSE 0)
        /\ circle'[id].default_count[p] = (IF counts > MaxU32 THEN MaxU32 ELSE counts)

\* However late the call that closes them, every missed round costs a member
\* exactly one contribution while the deposit lasts and one default for each
\* round it did not cover in full; who paid, and the recipient, lose nothing.
MissedRoundsCharged ==
    [][\A id \in RoscaIds :
          RoundsMove(id) => \A p \in Members(circle[id]) : MissesCharged(id, p)]_vars

\* Payments of the ContributionMade events of the step that match a filter.
Contributed(filter(_)) ==
    LET made == {i \in DOMAIN events' :
                    events'[i].type = "ContributionMade" /\ filter(events'[i])}
    IN  SumFunction([i \in made |-> events'[i].amount])

\* Each deposit charge goes to the recipient of the very round it was missed
\* in, and each contribution to the recipient its event names; nobody else's
\* balance moves.
PotReachesRecipient ==
    [][\A id \in RoscaIds : RoundsMove(id) =>
        LET c      == circle[id]
            asset  == c.active_roscas.payment_asset
            due(q) == SumFunction(
                        [x \in Members(c) \X {k \in LateRounds(c, now) : RecipientIn(c, k) = q}
                            |-> CoveredIn(c, x[1], now, x[2])])
        IN  \A q \in Accounts :
              balance'[asset][q] + Contributed(LAMBDA e : e.contributor = q)
                = balance[asset][q] + due(q) + Contributed(LAMBDA e : e.recipient = q)
      ]_vars

\* What leaves the account of circle id in a step leaves its deposits.
PaysDeposits(id) ==
    LET fund  == rosca_account_id(id)
        held  == SumFunction([a \in PaymentAssets |-> balance[a][fund]])
        holds == SumFunction([a \in PaymentAssets |-> balance'[a][fund]])
    IN  holds < held => held - holds = SumFunction(circle[id].security_deposit)
                                          - SumFunction(circle'[id].security_deposit)

\* What leaves a circle's account is what leaves the deposits recorded for it:
\* no call on another circle, and no charge or claim that is not booked,
\* spends it.
FundPaysOnlyDeposits == [][\A id \in RoscaIds : PaysDeposits(id)]_vars

-----------------------------------------------------------------------------
(***************************************************************************)
(* What the repository says of the program and the program does not do     *)
(***************************************************************************)

\* "Can't contribute when contributor is the recipient": no contribution is
\* counted that a member makes to themselves.
NeverContributesToSelf ==
    \A i \in DOMAIN events :
        events[i].type = "ContributionMade" => events[i].contributor # events[i].recipient

=============================================================================
