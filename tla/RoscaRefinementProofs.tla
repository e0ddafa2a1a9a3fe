----------------------- MODULE RoscaRefinementProofs ------------------------
(***************************************************************************)
(* The proof that the pallet implements SavingsCircles.                    *)
(***************************************************************************)
EXTENDS RoscaProofs, RoscaRefinement

\* The obligations are large; each prover call may take a minute.
USE SMTT(60)

-----------------------------------------------------------------------------
(***************************************************************************)
(* One circle.  A running circle with left rounds to come has left + 1     *)
(* turns ahead of it, the k-th of which is the claimant's for k = 0 and    *)
(* that of the member in slot n - k + 1 for the others.  Closing a round   *)
(* takes the first of these turns away and renumbers the rest.             *)
(***************************************************************************)

\* The number of rounds to come is determined by the schedule.
LEMMA RunningLeft ==
  ASSUME NEW c, NEW k, NEW m, Running(c, k), Running(c, m)
  PROVE  k = m
<1> DEFINE f == c.active_roscas.contribution_frequency
<1>1. f \in Moment \ {0} /\ c.next_pay_by \in Moment /\ k \in Int /\ m \in Int
  BY RunningTyped
<1>2. f \in Nat \ {0} /\ c.next_pay_by \in Int
  BY <1>1, LimitsAssumption DEF Moment
<1>3. c.next_pay_by + k * f = c.next_pay_by + m * f
  BY DEF Running
<1> HIDE DEF f
<1>4. k * f = m * f /\ k * f \in Int /\ m * f \in Int
  BY <1>1, <1>2, <1>3
<1>5. k * f <= m * f /\ m * f <= k * f
  BY <1>4
<1>6. k <= m /\ m <= k
  BY <1>1, <1>2, <1>5, RoundsOrder
<1> QED BY <1>1, <1>6

\* The deadlines of the turns of a running circle are in the order of the
\* turns: the first is the open round's cutoff, and the one after all the
\* rounds to come is the circle's last cutoff.
LEMMA Deadlines ==
  ASSUME NEW c, NEW left, Running(c, left)
  PROVE  /\ turnOf(c, 0).by = c.next_pay_by /\ turnOf(c, left).by = c.final_pay_by
         /\ \A k \in Int : turnOf(c, k).by \in Int
         /\ \A k, m \in Int : turnOf(c, k).by <= turnOf(c, m).by <=> k <= m
<1> DEFINE f == c.active_roscas.contribution_frequency
<1>1. f \in Moment \ {0} /\ c.next_pay_by \in Moment
  BY RunningTyped
<1>2. f \in Nat \ {0} /\ c.next_pay_by \in Int
  BY <1>1, LimitsAssumption DEF Moment
<1>3. \A k : turnOf(c, k).by = c.next_pay_by + k * f
  BY DEF turnOf
<1>4. c.final_pay_by = c.next_pay_by + left * f
  BY DEF Running
<1> HIDE DEF f
<1>5. 0 * f = 0 /\ \A k \in Int : k * f \in Int
  BY <1>2
<1>6. \A k, m \in Int : k * f <= m * f <=> k <= m
  BY <1>2, RoundsOrder
<1> QED BY <1>2, <1>3, <1>4, <1>5, <1>6

\* The turns ahead of a running circle are numbered from 0 to the rounds left.
LEMMA RunningAhead ==
  ASSUME NEW c, NEW left \in Nat, Running(c, left)
  PROVE  /\ aheadOf(c) = {turnOf(c, k) : k \in 0..left}
         /\ phaseOf(c) = "running" /\ aheadOf(c) # {}
<1> DEFINE f == c.active_roscas.contribution_frequency
           n == Len(c.active_order)
<1>1. n \in Nat \ {0} /\ left <= n - 1
  BY RunningTyped DEF Running
<1>2. Active(c) /\ ~Completed(c)
  BY DEF Running, Active, Completed
<1>3. \A j \in Int : c.next_pay_by + j * f <= c.final_pay_by <=> j <= left
  <2>1. \A j \in Int : turnOf(c, j).by = c.next_pay_by + j * f
    BY DEF turnOf
  <2>2. turnOf(c, left).by = c.final_pay_by /\ left \in Int
    <3>1. turnOf(c, left).by = c.final_pay_by
      BY Zenon, Deadlines
    <3> QED BY <3>1
  <2>3. \A j, m \in Int : turnOf(c, j).by <= turnOf(c, m).by <=> j <= m
    BY Zenon, Deadlines
  <2> SUFFICES ASSUME NEW j \in Int
               PROVE  c.next_pay_by + j * f <= c.final_pay_by <=> j <= left
    OBVIOUS
  <2> HIDE DEF f
  <2>4. turnOf(c, j).by <= turnOf(c, left).by <=> j <= left
    BY <2>2, <2>3
  <2> QED BY <2>1, <2>2, <2>4
<1>4. {j \in 0..(n - 1) : c.next_pay_by + j * f <= c.final_pay_by} = 0..left
  <2> HIDE DEF f, n
  <2> QED BY <1>1, <1>3
<1>5. aheadOf(c) = {turnOf(c, k) : k \in 0..left}
  BY Zenon, <1>2, <1>4 DEF aheadOf
<1>6. 0 \in 0..left
  OBVIOUS
<1> QED BY Zenon, <1>2, <1>5, <1>6 DEF phaseOf

\* Closing a round that is not the final one takes the claimant's turn away.
LEMMA ClaimantPasses ==
  ASSUME NEW c, NEW left \in Nat, Running(c, left), left - 1 \in Nat,
         NEW e, Running(e, left - 1), e.active_order = RotateRight(c.active_order),
         e.active_roscas = c.active_roscas,
         e.next_pay_by = c.next_pay_by + c.active_roscas.contribution_frequency
  PROVE  aheadOf(e) = aheadOf(c) \ {turnOf(c, 0)}
<1> DEFINE order == c.active_order
           n     == Len(order)
           f     == c.active_roscas.contribution_frequency
<1>1. n \in Nat \ {0} /\ left <= n - 1 /\ order \in Seq(Accounts)
  BY RunningTyped DEF Running
<1>2. f \in Nat /\ c.next_pay_by \in Nat
  BY RunningTyped, LimitsAssumption DEF Moment
<1>3. /\ Len(e.active_order) = n /\ e.eligible_claimant = order[n]
      /\ \A j \in 2..n : e.active_order[j] = order[j-1]
  <2>1. Len(e.active_order) = n
    BY <1>1, RotateRightLists
  <2>2. e.eligible_claimant = e.active_order[1]
    BY DEF Running
  <2> QED BY <1>1, <2>1, <2>2 DEF RotateRight
<1>4. \A k \in 0..(left - 1) : turnOf(e, k) = turnOf(c, k + 1)
  <2> SUFFICES ASSUME NEW k \in 0..(left - 1) PROVE turnOf(e, k) = turnOf(c, k + 1)
    OBVIOUS
  <2>1. turnOf(e, k).by = turnOf(c, k + 1).by
    <3>1. turnOf(e, k).by = (c.next_pay_by + f) + k * f
      BY DEF turnOf
    <3>2. turnOf(c, k + 1).by = c.next_pay_by + (k + 1) * f
      BY DEF turnOf
    <3> HIDE DEF f
    <3>3. k * f = (k + 1) * f - f /\ k * f \in Int /\ (k + 1) * f \in Int
      BY <1>2
    <3> QED BY <1>2, <3>1, <3>2, <3>3
  <2>2. turnOf(e, k).who = turnOf(c, k + 1).who
    <3>1. turnOf(c, k + 1).who = order[n - (k + 1) + 1]
      BY DEF turnOf
    <3>2. CASE k = 0
      <4>1. turnOf(e, k).who = order[n] /\ n - (k + 1) + 1 = n
        BY <1>1, <1>3, <3>2 DEF turnOf
      <4> QED BY <3>1, <4>1
    <3>3. CASE k # 0
      <4>1. turnOf(e, k).who = e.active_order[n - k + 1]
        BY <1>3, <3>3 DEF turnOf
      <4>2. n - k + 1 \in 2..n /\ (n - k + 1) - 1 = n - (k + 1) + 1
        BY <1>1, <3>3
      <4> QED BY <1>3, <3>1, <4>1, <4>2
    <3> QED BY <3>2, <3>3
  <2> QED BY <2>1, <2>2 DEF turnOf
<1>5. /\ aheadOf(c) = {turnOf(c, k) : k \in 0..left}
      /\ aheadOf(e) = {turnOf(e, k) : k \in 0..(left - 1)}
  BY Zenon, RunningAhead
<1>6. \A k \in 1..left : turnOf(c, k) # turnOf(c, 0)
  <2> SUFFICES ASSUME NEW k \in 1..left PROVE turnOf(c, k) # turnOf(c, 0)
    OBVIOUS
  <2>1. turnOf(c, k).by <= turnOf(c, 0).by <=> k <= 0
    BY Deadlines
  <2>2. turnOf(c, 0).by <= turnOf(c, 0).by
    BY Deadlines
  <2> QED BY <2>1, <2>2
<1>7. \A x \in aheadOf(e) : x \in aheadOf(c) /\ x # turnOf(c, 0)
  <2> SUFFICES ASSUME NEW k \in 0..(left - 1)
               PROVE  turnOf(e, k) \in aheadOf(c) /\ turnOf(e, k) # turnOf(c, 0)
    BY <1>5
  <2>1. k + 1 \in 0..left /\ k + 1 \in 1..left
    OBVIOUS
  <2> QED BY <1>4, <1>5, <1>6, <2>1
<1>8. \A x \in aheadOf(c) : x # turnOf(c, 0) => x \in aheadOf(e)
  <2> SUFFICES ASSUME NEW k \in 0..left, turnOf(c, k) # turnOf(c, 0)
               PROVE  turnOf(c, k) \in aheadOf(e)
    BY <1>5
  <2>1. k - 1 \in 0..(left - 1) /\ (k - 1) + 1 = k
    OBVIOUS
  <2> QED BY <1>4, <1>5, <2>1
<1> QED BY <1>7, <1>8

-----------------------------------------------------------------------------
\* Circle d is circle c later in the same run of rounds: the same members, and
\* without the turns whose deadlines were past at time t.
Later(c, d, t) ==
    /\ d.participants = c.participants
    /\ aheadOf(d) \subseteq aheadOf(c)
    /\ \A u \in aheadOf(c) \ aheadOf(d) :
          u.by <= t /\ \A v \in aheadOf(d) : u.by < v.by

\* Circle d is circle c without its first turn.
OneTurnLater(c, d) ==
    \E u \in aheadOf(c) : /\ aheadOf(d) = aheadOf(c) \ {u}
                          /\ \A v \in aheadOf(d) : u.by < v.by

\* Later than later is later.
LEMMA LaterTransitive ==
  ASSUME NEW c, NEW d, NEW e, NEW t, Later(c, d, t), Later(d, e, t)
  PROVE  Later(c, e, t)
BY DEF Later

\* The first of the turns ahead goes when a round is closed, be it the final
\* one.
LEMMA FirstTurnGoes ==
  ASSUME NEW c, NEW left \in Nat, Running(c, left), NEW e,
         aheadOf(e) = aheadOf(c) \ {turnOf(c, 0)} \/ (left = 0 /\ aheadOf(e) = {})
  PROVE  /\ turnOf(c, 0) \in aheadOf(c) /\ turnOf(c, 0).by = c.next_pay_by
         /\ aheadOf(e) = aheadOf(c) \ {turnOf(c, 0)}
         /\ \A v \in aheadOf(e) : turnOf(c, 0).by < v.by
<1>1. aheadOf(c) = {turnOf(c, k) : k \in 0..left}
  BY Zenon, RunningAhead
<1>2. turnOf(c, 0) \in aheadOf(c)
  BY <1>1
<1>3. aheadOf(e) = aheadOf(c) \ {turnOf(c, 0)}
  BY <1>1
<1>4. ASSUME NEW v \in aheadOf(e) PROVE turnOf(c, 0).by < v.by
  <2>1. PICK k \in 0..left : v = turnOf(c, k) /\ k # 0
    BY <1>1, <1>3, <1>4
  <2>2. turnOf(c, k).by <= turnOf(c, 0).by <=> k <= 0
    BY Deadlines
  <2>3. turnOf(c, k).by \in Int /\ turnOf(c, 0).by \in Int
    BY Deadlines
  <2> QED BY <2>1, <2>2, <2>3
<1> QED BY <1>2, <1>3, <1>4, Deadlines

\* A circle that is over has no turn ahead.
LEMMA OverMapped ==
  ASSUME NEW c, Over(c)
  PROVE  phaseOf(c) = "over" /\ aheadOf(c) = {}
BY DEF Over, phaseOf, aheadOf, Completed, Active, Pending

\* The layer of a call that started on circle c and has closed the rounds
\* that were late at time t.
Ahead(s, c, t) == Caught(s, c) /\ (s.ok => Later(c, s.circle, t))

\* Closing one late round is again such a layer.
LEMMA LateRoundAhead ==
  ASSUME NEW id \in RoscaIds, NEW s, NEW c, NEW t \in Nat, Ahead(s, c, t)
  PROVE  Ahead(CloseLateRound(id, s, t), c, t)
<1> DEFINE r == CloseRound(id, s)
           q == CloseLateRound(id, s, t)
<1>1. Caught(q, c)
  BY LateRoundCaught DEF Ahead
<1>2. CASE ~(s.ok /\ s.circle.active_roscas # None /\ t >= s.circle.next_pay_by)
  BY <1>2 DEF CloseLateRound, Ahead
<1>3. CASE s.ok /\ s.circle.active_roscas # None /\ t >= s.circle.next_pay_by
  <2>1. PICK left \in Nat : Running(s.circle, left)
    BY <1>3 DEF Ahead, Caught, Over
  <2>2. Layer(s) /\ left >= 0 /\ Later(c, s.circle, t)
    BY <1>3 DEF Ahead, Caught
  <2>3. Layer(r) /\ (r.ok => Running(r.circle, left - 1))
    BY ZenonT(60), <2>1, <2>2, CloseRoundRuns
  <2>4. r.ok => /\ r.circle.active_order = RotateRight(s.circle.active_order)
                /\ r.circle.active_roscas = s.circle.active_roscas
                /\ r.circle.next_pay_by = s.circle.next_pay_by
                                            + s.circle.active_roscas.contribution_frequency
    BY Zenon, <2>1, <2>2, CloseRoundRotates
  <2>5. q = check_and_complete_rosca(id, r)
    BY <1>3 DEF CloseLateRound
  <2> HIDE DEF r, q
  <2>6. ASSUME q.ok PROVE aheadOf(q.circle) = aheadOf(s.circle) \ {turnOf(s.circle, 0)}
                          \/ (left = 0 /\ aheadOf(q.circle) = {})
    <3>1. CASE r.ok /\ r.circle.next_pay_by > r.circle.final_pay_by
      <4>1. q = Complete(id, r)
        BY Zenon, <2>5, <3>1 DEF check_and_complete_rosca
      <4>2. Over(q.circle)
        <5>1. r.circle.eligible_claimant \in Accounts
          BY <2>3, <3>1, RunningTyped
        <5> QED BY Zenon, <2>3, <3>1, <4>1, <5>1, CompleteIsOver, AccountsAssumption DEF Running
      <4>3. left = 0
        <5>1. /\ turnOf(r.circle, left - 1).by = r.circle.final_pay_by
              /\ turnOf(r.circle, 0).by = r.circle.next_pay_by
              /\ \A k, m \in Int : turnOf(r.circle, k).by <= turnOf(r.circle, m).by <=> k <= m
              /\ turnOf(r.circle, left - 1).by \in Int /\ turnOf(r.circle, 0).by \in Int
          BY <2>3, <3>1, Deadlines
        <5>2. ~(turnOf(r.circle, 0).by <= turnOf(r.circle, left - 1).by)
          BY <3>1, <5>1
        <5>3. ~(0 <= left - 1)
          BY <5>1, <5>2
        <5> QED BY <5>3
      <4> QED BY Zenon, <4>2, <4>3, OverMapped
    <3>2. CASE ~(r.ok /\ r.circle.next_pay_by > r.circle.final_pay_by)
      <4>1. q = r
        BY <2>5, <3>2 DEF check_and_complete_rosca
      <4>2. PICK k \in Nat : Running(r.circle, k)
        <5>1. r.circle.active_roscas # None
          BY <2>3, <2>6, <4>1 DEF Running
        <5> QED BY Zenon, <1>1, <2>6, <4>1, <5>1 DEF Caught, Over
      <4>3. left - 1 = k
        BY Zenon, <2>3, <2>6, <4>1, <4>2, RunningLeft
      <4> QED BY Zenon, <2>1, <2>3, <2>4, <2>6, <4>1, <4>2, <4>3, ClaimantPasses
    <3> QED BY <3>1, <3>2
  <2>7. ASSUME q.ok PROVE Later(s.circle, q.circle, t)
    <3>1. /\ turnOf(s.circle, 0) \in aheadOf(s.circle)
          /\ turnOf(s.circle, 0).by = s.circle.next_pay_by
          /\ aheadOf(q.circle) = aheadOf(s.circle) \ {turnOf(s.circle, 0)}
          /\ \A v \in aheadOf(q.circle) : turnOf(s.circle, 0).by < v.by
      BY Zenon, <2>1, <2>6, <2>7, FirstTurnGoes
    <3>2. q.circle.participants = s.circle.participants
      BY <1>1, <1>3, <2>7 DEF Ahead, Caught, q
    <3>3. turnOf(s.circle, 0).by <= t
      <4>1. s.circle.next_pay_by \in Moment
        BY Zenon, <2>1, RunningTyped
      <4> QED BY <1>3, <3>1, <4>1, LimitsAssumption DEF Moment
    <3> QED BY Zenon, <3>1, <3>2, <3>3 DEF Later
  <2> QED BY Zenon, <1>1, <2>2, <2>7, LaterTransitive DEF Ahead, q
<1> QED BY <1>2, <1>3

\* So is the layer after the loop of contribute_to_rosca.
LEMMA CatchUpAhead ==
  ASSUME NEW id \in RoscaIds, NEW s, NEW t \in Nat, Ahead(s, s.circle, t)
  PROVE  Ahead(CatchUp(id, s, t), s.circle, t)
<1> DEFINE n == Len(s.circle.active_order)
<1>1. n \in Nat
  BY DEF Ahead, Caught, Layer, Circle
<1>2. PICK g : CatchUpRun(g, id, s, t)
  BY <1>1, CatchUpLoop
<1>3. /\ CatchUp(id, s, t) = g[n]
      /\ g[0] = s
      /\ \A i \in 1..n : g[i] = CloseLateRound(id, g[i-1], t)
  BY <1>2 DEF CatchUpRun
<1> HIDE DEF n
<1> DEFINE S == {i \in Nat : i <= n => Ahead(g[i], s.circle, t)}
<1>4. 0 \in S
  BY <1>3
<1>5. \A i \in Nat : i \in S => i + 1 \in S
  <2> SUFFICES ASSUME NEW i \in Nat, i \in S, i + 1 <= n PROVE Ahead(g[i + 1], s.circle, t)
    BY <1>1
  <2>1. Ahead(g[i], s.circle, t) /\ i + 1 \in 1..n /\ (i + 1) - 1 = i
    BY <1>1
  <2>2. g[i + 1] = CloseLateRound(id, g[i], t)
    BY <1>3, <2>1
  <2> QED BY <2>1, <2>2, LateRoundAhead
<1>6. n \in S
  <2> HIDE DEF S
  <2> QED BY Zenon, <1>1, <1>4, <1>5, NatSetInduction
<1> QED BY <1>1, <1>3, <1>6

\* A contribution leaves the turns ahead as they are, or takes the first away.
LEMMA PaidMoves ==
  ASSUME NEW id \in RoscaIds, NEW s, Layer(s), s.ok,
         NEW left \in Nat, Running(s.circle, left),
         NEW signer \in Members(s.circle), signer \notin s.circle.current_contributors,
         s.circle.participants_count >= 2,
         NEW q, q = PayContribution(id, s, signer), q.ok
  PROVE  /\ q.circle.participants = s.circle.participants
         /\ aheadOf(q.circle) = aheadOf(s.circle) \/ OneTurnLater(s.circle, q.circle)
<1> DEFINE c      == s.circle
           rosca  == c.active_roscas
           cutoff == c.next_pay_by + rosca.contribution_frequency
           p      == CountContribution(id, s, signer)
           e      == OpenNextRound(p.circle, cutoff)
           f      == Complete(id, p)
<1>0. Over(q.circle) \/ \E k \in Nat : Running(q.circle, k)
  BY ContributionPaid
<1>1. c \in Circle
  BY DEF Layer
<1>2. /\ p.circle.active_order = c.active_order /\ p.circle.active_roscas = c.active_roscas
      /\ p.circle.participants = c.participants
      /\ p.circle.completed_roscas = c.completed_roscas
      /\ p.circle.next_pay_by = c.next_pay_by /\ p.circle.final_pay_by = c.final_pay_by
      /\ p.circle.eligible_claimant = c.eligible_claimant
      /\ p = [circle |-> p.circle, balance |-> p.balance, events |-> p.events, ok |-> p.ok]
      /\ DOMAIN p.circle = DOMAIN c
  <2> DEFINE d   == [c EXCEPT !.current_contributors = @ \cup {signer},
                              !.current_contribution_count = @ + 1]
             b   == Transfer(s.balance, rosca.payment_asset, signer, c.eligible_claimant,
                             rosca.contribution_amount)
             log == Append(s.events, [type |-> "ContributionMade", rosca_id |-> id,
                                      contributor |-> signer,
                                      recipient |-> c.eligible_claimant,
                                      amount |-> rosca.contribution_amount])
  <2>1. p = [s EXCEPT !.balance = b, !.circle = d, !.events = log]
    BY DEF CountContribution
  <2>2. /\ d.active_order = c.active_order /\ d.active_roscas = c.active_roscas
        /\ d.participants = c.participants
        /\ d.completed_roscas = c.completed_roscas
        /\ d.next_pay_by = c.next_pay_by /\ d.final_pay_by = c.final_pay_by
        /\ d.eligible_claimant = c.eligible_claimant
        /\ DOMAIN d = DOMAIN c
    BY <1>1 DEF Circle
  <2> HIDE DEF d, b, log, p
  <2>3. p.circle = d
    BY <2>1 DEF Layer
  <2>4. p = [circle |-> p.circle, balance |-> p.balance, events |-> p.events, ok |-> p.ok]
    BY Zenon, <2>1 DEF Layer
  <2> QED BY Zenon, <2>2, <2>3, <2>4
<1>3. \/ q = Failed(s)
      \/ q = p
      \/ q = f /\ cutoff > c.final_pay_by
      \/ q = [p EXCEPT !.circle = e, !.events = Append(@, NewRoundStarted(id, e))]
  BY DEF PayContribution
<1> HIDE DEF p
<1>4. CASE q = Failed(s)
  <2>1. q.ok = FALSE
    BY <1>4 DEF Failed, Layer
  <2> QED BY <2>1
<1>5. CASE q = p
  <2>1. \A k : turnOf(p.circle, k) = turnOf(c, k)
    BY Zenon, <1>2 DEF turnOf
  <2>2. aheadOf(p.circle) = aheadOf(c)
    BY Zenon, <1>2, <2>1 DEF aheadOf, Active
  <2> QED BY Zenon, <1>2, <1>5, <2>2
<1>6. CASE q = f /\ cutoff > c.final_pay_by
  <2>1. q.circle = [p.circle EXCEPT !.completed_roscas = TRUE, !.active_roscas = None]
    BY <1>2, <1>6 DEF Complete
  <2>2. q.circle.active_roscas = None /\ q.circle.participants = p.circle.participants
    BY Zenon, <1>1, <1>2, <2>1 DEF Circle
  <2>3. aheadOf(q.circle) = {}
    BY <2>2 DEF aheadOf, Active
  <2>4. left = 0
    <3>1. turnOf(c, 1).by = c.next_pay_by + 1 * rosca.contribution_frequency
      BY DEF turnOf
    <3>2. rosca.contribution_frequency \in Nat
      BY RunningTyped, LimitsAssumption DEF Moment
    <3>3. /\ turnOf(c, left).by = c.final_pay_by /\ turnOf(c, left).by \in Int
          /\ turnOf(c, 1).by \in Int
          /\ (turnOf(c, 1).by <= turnOf(c, left).by <=> 1 <= left)
      BY Deadlines
    <3>4. cutoff = turnOf(c, 1).by
      BY <3>1, <3>2
    <3> HIDE DEF cutoff
    <3>5. ~(turnOf(c, 1).by <= turnOf(c, left).by)
      BY <1>6, <3>3, <3>4
    <3> QED BY <3>3, <3>5
  <2>5. OneTurnLater(c, q.circle)
    <3> DEFINE d == q.circle
    <3> HIDE DEF d
    <3>1. aheadOf(d) = {}
      BY <2>3 DEF d
    <3>2. /\ turnOf(c, 0) \in aheadOf(c) /\ aheadOf(d) = aheadOf(c) \ {turnOf(c, 0)}
          /\ \A v \in aheadOf(d) : turnOf(c, 0).by < v.by
      BY Zenon, <2>4, <3>1, FirstTurnGoes
    <3> QED BY Zenon, <3>2 DEF OneTurnLater, d
  <2> QED BY <1>2, <2>2, <2>5
<1>7. CASE q = [p EXCEPT !.circle = e, !.events = Append(@, NewRoundStarted(id, e))]
  <2>1. q.circle = e
    BY <1>2, <1>7
  <2>2. /\ e.active_order = RotateRight(c.active_order) /\ e.participants = c.participants
        /\ e.active_roscas = c.active_roscas /\ e.final_pay_by = c.final_pay_by
        /\ e.next_pay_by = cutoff
    BY Zenon, <1>1, <1>2 DEF OpenNextRound, Circle
  <2>3. PICK k \in Nat : Running(e, k)
    <3>1. Over(q.circle) \/ \E k \in Nat : Running(q.circle, k)
      BY <1>0
    <3>2. c.active_roscas # None
      BY DEF Running
    <3> HIDE DEF e
    <3> QED BY Zenon, <2>1, <2>2, <3>1, <3>2 DEF Over
  <2>4. k = left - 1
    <3> DEFINE g == c.active_roscas.contribution_frequency
    <3> HIDE DEF e
    <3>1. g \in Moment \ {0} /\ c.next_pay_by \in Moment
      BY RunningTyped
    <3>2. g \in Nat \ {0} /\ c.next_pay_by \in Int
      <4> HIDE DEF g
      <4> QED BY <3>1, LimitsAssumption DEF Moment
    <3>3. c.next_pay_by + left * g = (c.next_pay_by + g) + k * g
      BY <2>2, <2>3 DEF Running
    <3> HIDE DEF g
    <3>4. k * g \in Int /\ left * g \in Int /\ (left - 1) * g = left * g - g
      BY <3>2, OneRoundLess
    <3>5. (left - 1) * g <= k * g /\ k * g <= (left - 1) * g
      BY <3>2, <3>3, <3>4
    <3>6. left - 1 <= k /\ k <= left - 1
      BY <3>2, <3>5, RoundsOrder
    <3> QED BY <3>6
  <2> HIDE DEF e
  <2>5. aheadOf(e) = aheadOf(c) \ {turnOf(c, 0)}
    BY Zenon, <2>2, <2>3, <2>4, ClaimantPasses
  <2>6. OneTurnLater(c, e)
    BY Zenon, <2>5, FirstTurnGoes DEF OneTurnLater
  <2> QED BY <2>1, <2>2, <2>6
<1> QED BY Zenon, <1>3, <1>4, <1>5, <1>6, <1>7

\* manually_end_rosca keeps the members while it closes the rounds.
LEMMA CloseAllKeeps ==
  ASSUME NEW id \in RoscaIds, NEW s, Closing(s), CloseAllRounds(id, s).ok
  PROVE  CloseAllRounds(id, s).circle.participants = s.circle.participants
<1> DEFINE n       == Len(s.circle.active_order)
           Kept(r) == r.ok => r.circle.participants = s.circle.participants
<1>1. n \in Nat
  BY DEF Closing, Layer, Circle
<1>2. PICK g : CloseAllRun(g, id, s)
  BY Zenon, <1>1, CloseAllLoop
<1>3. /\ CloseAllRounds(id, s) = g[n]
      /\ g[0] = s
      /\ \A i \in 1..n : g[i] = CloseRemainingRound(id, g[i-1])
  BY <1>2 DEF CloseAllRun
<1> HIDE DEF n
<1> DEFINE S == {i \in Nat : i <= n => Closing(g[i]) /\ Kept(g[i])}
<1>4. 0 \in S
  BY <1>3
<1>5. \A i \in Nat : i \in S => i + 1 \in S
  <2> SUFFICES ASSUME NEW i \in Nat, i \in S, i + 1 <= n
               PROVE  Closing(g[i + 1]) /\ Kept(g[i + 1])
    BY <1>1
  <2>1. Closing(g[i]) /\ Kept(g[i]) /\ i + 1 \in 1..n /\ (i + 1) - 1 = i
    BY <1>1
  <2>2. g[i + 1] = CloseRemainingRound(id, g[i])
    BY Zenon, <1>3, <2>1
  <2>3. CASE ~(g[i].ok /\ RoundRemains(g[i].circle))
    BY Zenon, <2>1, <2>2, <2>3 DEF CloseRemainingRound
  <2>4. CASE g[i].ok /\ RoundRemains(g[i].circle)
    <3>1. g[i + 1] = CloseRound(id, g[i])
      BY Zenon, <2>2, <2>4 DEF CloseRemainingRound
    <3>2. Layer(g[i]) /\ \E left : Running(g[i].circle, left)
      BY Zenon, <2>1, <2>4 DEF Closing
    <3>3. g[i + 1].ok => g[i + 1].circle.participants = g[i].circle.participants
      <4> SUFFICES ASSUME g[i + 1].ok
                   PROVE  g[i + 1].circle.participants = g[i].circle.participants
        OBVIOUS
      <4>1. PICK left : Running(g[i].circle, left)
        BY <3>2
      <4> DEFINE a == g[i]
                 b == CloseRound(id, a)
      <4>2. Layer(a) /\ Running(a.circle, left) /\ b = g[i + 1] /\ b.ok
        BY <3>1, <3>2, <4>1
      <4> HIDE DEF a
      <4>3. b.circle.participants = a.circle.participants
        BY <4>2, CloseRoundRotates
      <4> QED BY <4>2, <4>3 DEF a
    <3>4. Closing(g[i + 1])
      BY Zenon, <2>1, <2>2, RemainingRoundClosing
    <3> QED BY Zenon, <2>1, <2>4, <3>3, <3>4
  <2> QED BY Zenon, <2>3, <2>4
<1>6. n \in S
  <2> HIDE DEF S
  <2> QED BY Zenon, <1>1, <1>4, <1>5, NatSetInduction
<1> QED BY <1>1, <1>3, <1>6

-----------------------------------------------------------------------------
(***************************************************************************)
(* Steps of the pallet as steps of SavingsCircles.                         *)
(***************************************************************************)

\* A call that writes one circle changes the mapped variables there only.
LEMMA OneCircleMapped ==
  ASSUME PhaseInv, NEW id \in RoscaIds, NEW d, circle' = [circle EXCEPT ![id] = d]
  PROVE  /\ phases'  = [phases EXCEPT ![id] = phaseOf(d)]
         /\ groups'  = [groups EXCEPT ![id] = Members(d)]
         /\ aheads'  = [aheads EXCEPT ![id] = aheadOf(d)]
<1>1. circle \in [RoscaIds -> Circle]
  BY DEF PhaseInv
<1>2. \A j \in RoscaIds : circle'[j] = IF j = id THEN d ELSE circle[j]
  BY <1>1
<1>3. phases' = [phases EXCEPT ![id] = phaseOf(d)]
  <2>1. phases' = [j \in RoscaIds |-> phaseOf(circle'[j])]
    BY DEF phases
  <2>2. \A j \in RoscaIds : phaseOf(circle'[j]) = IF j = id THEN phaseOf(d) ELSE phaseOf(circle[j])
    BY <1>2
  <2>3. phases' = [j \in RoscaIds |-> IF j = id THEN phaseOf(d) ELSE phaseOf(circle[j])]
    BY <2>1, <2>2
  <2> QED BY Zenon, <2>3 DEF phases
<1>4. groups' = [groups EXCEPT ![id] = Members(d)]
  <2>1. groups' = [j \in RoscaIds |-> Members(circle'[j])]
    BY DEF groups
  <2>2. \A j \in RoscaIds : Members(circle'[j]) = IF j = id THEN Members(d) ELSE Members(circle[j])
    BY <1>2
  <2>3. groups' = [j \in RoscaIds |-> IF j = id THEN Members(d) ELSE Members(circle[j])]
    BY Zenon, <2>1, <2>2
  <2> QED BY ZenonT(60), <2>3 DEF groups
<1>5. aheads' = [aheads EXCEPT ![id] = aheadOf(d)]
  <2>1. aheads' = [j \in RoscaIds |-> aheadOf(circle'[j])]
    BY DEF aheads
  <2>2. \A j \in RoscaIds : aheadOf(circle'[j]) = IF j = id THEN aheadOf(d) ELSE aheadOf(circle[j])
    BY <1>2
  <2>3. aheads' = [j \in RoscaIds |-> IF j = id THEN aheadOf(d) ELSE aheadOf(circle[j])]
    BY <2>1, <2>2
  <2> QED BY Zenon, <2>3 DEF aheads
<1> QED BY Zenon, <1>3, <1>4, <1>5

\* A circle that forms has no turn ahead yet.
LEMMA FormingMapped ==
  ASSUME NEW c, Forming(c)
  PROVE  phaseOf(c) = "forming" /\ aheadOf(c) = {}
BY DEF Forming, phaseOf, aheadOf, Completed, Active, Pending

\* A circle whose round is the same maps to the same.
LEMMA SameRoundMapped ==
  ASSUME NEW c, NEW d, SameRound(c, d)
  PROVE  phaseOf(d) = phaseOf(c) /\ Members(d) = Members(c) /\ aheadOf(d) = aheadOf(c)
<1>1. \A k : turnOf(d, k) = turnOf(c, k)
  BY Zenon DEF SameRound, turnOf
<1>2. aheadOf(d) = aheadOf(c)
  BY Zenon, <1>1 DEF SameRound, aheadOf, Active
<1> QED BY Zenon, <1>2 DEF SameRound, phaseOf, Completed, Active, Pending, Members

\* create_rosca opens a circle.
LEMMA CreateOpens ==
  ASSUME PhaseInv, PhaseInv', NEW signer \in Accounts, NEW a \in Proposals,
         create_rosca(signer, a)
  PROVE  Abstract!Open(next_rosca_id, signer) /\ next_rosca_id \in RoscaIds
<1> DEFINE id == next_rosca_id
           c  == circle[id]
           d  == circle'[id]
<1>1. id \in RoscaIds /\ next_rosca_id' = id + 1 /\ c = NoCircle
  <2>1. id \in RoscaIds /\ next_rosca_id' = id + 1
    BY DEF create_rosca
  <2>2. ~(id < next_rosca_id)
    BY DEF PhaseInv
  <2> QED BY <2>1, <2>2 DEF PhaseInv
<1>2. circle \in [RoscaIds -> Circle] /\ InPhase(d)
  BY <1>1 DEF PhaseInv, RoscaIds
<1>3. PICK x : circle' = [circle EXCEPT ![id] = x]
  BY Zenon DEF create_rosca
<1>4. circle' = [circle EXCEPT ![id] = d]
  BY Zenon, <1>1, <1>2, <1>3
<1>5. /\ d.active_roscas = None /\ ~d.completed_roscas
      /\ d.participants = [NoCircle.participants EXCEPT ![signer] = PositionOr0(a.position)]
  <2> DEFINE position == PositionOr0(a.position)
             number   == Cardinality(a.invited) + 1
             details  == [random_order |-> a.random_order,
                          number_of_participants |-> number,
                          minimum_participant_threshold |-> a.minimum_participant_threshold,
                          contribution_amount |-> a.contribution_amount,
                          payment_asset |-> a.payment_asset,
                          contribution_frequency |-> a.contribution_frequency,
                          start_by_timestamp |-> a.start_by_timestamp]
             order    == [i \in 1..number |-> IF i = position + 1 THEN signer ELSE None]
             y        == [NoCircle EXCEPT
                            !.invited = {signer} \cup a.invited,
                            !.pending_order = order,
                            !.participants[signer] = position,
                            !.participants_count = 1,
                            !.rosca_details = details]
  <2>1. circle' = [circle EXCEPT ![id] = y]
    BY <1>1 DEF create_rosca
  <2>2. d = y
    <3> HIDE DEF y
    <3> QED BY Zenon, <1>1, <1>2, <2>1
  <2>3. /\ y.participants = [NoCircle.participants EXCEPT ![signer] = position]
        /\ y.active_roscas = None /\ ~y.completed_roscas
    <3> HIDE DEF order, details, position
    <3> QED BY DEF NoCircle
  <2> HIDE DEF y
  <2> QED BY <2>2, <2>3
<1>6. PositionOr0(a.position) # None
  <2>1. a \in ProposalType
    BY InputsAssumption
  <2>2. PositionOr0(a.position) \in Nat
    BY Zenon, <2>1, NoneAssumption DEF ProposalType, PositionOr0
  <2> QED BY <2>2, NoneAssumption
<1>7. Members(d) = {signer}
  BY Zenon, <1>5, <1>6 DEF Members, NoCircle
<1>8. Forming(d)
  BY <1>2, <1>5 DEF InPhase, Running, Over
<1>9. phaseOf(d) = "forming" /\ aheadOf(d) = {}
  BY Zenon, <1>8, FormingMapped
<1>10. phaseOf(c) = "unused" /\ aheadOf(c) = {}
  BY <1>1 DEF NoCircle, phaseOf, aheadOf, Completed, Active, Pending
<1> HIDE DEF d, id
<1>11. /\ phases'  = [phases EXCEPT ![id] = phaseOf(d)]
       /\ groups'  = [groups EXCEPT ![id] = Members(d)]
       /\ aheads'  = [aheads EXCEPT ![id] = aheadOf(d)]
  BY Zenon, <1>1, <1>4, OneCircleMapped
<1>12. aheads' = aheads /\ phases[id] = "unused"
  BY ZenonT(60), <1>1, <1>9, <1>10, <1>11 DEF aheads, phases
<1>13. now' = now
  BY Zenon DEF create_rosca
<1> QED BY Zenon, <1>1, <1>7, <1>9, <1>11, <1>12, <1>13
        DEF Abstract!Open, groups, id

\* join_rosca lets a member in.
LEMMA JoinEnters ==
  ASSUME PhaseInv, PhaseInv', NEW signer \in Accounts, NEW id \in RoscaIds,
         NEW position \in JoinPositions, join_rosca(signer, id, position)
  PROVE  Abstract!Enter(id, signer)
<1> DEFINE c == circle[id]
<1>1. c.rosca_details # None /\ signer \in c.invited /\ c.participants[signer] = None
  BY DEF join_rosca
<1>2. c # NoCircle
  BY Zenon, <1>1, NoCircleIdle
<1>3. InPhase(c)
  BY Zenon, <1>2, UsedInPhase
<1>4. Forming(c)
  BY <1>1, <1>3 DEF InPhase, Running, Over
<1>5. PICK slot \in JoinSlots(c.pending_order, position) :
        circle' = [circle EXCEPT ![id] = Joined(c, signer, slot)]
  BY ZenonT(60) DEF join_rosca
<1> DEFINE d == Joined(c, signer, slot)
<1>6. slot \in 1..Len(c.pending_order) /\ c.pending_order[slot] = None
  BY DEF JoinSlots
<1>7. Forming(d)
  BY Zenon, <1>1, <1>4, <1>6, JoinedForms
<1>8. Members(d) = Members(c) \cup {signer} /\ signer \notin Members(c)
  <2>1. c \in Circle
    BY <1>4 DEF Forming
  <2>2. d.participants = [c.participants EXCEPT ![signer] = slot - 1]
    BY <2>1 DEF Joined, Circle
  <2>3. slot - 1 # None
    <3>1. Len(c.pending_order) \in Nat
      BY <2>1 DEF Circle
    <3>2. slot - 1 \in Nat
      BY <1>6, <3>1
    <3> QED BY Zenon, <3>2, NoneAssumption
  <2>4. c.participants \in [Accounts -> Nat \cup {None}]
    BY <2>1 DEF Circle
  <2> HIDE DEF d, c
  <2> QED BY Zenon, <1>1, <2>2, <2>3, <2>4 DEF Members
<1> HIDE DEF d
<1>9. /\ phaseOf(c) = "forming" /\ aheadOf(c) = {}
      /\ phaseOf(d) = "forming" /\ aheadOf(d) = {}
  BY <1>4, <1>7, FormingMapped
<1>10. /\ phases'  = [phases EXCEPT ![id] = phaseOf(d)]
       /\ groups'  = [groups EXCEPT ![id] = Members(d)]
       /\ aheads'  = [aheads EXCEPT ![id] = aheadOf(d)]
  BY Zenon, <1>5, OneCircleMapped DEF d
<1>11. phases' = phases /\ aheads' = aheads /\ phases[id] = "forming"
  BY ZenonT(60), <1>9, <1>10 DEF aheads, phases
<1>12. groups[id] = Members(c)
  BY DEF groups
<1>13. now' = now
  BY Zenon DEF join_rosca
<1> QED BY <1>8, <1>10, <1>11, <1>12, <1>13 DEF Abstract!Enter

\* leave_rosca lets a member out.
LEMMA LeaveLeaves ==
  ASSUME PhaseInv, PhaseInv', NEW signer \in Accounts, NEW id \in RoscaIds,
         leave_rosca(signer, id)
  PROVE  Abstract!Leave(id, signer)
<1> DEFINE c == circle[id]
           d == Left(c, signer)
<1>1. /\ c.rosca_details # None /\ c.participants[signer] # None
      /\ circle' = [circle EXCEPT ![id] = d]
  BY DEF leave_rosca
<1>2. c # NoCircle
  BY Zenon, <1>1, NoCircleIdle
<1>3. InPhase(c)
  BY Zenon, <1>2, UsedInPhase
<1>4. Forming(c)
  BY Zenon, <1>1, <1>3 DEF InPhase, Running, Over
<1>5. signer \in Members(c)
  BY <1>1 DEF Members
<1>6. Forming(d)
  BY Zenon, <1>4, <1>5, LeftForms
<1>7. Members(d) = Members(c) \ {signer}
  <2>1. c \in Circle
    BY <1>4 DEF Forming
  <2>2. d.participants = [c.participants EXCEPT ![signer] = None]
    BY <2>1 DEF Left, Circle
  <2>3. c.participants \in [Accounts -> Nat \cup {None}]
    BY <2>1 DEF Circle
  <2> HIDE DEF d, c
  <2> QED BY Zenon, <2>2, <2>3 DEF Members
<1> HIDE DEF d
<1>8. /\ phaseOf(c) = "forming" /\ aheadOf(c) = {}
      /\ phaseOf(d) = "forming" /\ aheadOf(d) = {}
  BY <1>4, <1>6, FormingMapped
<1>9. /\ phases'  = [phases EXCEPT ![id] = phaseOf(d)]
      /\ groups'  = [groups EXCEPT ![id] = Members(d)]
      /\ aheads'  = [aheads EXCEPT ![id] = aheadOf(d)]
  BY Zenon, <1>1, OneCircleMapped DEF d
<1>10. phases' = phases /\ aheads' = aheads /\ phases[id] = "forming"
  BY ZenonT(60), <1>8, <1>9 DEF aheads, phases
<1>11. groups[id] = Members(c)
  BY DEF groups
<1>12. now' = now
  BY Zenon DEF leave_rosca
<1> QED BY <1>5, <1>7, <1>9, <1>10, <1>11, <1>12 DEF Abstract!Leave

\* start_rosca starts the circle, with one turn for every member.
LEMMA StartStarts ==
  ASSUME PhaseInv, PhaseInv', NEW signer \in Accounts, NEW id \in RoscaIds,
         start_rosca(signer, id)
  PROVE  Abstract!Start(id)
<1> DEFINE c         == circle[id]
           frequency == c.rosca_details.contribution_frequency
           cutoff    == now + frequency
           final     == now + c.participants_count * frequency
<1>1. c.rosca_details # None /\ c.participants[signer] # None
  BY Zenon DEF start_rosca
<1>2. c # NoCircle
  BY Zenon, <1>1, NoCircleIdle
<1>3. InPhase(c)
  BY <1>2, UsedInPhase
<1>4. Forming(c)
  BY <1>1, <1>3 DEF InPhase, Running, Over
<1>5. PICK order \in ClaimOrders(c.rosca_details, c.pending_order) :
        /\ RoundsFit(order, now, frequency)
        /\ circle' = [circle EXCEPT ![id] = Started(c, order, cutoff, final)]
  BY ZenonT(60) DEF start_rosca
<1> DEFINE d == Started(c, order, cutoff, final)
           n == Len(order)
<1>6. Members(c) # {} /\ now \in Moment
  BY Zenon, <1>1 DEF Members, PhaseInv
<1>7. Running(d, n - 1)
  BY Zenon, <1>4, <1>5, <1>6, StartedRuns
<1>8. order \in Seq(Accounts) /\ Lists(order, Members(c)) /\ n - 1 \in Nat
  <2>1. c \in Circle /\ MembershipConsistentIn(c)
    BY <1>4 DEF Forming
  <2>2. order \in Seq(Accounts) /\ Lists(order, Members(c))
    BY Zenon, <2>1, ClaimOrdersList
  <2>3. Len(order) \in Nat /\ \E i \in 1..Len(order) : TRUE
    BY <1>6, <2>2 DEF Lists
  <2> QED BY <2>2, <2>3
<1>9. d.participants = c.participants /\ d.active_order = RotateRight(order)
  <2>1. c \in Circle
    BY Zenon, <1>4 DEF Forming
  <2> HIDE DEF c, cutoff, final
  <2> QED BY Zenon, <2>1 DEF Started, Circle
<1>10. Len(d.active_order) = n
  <2> HIDE DEF d
  <2>1. Len(order) > 0
    BY <1>8
  <2> QED BY Zenon, <1>8, <1>9, <2>1, RotateRightLists
<1>11. Members(d) = Members(c)
  BY Zenon, <1>9 DEF Members
<1> HIDE DEF d
<1>12. /\ aheadOf(d) = {turnOf(d, k) : k \in 0..(n - 1)} /\ phaseOf(d) = "running"
  BY Zenon, <1>7, <1>8, RunningAhead
<1>13. Abstract!OneTurnEach(Members(c), aheadOf(d))
  <2>1. /\ \A i \in 1..n : d.active_order[i] \in Members(c)
        /\ \A m \in Members(c) : \E i \in 1..n : d.active_order[i] = m
        /\ \A i, j \in 1..n : d.active_order[i] = d.active_order[j] => i = j
        /\ d.eligible_claimant = d.active_order[1]
    BY Zenon, <1>7, <1>10, <1>11 DEF Running, Lists
  <2> DEFINE slot(k) == IF k = 0 THEN 1 ELSE n - k + 1
  <2>2. \A k : turnOf(d, k).who = d.active_order[slot(k)]
    BY <1>10, <2>1 DEF turnOf
  <2>0. n \in Nat \ {0}
    BY <1>8
  <2> HIDE DEF n
  <2>3. /\ \A k \in 0..(n - 1) : slot(k) \in 1..n
        /\ \A k, m \in 0..(n - 1) : slot(k) = slot(m) => k = m
        /\ \A i \in 1..n : \E k \in 0..(n - 1) : slot(k) = i
    <3>1. ASSUME NEW i \in 1..n PROVE \E k \in 0..(n - 1) : slot(k) = i
      <4>1. CASE i = 1
        BY <2>0, <4>1
      <4>2. CASE i # 1
        <5>1. n - i + 1 \in 0..(n - 1) /\ slot(n - i + 1) = i
          BY <2>0, <4>2
        <5> QED BY <5>1
      <4> QED BY <4>1, <4>2
    <3> QED BY <2>0, <3>1
  <2> HIDE DEF slot
  <2>4. {t.who : t \in aheadOf(d)} = Members(c)
    <3>1. ASSUME NEW t \in aheadOf(d) PROVE t.who \in Members(c)
      BY <1>12, <2>1, <2>2, <2>3, <3>1
    <3>2. ASSUME NEW m \in Members(c) PROVE \E t \in aheadOf(d) : t.who = m
      <4>1. PICK i \in 1..n : d.active_order[i] = m
        BY <2>1
      <4>2. PICK k \in 0..(n - 1) : slot(k) = i
        BY <2>3
      <4> QED BY <1>12, <2>2, <4>1, <4>2
    <3> QED BY Zenon, <3>1, <3>2
  <2>5. /\ turnOf(d, 0).by = d.next_pay_by
        /\ \A k \in 0..(n - 1) : turnOf(d, k).by \in Int
        /\ \A k, m \in 0..(n - 1) : turnOf(d, k).by <= turnOf(d, m).by <=> k <= m
    BY <1>7, Deadlines
  <2>6. \A k, m \in 0..(n - 1) :
          turnOf(d, k).who = turnOf(d, m).who \/ turnOf(d, k).by = turnOf(d, m).by => k = m
    <3> SUFFICES ASSUME NEW k \in 0..(n - 1), NEW m \in 0..(n - 1),
                        turnOf(d, k).who = turnOf(d, m).who \/ turnOf(d, k).by = turnOf(d, m).by
                 PROVE  k = m
      OBVIOUS
    <3>1. CASE turnOf(d, k).who = turnOf(d, m).who
      <4>1. d.active_order[slot(k)] = d.active_order[slot(m)]
        BY <2>2, <3>1
      <4>2. slot(k) \in 1..n /\ slot(m) \in 1..n
        BY <2>3
      <4>3. slot(k) = slot(m)
        BY Zenon, <2>1, <4>1, <4>2
      <4> QED BY Zenon, <2>3, <4>3
    <3>2. CASE turnOf(d, k).by = turnOf(d, m).by
      BY <2>5, <3>2
    <3> QED BY <3>1, <3>2
  <2>7. \A k \in 0..(n - 1) : turnOf(d, k).by > now
    <3>1. d.next_pay_by = now + frequency
      <4>1. c \in Circle
        BY Zenon, <1>4 DEF Forming
      <4> QED BY Zenon, <4>1 DEF Started, Circle, d
    <3>2. frequency \in Nat \ {0} /\ now \in Nat
      <4>1. c.rosca_details \in RoscaDetails
        BY Zenon, <1>1, <1>4 DEF Forming, Circle
      <4> QED BY <1>6, <4>1, LimitsAssumption DEF RoscaDetails, Moment
    <3> HIDE DEF frequency
    <3>3. 0 \in 0..(n - 1)
      BY <2>0
    <3> QED BY <2>5, <3>1, <3>2, <3>3
  <2>8. \A t, u \in aheadOf(d) : t.who = u.who \/ t.by = u.by => t = u
    BY Zenon, <1>12, <2>6
  <2>9. \A t \in aheadOf(d) : t.by > now
    BY Zenon, <1>12, <2>7
  <2> QED BY Zenon, <2>4, <2>8, <2>9 DEF Abstract!OneTurnEach
<1>14. phaseOf(c) = "forming"
  BY Zenon, <1>4, FormingMapped
<1>15. /\ phases'  = [phases EXCEPT ![id] = phaseOf(d)]
       /\ groups'  = [groups EXCEPT ![id] = Members(d)]
       /\ aheads'  = [aheads EXCEPT ![id] = aheadOf(d)]
  BY Zenon, <1>5, OneCircleMapped DEF d
<1>16. groups' = groups /\ phases[id] = "forming" /\ groups[id] = Members(c)
  BY ZenonT(60), <1>11, <1>14, <1>15 DEF groups, phases
<1>17. aheads'[id] = aheadOf(d)
  BY Zenon, <1>15 DEF aheads
<1>18. now' = now
  BY Zenon DEF start_rosca
<1> QED BY Zenon, <1>12, <1>13, <1>15, <1>16, <1>17, <1>18 DEF Abstract!Start

\* A running circle some of whose turns have gone by, those with the earliest
\* deadlines and all but the last of them late, passes these turns.
LEMMA TurnsPass ==
  ASSUME PhaseInv, NEW id \in RoscaIds, NEW d, circle' = [circle EXCEPT ![id] = d],
         now' = now, NEW left \in Nat, Running(circle[id], left),
         Over(d) \/ \E k \in Nat : Running(d, k),
         d.participants = circle[id].participants,
         aheadOf(d) \subseteq aheadOf(circle[id]),
         NEW gone, gone = aheadOf(circle[id]) \ aheadOf(d),
         \A t \in gone, u \in aheadOf(d) : t.by < u.by,
         \A t, u \in gone : t.by < u.by => t.by <= now
  PROVE  [Abstract!Next]_Abstract!circles
<1> DEFINE c == circle[id]
<1>1. /\ phases'  = [phases EXCEPT ![id] = phaseOf(d)]
      /\ groups'  = [groups EXCEPT ![id] = Members(d)]
      /\ aheads'  = [aheads EXCEPT ![id] = aheadOf(d)]
  BY ZenonT(60), OneCircleMapped
<1>2. phases[id] = phaseOf(c) /\ groups[id] = Members(c) /\ aheads[id] = aheadOf(c)
  BY DEF phases, groups, aheads
<1>3. phaseOf(c) = "running" /\ aheadOf(c) # {}
  BY Zenon, RunningAhead
<1>4. phaseOf(d) = IF aheadOf(d) = {} THEN "over" ELSE "running"
  <2>1. CASE Over(d)
    BY Zenon, <2>1, OverMapped
  <2>2. CASE \E k \in Nat : Running(d, k)
    BY Zenon, <2>2, RunningAhead
  <2> QED BY <2>1, <2>2
<1>5. Members(d) = Members(c)
  BY Zenon DEF Members
<1>6. groups' = groups
  BY Zenon, <1>1, <1>5 DEF groups
<1>7. CASE gone = {}
  <2>1. aheadOf(d) = aheadOf(c)
    BY <1>7
  <2>2. phases' = phases
    BY Zenon, <1>1, <1>3, <1>4, <2>1 DEF phases
  <2>3. aheads' = aheads
    BY Zenon, <1>1, <2>1 DEF aheads
  <2> QED BY Zenon, <1>6, <2>2, <2>3 DEF Abstract!circles
<1>8. CASE gone # {}
  <2>1. aheadOf(d) = aheads[id] \ gone /\ gone \in SUBSET aheads[id]
    BY <1>2
  <2>2. gone = aheads[id] <=> aheadOf(d) = {}
    BY <1>2
  <2>3. /\ phases' = [phases EXCEPT ![id] = IF gone = aheads[id] THEN "over" ELSE "running"]
        /\ aheads' = [aheads EXCEPT ![id] = aheads[id] \ gone]
        /\ phases[id] = "running"
    <3>1. phaseOf(d) = IF gone = aheads[id] THEN "over" ELSE "running"
      BY Zenon, <1>4, <2>2
    <3> QED BY Zenon, <1>1, <1>2, <1>3, <2>1, <3>1
  <2>4. \A t \in gone, u \in aheads[id] \ gone : t.by < u.by
    BY Zenon, <2>1
  <2>5. Abstract!Pass(id, gone)
    BY Zenon, <1>6, <1>8, <2>3, <2>4 DEF Abstract!Pass
  <2> QED BY Zenon, <2>1, <2>5 DEF Abstract!Next
<1> QED BY <1>7, <1>8

\* contribute_to_rosca passes the late turns, and one more when it fills a
\* round, or none.
LEMMA ContributeTurns ==
  ASSUME PhaseInv, PhaseInv', NEW signer \in Accounts, NEW id \in RoscaIds,
         contribute_to_rosca(signer, id)
  PROVE  [Abstract!Next]_Abstract!circles
<1> DEFINE c == circle[id]
           s == OpenLayer(c, balance)
           r == CatchUp(id, s, now)
           q == Contribution(id, signer)
<1>1. /\ c.participants[signer] # None /\ c.active_roscas # None
      /\ c.eligible_claimant # signer /\ signer \notin c.current_contributors
      /\ Commit(id, q)
  BY Zenon DEF contribute_to_rosca
<1>2. c # NoCircle
  BY Zenon, <1>1, NoCircleIdle
<1>3. InPhase(c) /\ id < next_rosca_id
  BY ZenonT(30), <1>2, UsedInPhase
<1>4. PICK left \in Nat : Running(c, left)
  BY ZenonT(30), <1>1, <1>3 DEF InPhase, Forming, Over
<1>5. Layer(s) /\ s.circle = c /\ s.ok
  BY ZenonT(30), <1>4 DEF OpenLayer, Layer, Running, PhaseInv
<1>6. Ahead(s, s.circle, now)
  BY Zenon, <1>4, <1>5 DEF Ahead, Caught, Later
<1>7. Ahead(r, c, now)
  <2> HIDE DEF s
  <2>1. now \in Nat
    BY LimitsAssumption DEF PhaseInv, Moment
  <2>2. Ahead(CatchUp(id, s, now), s.circle, now)
    BY Zenon, <1>6, <2>1, CatchUpAhead
  <2> QED BY <1>5, <2>2
<1>8. c.participants_count >= 2
  <2>1. signer \in Members(c)
    BY <1>1 DEF Members
  <2>2. PICK i \in 1..Len(c.active_order) : c.active_order[i] = signer
    BY ZenonT(30), <1>4, <2>1 DEF Running, Lists
  <2>3. c.active_order[1] # signer /\ Len(c.active_order) = c.participants_count
    BY Zenon, <1>1, <1>4 DEF Running
  <2>4. Len(c.active_order) \in Nat
    BY Zenon, <1>4, RunningTyped
  <2> QED BY <2>2, <2>3, <2>4
<1> HIDE DEF r, s
<1>9. q = IF r.ok /\ ~r.circle.completed_roscas THEN PayContribution(id, r, signer) ELSE r
  BY Zenon DEF Contribution, r, s
<1>10. q.ok /\ circle' = [circle EXCEPT ![id] = q.circle] /\ now' = now
  BY Zenon, <1>1 DEF Commit
<1> HIDE DEF q
<1>11. /\ Over(q.circle) \/ \E k \in Nat : Running(q.circle, k)
       /\ q.circle.participants = c.participants
       /\ \E e : Later(c, e, now) /\ (aheadOf(q.circle) = aheadOf(e) \/ OneTurnLater(e, q.circle))
  <2>1. CASE r.ok /\ ~r.circle.completed_roscas
    <3>1. PICK k \in Nat : Running(r.circle, k)
      BY ZenonT(30), <1>7, <2>1 DEF Ahead, Caught, Over
    <3>2. /\ r.circle.participants = c.participants
          /\ r.circle.participants_count = c.participants_count
          /\ r.circle.current_contributors \subseteq c.current_contributors
          /\ Layer(r)
          /\ Later(c, r.circle, now)
      BY Zenon, <1>7, <2>1 DEF Ahead, Caught
    <3>3. signer \in Members(r.circle) /\ signer \notin r.circle.current_contributors
      BY <1>1, <3>2 DEF Members
    <3>4. q = PayContribution(id, r, signer)
      BY ZenonT(30), <1>9, <2>1
    <3>5. Over(q.circle) \/ \E j \in Nat : Running(q.circle, j)
      BY ZenonT(30), <1>8, <1>10, <2>1, <3>1, <3>2, <3>3, <3>4, ContributionPaid
    <3>6. /\ q.circle.participants = r.circle.participants
          /\ aheadOf(q.circle) = aheadOf(r.circle) \/ OneTurnLater(r.circle, q.circle)
      BY ZenonT(30), <1>8, <1>10, <2>1, <3>1, <3>2, <3>3, <3>4, PaidMoves
    <3> QED BY Zenon, <3>2, <3>5, <3>6
  <2>2. CASE ~(r.ok /\ ~r.circle.completed_roscas)
    <3>1. q = r
      BY Zenon, <1>9, <2>2
    <3> QED BY Zenon, <1>7, <1>10, <3>1 DEF Ahead, Caught
  <2> QED BY Zenon, <2>1, <2>2
<1> DEFINE gone == aheadOf(c) \ aheadOf(q.circle)
<1>12. PICK e : Later(c, e, now) /\ (aheadOf(q.circle) = aheadOf(e) \/ OneTurnLater(e, q.circle))
  BY Zenon, <1>11
<1>13. /\ aheadOf(q.circle) \subseteq aheadOf(e)
       /\ \A u, v \in aheadOf(e) \ aheadOf(q.circle) : u = v
       /\ \A u \in aheadOf(e) \ aheadOf(q.circle), v \in aheadOf(q.circle) : u.by < v.by
  <2>1. CASE aheadOf(q.circle) = aheadOf(e)
    BY <2>1
  <2>2. CASE OneTurnLater(e, q.circle)
    <3>1. PICK u \in aheadOf(e) : /\ aheadOf(q.circle) = aheadOf(e) \ {u}
                                  /\ \A v \in aheadOf(q.circle) : u.by < v.by
      BY Zenon, <2>2 DEF OneTurnLater
    <3>2. aheadOf(e) \ aheadOf(q.circle) = {u}
      BY <3>1
    <3> QED BY <3>1, <3>2
  <2> QED BY <1>12, <2>1, <2>2
<1>14. aheadOf(q.circle) \subseteq aheadOf(c) /\ aheadOf(e) \subseteq aheadOf(c)
  BY <1>12, <1>13 DEF Later
<1>15. /\ \A t \in aheadOf(c) \ aheadOf(e) : t.by <= now
       /\ \A t \in aheadOf(c) \ aheadOf(e), v \in aheadOf(e) : t.by < v.by
  BY Zenon, <1>12 DEF Later
<1>16. \A t \in gone, v \in aheadOf(q.circle) : t.by < v.by
  BY Zenon, <1>13, <1>15
<1>17. \A t, v \in gone : t.by < v.by => t.by <= now
  <2> SUFFICES ASSUME NEW t \in gone, NEW v \in gone, t.by < v.by, t \in aheadOf(e)
               PROVE  FALSE
    BY Zenon, <1>15
  <2>1. t.by \in Int /\ v.by \in Int
    <3>1. \A x \in aheadOf(c) : \E k \in 0..left : x = turnOf(c, k)
      BY <1>4, RunningAhead
    <3>2. PICK k \in 0..left : t = turnOf(c, k)
      BY Zenon, <3>1
    <3>3. PICK m \in 0..left : v = turnOf(c, m)
      BY Zenon, <3>1
    <3>4. k \in Int /\ m \in Int
      OBVIOUS
    <3> QED BY Zenon, <1>4, <3>2, <3>3, <3>4, Deadlines
  <2>2. v # t
    BY <2>1
  <2>3. v \in aheadOf(c) \ aheadOf(e)
    BY Zenon, <1>13, <2>2
  <2>4. v.by < t.by
    BY Zenon, <1>15, <2>3
  <2> QED BY <2>1, <2>4
<1> HIDE DEF gone
<1>18. gone = aheadOf(c) \ aheadOf(q.circle)
  BY DEF gone
<1> QED BY ZenonT(60), <1>4, <1>10, <1>11, <1>14, <1>16, <1>17, <1>18, TurnsPass

\* manually_end_rosca passes all the turns ahead, which are all late.
LEMMA EndEnds ==
  ASSUME PhaseInv, PhaseInv', NEW id \in RoscaIds, manually_end_rosca(id)
  PROVE  [Abstract!Next]_Abstract!circles
<1> DEFINE c == circle[id]
           s == OpenLayer(c, balance)
           r == CloseAllRounds(id, s)
           q == ManualEnd(id)
<1>1. c.active_roscas # None /\ now > c.final_pay_by /\ Commit(id, q)
  BY Zenon DEF manually_end_rosca
<1>2. c # NoCircle
  BY Zenon, <1>1, NoCircleIdle
<1>3. InPhase(c) /\ id < next_rosca_id
  BY Zenon, <1>2, UsedInPhase
<1>4. PICK left \in Nat : Running(c, left)
  BY <1>1, <1>3 DEF InPhase, Forming, Over
<1>5. Layer(s) /\ s.circle = c
  BY ZenonT(60), <1>4 DEF OpenLayer, Layer, Running, PhaseInv
<1>6. Closing(s)
  BY <1>4, <1>5 DEF Closing
<1> HIDE DEF s
<1>7. Closing(r)
  BY Zenon, <1>6, CloseAllClosing
<1>8. r.ok => r.circle.participants = c.participants
  BY Zenon, <1>5, <1>6, CloseAllKeeps
<1> HIDE DEF r
<1>9. q.ok /\ circle' = [circle EXCEPT ![id] = q.circle] /\ now' = now
  BY Zenon, <1>1 DEF Commit
<1>10. q = Failed(r) \/ (r.ok /\ q = Complete(id, r))
  BY DEF ManualEnd, r, s
<1> HIDE DEF q
<1>11. r.ok /\ q = Complete(id, r)
  <2>1. Layer(r)
    BY <1>7 DEF Closing
  <2>2. ~Failed(r).ok
    BY <2>1 DEF Failed, Layer
  <2> QED BY Zenon, <1>9, <1>10, <2>2
<1>12. PICK k \in Int : Running(r.circle, k)
  BY <1>7, <1>11 DEF Closing
<1>13. r.circle.eligible_claimant # None
  <2>1. r.circle.eligible_claimant \in Accounts
    BY ZenonT(30), <1>12, RunningTyped
  <2> QED BY <2>1, AccountsAssumption
<1>14. Over(q.circle) /\ q.circle.participants = r.circle.participants
  <2>1. /\ Layer(r) /\ MembershipConsistentIn(r.circle) /\ r.circle.rosca_details = None
        /\ r.circle.next_pay_by # None /\ r.circle.final_pay_by # None
    BY <1>7, <1>12 DEF Closing, Running
  <2> QED BY ZenonT(30), <1>11, <1>13, <2>1, CompleteIsOver
<1>15. aheadOf(q.circle) = {}
  BY Zenon, <1>14, OverMapped
<1>16. \A u \in aheadOf(c) : u.by <= now
  <2>0. aheadOf(c) = {turnOf(c, m) : m \in 0..left}
    BY Zenon, <1>4, RunningAhead
  <2> SUFFICES ASSUME NEW m \in 0..left PROVE turnOf(c, m).by <= now
    BY <2>0
  <2>1. /\ turnOf(c, m).by <= turnOf(c, left).by /\ turnOf(c, left).by = c.final_pay_by
        /\ turnOf(c, m).by \in Int /\ turnOf(c, left).by \in Int
    BY <1>4, Deadlines
  <2>2. now \in Int
    BY LimitsAssumption DEF PhaseInv, Moment
  <2> QED BY <1>1, <2>1, <2>2
<1>17. aheadOf(c) = aheadOf(c) \ aheadOf(q.circle)
  BY <1>15
<1> QED BY ZenonT(60), <1>4, <1>8, <1>9, <1>11, <1>14, <1>15, <1>16, <1>17, TurnsPass

\* Calls that only move deposits stutter.
LEMMA DepositsStutter ==
  ASSUME PhaseInv, now' = now, NEW signer \in Accounts, NEW id \in RoscaIds, NEW amount,
         circle' = [circle EXCEPT ![id].security_deposit[signer] = amount]
  PROVE  UNCHANGED Abstract!circles
<1> DEFINE c == circle[id]
           d == [c EXCEPT !.security_deposit[signer] = amount]
<1>1. circle \in [RoscaIds -> Circle] /\ c \in Circle
  BY DEF PhaseInv
<1>2. SameRound(c, d)
  BY <1>1 DEF Circle, SameRound
<1>3. circle' = [circle EXCEPT ![id] = d]
  BY <1>1
<1> HIDE DEF d
<1>4. /\ phases'  = [phases EXCEPT ![id] = phaseOf(d)]
      /\ groups'  = [groups EXCEPT ![id] = Members(d)]
      /\ aheads'  = [aheads EXCEPT ![id] = aheadOf(d)]
  BY Zenon, <1>3, OneCircleMapped
<1>5. /\ phaseOf(d) = phaseOf(c) /\ Members(d) = Members(c)
      /\ aheadOf(d) = aheadOf(c)
  BY Zenon, <1>2, SameRoundMapped
<1>6. phases' = phases /\ groups' = groups /\ aheads' = aheads
  BY <1>4, <1>5 DEF phases, groups, aheads
<1> QED BY <1>6 DEF Abstract!circles

\* So do steps that write no circle.
LEMMA OthersStutter ==
  ASSUME circle' = circle, now' = now
  PROVE  UNCHANGED Abstract!circles
<1>1. phases' = phases /\ groups' = groups /\ aheads' = aheads
  BY DEF phases, groups, aheads
<1> QED BY <1>1 DEF Abstract!circles

\* At genesis no circle is in use.
LEMMA InitMapped ==
  Init => Abstract!Init
<1> SUFFICES ASSUME Init PROVE Abstract!Init
  OBVIOUS
<1>1. \A id \in RoscaIds : circle[id] = NoCircle
  BY Zenon DEF Init
<1>2. /\ phaseOf(NoCircle) = "unused" /\ Members(NoCircle) = {}
      /\ aheadOf(NoCircle) = {}
  BY DEF NoCircle, phaseOf, aheadOf, Completed, Active, Pending, Members
<1>3. phases = [i \in RoscaIds |-> "unused"]
  BY <1>1, <1>2 DEF phases
<1>4. groups = [i \in RoscaIds |-> {}]
  BY <1>1, <1>2 DEF groups
<1>5. aheads = [i \in RoscaIds |-> {}]
  BY <1>1, <1>2 DEF aheads
<1>6. now = 0
  BY DEF Init
<1> QED BY Zenon, <1>3, <1>4, <1>5, <1>6 DEF Abstract!Init

\* The pallet implements SavingsCircles, whatever the number of circles,
\* accounts and rounds, the claim orders, and the amounts and times involved:
\* every member has exactly one turn, no turn is skipped or goes by out of
\* order, a call lets at most one turn go before its cutoff, and a circle is
\* not over while a turn is ahead.
THEOREM PalletImplementsSavingsCircles ==
  Spec => ImplementsSavingsCircles
<1>1. PhaseInv /\ PhaseInv' /\ [Next]_vars => [Abstract!Next]_Abstract!circles
  <2> SUFFICES ASSUME PhaseInv, PhaseInv', [Next]_vars
               PROVE  [Abstract!Next]_Abstract!circles
    OBVIOUS
  <2>1. ASSUME NEW p \in Accounts, NEW a \in Proposals, create_rosca(p, a)
        PROVE  Abstract!Next
    BY ZenonT(60), <2>1, CreateOpens DEF Abstract!Next
  <2>2. ASSUME NEW id \in RoscaIds, NEW p \in Accounts, NEW position \in JoinPositions,
               join_rosca(p, id, position)
        PROVE  Abstract!Next
    BY Zenon, <2>2, JoinEnters DEF Abstract!Next
  <2>3. ASSUME NEW id \in RoscaIds, NEW p \in Accounts, leave_rosca(p, id)
        PROVE  Abstract!Next
    BY Zenon, <2>3, LeaveLeaves DEF Abstract!Next
  <2>4. ASSUME NEW id \in RoscaIds, NEW p \in Accounts, start_rosca(p, id)
        PROVE  Abstract!Next
    BY Zenon, <2>4, StartStarts DEF Abstract!Next
  <2>5. ASSUME NEW id \in RoscaIds, NEW p \in Accounts, contribute_to_rosca(p, id)
        PROVE  [Abstract!Next]_Abstract!circles
    BY <2>5, ContributeTurns
  <2>6. ASSUME NEW id \in RoscaIds, NEW p \in Accounts, NEW asset \in PaymentAssets,
               claim_security_deposit(p, id, asset)
        PROVE  UNCHANGED Abstract!circles
    <3>1. circle' = [circle EXCEPT ![id].security_deposit[p] = 0] /\ now' = now
      BY <2>6 DEF claim_security_deposit
    <3> QED BY Zenon, <3>1, DepositsStutter
  <2>7. ASSUME NEW id \in RoscaIds, NEW p \in Accounts, NEW amount \in DepositAmounts,
               add_to_security_deposit(p, id, amount)
        PROVE  UNCHANGED Abstract!circles
    <3>1. PICK x : circle' = [circle EXCEPT ![id].security_deposit[p] = x]
      BY Zenon, <2>7 DEF add_to_security_deposit
    <3>2. now' = now
      BY Zenon, <2>7 DEF add_to_security_deposit
    <3> QED BY Zenon, <3>1, <3>2, DepositsStutter
  <2>8. ASSUME NEW id \in RoscaIds, manually_end_rosca(id)
        PROVE  [Abstract!Next]_Abstract!circles
    BY <2>8, EndEnds
  <2>9. ASSUME NEW t \in OutsideTransfers, OutsideTransfer(t)
        PROVE  UNCHANGED Abstract!circles
    BY <2>9, OthersStutter DEF OutsideTransfer
  <2>10. ASSUME Tick PROVE Abstract!Next
    <3>1. now' > now /\ circle' = circle
      BY <2>10, LimitsAssumption DEF Tick, PhaseInv, Moment
    <3>2. phases' = phases /\ groups' = groups /\ aheads' = aheads
      BY <3>1 DEF phases, groups, aheads
    <3> QED BY Zenon, <3>1, <3>2 DEF Abstract!Tick, Abstract!Next
  <2>11. ASSUME UNCHANGED vars PROVE UNCHANGED Abstract!circles
    BY <2>11, OthersStutter DEF vars
  <2> QED BY Zenon, <2>1, <2>2, <2>3, <2>4, <2>5, <2>6, <2>7, <2>8, <2>9, <2>10, <2>11 DEF Next
<1> QED BY <1>1, InitMapped, PhaseInvariant, PTL DEF Spec, ImplementsSavingsCircles, Abstract!Spec

=============================================================================
