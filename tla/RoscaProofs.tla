---------------------------- MODULE RoscaProofs -----------------------------
(***************************************************************************)
(* Proofs, for all values of the constants, of the invariants of           *)
(* RoscaProperties that say what a circle is: TypeOK, MembershipConsistent,*)
(* OnePhase, ScheduleSound and ContributionsCounted.  None of the five is  *)
(* inductive alone; their conjunction is.  It is stated here as PhaseInv,  *)
(* with one lemma per call of the pallet.                                  *)
(*                                                                         *)
(* Then AnnouncedRoundsMatch: only start_rosca announces rounds, and they  *)
(* are those of the order and the schedule it writes.                      *)
(***************************************************************************)
EXTENDS RoscaRoundsProofs

\* The obligations are large; each prover call may take a minute.
USE SMTT(60)

-----------------------------------------------------------------------------
(***************************************************************************)
(* The storage of one circle, followed through the calls before its start: *)
(* creation, joining, leaving, and the start itself.                       *)
(***************************************************************************)

\* A circle that has not started.
Forming(c) ==
    /\ c \in Circle
    /\ MembershipConsistentIn(c)
    /\ c.rosca_details # None /\ c.active_roscas = None /\ ~c.completed_roscas
    /\ c.next_pay_by = None /\ c.final_pay_by = None /\ c.eligible_claimant = None
    /\ c.current_contributors = {} /\ c.current_contribution_count = 0

\* The account of a circle can hold assets, and so can who signs.
LEMMA FundHolds ==
  ASSUME NEW id \in RoscaIds, NEW signer \in Accounts
  PROVE  rosca_account_id(id) \in Holders /\ signer \in Holders
BY DEF Holders, RoscaFunds

\* The deposits and the details of a stored circle.
LEMMA StoredTyped ==
  ASSUME NEW c \in Circle
  PROVE  /\ c.security_deposit \in [Accounts -> 0..MaxU32]
         /\ \A p \in Accounts : c.security_deposit[p] \in Nat /\ c.security_deposit[p] \in 0..MaxU32
         /\ c.rosca_details # None => c.rosca_details \in RoscaDetails
         /\ c.active_roscas # None => c.active_roscas \in RoscaDetails
BY LimitsAssumption DEF Circle

LEMMA DetailsAsset ==
  ASSUME NEW details \in RoscaDetails
  PROVE  details.payment_asset \in PaymentAssets
BY DEF RoscaDetails

\* The deposits that are asked for are numbers.
LEMMA DepositAmountsTyped ==
  ASSUME NEW amount \in DepositAmounts, NEW deposit \in Nat, DepositFits(deposit, amount)
  PROVE  amount \in Nat /\ deposit + amount \in 0..MaxU32
BY LimitsAssumption, InputsAssumption DEF DepositFits

\* Empty storage is of no phase.
LEMMA NoCircleIdle ==
  /\ NoCircle.rosca_details = None /\ NoCircle.active_roscas = None
  /\ NoCircle.final_pay_by = None
BY DEF NoCircle

\* A running circle has a claimant.
LEMMA RunningClaimant ==
  ASSUME NEW c, NEW left, Running(c, left)
  PROVE  c.eligible_claimant # None
<1>1. c.eligible_claimant \in Accounts
  BY ZenonT(30), RunningTyped
<1> QED BY <1>1, AccountsAssumption

\* Empty storage is well typed, and no one is a member.
LEMMA NoCircleTyped ==
  NoCircle \in Circle /\ MembershipConsistentIn(NoCircle)
<1>1. << >> \in Seq(Accounts) /\ << >> \in Seq(Accounts \cup {None})
  OBVIOUS
<1>2. NoCircle \in Circle
  BY <1>1, LimitsAssumption DEF NoCircle, Circle
<1>3. Members(NoCircle) = {} /\ FilledSlots(NoCircle.pending_order) = {}
  BY DEF Members, NoCircle, FilledSlots
<1>4. MembershipConsistentIn(NoCircle)
  BY Zenon, <1>3, FS_EmptySet DEF MembershipConsistentIn, NoCircle
<1> QED BY <1>2, <1>4

\* The circle create_rosca stores under an unused id forms.
LEMMA CreatedForms ==
  ASSUME NEW signer \in Accounts, NEW invited \in SUBSET Accounts, signer \notin invited,
         NEW position \in Nat, position < Cardinality(invited) + 1,
         NEW details \in RoscaDetails
  PROVE  Forming([NoCircle EXCEPT
             !.invited = {signer} \cup invited,
             !.pending_order = [i \in 1..(Cardinality(invited) + 1) |->
                                    IF i = position + 1 THEN signer ELSE None],
             !.participants[signer] = position,
             !.participants_count = 1,
             !.rosca_details = details])
<1> DEFINE number == Cardinality(invited) + 1
           order  == [i \in 1..number |-> IF i = position + 1 THEN signer ELSE None]
           part   == [[p \in Accounts |-> None] EXCEPT ![signer] = position]
           c      == [NoCircle EXCEPT
                        !.invited = {signer} \cup invited,
                        !.pending_order = [i \in 1..(Cardinality(invited) + 1) |->
                                               IF i = position + 1 THEN signer ELSE None],
                        !.participants[signer] = position,
                        !.participants_count = 1,
                        !.rosca_details = details]
<1>1. IsFiniteSet(invited) /\ Cardinality(invited) \in Nat
  BY AccountsAssumption, FS_Subset, FS_CardinalityType
<1>2. Cardinality({signer} \cup invited) = number
  <2>1. {signer} \cup invited = invited \cup {signer}
    OBVIOUS
  <2> QED BY Zenon, <1>1, <2>1, FS_AddElement
<1>3. number \in Nat /\ position + 1 \in 1..number
  BY <1>1
<1> HIDE DEF number
<1>4. order \in Seq(Accounts \cup {None}) /\ Len(order) = number
  BY <1>3
<1>5. part \in [Accounts -> Nat \cup {None}]
      /\ part[signer] = position /\ \A p \in Accounts : p # signer => part[p] = None
  OBVIOUS
<1> HIDE DEF order, part
<1>6. /\ c.rosca_details = details /\ c.active_roscas = None /\ c.completed_roscas = FALSE
      /\ c.invited = {signer} \cup invited
      /\ c.participants = part
      /\ c.participants_count = 1
      /\ c.pending_order = order
      /\ c.next_pay_by = None /\ c.final_pay_by = None /\ c.eligible_claimant = None
      /\ c.current_contributors = {} /\ c.current_contribution_count = 0
  BY DEF NoCircle, order, part, number
<1>7. c \in Circle
  <2>1. c = [NoCircle EXCEPT !.invited = {signer} \cup invited, !.pending_order = order,
                             !.participants = part, !.participants_count = 1,
                             !.rosca_details = details]
    BY DEF NoCircle, order, part, number
  <2> HIDE DEF c
  <2> QED BY Zenon, <1>4, <1>5, <2>1, NoCircleTyped DEF Circle
<1> HIDE DEF c
<1>8. position # None /\ details # None /\ signer # None
  BY NoneAssumption, AccountsAssumption
<1>9. Members(c) = {signer}
  BY <1>5, <1>6, <1>8 DEF Members
<1>10. Cardinality(Members(c)) = 1
  BY <1>9, FS_Singleton
<1>11. FilledSlots(order) = {position + 1} /\ order[position + 1] = signer
  BY <1>3, <1>4, <1>8 DEF FilledSlots, order
<1>12. MembershipConsistentIn(c)
  BY <1>2, <1>3, <1>4, <1>5, <1>6, <1>9, <1>10, <1>11 DEF MembershipConsistentIn
<1> QED BY <1>6, <1>7, <1>8, <1>12 DEF Forming, c

\* The circle join_rosca stores forms.
LEMMA JoinedForms ==
  ASSUME NEW c, Forming(c), NEW signer \in c.invited, c.participants[signer] = None,
         NEW slot \in 1..Len(c.pending_order), c.pending_order[slot] = None
  PROVE  Forming(Joined(c, signer, slot))
<1> DEFINE po   == c.pending_order
           n    == Len(po)
           qo   == [po EXCEPT ![slot] = signer]
           part == [c.participants EXCEPT ![signer] = slot - 1]
           d    == Joined(c, signer, slot)
<1>1. /\ c \in Circle /\ po \in Seq(Accounts \cup {None}) /\ n \in Nat
      /\ c.invited \subseteq Accounts /\ c.participants \in [Accounts -> Nat \cup {None}]
      /\ c.participants_count \in Nat
  BY DEF Forming, Circle
<1>2. slot \in Nat /\ slot - 1 \in Nat /\ slot - 1 # None /\ signer \in Accounts /\ signer # None
  BY <1>1, NoneAssumption, AccountsAssumption
<1>3. /\ c.participants_count = Cardinality(Members(c))
      /\ n = Cardinality(c.invited)
      /\ Members(c) \subseteq c.invited
      /\ \A p \in Members(c) : c.participants[p] + 1 \in 1..n /\ po[c.participants[p] + 1] = p
      /\ \A i \in FilledSlots(po) : c.participants[po[i]] = i - 1
  BY DEF Forming, MembershipConsistentIn
<1>4. po[slot] = None
  OBVIOUS
<1>5. /\ d.pending_order = qo /\ d.participants = part
      /\ d.participants_count = c.participants_count + 1
      /\ d.invited = c.invited
      /\ d.rosca_details = c.rosca_details /\ d.active_roscas = c.active_roscas
      /\ d.completed_roscas = c.completed_roscas
      /\ d.next_pay_by = c.next_pay_by /\ d.final_pay_by = c.final_pay_by
      /\ d.eligible_claimant = c.eligible_claimant
      /\ d.current_contributors = c.current_contributors
      /\ d.current_contribution_count = c.current_contribution_count
  BY <1>1 DEF Circle, Joined
<1>6. qo \in Seq(Accounts \cup {None}) /\ Len(qo) = n
      /\ qo[slot] = signer /\ \A i \in 1..n : i # slot => qo[i] = po[i]
  BY <1>1, <1>2
<1>7. part \in [Accounts -> Nat \cup {None}] /\ part[signer] = slot - 1
      /\ \A p \in Accounts : p # signer => part[p] = c.participants[p]
  BY <1>1, <1>2
<1>8. d = [c EXCEPT !.pending_order = qo, !.participants = part,
                    !.participants_count = c.participants_count + 1]
  BY <1>1 DEF Circle, Joined
<1> HIDE DEF d, qo, part, po, n
<1>9. d \in Circle
  <2>1. /\ c \in Circle /\ qo \in Seq(Accounts \cup {None})
        /\ part \in [Accounts -> Nat \cup {None}] /\ c.participants_count + 1 \in Nat
    BY <1>1, <1>6, <1>7
  <2> QED BY Zenon, <2>1, <1>8 DEF Circle
<1>10. signer \notin Members(c) /\ Members(c) \subseteq Accounts
  BY DEF Members
<1>11. Members(d) = Members(c) \cup {signer}
  BY <1>2, <1>5, <1>7 DEF Members
<1>12. Cardinality(Members(d)) = Cardinality(Members(c)) + 1
  <2>1. IsFiniteSet(Members(c))
    BY <1>10, AccountsAssumption, FS_Subset
  <2> QED BY Zenon, <1>10, <1>11, <2>1, FS_AddElement
<1>13. ASSUME NEW p \in Members(d)
       PROVE  part[p] + 1 \in 1..n /\ qo[part[p] + 1] = p
  <2>1. CASE p = signer
    BY <1>2, <1>6, <1>7, <2>1 DEF n, po
  <2>2. CASE p # signer
    <3>1. p \in Members(c) /\ part[p] = c.participants[p] /\ p # None
      BY Zenon, <1>7, <1>10, <1>11, <2>2, AccountsAssumption
    <3>2. part[p] + 1 \in 1..n /\ po[part[p] + 1] = p
      BY <1>3, <3>1
    <3>3. part[p] + 1 # slot
      BY <1>4, <3>1, <3>2
    <3> QED BY <1>6, <3>2, <3>3
  <2> QED BY <2>1, <2>2
<1>14. ASSUME NEW i \in FilledSlots(qo)
       PROVE  part[qo[i]] = i - 1
  <2>1. i \in 1..n /\ qo[i] # None
    BY <1>6 DEF FilledSlots
  <2>2. CASE i = slot
    BY <1>6, <1>7, <2>2
  <2>3. CASE i # slot
    <3>1. qo[i] = po[i] /\ i \in FilledSlots(po)
      BY <1>6, <2>1, <2>3 DEF FilledSlots, n
    <3>2. c.participants[po[i]] = i - 1 /\ po[i] \in Accounts
      BY <1>1, <1>3, <2>1, <3>1 DEF n
    <3>3. i - 1 # None
      BY <1>1, <2>1, NoneAssumption
    <3>4. po[i] # signer
      BY <3>2, <3>3
    <3> QED BY <1>7, <3>1, <3>2, <3>4
  <2> QED BY <2>2, <2>3
<1>15. MembershipConsistentIn(d)
  <2>1. /\ d.participants_count = Cardinality(Members(d))
        /\ Len(d.pending_order) = Cardinality(d.invited)
        /\ Members(d) \subseteq d.invited
    BY <1>3, <1>5, <1>6, <1>11, <1>12
  <2> QED BY <1>5, <1>6, <1>13, <1>14, <2>1 DEF MembershipConsistentIn
<1> QED BY <1>5, <1>9, <1>15 DEF Forming, d

\* The circle leave_rosca stores forms.
LEMMA LeftForms ==
  ASSUME NEW c, Forming(c), NEW signer \in Members(c)
  PROVE  Forming(Left(c, signer))
<1> DEFINE po   == c.pending_order
           n    == Len(po)
           slot == c.participants[signer] + 1
           qo   == [po EXCEPT ![slot] = None]
           part == [c.participants EXCEPT ![signer] = None]
           dep  == [c.security_deposit EXCEPT ![signer] = 0]
           d    == Left(c, signer)
<1>1. /\ c \in Circle /\ po \in Seq(Accounts \cup {None}) /\ n \in Nat
      /\ c.invited \subseteq Accounts /\ c.participants \in [Accounts -> Nat \cup {None}]
      /\ c.participants_count \in Nat
      /\ c.security_deposit \in [Accounts -> 0..MaxU32]
  BY DEF Forming, Circle
<1>2. /\ c.participants_count = Cardinality(Members(c))
      /\ n = Cardinality(c.invited)
      /\ Members(c) \subseteq c.invited
      /\ \A p \in Members(c) : c.participants[p] + 1 \in 1..n /\ po[c.participants[p] + 1] = p
      /\ \A i \in FilledSlots(po) : c.participants[po[i]] = i - 1
  BY DEF Forming, MembershipConsistentIn
<1>3. slot \in 1..n /\ po[slot] = signer
  BY <1>2
<1>4. signer \in Accounts /\ signer # None /\ Members(c) \subseteq Accounts
  BY AccountsAssumption DEF Members
<1>5. /\ d.pending_order = qo /\ d.participants = part
      /\ d.participants_count = c.participants_count - 1
      /\ d.invited = c.invited
      /\ d.rosca_details = c.rosca_details /\ d.active_roscas = c.active_roscas
      /\ d.completed_roscas = c.completed_roscas
      /\ d.next_pay_by = c.next_pay_by /\ d.final_pay_by = c.final_pay_by
      /\ d.eligible_claimant = c.eligible_claimant
      /\ d.current_contributors = c.current_contributors
      /\ d.current_contribution_count = c.current_contribution_count
  BY <1>1 DEF Circle, Left
<1>6. d = [c EXCEPT !.pending_order = qo, !.participants = part,
                    !.participants_count = c.participants_count - 1,
                    !.security_deposit = dep]
  BY <1>1 DEF Circle, Left
<1> HIDE DEF slot
<1>7. qo \in Seq(Accounts \cup {None}) /\ Len(qo) = n
      /\ qo[slot] = None /\ \A i \in 1..n : i # slot => qo[i] = po[i]
  BY <1>1, <1>3
<1>8. part \in [Accounts -> Nat \cup {None}] /\ part[signer] = None
      /\ \A p \in Accounts : p # signer => part[p] = c.participants[p]
  BY <1>1, <1>4
<1>9. dep \in [Accounts -> 0..MaxU32]
  <2>1. 0 \in 0..MaxU32
    BY LimitsAssumption
  <2> QED BY Zenon, <1>1, <2>1
<1> HIDE DEF d, qo, part, po, n, dep
<1>10. Members(d) = Members(c) \ {signer}
  BY <1>4, <1>5, <1>8 DEF Members
<1>11. IsFiniteSet(Members(c)) /\ Cardinality(Members(c)) \in Nat
  BY <1>4, AccountsAssumption, FS_Subset, FS_CardinalityType
<1>12. Cardinality(Members(d)) = Cardinality(Members(c)) - 1
  BY <1>10, <1>11, FS_RemoveElement
<1>13. IsFiniteSet(Members(d)) /\ Cardinality(Members(d)) \in Nat
  BY <1>10, <1>11, FS_RemoveElement, FS_CardinalityType
<1>14. d \in Circle
  <2>1. /\ c \in Circle /\ qo \in Seq(Accounts \cup {None})
        /\ part \in [Accounts -> Nat \cup {None}] /\ c.participants_count - 1 \in Nat
    BY Zenon, <1>1, <1>2, <1>7, <1>8, <1>12, <1>13
  <2> QED BY Zenon, <1>6, <1>9, <2>1 DEF Circle
<1>15. ASSUME NEW p \in Members(d)
       PROVE  part[p] + 1 \in 1..n /\ qo[part[p] + 1] = p
  <2>1. p \in Members(c) /\ p # signer /\ part[p] = c.participants[p]
    BY <1>4, <1>8, <1>10
  <2>2. part[p] + 1 \in 1..n /\ po[part[p] + 1] = p
    BY <1>2, <2>1
  <2>3. part[p] + 1 # slot
    BY <1>3, <2>1, <2>2
  <2> QED BY <1>7, <2>2, <2>3
<1>16. ASSUME NEW i \in FilledSlots(qo)
       PROVE  part[qo[i]] = i - 1
  <2>1. i \in 1..n /\ qo[i] # None
    BY <1>7 DEF FilledSlots
  <2>2. i # slot
    BY <1>7, <2>1
  <2>3. qo[i] = po[i] /\ i \in FilledSlots(po)
    BY <1>7, <2>1, <2>2 DEF FilledSlots, n
  <2>4. c.participants[po[i]] = i - 1 /\ po[i] \in Accounts
    BY <1>1, <1>2, <2>1, <2>3 DEF n
  <2>5. po[i] # signer
    BY <1>1, <2>1, <2>2, <2>4 DEF slot
  <2> QED BY <1>8, <2>3, <2>4, <2>5
<1>17. MembershipConsistentIn(d)
  <2>1. /\ d.participants_count = Cardinality(Members(d))
        /\ Len(d.pending_order) = Cardinality(d.invited)
        /\ Members(d) \subseteq d.invited
    BY Zenon, <1>2, <1>5, <1>7, <1>10, <1>12
  <2> QED BY Zenon, <1>5, <1>7, <1>15, <1>16, <2>1 DEF MembershipConsistentIn
<1> QED BY <1>5, <1>14, <1>17 DEF Forming, d

\* The circle start_rosca stores runs, with all rounds but the first to come.
LEMMA StartedRuns ==
  ASSUME NEW c, Forming(c), Members(c) # {}, NEW t \in Moment,
         NEW order \in ClaimOrders(c.rosca_details, c.pending_order),
         RoundsFit(order, t, c.rosca_details.contribution_frequency)
  PROVE  LET f == c.rosca_details.contribution_frequency
         IN  Running(Started(c, order, t + f, t + c.participants_count * f), Len(order) - 1)
<1> DEFINE f      == c.rosca_details.contribution_frequency
           n      == Len(order)
           cutoff == t + f
           final  == t + c.participants_count * f
           d      == Started(c, order, cutoff, final)
<1>1. c \in Circle /\ MembershipConsistentIn(c)
  BY DEF Forming
<1>2. order \in Seq(Accounts) /\ n = c.participants_count /\ Lists(order, Members(c))
  BY Zenon, <1>1, ClaimOrdersList
<1>3. n \in Nat /\ n > 0 /\ n >= 1
  <2>1. n \in Nat /\ \E i \in 1..n : TRUE
    BY <1>2 DEF Lists
  <2> QED BY <2>1
<1>4. c.rosca_details \in RoscaDetails /\ f \in Moment \ {0}
  <2>1. c.rosca_details \in RoscaDetails
    BY <1>1 DEF Circle, Forming
  <2> QED BY <2>1 DEF RoscaDetails
<1>5. MaxMoment \in Nat /\ f \in Nat /\ f > 0 /\ t \in Nat
  BY <1>4, LimitsAssumption DEF Moment
<1>6. /\ final = cutoff + (n - 1) * f
      /\ final + f <= MaxMoment
      /\ cutoff \in Moment /\ final \in Moment
  <2> HIDE DEF f, n
  <2>1. (n - 1) * f = n * f - f
    BY <1>3, <1>5, OneRoundLess
  <2>2. ((n + 1) - 1) * f = (n + 1) * f - f
    BY <1>3, <1>5, OneRoundLess
  <2>3. (n + 1) - 1 = n
    BY <1>3
  <2>4. n * f \in Int /\ (n - 1) * f \in Int /\ (n + 1) * f \in Int
    BY <1>3, <1>5
  <2>5. (n - 1) * f >= 0
    BY <1>3, <1>5, RoundsSign
  <2>6. t + (n + 1) * f <= MaxMoment
    BY DEF RoundsFit, f, n
  <2>7. final = t + n * f
    BY <1>2
  <2> QED BY <1>5, <2>1, <2>2, <2>3, <2>4, <2>5, <2>6, <2>7 DEF Moment
<1>7. /\ RotateRight(order) \in Seq(Accounts)
      /\ Len(RotateRight(order)) = n
      /\ RotateRight(order)[1] = order[n]
      /\ order[n] \in Accounts
      /\ Lists(RotateRight(order), Members(c))
  BY <1>2, <1>3, RotateRightLists
<1> HIDE DEF cutoff, final
<1>8. d = [c EXCEPT !.eligible_claimant = order[n], !.active_order = RotateRight(order),
                    !.next_pay_by = cutoff, !.final_pay_by = final,
                    !.active_roscas = c.rosca_details, !.rosca_details = None]
  BY DEF Started
<1> HIDE DEF d
<1>9. /\ d \in Circle
      /\ d.eligible_claimant = order[n] /\ d.active_order = RotateRight(order)
      /\ d.next_pay_by = cutoff /\ d.final_pay_by = final
      /\ d.active_roscas = c.rosca_details /\ d.rosca_details = None
      /\ d.completed_roscas = c.completed_roscas
      /\ d.participants = c.participants /\ d.participants_count = c.participants_count
      /\ d.invited = c.invited /\ d.pending_order = c.pending_order
      /\ d.current_contributors = c.current_contributors
      /\ d.current_contribution_count = c.current_contribution_count
  <2> HIDE DEF n
  <2> QED BY ZenonT(60), <1>1, <1>4, <1>6, <1>7, <1>8 DEF Circle
<1>10. Members(d) = Members(c)
  BY <1>9 DEF Members
<1>11. MembershipConsistentIn(d)
  BY <1>1, <1>9, <1>10 DEF MembershipConsistentIn
<1>12. d.next_pay_by # None /\ d.final_pay_by # None
  BY <1>6, <1>9, NoneAssumption DEF Moment
<1>13. ContributionsCountedIn(d)
  BY Zenon, <1>9, <1>12, FS_EmptySet DEF ContributionsCountedIn, Forming
<1>14. n - 1 \in (-1)..(Len(d.active_order) - 1)
  BY <1>3, <1>7, <1>9
<1> HIDE DEF n
<1>15. Running(d, n - 1)
  BY Zenon, <1>2, <1>3, <1>6, <1>7, <1>9, <1>10, <1>11, <1>12, <1>13, <1>14 DEF Running, Forming
<1> QED BY <1>15 DEF d, cutoff, final, n

-----------------------------------------------------------------------------
(***************************************************************************)
(* The inductive invariant.  A used id is in one of three phases, and each *)
(* phase fixes what the other storage items of the circle hold.            *)
(***************************************************************************)

InPhase(c) == Forming(c) \/ (\E left \in Nat : Running(c, left)) \/ Over(c)

PhaseInv ==
    /\ now \in Moment
    /\ next_rosca_id \in 0..MaxRoscas
    /\ balance \in Ledger
    /\ circle \in [RoscaIds -> Circle]
    /\ \A id \in RoscaIds :
          IF id < next_rosca_id THEN InPhase(circle[id]) ELSE circle[id] = NoCircle

\* A call that writes only deposits, default counts or nothing keeps the
\* phase.
LEMMA SameRoundInPhase ==
  ASSUME NEW c, InPhase(c), NEW d \in Circle, SameRound(c, d)
  PROVE  InPhase(d)
<1>1. Members(d) = Members(c)
  BY DEF SameRound, Members
<1>2. MembershipConsistentIn(c) => MembershipConsistentIn(d)
  BY <1>1 DEF SameRound, MembershipConsistentIn
<1>3. CASE Forming(c)
  BY <1>2, <1>3 DEF Forming, SameRound, InPhase
<1>4. CASE \E left \in Nat : Running(c, left)
  BY <1>4, ChargedRuns DEF InPhase
<1>5. CASE Over(c)
  BY <1>2, <1>5 DEF Over, SameRound, InPhase
<1> QED BY <1>3, <1>4, <1>5 DEF InPhase

\* An id whose circle has anything stored is in use.
LEMMA UsedInPhase ==
  ASSUME PhaseInv, NEW id \in RoscaIds, circle[id] # NoCircle
  PROVE  InPhase(circle[id]) /\ id < next_rosca_id
BY DEF PhaseInv

\* A call on one circle in use leaves the others alone.
LEMMA OneCircleWritten ==
  ASSUME PhaseInv, NEW id \in RoscaIds, id < next_rosca_id,
         NEW d, InPhase(d), circle' = [circle EXCEPT ![id] = d],
         balance' \in Ledger, UNCHANGED <<now, next_rosca_id>>
  PROVE  PhaseInv'
<1>1. d \in Circle
  BY DEF InPhase, Forming, Running, Over
<1>2. /\ circle' \in [RoscaIds -> Circle]
      /\ circle'[id] = d
      /\ \A j \in RoscaIds : j # id => circle'[j] = circle[j]
  BY <1>1 DEF PhaseInv
<1> QED BY <1>2 DEF PhaseInv

-----------------------------------------------------------------------------
(***************************************************************************)
(* One lemma per call.                                                     *)
(***************************************************************************)

\* Genesis: no circle and the funding of the accounts.
LEMMA InitInv ==
  Init => PhaseInv
<1> SUFFICES ASSUME Init PROVE PhaseInv
  OBVIOUS
<1>1. 0 \in Moment /\ 0 \in 0..MaxRoscas
  BY LimitsAssumption, BoundsAssumption DEF Moment
<1>2. balance \in Ledger
  <2>1. PICK f \in Fundings :
          balance = [a \in PaymentAssets |->
                        [h \in Holders |-> IF h \in Accounts THEN f[a][h] ELSE 0]]
    BY DEF Init
  <2>2. \A a \in PaymentAssets, h \in Accounts : f[a][h] \in Nat
    BY InputsAssumption
  <2> QED BY <2>1, <2>2 DEF Ledger
<1>3. circle \in [RoscaIds -> Circle] /\ \A id \in RoscaIds : circle[id] = NoCircle
  BY NoCircleTyped DEF Init
<1>4. \A id \in RoscaIds : ~(id < next_rosca_id)
  BY BoundsAssumption DEF RoscaIds, Init
<1> QED BY <1>1, <1>2, <1>3, <1>4 DEF Init, PhaseInv

\* create_rosca fills the storage of an unused id.
LEMMA CreateInv ==
  ASSUME PhaseInv, NEW signer \in Accounts, NEW a \in ProposalType, create_rosca(signer, a)
  PROVE  PhaseInv'
<1> DEFINE id       == next_rosca_id
           position == PositionOr0(a.position)
           number   == Cardinality(a.invited) + 1
           details  == [random_order |-> a.random_order,
                        number_of_participants |-> number,
                        minimum_participant_threshold |-> a.minimum_participant_threshold,
                        contribution_amount |-> a.contribution_amount,
                        payment_asset |-> a.payment_asset,
                        contribution_frequency |-> a.contribution_frequency,
                        start_by_timestamp |-> a.start_by_timestamp]
           d        == [NoCircle EXCEPT
                          !.invited = {signer} \cup a.invited,
                          !.pending_order = [i \in 1..(Cardinality(a.invited) + 1) |->
                                                 IF i = position + 1 THEN signer ELSE None],
                          !.participants[signer] = position,
                          !.participants_count = 1,
                          !.rosca_details = details]
<1>1. a \in ProposalType
  OBVIOUS
<1>2. a.invited \in SUBSET Accounts /\ position \in Nat
  BY <1>1, NoneAssumption DEF ProposalType, PositionOr0
<1>3. IsFiniteSet(a.invited) /\ Cardinality(a.invited) \in Nat
  BY Zenon, <1>2, AccountsAssumption, FS_Subset, FS_CardinalityType
<1>4. details \in RoscaDetails
  <2>1. /\ a.random_order \in BOOLEAN /\ number \in Nat
        /\ a.minimum_participant_threshold \in Nat
        /\ a.payment_asset \in PaymentAssets
        /\ a.start_by_timestamp \in Moment
    BY <1>1, <1>3 DEF ProposalType
  <2>2. a.contribution_amount \in 1..MaxU32
    BY <1>1, LimitsAssumption DEF ProposalType, create_rosca
  <2>3. a.contribution_frequency \in Moment \ {0}
    BY <1>1, LimitsAssumption DEF ProposalType, create_rosca, Moment
  <2> HIDE DEF number
  <2> QED BY <2>1, <2>2, <2>3 DEF RoscaDetails
<1>5. /\ id \in RoscaIds /\ signer \notin a.invited /\ position < number
      /\ next_rosca_id' = next_rosca_id + 1 /\ now' = now /\ balance' = balance
  BY DEF create_rosca
<1>6. Forming(d)
  <2> HIDE DEF position, details
  <2> QED BY Zenon, <1>2, <1>4, <1>5, CreatedForms
<1>7. circle[id] = NoCircle
  BY <1>5 DEF PhaseInv, RoscaIds
<1>8. circle' = [circle EXCEPT ![id] = d]
  BY <1>7 DEF create_rosca
<1> HIDE DEF d
<1>9. /\ d \in Circle /\ InPhase(d)
  BY <1>6 DEF Forming, InPhase
<1>10. /\ circle' \in [RoscaIds -> Circle]
       /\ circle'[id] = d
       /\ \A j \in RoscaIds : j # id => circle'[j] = circle[j]
  BY <1>5, <1>8, <1>9 DEF PhaseInv
<1>11. next_rosca_id' \in 0..MaxRoscas
  BY <1>5, BoundsAssumption DEF RoscaIds
<1>12. ASSUME NEW j \in RoscaIds
       PROVE  IF j < next_rosca_id' THEN InPhase(circle'[j]) ELSE circle'[j] = NoCircle
  <2>1. CASE j = id
    <3>1. j < next_rosca_id'
      BY <1>5, <2>1 DEF RoscaIds
    <3> QED BY Zenon, <1>9, <1>10, <2>1, <3>1
  <2>2. CASE j # id
    <3>1. j < next_rosca_id' <=> j < next_rosca_id
      BY <1>5, <2>2, BoundsAssumption DEF RoscaIds
    <3> QED BY Zenon, <1>10, <2>2, <3>1 DEF PhaseInv
  <2> QED BY <2>1, <2>2
<1> QED BY <1>5, <1>10, <1>11, <1>12 DEF PhaseInv

\* join_rosca writes a forming circle.
LEMMA JoinInv ==
  ASSUME PhaseInv, NEW signer \in Accounts, NEW id \in RoscaIds, NEW position,
         join_rosca(signer, id, position)
  PROVE  PhaseInv'
<1> DEFINE c == circle[id]
           n == Len(c.pending_order)
<1>1. c.rosca_details # None /\ signer \in c.invited /\ c.participants[signer] = None
      /\ now' = now /\ next_rosca_id' = next_rosca_id /\ balance' = balance
  BY DEF join_rosca
<1>2. c # NoCircle
  BY Zenon, <1>1, NoCircleIdle
<1>3. InPhase(c) /\ id < next_rosca_id
  BY Zenon, <1>2, UsedInPhase
<1>4. Forming(c)
  BY <1>1, <1>3 DEF InPhase, Running, Over
<1>5. PICK slot \in JoinSlots(c.pending_order, position) :
        circle' = [circle EXCEPT ![id] = Joined(c, signer, slot)]
  BY Zenon DEF join_rosca
<1>6. slot \in 1..n /\ c.pending_order[slot] = None
  BY DEF JoinSlots
<1>7. Forming(Joined(c, signer, slot))
  BY Zenon, <1>1, <1>4, <1>6, JoinedForms
<1>8. InPhase(Joined(c, signer, slot)) /\ balance' \in Ledger
  BY <1>1, <1>7 DEF InPhase, PhaseInv
<1> QED BY Zenon, <1>1, <1>3, <1>5, <1>8, OneCircleWritten

\* leave_rosca writes a forming circle and pays its deposit back.
LEMMA LeaveInv ==
  ASSUME PhaseInv, NEW signer \in Accounts, NEW id \in RoscaIds, leave_rosca(signer, id)
  PROVE  PhaseInv'
<1> DEFINE c       == circle[id]
           asset   == c.rosca_details.payment_asset
           fund    == rosca_account_id(id)
           deposit == c.security_deposit[signer]
           d       == Left(c, signer)
<1>1. c.rosca_details # None /\ c.participants[signer] # None
      /\ now' = now /\ next_rosca_id' = next_rosca_id
  BY DEF leave_rosca
<1>2. c # NoCircle
  BY Zenon, <1>1, NoCircleIdle
<1>3. InPhase(c) /\ id < next_rosca_id
  BY Zenon, <1>2, UsedInPhase
<1>4. Forming(c)
  BY <1>1, <1>3 DEF InPhase, Running, Over
<1>5. signer \in Members(c)
  BY <1>1 DEF Members
<1>6. Forming(d)
  BY Zenon, <1>4, <1>5, LeftForms
<1>7. circle' = [circle EXCEPT ![id] = d]
  BY DEF leave_rosca
<1>8. balance' \in Ledger
  <2>1. c \in Circle
    BY <1>4 DEF Forming
  <2>2. deposit \in Nat /\ c.rosca_details \in RoscaDetails
    BY Zenon, <1>1, <2>1, StoredTyped
  <2>3. asset \in PaymentAssets
    BY Zenon, <2>2, DetailsAsset
  <2>4. fund \in Holders /\ signer \in Holders /\ balance \in Ledger
    BY Zenon, FundHolds DEF PhaseInv
  <2>5. /\ deposit > 0 => CanTransfer(balance, asset, fund, signer, deposit)
        /\ balance' = IF deposit > 0 THEN Transfer(balance, asset, fund, signer, deposit)
                      ELSE balance
    BY DEF leave_rosca
  <2> HIDE DEF deposit, asset, fund
  <2> QED BY Zenon, <2>2, <2>3, <2>4, <2>5, TransferTyped
<1> HIDE DEF d
<1>9. InPhase(d)
  BY <1>6 DEF InPhase
<1> QED BY Zenon, <1>1, <1>3, <1>7, <1>8, <1>9, OneCircleWritten

\* start_rosca turns a forming circle into a running one.
LEMMA StartInv ==
  ASSUME PhaseInv, NEW signer \in Accounts, NEW id \in RoscaIds, start_rosca(signer, id)
  PROVE  PhaseInv'
<1> DEFINE c         == circle[id]
           frequency == c.rosca_details.contribution_frequency
           cutoff    == now + frequency
           final     == now + c.participants_count * frequency
<1>1. c.rosca_details # None /\ c.participants[signer] # None
      /\ now' = now /\ next_rosca_id' = next_rosca_id /\ balance' = balance
  BY DEF start_rosca
<1>2. c # NoCircle
  BY Zenon, <1>1, NoCircleIdle
<1>3. InPhase(c) /\ id < next_rosca_id
  BY Zenon, <1>2, UsedInPhase
<1>4. Forming(c)
  BY <1>1, <1>3 DEF InPhase, Running, Over
<1>5. PICK order \in ClaimOrders(c.rosca_details, c.pending_order) :
        /\ RoundsFit(order, now, frequency)
        /\ circle' = [circle EXCEPT ![id] = Started(c, order, cutoff, final)]
  BY Zenon DEF start_rosca
<1>6. Members(c) # {} /\ now \in Moment /\ balance' \in Ledger
  BY Zenon, <1>1 DEF Members, PhaseInv
<1>7. Running(Started(c, order, cutoff, final), Len(order) - 1)
  BY <1>4, <1>5, <1>6, StartedRuns
<1>8. Len(order) - 1 \in Nat
  <2>1. c \in Circle /\ MembershipConsistentIn(c)
    BY <1>4 DEF Forming
  <2>2. order \in Seq(Accounts) /\ Lists(order, Members(c))
    BY <2>1, ClaimOrdersList
  <2>3. Len(order) \in Nat /\ \E i \in 1..Len(order) : TRUE
    BY <1>6, <2>2 DEF Lists
  <2> QED BY <2>3
<1>9. InPhase(Started(c, order, cutoff, final))
  BY <1>7, <1>8 DEF InPhase
<1> HIDE DEF cutoff, final
<1> QED BY Zenon, <1>1, <1>3, <1>5, <1>6, <1>9, OneCircleWritten

\* contribute_to_rosca leaves a running circle running or completes it.
LEMMA ContributeInv ==
  ASSUME PhaseInv, NEW signer \in Accounts, NEW id \in RoscaIds,
         contribute_to_rosca(signer, id)
  PROVE  PhaseInv'
<1> DEFINE c == circle[id]
           s == OpenLayer(c, balance)
           r == CatchUp(id, s, now)
           q == Contribution(id, signer)
<1>1. /\ c.participants[signer] # None /\ c.active_roscas # None
      /\ c.eligible_claimant # signer /\ signer \notin c.current_contributors
      /\ Commit(id, q)
  BY DEF contribute_to_rosca
<1>2. c # NoCircle
  BY Zenon, <1>1, NoCircleIdle
<1>3. InPhase(c) /\ id < next_rosca_id
  BY Zenon, <1>2, UsedInPhase
<1>4. PICK left \in Nat : Running(c, left)
  BY Zenon, <1>1, <1>3 DEF InPhase, Forming, Over
<1>5. Layer(s) /\ s.circle = c /\ s.ok
  BY Zenon, <1>4 DEF OpenLayer, Layer, Running, PhaseInv
<1>6. Caught(s, s.circle)
  BY <1>4, <1>5 DEF Caught
<1>7. Caught(r, c)
  <2> HIDE DEF s
  <2>1. Caught(CatchUp(id, s, now), s.circle)
    BY <1>6, CatchUpCaught
  <2> QED BY <1>5, <2>1
<1>8. c.participants_count >= 2
  <2>1. signer \in Members(c)
    BY Zenon, <1>1 DEF Members
  <2>2. PICK i \in 1..Len(c.active_order) : c.active_order[i] = signer
    BY Zenon, <1>4, <2>1 DEF Running, Lists
  <2>3. c.active_order[1] # signer /\ Len(c.active_order) = c.participants_count
    BY <1>1, <1>4 DEF Running
  <2>4. Len(c.active_order) \in Nat
    BY <1>4, RunningTyped
  <2> QED BY <2>2, <2>3, <2>4
<1> HIDE DEF r, s
<1>9. q = IF r.ok /\ ~r.circle.completed_roscas THEN PayContribution(id, r, signer) ELSE r
  BY DEF Contribution, r, s
<1>10. q.ok => Layer(q) /\ InPhase(q.circle)
  <2>1. CASE r.ok /\ ~r.circle.completed_roscas
    <3>1. PICK k \in Nat : Running(r.circle, k)
      BY <1>7, <2>1 DEF Caught, Over
    <3>2. /\ r.circle.participants = c.participants
          /\ r.circle.participants_count = c.participants_count
          /\ r.circle.current_contributors \subseteq c.current_contributors
          /\ Layer(r)
      BY <1>7, <2>1 DEF Caught
    <3>3. signer \in Members(r.circle) /\ signer \notin r.circle.current_contributors
      BY Zenon, <1>1, <3>2 DEF Members
    <3>4. /\ Layer(PayContribution(id, r, signer))
          /\ PayContribution(id, r, signer).ok =>
                \/ Over(PayContribution(id, r, signer).circle)
                \/ \E j \in Nat : Running(PayContribution(id, r, signer).circle, j)
      BY Zenon, <1>8, <2>1, <3>1, <3>2, <3>3, ContributionPaid
    <3> QED BY Zenon, <1>9, <2>1, <3>4 DEF InPhase
  <2>2. CASE ~(r.ok /\ ~r.circle.completed_roscas)
    <3>1. q = r
      BY <1>9, <2>2
    <3> QED BY <1>7, <3>1 DEF Caught, InPhase
  <2> QED BY <2>1, <2>2
<1>11. /\ q.ok /\ circle' = [circle EXCEPT ![id] = q.circle] /\ balance' = q.balance
       /\ UNCHANGED <<now, next_rosca_id>>
  BY <1>1 DEF Commit
<1> HIDE DEF q
<1>12. balance' \in Ledger /\ InPhase(q.circle)
  BY <1>10, <1>11 DEF Layer
<1> QED BY Zenon, <1>3, <1>11, <1>12, OneCircleWritten

\* manually_end_rosca closes what remains and completes the circle.
LEMMA EndInv ==
  ASSUME PhaseInv, NEW id \in RoscaIds, manually_end_rosca(id)
  PROVE  PhaseInv'
<1> DEFINE c      == circle[id]
           s      == OpenLayer(c, balance)
           r      == CloseAllRounds(id, s)
           q      == ManualEnd(id)
<1>1. c.active_roscas # None /\ Commit(id, q)
  BY DEF manually_end_rosca
<1>2. c # NoCircle
  BY Zenon, <1>1, NoCircleIdle
<1>3. InPhase(c) /\ id < next_rosca_id
  BY Zenon, <1>2, UsedInPhase
<1>4. PICK left \in Nat : Running(c, left)
  BY Zenon, <1>1, <1>3 DEF InPhase, Forming, Over
<1>5. Layer(s) /\ s.circle = c
  BY Zenon, <1>4 DEF OpenLayer, Layer, Running, PhaseInv
<1>6. Closing(s)
  BY <1>4, <1>5 DEF Closing
<1> HIDE DEF s
<1>7. Closing(r)
  BY <1>6, CloseAllClosing
<1> HIDE DEF r
<1>8. q.ok /\ circle' = [circle EXCEPT ![id] = q.circle] /\ balance' = q.balance
      /\ UNCHANGED <<now, next_rosca_id>>
  BY Zenon, <1>1 DEF Commit
<1>9. q = Failed(r) \/ (r.ok /\ q = Complete(id, r))
  BY DEF ManualEnd, r, s
<1> HIDE DEF q
<1>10. r.ok /\ q = Complete(id, r)
  <2>1. Layer(r)
    BY <1>7 DEF Closing
  <2>2. ~Failed(r).ok
    BY <2>1 DEF Failed, Layer
  <2> QED BY <1>8, <1>9, <2>2
<1>11. PICK k \in Int : Running(r.circle, k)
  BY <1>7, <1>10 DEF Closing
<1>12. r.circle.eligible_claimant # None
  <2>1. r.circle.eligible_claimant \in Accounts
    BY Zenon, <1>11, RunningTyped
  <2> QED BY <2>1, AccountsAssumption
<1>13. Layer(q) /\ Over(q.circle)
  <2>1. /\ Layer(r) /\ MembershipConsistentIn(r.circle) /\ r.circle.rosca_details = None
        /\ r.circle.next_pay_by # None /\ r.circle.final_pay_by # None
    BY <1>7, <1>11 DEF Closing, Running
  <2> QED BY Zenon, <1>10, <1>12, <2>1, CompleteIsOver
<1>14. balance' \in Ledger /\ InPhase(q.circle)
  BY <1>8, <1>13 DEF Layer, InPhase
<1> QED BY Zenon, <1>3, <1>8, <1>14, OneCircleWritten

\* claim_security_deposit writes a deposit and the ledger.
LEMMA ClaimInv ==
  ASSUME PhaseInv, NEW signer \in Accounts, NEW id \in RoscaIds, NEW asset \in PaymentAssets,
         claim_security_deposit(signer, id, asset)
  PROVE  PhaseInv'
<1> DEFINE c       == circle[id]
           fund    == rosca_account_id(id)
           deposit == c.security_deposit[signer]
           d       == [c EXCEPT !.security_deposit[signer] = 0]
<1>1. /\ c.final_pay_by # None /\ CanTransfer(balance, asset, fund, signer, deposit)
      /\ balance' = Transfer(balance, asset, fund, signer, deposit)
      /\ UNCHANGED <<now, next_rosca_id>>
  BY DEF claim_security_deposit
<1>2. c # NoCircle
  BY Zenon, <1>1, NoCircleIdle
<1>3. InPhase(c) /\ id < next_rosca_id
  BY Zenon, <1>2, UsedInPhase
<1>4. c \in Circle /\ balance \in Ledger
  BY DEF PhaseInv
<1>5. deposit \in Nat /\ 0 \in 0..MaxU32 /\ c.security_deposit \in [Accounts -> 0..MaxU32]
  <2>1. 0 \in 0..MaxU32
    BY LimitsAssumption
  <2> QED BY Zenon, <1>4, <2>1, StoredTyped
<1>6. d \in Circle /\ SameRound(c, d)
  BY Zenon, <1>4, <1>5 DEF Circle, SameRound
<1>7. InPhase(d)
  BY Zenon, <1>3, <1>6, SameRoundInPhase
<1>8. balance' \in Ledger
  <2>1. fund \in Holders /\ signer \in Holders
    BY Zenon, FundHolds
  <2> HIDE DEF fund, deposit
  <2> QED BY <1>1, <1>4, <1>5, <2>1, TransferTyped
<1>9. circle' = [circle EXCEPT ![id] = d]
  BY <1>4 DEF claim_security_deposit
<1> HIDE DEF d
<1> QED BY Zenon, <1>1, <1>3, <1>7, <1>8, <1>9, OneCircleWritten

\* add_to_security_deposit writes a deposit, within u32, and the ledger.
LEMMA AddDepositInv ==
  ASSUME PhaseInv, NEW signer \in Accounts, NEW id \in RoscaIds, NEW amount \in DepositAmounts,
         add_to_security_deposit(signer, id, amount)
  PROVE  PhaseInv'
<1> DEFINE c       == circle[id]
           rosca   == IF c.active_roscas # None THEN c.active_roscas ELSE c.rosca_details
           fund    == rosca_account_id(id)
           deposit == c.security_deposit[signer]
           d       == [c EXCEPT !.security_deposit[signer] = deposit + amount]
<1>1. /\ c.participants[signer] # None /\ rosca # None
      /\ CanTransfer(balance, rosca.payment_asset, signer, fund, amount)
      /\ DepositFits(deposit, amount)
      /\ balance' = Transfer(balance, rosca.payment_asset, signer, fund, amount)
      /\ UNCHANGED <<now, next_rosca_id>>
  <2> HIDE DEF d
  <2> QED BY DEF add_to_security_deposit
<1>2. c # NoCircle
  <2>1. NoCircle.participants[signer] = None
    BY DEF NoCircle
  <2> HIDE DEF c, rosca, fund, deposit, d
  <2> QED BY Zenon, <1>1, <2>1
<1>3. InPhase(c) /\ id < next_rosca_id
  BY Zenon, <1>2, UsedInPhase
<1>4. c \in Circle /\ balance \in Ledger
  BY DEF PhaseInv
<1>5. /\ deposit \in Nat /\ amount \in Nat /\ deposit + amount \in 0..MaxU32
      /\ c.security_deposit \in [Accounts -> 0..MaxU32]
  <2> HIDE DEF rosca, fund, d
  <2>1. c.security_deposit \in [Accounts -> 0..MaxU32] /\ deposit \in Nat
    BY Zenon, <1>4, StoredTyped
  <2> QED BY Zenon, <1>1, <2>1, DepositAmountsTyped
<1>6. d \in Circle /\ SameRound(c, d)
  BY ZenonT(60), <1>4, <1>5 DEF Circle, SameRound
<1>7. InPhase(d)
  BY <1>3, <1>6, SameRoundInPhase
<1>8. balance' \in Ledger
  <2>1. fund \in Holders /\ signer \in Holders
    BY Zenon, FundHolds
  <2>2. rosca \in RoscaDetails
    BY Zenon, <1>1, <1>4, StoredTyped
  <2>3. rosca.payment_asset \in PaymentAssets
    BY Zenon, <2>2, DetailsAsset
  <2> HIDE DEF fund, rosca
  <2> QED BY ZenonT(30), <1>1, <1>4, <1>5, <2>1, <2>3, TransferTyped
<1>9. circle' = [circle EXCEPT ![id] = d]
  BY <1>4 DEF add_to_security_deposit
<1> HIDE DEF d
<1> QED BY ZenonT(60), <1>1, <1>3, <1>7, <1>8, <1>9, OneCircleWritten

\* Transfers outside the pallet touch the ledger only.
LEMMA OutsideInv ==
  ASSUME PhaseInv, NEW t \in OutsideTransfers, OutsideTransfer(t)
  PROVE  PhaseInv'
<1>1. t[1] \in PaymentAssets /\ t[2] \in Holders /\ t[3] \in Holders /\ t[4] \in Nat
  BY InputsAssumption
<1>2. balance \in Ledger /\ CanTransfer(balance, t[1], t[2], t[3], t[4])
      /\ balance' = Transfer(balance, t[1], t[2], t[3], t[4])
  BY DEF PhaseInv, OutsideTransfer
<1>3. balance' \in Ledger
  BY <1>1, <1>2, TransferTyped
<1> QED BY <1>3 DEF PhaseInv, OutsideTransfer

\* A new block changes the time only.
LEMMA TickInv ==
  ASSUME PhaseInv, Tick
  PROVE  PhaseInv'
<1>1. now' \in Moment
  BY BoundsAssumption, LimitsAssumption DEF PhaseInv, Tick, Moment
<1> QED BY <1>1 DEF PhaseInv, Tick

-----------------------------------------------------------------------------
\* Every call keeps each circle in its phase: PhaseInv is inductive.
LEMMA PhaseStep ==
  ASSUME PhaseInv, [Next]_vars
  PROVE  PhaseInv'
<1>0. Proposals \subseteq ProposalType
  BY Zenon, InputsAssumption
<1>1. ASSUME NEW p \in Accounts, NEW a \in Proposals, create_rosca(p, a) PROVE PhaseInv'
  BY Zenon, <1>0, <1>1, CreateInv
<1>2. ASSUME NEW id \in RoscaIds, NEW p \in Accounts, NEW position \in JoinPositions,
             join_rosca(p, id, position)
      PROVE  PhaseInv'
  BY <1>2, JoinInv
<1>3. ASSUME NEW id \in RoscaIds, NEW p \in Accounts, leave_rosca(p, id) PROVE PhaseInv'
  BY <1>3, LeaveInv
<1>4. ASSUME NEW id \in RoscaIds, NEW p \in Accounts, start_rosca(p, id) PROVE PhaseInv'
  BY <1>4, StartInv
<1>5. ASSUME NEW id \in RoscaIds, NEW p \in Accounts, contribute_to_rosca(p, id)
      PROVE  PhaseInv'
  BY <1>5, ContributeInv
<1>6. ASSUME NEW id \in RoscaIds, NEW p \in Accounts, NEW asset \in PaymentAssets,
             claim_security_deposit(p, id, asset)
      PROVE  PhaseInv'
  BY <1>6, ClaimInv
<1>7. ASSUME NEW id \in RoscaIds, NEW p \in Accounts, NEW amount \in DepositAmounts,
             add_to_security_deposit(p, id, amount)
      PROVE  PhaseInv'
  BY <1>7, AddDepositInv
<1>8. ASSUME NEW id \in RoscaIds, manually_end_rosca(id) PROVE PhaseInv'
  BY <1>8, EndInv
<1>9. ASSUME NEW t \in OutsideTransfers, OutsideTransfer(t) PROVE PhaseInv'
  BY <1>9, OutsideInv
<1>10. ASSUME Tick PROVE PhaseInv'
  BY <1>10, TickInv
<1>11. ASSUME UNCHANGED vars PROVE PhaseInv'
  BY <1>11 DEF vars, PhaseInv
<1> QED BY Zenon, <1>1, <1>2, <1>3, <1>4, <1>5, <1>6, <1>7, <1>8, <1>9, <1>10, <1>11 DEF Next

\* So it holds in every state of the pallet.
THEOREM PhaseInvariant ==
  Spec => []PhaseInv
<1>1. PhaseInv /\ [Next]_vars => PhaseInv'
  BY PhaseStep
<1> QED BY <1>1, InitInv, PTL DEF Spec

\* PhaseInv says all that the five invariants say.
LEMMA PhaseInvImplies ==
  PhaseInv => /\ TypeOK /\ MembershipConsistent /\ OnePhase
              /\ ScheduleSound /\ ContributionsCounted
<1> SUFFICES ASSUME PhaseInv
             PROVE  TypeOK /\ MembershipConsistent /\ OnePhase
                    /\ ScheduleSound /\ ContributionsCounted
  OBVIOUS
<1>1. TypeOK
  BY DEF PhaseInv, TypeOK, Ledger
<1>2. ASSUME NEW id \in RoscaIds
      PROVE  /\ MembershipConsistentIn(circle[id])
             /\ OnePhaseIn(id, circle[id])
             /\ ScheduleSoundIn(circle[id])
             /\ ContributionsCountedIn(circle[id])
  <2> DEFINE c == circle[id]
  <2>0. id \in Int /\ next_rosca_id \in Int
    BY BoundsAssumption DEF RoscaIds, PhaseInv
  <2>5. id < next_rosca_id => ~(id >= next_rosca_id)
    BY <2>0
  <2>1. CASE ~(id < next_rosca_id)
    <3>1. c = NoCircle
      BY <2>1 DEF PhaseInv
    <3>2. /\ c.final_pay_by = None /\ c.next_pay_by = None /\ c.eligible_claimant = None
          /\ c.active_roscas = None /\ c.completed_roscas = FALSE
          /\ c.current_contributors = {} /\ c.current_contribution_count = 0
      <4>1. /\ NoCircle.final_pay_by = None /\ NoCircle.next_pay_by = None
            /\ NoCircle.eligible_claimant = None /\ NoCircle.active_roscas = None
            /\ NoCircle.completed_roscas = FALSE /\ NoCircle.current_contributors = {}
            /\ NoCircle.current_contribution_count = 0
        BY DEF NoCircle
      <4> HIDE DEF c
      <4> QED BY Zenon, <3>1, <4>1
    <3>3. MembershipConsistentIn(c)
      BY <3>1, NoCircleTyped
    <3>4. OnePhaseIn(id, c)
      BY ZenonT(30), <2>1, <3>1, <3>2 DEF OnePhaseIn, Active, Completed
    <3> QED BY <3>2, <3>3, <3>4 DEF ScheduleSoundIn, ContributionsCountedIn, Active
  <2>2. CASE id < next_rosca_id /\ Forming(c)
    <3>1. OnePhaseIn(id, c)
      BY Zenon, <2>2, <2>5 DEF Forming, OnePhaseIn, Active, Completed, Pending
    <3> QED BY <2>2, <3>1 DEF Forming, ScheduleSoundIn, ContributionsCountedIn, Active
  <2>3. CASE id < next_rosca_id /\ \E left \in Nat : Running(c, left)
    <3>1. PICK left \in Nat : Running(c, left)
      BY <2>3
    <3>2. c.eligible_claimant # None
      BY Zenon, <3>1, RunningClaimant
    <3>3. OnePhaseIn(id, c)
      BY Zenon, <2>3, <2>5, <3>1, <3>2 DEF Running, OnePhaseIn, Active, Completed, Pending
    <3>4. left \in 0..(Len(c.active_order) - 1)
      BY <3>1, RunningTyped DEF Running
    <3>5. ScheduleSoundIn(c)
      BY ZenonT(30), <3>1, <3>4 DEF Running, ScheduleSoundIn
    <3> QED BY <3>1, <3>3, <3>5 DEF Running
  <2>4. CASE id < next_rosca_id /\ Over(c)
    <3>1. OnePhaseIn(id, c)
      BY Zenon, <2>4, <2>5 DEF Over, OnePhaseIn, Active, Completed, Pending
    <3> QED BY ZenonT(30), <2>4, <3>1 DEF Over, ScheduleSoundIn, ContributionsCountedIn, Active
  <2> QED BY <2>1, <2>2, <2>3, <2>4 DEF PhaseInv, InPhase
<1> QED BY <1>1, <1>2 DEF MembershipConsistent, OnePhase, ScheduleSound, ContributionsCounted

\* Every storage item keeps its type through any sequence of calls: deposits
\* and default counts stay within u32, timestamps within u64.
THEOREM TypeCorrect ==
  Spec => []TypeOK
BY PhaseInvariant, PhaseInvImplies, PTL

\* join_rosca and leave_rosca keep the count, the positions and the slots of a
\* circle in agreement, and no later call disturbs them.
THEOREM MembershipIsConsistent ==
  Spec => []MembershipConsistent
BY PhaseInvariant, PhaseInvImplies, PTL

\* A circle is never pending, active and completed at once, and the payment
\* times exist exactly from its start on.
THEOREM PhasesExclusive ==
  Spec => []OnePhase
BY PhaseInvariant, PhaseInvImplies, PTL

\* Whatever order start_rosca installed, with whatever shuffle, and however
\* many rounds were closed in one call: the order of an active circle lists its
\* members once each, and its cutoff is one of those announced.
THEOREM ScheduleIsSound ==
  Spec => []ScheduleSound
BY PhaseInvariant, PhaseInvImplies, PTL

\* The stored count of contributions is the number of recorded contributors
\* and stays below the number that closes the round.
THEOREM ContributionsAreCounted ==
  Spec => []ContributionsCounted
BY PhaseInvariant, PhaseInvImplies, PTL

-----------------------------------------------------------------------------
(***************************************************************************)
(* What start_rosca announces.                                             *)
(***************************************************************************)

\* A log in which no start is announced.
Quiet(log) == \E S : log \in Seq(S) /\ \A x \in S : x.type # "RoscaStarted"

LEMMA NothingIsQuiet == Quiet(<< >>)
<1> DEFINE S == {}
<1>1. << >> \in Seq(S) /\ \A x \in S : x.type # "RoscaStarted"
  OBVIOUS
<1> HIDE DEF S
<1> QED BY <1>1 DEF Quiet

LEMMA OneIsQuiet ==
  ASSUME NEW e, e.type # "RoscaStarted"
  PROVE  Quiet(<<e>>)
<1> DEFINE S == {e}
<1>1. <<e>> \in Seq(S) /\ \A x \in S : x.type # "RoscaStarted"
  OBVIOUS
<1> HIDE DEF S
<1> QED BY <1>1 DEF Quiet

LEMMA TwoAreQuiet ==
  ASSUME NEW d, d.type # "RoscaStarted", NEW e, e.type # "RoscaStarted"
  PROVE  Quiet(<<d, e>>)
<1> DEFINE S == {d, e}
<1>1. <<d, e>> \in Seq(S) /\ \A x \in S : x.type # "RoscaStarted"
  OBVIOUS
<1> HIDE DEF S
<1> QED BY <1>1 DEF Quiet

LEMMA QuietTogether ==
  ASSUME NEW a, NEW b, Quiet(a), Quiet(b)
  PROVE  Quiet(a \o b)
<1>1. PICK S : a \in Seq(S) /\ \A x \in S : x.type # "RoscaStarted"
  BY DEF Quiet
<1>2. PICK T : b \in Seq(T) /\ \A x \in T : x.type # "RoscaStarted"
  BY DEF Quiet
<1> DEFINE U == S \cup T
<1>3. a \in Seq(U) /\ b \in Seq(U)
  BY <1>1, <1>2
<1>4. \A x \in U : x.type # "RoscaStarted"
  BY <1>1, <1>2
<1> HIDE DEF U
<1>5. a \o b \in Seq(U)
  BY <1>3
<1> QED BY <1>4, <1>5 DEF Quiet

LEMMA QuietAppend ==
  ASSUME NEW a, NEW e, Quiet(a), e.type # "RoscaStarted"
  PROVE  Quiet(Append(a, e))
<1>1. PICK S : a \in Seq(S) /\ \A x \in S : x.type # "RoscaStarted"
  BY DEF Quiet
<1> DEFINE U == S \cup {e}
<1>2. a \in Seq(U) /\ e \in U /\ \A x \in U : x.type # "RoscaStarted"
  BY <1>1
<1> HIDE DEF U
<1>3. Append(a, e) \in Seq(U)
  BY <1>2
<1> QED BY <1>2, <1>3 DEF Quiet

LEMMA QuietMatches ==
  ASSUME Quiet(events')
  PROVE  AnnouncedRoundsMatch'
<1>1. PICK S : events' \in Seq(S) /\ \A x \in S : x.type # "RoscaStarted"
  BY DEF Quiet
<1>2. \A i \in DOMAIN events' : events'[i] \in S
  BY <1>1
<1>3. \A i \in DOMAIN events' : events'[i].type # "RoscaStarted"
  BY <1>1, <1>2
<1> QED BY Zenon, <1>3 DEF AnnouncedRoundsMatch

LEMMA FailedQuiet ==
  ASSUME NEW s, Layer(s), Quiet(s.events)
  PROVE  Quiet(Failed(s).events)
<1>1. Failed(s).events = s.events
  BY Zenon DEF Failed, Layer
<1> QED BY <1>1

LEMMA CompleteQuiet ==
  ASSUME NEW id, NEW s, Layer(s), Quiet(s.events)
  PROVE  Quiet(Complete(id, s).events)
<1> DEFINE e == [type |-> "RoscaComplete", rosca_id |-> id]
<1>1. e.type # "RoscaStarted"
  OBVIOUS
<1> HIDE DEF e
<1>2. Complete(id, s).events = Append(s.events, e)
  BY Zenon DEF Complete, Layer, e
<1> QED BY Zenon, <1>1, <1>2, QuietAppend

LEMMA ChargeQuiet ==
  ASSUME NEW id, NEW s, NEW p, Layer(s), Quiet(s.events)
  PROVE  Quiet(ChargeParticipant(id, s, p).events)
<1> DEFINE c        == s.circle
           rosca    == c.active_roscas
           deposit  == c.security_deposit[p]
           enough   == deposit >= rosca.contribution_amount
           charge   == DepositCharge(deposit, rosca.contribution_amount)
           deducted == [type |-> "DepositDeducted", rosca_id |-> id, contributor |-> p,
                        recipient |-> c.eligible_claimant, amount |-> charge,
                        sufficient |-> enough]
           missed   == [type |-> "ParticipantDefaulted", rosca_id |-> id,
                        unpaid_recipient |-> c.eligible_claimant, defaulter |-> p]
           one      == IF charge > 0 THEN <<deducted>> ELSE << >>
           two      == IF enough THEN << >> ELSE <<missed>>
           q        == ChargeParticipant(id, s, p)
<1>1. deducted.type # "RoscaStarted" /\ missed.type # "RoscaStarted"
  BY Zenon
<1> DEFINE skip  == ~s.ok \/ Exempt(c, p)
           can   == CanTransfer(s.balance, rosca.payment_asset, rosca_account_id(id),
                                c.eligible_claimant, charge)
           paid  == IF charge > 0
                    THEN Transfer(s.balance, rosca.payment_asset, rosca_account_id(id),
                                  c.eligible_claimant, charge)
                    ELSE s.balance
           after == [c EXCEPT !.security_deposit[p] =
                                  RemainingDeposit(@, rosca.contribution_amount),
                              !.default_count[p] =
                                  IF ~enough /\ @ < MaxU32 THEN @ + 1 ELSE @]
<1>2. q = s \/ q = Failed(s) \/ q.events = s.events \o one \o two
  <2>1. q = IF skip THEN s ELSE IF charge > 0 /\ ~can THEN Failed(s)
            ELSE [ok |-> TRUE, balance |-> paid, circle |-> after,
                  events |-> s.events \o one \o two]
    BY DEF ChargeParticipant
  <2> HIDE DEF q, skip, can, paid, after, one, two, charge
  <2> QED BY <2>1
<1> HIDE DEF q, deducted, missed, enough, charge
<1>3. Quiet(one) /\ Quiet(two)
  BY Zenon, <1>1, OneIsQuiet, NothingIsQuiet
<1> HIDE DEF one, two
<1>4. Quiet(s.events \o one \o two)
  BY Zenon, <1>3, QuietTogether
<1> QED BY Zenon, <1>2, <1>4, FailedQuiet DEF q

LEMMA DefaultersQuiet ==
  ASSUME NEW id \in RoscaIds, NEW s, Layer(s), Quiet(s.events),
         s.circle.active_roscas # None, s.circle.eligible_claimant # None
  PROVE  Quiet(process_defaulters(id, s).events)
<1> DEFINE order == s.circle.active_order
           n     == Len(order)
<1>0. order \in Seq(Accounts)
  BY DEF Layer, Circle
<1> HIDE DEF order
<1>1. n \in Nat /\ \A i \in 1..n : order[i] \in Accounts
  BY <1>0
<1>2. PICK g : DefaultersRun(g, id, s)
  BY Zenon, <1>1, DefaultersLoop DEF order
<1>3. /\ process_defaulters(id, s) = g[n]
      /\ g[0] = s
      /\ \A i \in 1..n : g[i] = ChargeParticipant(id, g[i-1], order[i])
  BY <1>2 DEF DefaultersRun, order
<1> HIDE DEF n
<1> DEFINE P(i) == Layer(g[i]) /\ SameRound(s.circle, g[i].circle) /\ Quiet(g[i].events)
           S    == {i \in Nat : i <= n => P(i)}
<1>4. 0 \in S
  <2>1. P(0)
    BY Zenon, <1>3 DEF SameRound
  <2> QED BY Zenon, <2>1
<1>5. \A i \in Nat : i \in S => i + 1 \in S
  <2> SUFFICES ASSUME NEW i \in Nat, i \in S, i + 1 <= n PROVE P(i + 1)
    BY <1>1
  <2>1. P(i)
    BY <1>1
  <2>2. i + 1 \in 1..n /\ (i + 1) - 1 = i
    BY <1>1
  <2>3. g[i + 1] = ChargeParticipant(id, g[i], order[i + 1]) /\ order[i + 1] \in Accounts
    BY ZenonT(30), <1>1, <1>3, <2>2
  <2>4. g[i].circle.active_roscas # None /\ g[i].circle.eligible_claimant # None
    BY ZenonT(30), <2>1 DEF SameRound
  <2>5. Layer(g[i + 1]) /\ SameRound(g[i].circle, g[i + 1].circle)
    BY Zenon, <2>1, <2>3, <2>4, ChargeTyped
  <2>6. Quiet(g[i + 1].events)
    BY Zenon, <2>1, <2>3, ChargeQuiet
  <2> QED BY Zenon, <2>1, <2>5, <2>6, SameRoundTransitive
<1>6. n \in S
  <2> HIDE DEF S
  <2> QED BY <1>1, <1>4, <1>5, NatSetInduction
<1> QED BY <1>1, <1>3, <1>6

LEMMA CloseRoundQuiet ==
  ASSUME NEW id \in RoscaIds, NEW s, Layer(s), Quiet(s.events),
         s.circle.active_roscas # None, s.circle.eligible_claimant # None
  PROVE  Quiet(CloseRound(id, s).events)
<1> DEFINE r      == process_defaulters(id, s)
           cutoff == r.circle.next_pay_by + r.circle.active_roscas.contribution_frequency
           next   == OpenNextRound(r.circle, cutoff)
           e      == NewRoundStarted(id, next)
           q      == CloseRound(id, s)
<1>1. Layer(r) /\ Quiet(r.events)
  BY DefaultersTyped, DefaultersQuiet
<1>2. q = Failed(r) \/ q = [r EXCEPT !.circle = next, !.events = Append(@, e)]
  BY DEF CloseRound, advance_rosca_round
<1> HIDE DEF r, cutoff, next
<1>3. e.type # "RoscaStarted"
  BY Zenon DEF NewRoundStarted
<1> HIDE DEF e, q
<1>4. CASE q = Failed(r)
  BY Zenon, <1>1, <1>4, FailedQuiet DEF q
<1>5. CASE q = [r EXCEPT !.circle = next, !.events = Append(@, e)]
  <2>1. q.events = Append(r.events, e)
    BY Zenon, <1>1, <1>5 DEF Layer
  <2> QED BY Zenon, <1>1, <1>3, <2>1, QuietAppend DEF q
<1> QED BY Zenon, <1>2, <1>4, <1>5

LEMMA CatchUpQuiet ==
  ASSUME NEW id \in RoscaIds, NEW s, NEW t, Caught(s, s.circle), Quiet(s.events)
  PROVE  Quiet(CatchUp(id, s, t).events)
<1> DEFINE n == Len(s.circle.active_order)
<1>1. n \in Nat
  BY DEF Caught, Layer, Circle
<1>2. PICK g : CatchUpRun(g, id, s, t)
  BY Zenon, <1>1, CatchUpLoop
<1>3. /\ CatchUp(id, s, t) = g[n]
      /\ g[0] = s
      /\ \A i \in 1..n : g[i] = CloseLateRound(id, g[i-1], t)
  BY <1>2 DEF CatchUpRun
<1> HIDE DEF n
<1> DEFINE P(i) == Caught(g[i], s.circle) /\ Quiet(g[i].events)
           S == {i \in Nat : i <= n => P(i)}
<1>4. 0 \in S
  BY <1>3
<1>5. \A i \in Nat : i \in S => i + 1 \in S
  <2> SUFFICES ASSUME NEW i \in Nat, i \in S, i + 1 <= n PROVE P(i + 1)
    BY <1>1
  <2>1. P(i) /\ i + 1 \in 1..n /\ (i + 1) - 1 = i
    BY <1>1
  <2>2. g[i + 1] = CloseLateRound(id, g[i], t)
    BY Zenon, <1>3, <2>1
  <2>3. Caught(g[i + 1], s.circle)
    BY Zenon, <2>1, <2>2, LateRoundCaught
  <2>4. Quiet(g[i + 1].events)
    <3> DEFINE q == g[i]
               r == CloseRound(id, q)
    <3>1. Layer(q) /\ Quiet(q.events)
      BY ZenonT(30), <2>1 DEF Caught
    <3>2. CASE ~(q.ok /\ q.circle.active_roscas # None /\ t >= q.circle.next_pay_by)
      BY <2>2, <3>1, <3>2 DEF CloseLateRound
    <3>3. CASE q.ok /\ q.circle.active_roscas # None /\ t >= q.circle.next_pay_by
      <4>1. PICK left \in Nat : Running(q.circle, left)
        <5>1. Caught(q, s.circle)
          BY Zenon, <2>1
        <5>2. ~Over(q.circle)
          BY Zenon, <3>3 DEF Over
        <5> HIDE DEF q
        <5> QED BY Zenon, <3>3, <5>1, <5>2 DEF Caught
      <4>2. q.circle.eligible_claimant # None
        BY Zenon, <4>1, RunningClaimant
      <4>3. Quiet(r.events)
        BY <3>1, <3>3, <4>2, CloseRoundQuiet
      <4>4. Layer(r)
        <5>1. left >= 0
          OBVIOUS
        <5> QED BY Zenon, <3>1, <4>1, <5>1, CloseRoundRuns
      <4>5. g[i + 1] = r \/ g[i + 1] = Complete(id, r)
        BY Zenon, <2>2, <3>3 DEF CloseLateRound, check_and_complete_rosca
      <4> HIDE DEF r, q
      <4> QED BY ZenonT(30), <4>3, <4>4, <4>5, CompleteQuiet
    <3> QED BY <3>2, <3>3
  <2> QED BY Zenon, <2>3, <2>4
<1>6. n \in S
  <2> HIDE DEF S
  <2> QED BY Zenon, <1>1, <1>4, <1>5, NatSetInduction
<1> QED BY <1>1, <1>3, <1>6

LEMMA CloseAllQuiet ==
  ASSUME NEW id \in RoscaIds, NEW s, Closing(s), Quiet(s.events)
  PROVE  Quiet(CloseAllRounds(id, s).events)
<1> DEFINE n == Len(s.circle.active_order)
<1>1. n \in Nat
  BY DEF Closing, Layer, Circle
<1>2. PICK g : CloseAllRun(g, id, s)
  BY <1>1, CloseAllLoop
<1>3. /\ CloseAllRounds(id, s) = g[n]
      /\ g[0] = s
      /\ \A i \in 1..n : g[i] = CloseRemainingRound(id, g[i-1])
  BY <1>2 DEF CloseAllRun
<1> HIDE DEF n
<1> DEFINE P(i) == Closing(g[i]) /\ Quiet(g[i].events)
           S == {i \in Nat : i <= n => P(i)}
<1>4. 0 \in S
  BY <1>3
<1>5. \A i \in Nat : i \in S => i + 1 \in S
  <2> SUFFICES ASSUME NEW i \in Nat, i \in S, i + 1 <= n PROVE P(i + 1)
    BY <1>1
  <2>1. P(i) /\ i + 1 \in 1..n /\ (i + 1) - 1 = i
    BY <1>1
  <2>2. g[i + 1] = CloseRemainingRound(id, g[i])
    BY Zenon, <1>3, <2>1
  <2>3. Closing(g[i + 1])
    BY Zenon, <2>1, <2>2, RemainingRoundClosing
  <2>4. Quiet(g[i + 1].events)
    <3> DEFINE q == g[i]
    <3>1. CASE q.ok /\ RoundRemains(q.circle)
      <4>1. PICK left \in Int : Running(q.circle, left)
        BY ZenonT(30), <2>1, <3>1 DEF Closing
      <4>2. q.circle.eligible_claimant # None /\ q.circle.active_roscas # None
        BY Zenon, <4>1, RunningClaimant DEF Running
      <4>3. Layer(q) /\ Quiet(q.events)
        BY Zenon, <2>1 DEF Closing
      <4>4. Quiet(CloseRound(id, q).events)
        BY Zenon, <4>2, <4>3, CloseRoundQuiet
      <4> QED BY <2>2, <3>1, <4>4 DEF CloseRemainingRound
    <3>2. CASE ~(q.ok /\ RoundRemains(q.circle))
      BY <2>1, <2>2, <3>2 DEF CloseRemainingRound
    <3> QED BY Zenon, <3>1, <3>2
  <2> QED BY <2>3, <2>4
<1>6. n \in S
  <2> HIDE DEF S
  <2> QED BY <1>1, <1>4, <1>5, NatSetInduction
<1> QED BY <1>1, <1>3, <1>6

LEMMA PayQuiet ==
  ASSUME NEW id, NEW s, NEW signer, Layer(s), Quiet(s.events)
  PROVE  Quiet(PayContribution(id, s, signer).events)
<1> DEFINE c      == s.circle
           rosca  == c.active_roscas
           made   == [type |-> "ContributionMade", rosca_id |-> id, contributor |-> signer,
                      recipient |-> c.eligible_claimant, amount |-> rosca.contribution_amount]
           cutoff == c.next_pay_by + rosca.contribution_frequency
           p      == CountContribution(id, s, signer)
           next   == OpenNextRound(p.circle, cutoff)
           e      == NewRoundStarted(id, next)
           q      == PayContribution(id, s, signer)
           done   == [type |-> "RoscaComplete", rosca_id |-> id]
<1>1. made.type # "RoscaStarted" /\ e.type # "RoscaStarted" /\ done.type # "RoscaStarted"
  BY Zenon DEF NewRoundStarted
<1>2. /\ p.events = Append(s.events, made)
      /\ p = [circle |-> p.circle, balance |-> p.balance, events |-> p.events, ok |-> p.ok]
  <2> DEFINE paid == Transfer(s.balance, rosca.payment_asset, signer, c.eligible_claimant,
                              rosca.contribution_amount)
             d    == [c EXCEPT !.current_contributors = @ \cup {signer},
                               !.current_contribution_count = @ + 1]
  <2>1. p = [s EXCEPT !.balance = paid, !.circle = d, !.events = Append(s.events, made)]
    BY DEF CountContribution
  <2> HIDE DEF p, d, paid, made
  <2> QED BY Zenon, <2>1 DEF Layer
<1>3. \/ q = Failed(s) \/ q = p \/ q = Complete(id, p)
      \/ q = [p EXCEPT !.circle = next, !.events = Append(@, e)]
  BY DEF PayContribution
<1> HIDE DEF q, next, e, p, made, cutoff, done
<1>4. Quiet(p.events)
  BY Zenon, <1>1, <1>2, QuietAppend
<1>5. CASE q = Failed(s)
  BY Zenon, <1>5, FailedQuiet DEF q
<1>6. CASE q = p
  BY <1>4, <1>6 DEF q
<1>7. CASE q = Complete(id, p)
  <2>1. q.events = Append(p.events, done)
    BY Zenon, <1>2, <1>7 DEF Complete, done
  <2> QED BY <1>1, <1>4, <2>1, QuietAppend DEF q
<1>8. CASE q = [p EXCEPT !.circle = next, !.events = Append(@, e)]
  <2>1. q.events = Append(p.events, e)
    BY Zenon, <1>2, <1>8
  <2> QED BY <1>1, <1>4, <2>1, QuietAppend DEF q
<1> QED BY ZenonT(30), <1>3, <1>5, <1>6, <1>7, <1>8

\* The rounds start_rosca announces for the order it installs.
LEMMA StartMatches ==
  ASSUME NEW c, Forming(c), Members(c) # {}, NEW t \in Moment,
         NEW order \in ClaimOrders(c.rosca_details, c.pending_order),
         RoundsFit(order, t, c.rosca_details.contribution_frequency)
  PROVE  LET f      == c.rosca_details.contribution_frequency
             d      == Started(c, order, t + f, t + c.participants_count * f)
         IN  RoundsMatch(d, generate_rounds(order, t, f))
<1> DEFINE f      == c.rosca_details.contribution_frequency
           n      == Len(order)
           cutoff == t + f
           final  == t + c.participants_count * f
           d      == Started(c, order, cutoff, final)
           rounds == generate_rounds(order, t, f)
           named  == {order[j] : j \in 1..n}
<1>1. c \in Circle /\ MembershipConsistentIn(c)
  BY DEF Forming
<1>2. order \in Seq(Accounts) /\ n = c.participants_count /\ Lists(order, Members(c))
  BY <1>1, ClaimOrdersList
<1>3. n \in Nat /\ n >= 1
  <2>1. n \in Nat /\ \E i \in 1..n : TRUE
    BY <1>2 DEF Lists
  <2> QED BY <2>1
<1>4. f \in Nat /\ t \in Nat
  <2>1. c.rosca_details \in RoscaDetails
    BY <1>1 DEF Circle, Forming
  <2>2. f \in Moment
    BY <2>1 DEF RoscaDetails
  <2> QED BY <2>2, LimitsAssumption DEF Moment
<1>5. /\ d.eligible_claimant = order[n] /\ d.active_order = RotateRight(order)
      /\ d.next_pay_by = cutoff /\ d.final_pay_by = final
      /\ d.active_roscas = c.rosca_details
      /\ d.participants = c.participants
  <2> HIDE DEF n, cutoff, final
  <2> QED BY ZenonT(60), <1>1 DEF Started, Circle, n
<1>6. Members(d) = Members(c)
  <2> HIDE DEF d
  <2> QED BY Zenon, <1>5 DEF Members
<1>7. named = Members(c)
  BY <1>2 DEF Lists
<1>8. n = Cardinality(Members(d))
  BY Zenon, <1>1, <1>2, <1>6 DEF MembershipConsistentIn
<1> HIDE DEF f, d, named, cutoff, final
<1>9. /\ Len(rounds) = n
      /\ \A k \in 1..n : /\ rounds[k].payment_cutoff = t + k * f
                         /\ rounds[k].expected_contributors = named \ {order[n + 1 - k]}
                         /\ rounds[k].recipient = order[n + 1 - k]
  <2>1. rounds = [i \in 1..n |->
                    [round_number          |-> i,
                     payment_cutoff        |-> t + i * f,
                     expected_contributors |-> named \ {order[n + 1 - i]},
                     recipient             |-> order[n + 1 - i]]]
    BY DEF generate_rounds, named
  <2> HIDE DEF rounds
  <2>2. ASSUME NEW k \in 1..n
        PROVE  /\ rounds[k].payment_cutoff = t + k * f
               /\ rounds[k].expected_contributors = named \ {order[n + 1 - k]}
               /\ rounds[k].recipient = order[n + 1 - k]
    <3> DEFINE y == t + k * f
               q == order[n + 1 - k]
               S == named \ {q}
    <3>1. rounds[k] = [round_number |-> k, payment_cutoff |-> y,
                       expected_contributors |-> S, recipient |-> q]
      BY Zenon, <2>1
    <3> HIDE DEF y, q, S
    <3>2. rounds[k].payment_cutoff = y /\ rounds[k].expected_contributors = S
          /\ rounds[k].recipient = q
      BY <3>1
    <3> QED BY <3>2 DEF y, q, S
  <2>3. Len(rounds) = n
    <3> DEFINE v(i) == [round_number          |-> i,
                        payment_cutoff        |-> t + i * f,
                        expected_contributors |-> named \ {order[n + 1 - i]},
                        recipient             |-> order[n + 1 - i]]
    <3>1. rounds = [i \in 1..n |-> v(i)]
      BY <2>1
    <3> HIDE DEF v, n
    <3> QED BY <1>3, <3>1
  <2> QED BY Zenon, <2>2, <2>3
<1> HIDE DEF rounds
<1>10. ASSUME NEW k \in 1..n
       PROVE  RecipientIn(d, k - 1) = order[n + 1 - k]
  <2>1. Len(RotateRight(order)) = n /\ RotateRight(order) = [i \in 1..n |-> IF i = 1 THEN order[n] ELSE order[i - 1]]
    <3>1. RotateRight(order) = [i \in 1..n |-> IF i = 1 THEN order[n] ELSE order[i - 1]]
      BY DEF RotateRight
    <3>2. Len(RotateRight(order)) = n
      BY <1>2, <1>3, RotateRightLists
    <3> QED BY <3>1, <3>2
  <2>2. CASE k = 1
    <3>1. RecipientIn(d, k - 1) = RotateRight(order)[1]
      BY <1>5, <2>2 DEF RecipientIn
    <3>2. 1 \in 1..n /\ n + 1 - k = n
      BY <1>3, <2>2
    <3> QED BY Zenon, <2>1, <3>1, <3>2
  <2>3. CASE k # 1
    <3> DEFINE m == (n + 1) - (k - 1)
    <3>1. m \in 1..n /\ m # 1 /\ m - 1 = n + 1 - k
      BY <1>3, <2>3
    <3>2. RecipientIn(d, k - 1) = RotateRight(order)[m]
      <4>1. k - 1 # 0
        BY <2>3
      <4> QED BY <1>5, <2>1, <4>1 DEF RecipientIn
    <3> HIDE DEF m
    <3>3. RotateRight(order)[m] = order[m - 1]
      BY Zenon, <2>1, <3>1
    <3> QED BY Zenon, <3>1, <3>2, <3>3
  <2> QED BY <2>2, <2>3
<1>11. ASSUME NEW p \in Members(d)
       PROVE  \E k \in 1..n : rounds[k].recipient = p /\ RecipientIn(d, k - 1) = p
  <2>1. PICK i \in 1..n : order[i] = p
    BY <1>2, <1>6 DEF Lists
  <2> DEFINE k == n + 1 - i
  <2>2. k \in 1..n /\ n + 1 - k = i
    BY <1>3, <2>1
  <2> HIDE DEF k, n
  <2>3. rounds[k].recipient = p /\ RecipientIn(d, k - 1) = p
    BY <1>9, <1>10, <2>1, <2>2
  <2> QED BY <2>2, <2>3
<1>12. ASSUME NEW k \in 1..n
       PROVE  /\ rounds[k].expected_contributors = Members(d) \ {rounds[k].recipient}
              /\ rounds[k].payment_cutoff = d.next_pay_by
                           + (k - 1) * d.active_roscas.contribution_frequency
  <2>1. rounds[k].expected_contributors = Members(d) \ {rounds[k].recipient}
    BY Zenon, <1>6, <1>7, <1>9
  <2>2. rounds[k].payment_cutoff = t + k * f
    BY Zenon, <1>9
  <2>3. (k - 1) * f = k * f - f /\ k * f \in Int
    BY <1>4, OneRoundLess
  <2>4. d.next_pay_by = t + f /\ d.active_roscas.contribution_frequency = f
    BY <1>5 DEF cutoff, f
  <2>5. t + k * f = (t + f) + (k - 1) * f
    BY <1>4, <2>3
  <2> QED BY Zenon, <2>1, <2>2, <2>4, <2>5
<1>13. rounds[1].recipient = d.eligible_claimant
  <2>1. 1 \in 1..n /\ n + 1 - 1 = n
    BY <1>3
  <2> QED BY <1>5, <1>9, <2>1
<1>14. rounds[n].payment_cutoff = d.final_pay_by
  <2>1. n \in 1..n
    BY <1>3
  <2>2. d.final_pay_by = t + n * f
    BY <1>2, <1>5 DEF final
  <2> QED BY Zenon, <1>9, <2>1, <2>2
<1> HIDE DEF n
<1>15. RoundsMatch(d, rounds)
  BY Zenon, <1>8, <1>9, <1>11, <1>12, <1>13, <1>14 DEF RoundsMatch
<1> QED BY Zenon, <1>15 DEF d, rounds, cutoff, final, f

\* start_rosca announces the rounds the circle then runs.
LEMMA StartAnnounces ==
  ASSUME PhaseInv, NEW signer \in Accounts, NEW id \in RoscaIds, start_rosca(signer, id)
  PROVE  AnnouncedRoundsMatch'
<1> DEFINE c         == circle[id]
           frequency == c.rosca_details.contribution_frequency
           cutoff    == now + frequency
           final     == now + c.participants_count * frequency
<1>1. c.rosca_details # None /\ c.participants[signer] # None
  BY Zenon DEF start_rosca
<1>2. c # NoCircle
  BY Zenon, <1>1, NoCircleIdle
<1>3. Forming(c) /\ Members(c) # {} /\ now \in Moment
  <2>1. InPhase(c)
    BY Zenon, <1>2, UsedInPhase
  <2>2. Forming(c)
    <3> HIDE DEF c
    <3>1. ~Over(c) /\ \A left : ~Running(c, left)
      BY Zenon, <1>1 DEF Running, Over
    <3> QED BY Zenon, <2>1, <3>1 DEF InPhase
  <2> QED BY Zenon, <1>1, <2>2 DEF Members, PhaseInv
<1>4. PICK order \in ClaimOrders(c.rosca_details, c.pending_order) :
        /\ RoundsFit(order, now, frequency)
        /\ circle' = [circle EXCEPT ![id] = Started(c, order, cutoff, final)]
        /\ events' = <<[type |-> "RoscaStarted", rosca_id |-> id,
                        started_by |-> signer,
                        rounds |-> generate_rounds(order, now, frequency),
                        first_eligible_claimant |-> order[Len(order)],
                        first_payment_cutoff |-> cutoff]>>
  BY Zenon DEF start_rosca
<1> DEFINE d      == Started(c, order, cutoff, final)
           rounds == generate_rounds(order, now, frequency)
           e      == events'[1]
<1>5. RoundsMatch(d, rounds)
  <2>1. RoundsFit(order, now, c.rosca_details.contribution_frequency)
    BY Zenon, <1>4
  <2> HIDE DEF c
  <2> QED BY Zenon, <1>3, <1>4, <2>1, StartMatches
<1> HIDE DEF d, rounds, cutoff, final, frequency
<1>6. e.rosca_id = id /\ e.rounds = rounds /\ DOMAIN events' = {1}
  <2> DEFINE r == [type |-> "RoscaStarted", rosca_id |-> id, started_by |-> signer,
                   rounds |-> rounds, first_eligible_claimant |-> order[Len(order)],
                   first_payment_cutoff |-> cutoff]
  <2>1. events' = <<r>>
    BY <1>4 DEF rounds
  <2>2. r.rosca_id = id /\ r.rounds = rounds
    OBVIOUS
  <2> HIDE DEF r
  <2>3. events'[1] = r /\ DOMAIN events' = {1}
    BY <2>1
  <2> QED BY Zenon, <2>2, <2>3
<1>7. circle'[id] = d
  BY Zenon, <1>4 DEF PhaseInv, d
<1> HIDE DEF e
<1>8. \A i \in DOMAIN events' : events'[i].rosca_id = id /\ events'[i].rounds = rounds
  BY <1>6 DEF e
<1> HIDE DEF c
<1> QED BY Zenon, <1>5, <1>7, <1>8 DEF AnnouncedRoundsMatch

\* The calls that close rounds announce no start.
LEMMA ContributeQuiet ==
  ASSUME PhaseInv, NEW signer \in Accounts, NEW id \in RoscaIds, contribute_to_rosca(signer, id)
  PROVE  Quiet(events')
<1> DEFINE c == circle[id]
           s == OpenLayer(c, balance)
           r == CatchUp(id, s, now)
           q == Contribution(id, signer)
<1>1. c.active_roscas # None /\ events' = q.events
  BY Zenon DEF contribute_to_rosca, Commit
<1>2. c # NoCircle
  BY Zenon, <1>1, NoCircleIdle
<1>3. InPhase(c)
  BY ZenonT(30), <1>2, UsedInPhase
<1>4. PICK left \in Nat : Running(c, left)
  BY ZenonT(30), <1>1, <1>3 DEF InPhase, Forming, Over
<1>5. Layer(s) /\ s.circle = c /\ s.ok /\ s.events = << >>
  BY ZenonT(30), <1>4 DEF OpenLayer, Layer, Running, PhaseInv
<1>6. Caught(s, s.circle) /\ Quiet(s.events)
  <2> HIDE DEF s, c
  <2>1. Quiet(s.events)
    BY Zenon, <1>5, NothingIsQuiet
  <2>2. s.circle.current_contributors \subseteq s.circle.current_contributors
    OBVIOUS
  <2>3. Caught(s, s.circle)
    BY Zenon, <1>4, <1>5, <2>2 DEF Caught
  <2> QED BY Zenon, <2>1, <2>3
<1>7. q = r \/ q = PayContribution(id, r, signer)
  BY Zenon DEF Contribution
<1> HIDE DEF s, q
<1>8. Layer(r) /\ Quiet(r.events)
  BY Zenon, <1>6, CatchUpCaught, CatchUpQuiet DEF Caught
<1> HIDE DEF r
<1> QED BY Zenon, <1>1, <1>7, <1>8, PayQuiet

LEMMA EndQuiet ==
  ASSUME PhaseInv, NEW id \in RoscaIds, manually_end_rosca(id)
  PROVE  Quiet(events')
<1> DEFINE c == circle[id]
           s == OpenLayer(c, balance)
           r == CloseAllRounds(id, s)
           q == ManualEnd(id)
<1>1. c.active_roscas # None /\ events' = q.events
  BY Zenon DEF manually_end_rosca, Commit
<1>2. c # NoCircle
  BY Zenon, <1>1, NoCircleIdle
<1>3. InPhase(c)
  BY Zenon, <1>2, UsedInPhase
<1>4. PICK left \in Nat : Running(c, left)
  BY ZenonT(30), <1>1, <1>3 DEF InPhase, Forming, Over
<1>5. Layer(s) /\ s.circle = c /\ s.ok /\ s.events = << >>
  BY ZenonT(30), <1>4 DEF OpenLayer, Layer, Running, PhaseInv
<1>6. Closing(s) /\ Quiet(s.events)
  <2> HIDE DEF s, c
  <2>1. Quiet(s.events)
    BY Zenon, <1>5, NothingIsQuiet
  <2>2. Closing(s)
    <3>1. left \in Int
      OBVIOUS
    <3> QED BY Zenon, <1>4, <1>5, <3>1 DEF Closing
  <2> QED BY Zenon, <2>1, <2>2
<1>7. q = Failed(r) \/ q = Complete(id, r)
  BY Zenon DEF ManualEnd
<1> HIDE DEF s, q
<1>8. Layer(r) /\ Quiet(r.events)
  BY Zenon, <1>6, CloseAllClosing, CloseAllQuiet DEF Closing
<1> HIDE DEF r
<1> QED BY Zenon, <1>1, <1>7, <1>8, FailedQuiet, CompleteQuiet

LEMMA LeaveQuiet ==
  ASSUME NEW signer, NEW id, leave_rosca(signer, id)
  PROVE  Quiet(events')
<1> DEFINE deposit == circle[id].security_deposit[signer]
           claimed == [type |-> "SecurityDepositClaimed", rosca_id |-> id,
                       depositor |-> signer, amount |-> deposit]
           left    == [type |-> "LeftRosca", rosca_id |-> id, contributor |-> signer]
<1>1. events' = <<claimed, left>> \/ events' = <<left>>
  BY ZenonT(30) DEF leave_rosca
<1>2. claimed.type # "RoscaStarted" /\ left.type # "RoscaStarted"
  OBVIOUS
<1> HIDE DEF claimed, left
<1> QED BY Zenon, <1>1, <1>2, OneIsQuiet, TwoAreQuiet

\* A step whose only event is not a start.
LEMMA OtherEvent ==
  ASSUME NEW e, e.type # "RoscaStarted", events' = <<e>>
  PROVE  AnnouncedRoundsMatch'
<1>1. Quiet(events')
  BY Zenon, OneIsQuiet
<1> QED BY Zenon, <1>1, QuietMatches

LEMMA StepAnnounces ==
  ASSUME PhaseInv, AnnouncedRoundsMatch, [Next]_vars
  PROVE  AnnouncedRoundsMatch'
<1>1. ASSUME NEW p \in Accounts, NEW a \in Proposals, create_rosca(p, a)
      PROVE  AnnouncedRoundsMatch'
  <2>1. PICK details : events' = <<[type |-> "RoscaCreated", rosca_id |-> next_rosca_id,
                                    details |-> details,
                                    eligible_participants |-> {p} \cup a.invited,
                                    creator |-> p]>>
    BY Zenon, <1>1 DEF create_rosca
  <2>2. [type |-> "RoscaCreated", rosca_id |-> next_rosca_id, details |-> details,
         eligible_participants |-> {p} \cup a.invited, creator |-> p].type # "RoscaStarted"
    BY Zenon
  <2> QED BY Zenon, <2>1, <2>2, OtherEvent
<1>2. ASSUME NEW id \in RoscaIds, NEW p \in Accounts, NEW position \in JoinPositions,
             join_rosca(p, id, position)
      PROVE  AnnouncedRoundsMatch'
  <2> DEFINE e == [type |-> "JoinedRosca", rosca_id |-> id, contributor |-> p]
  <2>1. events' = <<e>>
    BY Zenon, <1>2 DEF join_rosca
  <2>2. e.type # "RoscaStarted"
    BY Zenon
  <2> HIDE DEF e
  <2> QED BY Zenon, <2>1, <2>2, OtherEvent
<1>3. ASSUME NEW id \in RoscaIds, NEW p \in Accounts, leave_rosca(p, id)
      PROVE  AnnouncedRoundsMatch'
  BY Zenon, <1>3, LeaveQuiet, QuietMatches
<1>4. ASSUME NEW id \in RoscaIds, NEW p \in Accounts, start_rosca(p, id)
      PROVE  AnnouncedRoundsMatch'
  BY <1>4, StartAnnounces
<1>5. ASSUME NEW id \in RoscaIds, NEW p \in Accounts, contribute_to_rosca(p, id)
      PROVE  AnnouncedRoundsMatch'
  BY <1>5, ContributeQuiet, QuietMatches
<1>6. ASSUME NEW id \in RoscaIds, NEW p \in Accounts, NEW asset \in PaymentAssets,
             claim_security_deposit(p, id, asset)
      PROVE  AnnouncedRoundsMatch'
  <2> DEFINE e == [type |-> "SecurityDepositClaimed", rosca_id |-> id, depositor |-> p,
                   amount |-> circle[id].security_deposit[p]]
  <2>1. events' = <<e>>
    BY Zenon, <1>6 DEF claim_security_deposit
  <2>2. e.type # "RoscaStarted"
    BY Zenon
  <2> HIDE DEF e
  <2> QED BY Zenon, <2>1, <2>2, OtherEvent
<1>7. ASSUME NEW id \in RoscaIds, NEW p \in Accounts, NEW amount \in DepositAmounts,
             add_to_security_deposit(p, id, amount)
      PROVE  AnnouncedRoundsMatch'
  <2> DEFINE e == [type |-> "SecurityDepositContribution", rosca_id |-> id, depositor |-> p,
                   amount |-> amount]
  <2>1. events' = <<e>>
    BY Zenon, <1>7 DEF add_to_security_deposit
  <2>2. e.type # "RoscaStarted"
    BY Zenon
  <2> HIDE DEF e
  <2> QED BY Zenon, <2>1, <2>2, OtherEvent
<1>8. ASSUME NEW id \in RoscaIds, manually_end_rosca(id) PROVE AnnouncedRoundsMatch'
  BY <1>8, EndQuiet, QuietMatches
<1>9. ASSUME NEW t \in OutsideTransfers, OutsideTransfer(t) PROVE AnnouncedRoundsMatch'
  <2>1. events' = << >>
    BY <1>9 DEF OutsideTransfer
  <2> QED BY Zenon, <2>1, NothingIsQuiet, QuietMatches
<1>10. ASSUME Tick PROVE AnnouncedRoundsMatch'
  <2>1. events' = << >>
    BY <1>10 DEF Tick
  <2> QED BY Zenon, <2>1, NothingIsQuiet, QuietMatches
<1>11. ASSUME UNCHANGED vars PROVE AnnouncedRoundsMatch'
  <2>1. circle' = circle /\ events' = events
    BY <1>11 DEF vars
  <2> QED BY Zenon, <2>1 DEF AnnouncedRoundsMatch
<1> QED BY Zenon, <1>1, <1>2, <1>3, <1>4, <1>5, <1>6, <1>7, <1>8, <1>9, <1>10, <1>11 DEF Next

\* The rounds in the RoscaStarted event, for any claim order and any shuffle of
\* it, are those the circle then runs: recipients, contributors and cutoffs.
THEOREM AnnouncementsMatch ==
  Spec => []AnnouncedRoundsMatch
<1>1. Init => AnnouncedRoundsMatch
  <2>1. Init => DOMAIN events = {}
    BY DEF Init
  <2> QED BY Zenon, <2>1 DEF AnnouncedRoundsMatch
<1>2. PhaseInv /\ AnnouncedRoundsMatch /\ [Next]_vars => AnnouncedRoundsMatch'
  BY StepAnnounces
<1> QED BY <1>1, <1>2, PhaseInvariant, PTL DEF Spec

=============================================================================
