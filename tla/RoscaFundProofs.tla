-------------------------- MODULE RoscaFundProofs --------------------------
(***************************************************************************)
(* The account of a circle: every call books what it moves between a       *)
(* member and that account, so that the account always covers the deposits *)
(* recorded, pays out nothing else, and no call that closes rounds can     *)
(* fail for want of funds.                                                 *)
(***************************************************************************)
EXTENDS RoscaChargeProofs

\* The obligations are large; each prover call may take a minute.
USE SMTT(60)

-----------------------------------------------------------------------------
(***************************************************************************)
(* The calls that move money between a member and the account of a circle  *)
(* without closing a round (create, join, start, leave, claim, add and the *)
(* transfers from outside) book what they move.                            *)
(***************************************************************************)

\* The step is a call on circle id that books what it moves: in the only
\* asset the deposits can be in, or it takes deposits out, or there are none.
BookedCall(id) ==
    /\ \A j \in RoscaIds : j # id => circle'[j] = circle[j]
    /\ \E asset \in PaymentAssets :
          /\ Booked(id, asset, balance, circle[id], balance', circle'[id])
          /\ \/ /\ DepositAssets(circle[id]) \subseteq {asset}
                /\ asset \in DepositAssets(circle'[id])
             \/ /\ DepositAssets(circle[id]) \subseteq DepositAssets(circle'[id])
                /\ Deposits(circle'[id]) <= Deposits(circle[id])
             \/ /\ asset \in DepositAssets(circle'[id])
                /\ Deposits(circle'[id]) = 0

LEMMA DepositAssetsAre ==
  ASSUME NEW c
  PROVE  /\ Pending(c) /\ ~Active(c) => DepositAssets(c) = {c.rosca_details.payment_asset}
         /\ ~Pending(c) /\ Active(c) => DepositAssets(c) = {c.active_roscas.payment_asset}
         /\ ~Pending(c) /\ ~Active(c) => DepositAssets(c) = PaymentAssets
BY DEF DepositAssets

\* The deposits of every circle are a natural number in the invariant.
LEMMA DepositsTyped ==
  ASSUME PhaseInv, NEW id \in RoscaIds
  PROVE  /\ Deposits(circle[id]) \in Nat
         /\ balance \in Ledger
         /\ \A a \in PaymentAssets : balance[a][rosca_account_id(id)] \in Nat
<1>1. circle[id] \in Circle /\ balance \in Ledger
  BY DEF PhaseInv
<1>2. Deposits(circle[id]) \in Nat
  BY <1>1, DepositsSum
<1>3. rosca_account_id(id) \in Holders
  BY FundsApart
<1> QED BY <1>1, <1>2, <1>3 DEF Ledger

\* Such a call keeps every fund above its deposits.
LEMMA CallKeepsCover ==
  ASSUME PhaseInv, PhaseInv', NEW id \in RoscaIds, BookedCall(id), FundCoversDeposits
  PROVE  FundCoversDeposits'
<1> DEFINE F(j) == rosca_account_id(j)
<1>1. SUFFICES ASSUME NEW j \in RoscaIds
               PROVE  \E a \in DepositAssets(circle'[j]) : balance'[a][F(j)] >= Deposits(circle'[j])
  BY DEF FundCoversDeposits, Deposits
<1>2. PICK a \in DepositAssets(circle[j]) : balance[a][F(j)] >= Deposits(circle[j])
  BY DEF FundCoversDeposits, Deposits
<1>3. PICK asset \in PaymentAssets :
          /\ Booked(id, asset, balance, circle[id], balance', circle'[id])
          /\ \/ /\ DepositAssets(circle[id]) \subseteq {asset}
                /\ asset \in DepositAssets(circle'[id])
             \/ /\ DepositAssets(circle[id]) \subseteq DepositAssets(circle'[id])
                /\ Deposits(circle'[id]) <= Deposits(circle[id])
             \/ /\ asset \in DepositAssets(circle'[id])
                /\ Deposits(circle'[id]) = 0
  BY DEF BookedCall
<1>4. /\ Deposits(circle[j]) \in Nat /\ \A x \in PaymentAssets : balance[x][F(j)] \in Nat
  BY DepositsTyped
<1>5. /\ Deposits(circle'[j]) \in Nat /\ \A x \in PaymentAssets : balance'[x][F(j)] \in Nat
  <2>1. circle'[j] \in Circle /\ balance' \in Ledger
    BY DEF PhaseInv
  <2>2. Deposits(circle'[j]) \in Nat
    BY <2>1, DepositsSum
  <2>3. rosca_account_id(j) \in Holders
    BY FundsApart
  <2> QED BY <2>1, <2>2, <2>3 DEF Ledger
<1>6. a \in PaymentAssets
  <2>1. circle[j] \in Circle
    BY DEF PhaseInv
  <2>2. InPhase(circle[j]) \/ circle[j] = NoCircle
    BY DEF PhaseInv
  <2>3. (Pending(circle[j]) => circle[j].rosca_details.payment_asset \in PaymentAssets)
        /\ (Active(circle[j]) => circle[j].active_roscas.payment_asset \in PaymentAssets)
    BY <2>1 DEF Circle, RoscaDetails, Pending, Active
  <2>4. ~(Pending(circle[j]) /\ Active(circle[j]))
    <3>1. NoCircle.rosca_details = None
      BY DEF NoCircle
    <3> QED BY <2>2, <3>1 DEF InPhase, Forming, Running, Over, Pending, Active
  <2> QED BY Zenon, <2>3, <2>4, DepositAssetsAre
<1>7. \A x \in PaymentAssets : balance'[x][F(j)] =
         IF x = asset /\ j = id THEN balance[x][F(j)] + (Deposits(circle'[j]) - Deposits(circle[j]))
         ELSE balance[x][F(j)]
  BY <1>3 DEF Booked
<1>8. CASE j # id
  <2>1. circle'[j] = circle[j]
    BY <1>8 DEF BookedCall
  <2>2. balance'[a][F(j)] = balance[a][F(j)]
    BY Zenon, <1>6, <1>7, <1>8
  <2> QED BY Zenon, <1>2, <2>1, <2>2
<1>9. CASE j = id
  <2>1. CASE /\ DepositAssets(circle[id]) \subseteq {asset}
             /\ asset \in DepositAssets(circle'[id])
    <3>1. a = asset
      BY Zenon, <1>2, <1>9, <2>1
    <3>2. balance'[a][F(j)] = balance[a][F(j)] + (Deposits(circle'[j]) - Deposits(circle[j]))
      BY Zenon, <1>6, <1>7, <1>9, <3>1
    <3>3. balance'[a][F(j)] >= Deposits(circle'[j])
      BY <1>2, <1>4, <1>5, <1>6, <3>2
    <3> QED BY Zenon, <1>9, <2>1, <3>1, <3>3
  <2>2. CASE /\ DepositAssets(circle[id]) \subseteq DepositAssets(circle'[id])
             /\ Deposits(circle'[id]) <= Deposits(circle[id])
    <3>1. \/ balance'[a][F(j)] = balance[a][F(j)] + (Deposits(circle'[j]) - Deposits(circle[j]))
          \/ balance'[a][F(j)] = balance[a][F(j)]
      BY <1>6, <1>7
    <3>2. balance'[a][F(j)] >= Deposits(circle'[j])
      BY <1>2, <1>4, <1>5, <1>6, <1>9, <2>2, <3>1
    <3> QED BY Zenon, <1>2, <1>9, <2>2, <3>2
  <2>3. CASE asset \in DepositAssets(circle'[id]) /\ Deposits(circle'[id]) = 0
    <3>1. balance'[asset][F(j)] >= Deposits(circle'[j])
      BY <1>5, <1>9, <2>3
    <3> QED BY <1>9, <2>3, <3>1
  <2> QED BY Zenon, <1>3, <2>1, <2>2, <2>3
<1> QED BY <1>8, <1>9

\* Changing one entry of a function on the assets changes its sum by as much.
LEMMA AssetSum ==
  ASSUME NEW f \in [PaymentAssets -> Nat], NEW g \in [PaymentAssets -> Nat],
         NEW asset \in PaymentAssets, \A a \in PaymentAssets : a # asset => g[a] = f[a]
  PROVE  /\ SumFunction(f) \in Int
         /\ SumFunction(g) = (SumFunction(f) - f[asset]) + g[asset]
<1>1. f \in [PaymentAssets -> Int] /\ g[asset] \in Int
  OBVIOUS
<1>2. g = [f EXCEPT ![asset] = g[asset]]
  OBVIOUS
<1> DEFINE v == g[asset]
<1> HIDE DEF v
<1>3. SumFunction(f) \in Int /\ SumFunction([f EXCEPT ![asset] = v]) = (SumFunction(f) - f[asset]) + v
  <2>1. v \in Int
    BY <1>1 DEF v
  <2> QED BY Zenon, <1>1, <2>1, AssetsAssumption, SumExcept
<1> QED BY Zenon, <1>2, <1>3 DEF v

\* Such a call takes from the fund what it takes from the deposits.
LEMMA CallPaysDeposits ==
  ASSUME PhaseInv, PhaseInv', NEW id \in RoscaIds, BookedCall(id), NEW j \in RoscaIds
  PROVE  PaysDeposits(j)
<1> DEFINE F == rosca_account_id(j)
           f == [a \in PaymentAssets |-> balance[a][F]]
           g == [a \in PaymentAssets |-> balance'[a][F]]
<1>1. PICK asset \in PaymentAssets :
          Booked(id, asset, balance, circle[id], balance', circle'[id])
  BY DEF BookedCall
<1>2. /\ Deposits(circle[j]) \in Nat /\ \A x \in PaymentAssets : balance[x][F] \in Nat
  BY DepositsTyped
<1>3. /\ Deposits(circle'[j]) \in Nat /\ \A x \in PaymentAssets : balance'[x][F] \in Nat
  <2>1. circle'[j] \in Circle /\ balance' \in Ledger
    BY DEF PhaseInv
  <2>2. Deposits(circle'[j]) \in Nat
    BY <2>1, DepositsSum
  <2>3. rosca_account_id(j) \in Holders
    BY FundsApart
  <2> QED BY Zenon, <2>1, <2>2, <2>3 DEF Ledger
<1>4. \A x \in PaymentAssets : balance'[x][F] =
         IF x = asset /\ j = id THEN balance[x][F] + (Deposits(circle'[j]) - Deposits(circle[j]))
         ELSE balance[x][F]
  BY <1>1 DEF Booked
<1> HIDE DEF F
<1>5. f \in [PaymentAssets -> Nat] /\ g \in [PaymentAssets -> Nat]
  BY <1>2, <1>3
<1>6. \A a \in PaymentAssets : f[a] = balance[a][F] /\ g[a] = balance'[a][F]
  OBVIOUS
<1> HIDE DEF f, g
<1>7. \A a \in PaymentAssets : a # asset => g[a] = f[a]
  BY <1>4, <1>6
<1>8. SumFunction(f) \in Int /\ SumFunction(g) = (SumFunction(f) - f[asset]) + g[asset]
  BY Zenon, <1>5, <1>7, AssetSum
<1>9. \/ g[asset] = f[asset]
      \/ g[asset] = f[asset] + (Deposits(circle'[j]) - Deposits(circle[j]))
  BY <1>4, <1>6
<1>10. f[asset] \in Nat /\ g[asset] \in Nat
  BY <1>5
<1>11. SumFunction(g) < SumFunction(f) =>
         SumFunction(f) - SumFunction(g) = Deposits(circle[j]) - Deposits(circle'[j])
  BY <1>2, <1>3, <1>8, <1>9, <1>10
<1> QED BY <1>11 DEF PaysDeposits, Deposits, f, g, F

\* What a call that writes circle id writes.
LEMMA WrittenAt ==
  ASSUME PhaseInv, NEW id \in RoscaIds, NEW d, circle' = [circle EXCEPT ![id] = d]
  PROVE  circle'[id] = d /\ \A j \in RoscaIds : j # id => circle'[j] = circle[j]
BY DEF PhaseInv

\* A call that moves no deposit and no fund, on a circle whose asset is known
\* and stays.
LEMMA QuietCall ==
  ASSUME PhaseInv, NEW id \in RoscaIds, NEW d, circle' = [circle EXCEPT ![id] = d],
         balance' = balance, d.security_deposit = circle[id].security_deposit,
         NEW asset \in PaymentAssets,
         DepositAssets(circle[id]) = {asset}, asset \in DepositAssets(d)
  PROVE  BookedCall(id)
<1>1. circle'[id] = d /\ \A j \in RoscaIds : j # id => circle'[j] = circle[j]
  BY Zenon, WrittenAt
<1>2. Deposits(circle[id]) \in Nat /\ balance \in Ledger
  BY DepositsTyped
<1>3. Deposits(d) = Deposits(circle[id])
  BY Zenon DEF Deposits
<1>4. Booked(id, asset, balance, circle[id], balance', d)
  <2> DEFINE c == circle[id]
             b == balance'
  <2> HIDE DEF c, b
  <2>1. Deposits(c) \in Nat /\ Deposits(d) = Deposits(c) /\ b = balance
    BY Zenon, <1>2, <1>3 DEF c, b
  <2>2. Booked(id, asset, balance, c, b, d)
    BY Zenon, <1>2, <2>1, NothingBooked
  <2> QED BY <2>2 DEF b, c
<1> QED BY Zenon, <1>1, <1>4 DEF BookedCall

\* Deposits a circle has before and after its start are in one asset.
LEMMA FormingAsset ==
  ASSUME NEW c, Forming(c)
  PROVE  /\ c \in Circle /\ c.rosca_details \in RoscaDetails
         /\ c.rosca_details.payment_asset \in PaymentAssets
         /\ DepositAssets(c) = {c.rosca_details.payment_asset}
<1>1. c \in Circle /\ c.rosca_details # None /\ c.active_roscas = None
  BY DEF Forming
<1>2. c.rosca_details \in RoscaDetails
  BY <1>1 DEF Circle
<1>3. c.rosca_details.payment_asset \in PaymentAssets
  BY <1>2 DEF RoscaDetails
<1>4. Pending(c) /\ ~Active(c)
  BY <1>1 DEF Pending, Active
<1> QED BY Zenon, <1>1, <1>2, <1>3, <1>4, DepositAssetsAre

LEMMA RunningAsset ==
  ASSUME NEW c, NEW left, Running(c, left)
  PROVE  /\ c \in Circle /\ c.active_roscas \in RoscaDetails
         /\ c.active_roscas.payment_asset \in PaymentAssets
         /\ DepositAssets(c) = {c.active_roscas.payment_asset}
<1>1. c \in Circle /\ c.rosca_details = None /\ c.active_roscas # None
  BY DEF Running
<1>2. c.active_roscas \in RoscaDetails
  BY <1>1 DEF Circle
<1>3. c.active_roscas.payment_asset \in PaymentAssets
  BY <1>2 DEF RoscaDetails
<1>4. ~Pending(c) /\ Active(c)
  BY <1>1 DEF Pending, Active
<1> QED BY Zenon, <1>1, <1>2, <1>3, <1>4, DepositAssetsAre

LEMMA OverAsset ==
  ASSUME NEW c, Over(c)
  PROVE  c \in Circle /\ DepositAssets(c) = PaymentAssets
<1>1. c \in Circle /\ c.rosca_details = None /\ c.active_roscas = None
  BY DEF Over
<1>2. ~Pending(c) /\ ~Active(c)
  BY <1>1 DEF Pending, Active
<1> QED BY Zenon, <1>1, <1>2, DepositAssetsAre

\* create_rosca opens a circle without deposits.
LEMMA CreateBooked ==
  ASSUME PhaseInv, NEW signer \in Accounts, NEW a \in Proposals, create_rosca(signer, a)
  PROVE  next_rosca_id \in RoscaIds /\ BookedCall(next_rosca_id)
<1> DEFINE id       == next_rosca_id
           number   == Cardinality(a.invited) + 1
           position == PositionOr0(a.position)
           details  == [random_order |-> a.random_order,
                        number_of_participants |-> number,
                        minimum_participant_threshold |-> a.minimum_participant_threshold,
                        contribution_amount |-> a.contribution_amount,
                        payment_asset |-> a.payment_asset,
                        contribution_frequency |-> a.contribution_frequency,
                        start_by_timestamp |-> a.start_by_timestamp]
           order    == [i \in 1..number |-> IF i = position + 1 THEN signer ELSE None]
           c        == circle[id]
           d        == [c EXCEPT !.invited = {signer} \cup a.invited,
                                 !.pending_order = order,
                                 !.participants[signer] = position,
                                 !.participants_count = 1,
                                 !.rosca_details = details]
<1>1. /\ id \in RoscaIds /\ balance' = balance /\ next_rosca_id' = next_rosca_id + 1
      /\ circle' = [circle EXCEPT ![id] = d]
  BY DEF create_rosca
<1>2. c \in Circle /\ c = NoCircle
  BY <1>1 DEF PhaseInv, RoscaIds
<1>3. c.active_roscas = None /\ c.completed_roscas = FALSE
      /\ \A p \in Accounts : c.security_deposit[p] = 0
  <2>1. NoCircle.active_roscas = None /\ NoCircle.completed_roscas = FALSE
        /\ \A p \in Accounts : NoCircle.security_deposit[p] = 0
    BY DEF NoCircle
  <2> HIDE DEF c
  <2> QED BY Zenon, <1>2, <2>1
<1> HIDE DEF order, position
<1>4. /\ d.security_deposit = c.security_deposit /\ d.active_roscas = c.active_roscas
      /\ d.rosca_details = details /\ d.completed_roscas = c.completed_roscas
  <2> HIDE DEF c, details
  <2> QED BY <1>2 DEF Circle
<1>5. details.payment_asset \in PaymentAssets
  <2>1. a \in ProposalType
    BY InputsAssumption
  <2> QED BY <2>1 DEF ProposalType
<1>6. PhaseInv'
  <2>1. a \in ProposalType
    BY InputsAssumption
  <2> QED BY Zenon, <2>1, CreateInv
<1>7. circle'[id] = d /\ \A j \in RoscaIds : j # id => circle'[j] = circle[j]
  <2> HIDE DEF d
  <2> QED BY Zenon, <1>1, WrittenAt
<1> HIDE DEF d, details
<1>8. d.rosca_details # None
  <2>1. id < next_rosca_id'
    BY <1>1 DEF RoscaIds
  <2>2. InPhase(d)
    BY Zenon, <1>1, <1>6, <1>7, <2>1 DEF PhaseInv
  <2> QED BY Zenon, <1>3, <1>4, <2>2 DEF InPhase, Forming, Running, Over
<1>9. DepositAssets(d) = {details.payment_asset}
  BY Zenon, <1>3, <1>4, <1>8, DepositAssetsAre DEF Pending, Active
<1>10. Deposits(c) = 0 /\ Deposits(d) = Deposits(c)
  <2>1. c.security_deposit \in [Accounts -> Nat]
    BY <1>2, LimitsAssumption DEF Circle
  <2> HIDE DEF c
  <2> QED BY ZenonT(30), <1>3, <1>4, <2>1, SumBounds, AccountsAssumption DEF Deposits
<1>11. Booked(id, details.payment_asset, balance, c, balance', d)
  <2>1. balance \in Ledger
    BY DEF PhaseInv
  <2> DEFINE b == balance'
  <2> HIDE DEF c, b
  <2>2. Deposits(c) \in Nat /\ Deposits(d) = Deposits(c) /\ b = balance
    BY <1>1, <1>10 DEF b
  <2>3. Booked(id, details.payment_asset, balance, c, b, d)
    BY <2>1, <2>2, NothingBooked
  <2> QED BY <2>3 DEF b
<1> QED BY Zenon, <1>1, <1>5, <1>7, <1>9, <1>10, <1>11 DEF BookedCall

\* join_rosca moves no money.
LEMMA JoinBooked ==
  ASSUME PhaseInv, NEW signer \in Accounts, NEW id \in RoscaIds, NEW position \in JoinPositions,
         join_rosca(signer, id, position)
  PROVE  BookedCall(id)
<1> DEFINE c == circle[id]
<1>1. c.rosca_details # None /\ balance' = balance
  BY DEF join_rosca
<1>2. c # NoCircle
  BY <1>1 DEF NoCircle
<1>3. Forming(c)
  BY <1>1, <1>2, UsedInPhase DEF InPhase, Running, Over
<1>4. PICK slot \in JoinSlots(c.pending_order, position) :
        circle' = [circle EXCEPT ![id] = Joined(c, signer, slot)]
  BY Zenon DEF join_rosca
<1> DEFINE d == Joined(c, signer, slot)
           asset == c.rosca_details.payment_asset
<1>5. c \in Circle /\ asset \in PaymentAssets /\ DepositAssets(c) = {asset}
  BY <1>3, FormingAsset
<1>6. /\ d.security_deposit = c.security_deposit /\ d.rosca_details = c.rosca_details
      /\ d.active_roscas = c.active_roscas
  <2> HIDE DEF c
  <2> QED BY <1>5 DEF Joined, Circle
<1>7. c.active_roscas = None
  BY DEF join_rosca
<1> HIDE DEF d
<1>8. DepositAssets(d) = {asset}
  BY Zenon, <1>1, <1>6, <1>7, DepositAssetsAre DEF Pending, Active
<1>9. circle' = [circle EXCEPT ![id] = d] /\ asset \in DepositAssets(d)
  BY <1>4, <1>8 DEF d
<1> QED BY Zenon, <1>1, <1>5, <1>6, <1>9, QuietCall

\* start_rosca moves no money, and the asset stays the same.
LEMMA StartBooked ==
  ASSUME PhaseInv, NEW signer \in Accounts, NEW id \in RoscaIds, start_rosca(signer, id)
  PROVE  BookedCall(id)
<1> DEFINE c == circle[id]
           frequency == c.rosca_details.contribution_frequency
           cutoff    == now + frequency
           final     == now + c.participants_count * frequency
<1>1. c.rosca_details # None /\ balance' = balance
  BY DEF start_rosca
<1>2. c # NoCircle
  BY <1>1 DEF NoCircle
<1>3. Forming(c)
  BY <1>1, <1>2, UsedInPhase DEF InPhase, Running, Over
<1>4. PICK order \in ClaimOrders(c.rosca_details, c.pending_order) :
        circle' = [circle EXCEPT ![id] = Started(c, order, cutoff, final)]
  BY Zenon DEF start_rosca
<1> DEFINE d == Started(c, order, cutoff, final)
           asset == c.rosca_details.payment_asset
<1>5. c \in Circle /\ asset \in PaymentAssets /\ DepositAssets(c) = {asset}
  BY <1>3, FormingAsset
<1>6. /\ d.security_deposit = c.security_deposit /\ d.rosca_details = None
      /\ d.active_roscas = c.rosca_details
  <2> HIDE DEF c, cutoff, final
  <2> QED BY <1>5 DEF Started, Circle
<1> HIDE DEF d
<1>8. DepositAssets(d) = {asset}
  BY Zenon, <1>1, <1>6, DepositAssetsAre DEF Pending, Active
<1>9. circle' = [circle EXCEPT ![id] = d] /\ asset \in DepositAssets(d)
  BY <1>4, <1>8 DEF d
<1> QED BY Zenon, <1>1, <1>5, <1>6, <1>9, QuietCall

\* leave_rosca pays back the deposit it deletes.
LEMMA LeaveBooked ==
  ASSUME NoDust, PhaseInv, NEW signer \in Accounts, NEW id \in RoscaIds, leave_rosca(signer, id)
  PROVE  BookedCall(id)
<1> DEFINE c       == circle[id]
           asset   == c.rosca_details.payment_asset
           fund    == rosca_account_id(id)
           deposit == c.security_deposit[signer]
           d       == Left(c, signer)
<1>1. /\ c.rosca_details # None /\ c.active_roscas = None
      /\ circle' = [circle EXCEPT ![id] = d]
      /\ deposit > 0 => CanTransfer(balance, asset, fund, signer, deposit)
      /\ balance' = IF deposit > 0 THEN Transfer(balance, asset, fund, signer, deposit)
                    ELSE balance
  BY DEF leave_rosca
<1>2. c # NoCircle
  BY <1>1 DEF NoCircle
<1>3. Forming(c)
  BY <1>1, <1>2, UsedInPhase DEF InPhase, Running, Over
<1>4. c \in Circle /\ asset \in PaymentAssets /\ DepositAssets(c) = {asset}
  BY <1>3, FormingAsset
<1>5. /\ d.security_deposit = [c.security_deposit EXCEPT ![signer] = 0]
      /\ d.rosca_details = c.rosca_details /\ d.active_roscas = c.active_roscas
  <2> HIDE DEF c
  <2> QED BY <1>4 DEF Left, Circle
<1> HIDE DEF d
<1>6. asset \in DepositAssets(d)
  BY <1>1, <1>5, DepositAssetsAre DEF Pending, Active
<1>7. circle'[id] = d /\ \A j \in RoscaIds : j # id => circle'[j] = circle[j]
  BY Zenon, <1>1, WrittenAt
<1>8. Deposits(c) \in Nat /\ balance \in Ledger /\ deposit \in Nat
  BY <1>4, DepositsTyped, LimitsAssumption DEF Circle
<1>9. Deposits(d) = Deposits(c) - deposit
  <2> HIDE DEF c
  <2>1. Deposits(d) = (Deposits(c) - c.security_deposit[signer]) + 0
    BY <1>4, <1>5, DepositChanged
  <2> QED BY <1>8, <2>1
<1> DEFINE b == balance'
<1> HIDE DEF c, b, asset, deposit, fund
<1>10. Booked(id, asset, balance, c, b, d)
  <2>1. CASE deposit > 0
    <3>1. b = Transfer(balance, asset, fund, signer, deposit)
      BY <1>1, <2>1 DEF b
    <3> QED BY ZenonT(30), <1>1, <1>4, <1>8, <1>9, <2>1, <3>1, FundPays DEF fund
  <2>2. CASE ~(deposit > 0)
    <3>1. b = balance /\ Deposits(d) = Deposits(c)
      BY <1>1, <1>8, <1>9, <2>2 DEF b
    <3> QED BY Zenon, <1>8, <3>1, NothingBooked
  <2> QED BY <2>1, <2>2
<1> QED BY Zenon, <1>4, <1>6, <1>7, <1>10 DEF BookedCall, b, c

\* claim_security_deposit pays the deposit it deletes; the circle is over.
LEMMA ClaimBooked ==
  ASSUME NoDust, PhaseInv, NEW signer \in Accounts, NEW id \in RoscaIds,
         NEW asset \in PaymentAssets, claim_security_deposit(signer, id, asset)
  PROVE  BookedCall(id) /\ Over(circle[id])
<1> DEFINE c       == circle[id]
           fund    == rosca_account_id(id)
           deposit == c.security_deposit[signer]
           d       == [c EXCEPT !.security_deposit[signer] = 0]
<1>1. /\ c.final_pay_by # None /\ (c.rosca_details # None \/ c.completed_roscas)
      /\ CanTransfer(balance, asset, fund, signer, deposit)
      /\ balance' = Transfer(balance, asset, fund, signer, deposit)
  BY DEF claim_security_deposit
<1>2. c # NoCircle
  BY <1>1 DEF NoCircle
<1>3. Over(c)
  BY Zenon, <1>1, <1>2, UsedInPhase DEF InPhase, Running, Forming
<1>4. c \in Circle /\ DepositAssets(c) = PaymentAssets
  BY <1>3, OverAsset
<1>5. /\ d.security_deposit = [c.security_deposit EXCEPT ![signer] = 0]
      /\ d.rosca_details = c.rosca_details /\ d.active_roscas = c.active_roscas
  <2> HIDE DEF c
  <2> QED BY <1>4 DEF Circle
<1>6. circle' = [circle EXCEPT ![id] = d]
  BY <1>4 DEF claim_security_deposit, PhaseInv
<1> HIDE DEF d
<1>7. DepositAssets(d) = PaymentAssets
  BY Zenon, <1>3, <1>5, DepositAssetsAre DEF Pending, Active, Over
<1>8. circle'[id] = d /\ \A j \in RoscaIds : j # id => circle'[j] = circle[j]
  BY Zenon, <1>6, WrittenAt
<1>9. Deposits(c) \in Nat /\ balance \in Ledger /\ deposit \in Nat
  BY <1>4, DepositsTyped, LimitsAssumption DEF Circle
<1>10. Deposits(d) = Deposits(c) - deposit
  <2> HIDE DEF c
  <2>1. Deposits(d) = (Deposits(c) - c.security_deposit[signer]) + 0
    BY <1>4, <1>5, DepositChanged
  <2> QED BY <1>9, <2>1
<1> DEFINE b == balance'
<1> HIDE DEF c, b, deposit, fund
<1>11. Booked(id, asset, balance, c, b, d)
  BY Zenon, <1>1, <1>9, <1>10, FundPays DEF fund, b
<1>12. Deposits(d) <= Deposits(c)
  BY <1>9, <1>10
<1> QED BY Zenon, <1>3, <1>4, <1>7, <1>8, <1>11, <1>12 DEF BookedCall, b, c

\* A transfer from an account to a fund, booked as one deposit.
LEMMA FundReceives ==
  ASSUME NoDust, NEW bal \in Ledger, NEW asset \in PaymentAssets, NEW id \in RoscaIds,
         NEW p \in Accounts, NEW amount \in Nat, NEW c, NEW d,
         Deposits(c) \in Nat, Deposits(d) = Deposits(c) + amount,
         CanTransfer(bal, asset, p, rosca_account_id(id), amount)
  PROVE  Booked(id, asset, bal, c,
                Transfer(bal, asset, p, rosca_account_id(id), amount), d)
<1> DEFINE fund == rosca_account_id(id)
           new  == Transfer(bal, asset, p, fund, amount)
<1>1. /\ fund \in Holders /\ p \in Holders /\ p # fund
      /\ \A j \in RoscaIds : /\ rosca_account_id(j) \in Holders
                             /\ p # rosca_account_id(j)
                             /\ rosca_account_id(j) = fund => j = id
  BY Zenon, FundsApart
<1> HIDE DEF fund
<1>2. \A a \in PaymentAssets, h \in Holders :
           new[a][h] = IF a # asset THEN bal[a][h]
                       ELSE IF h = p THEN bal[a][h] - amount
                       ELSE IF h = fund THEN bal[a][h] + amount
                       ELSE bal[a][h]
  BY <1>1, TransferMoves DEF fund
<1> HIDE DEF new
<1>3. \A a \in PaymentAssets, h \in Holders : bal[a][h] \in Nat
  BY DEF Ledger
<1>4. ASSUME NEW a \in PaymentAssets, NEW j \in RoscaIds
      PROVE  new[a][rosca_account_id(j)] =
                IF a = asset /\ j = id
                THEN bal[a][rosca_account_id(j)] + (Deposits(d) - Deposits(c))
                ELSE bal[a][rosca_account_id(j)]
  <2>1. CASE j = id
    <3>1. new[a][fund] = IF a # asset THEN bal[a][fund] ELSE bal[a][fund] + amount
      BY Zenon, <1>1, <1>2
    <3> QED BY <1>1, <1>3, <2>1, <3>1 DEF fund
  <2>2. CASE j # id
    BY <1>1, <1>2, <2>2
  <2> QED BY Zenon, <2>1, <2>2
<1> QED BY <1>4 DEF Booked, new, fund

\* add_to_security_deposit books what it takes, in the circle's asset.
LEMMA AddBooked ==
  ASSUME NoDust, PhaseInv, NEW signer \in Accounts, NEW id \in RoscaIds,
         NEW amount \in DepositAmounts, add_to_security_deposit(signer, id, amount)
  PROVE  BookedCall(id)
<1> DEFINE c       == circle[id]
           rosca   == IF c.active_roscas # None THEN c.active_roscas ELSE c.rosca_details
           asset   == rosca.payment_asset
           fund    == rosca_account_id(id)
           deposit == c.security_deposit[signer]
           d       == [c EXCEPT !.security_deposit[signer] = deposit + amount]
<1>1. /\ c.participants[signer] # None /\ rosca # None /\ ~c.completed_roscas
      /\ CanTransfer(balance, asset, signer, fund, amount)
      /\ balance' = Transfer(balance, asset, signer, fund, amount)
  <2> HIDE DEF d
  <2> QED BY DEF add_to_security_deposit
<1>2. c # NoCircle
  <2>1. NoCircle.participants[signer] = None
    BY DEF NoCircle
  <2> HIDE DEF c, rosca, asset, fund, deposit, d
  <2> QED BY Zenon, <1>1, <2>1
<1>3. Forming(c) \/ \E left \in Nat : Running(c, left)
  <2> HIDE DEF rosca, asset, fund, deposit, d
  <2> QED BY ZenonT(30), <1>1, <1>2, UsedInPhase DEF InPhase, Over
<1>4. c \in Circle /\ asset \in PaymentAssets /\ DepositAssets(c) = {asset}
  <2> HIDE DEF c, fund, deposit, d
  <2>1. CASE Forming(c)
    <3>1. c.active_roscas = None
      BY Zenon, <2>1 DEF Forming
    <3> QED BY Zenon, <2>1, <3>1, FormingAsset
  <2>2. ASSUME NEW left \in Nat, Running(c, left)
        PROVE  c \in Circle /\ asset \in PaymentAssets /\ DepositAssets(c) = {asset}
    <3>1. c.active_roscas # None
      BY <2>2 DEF Running
    <3> QED BY Zenon, <2>2, <3>1, RunningAsset
  <2> QED BY Zenon, <1>3, <2>1, <2>2
<1>5. deposit \in Nat /\ amount \in Nat /\ Deposits(c) \in Nat /\ balance \in Ledger
  <2>1. deposit \in Nat
    BY <1>4, LimitsAssumption DEF Circle
  <2>2. amount \in Nat
    BY LimitsAssumption, InputsAssumption
  <2> QED BY ZenonT(30), <2>1, <2>2, DepositsTyped
<1>6. circle' = [circle EXCEPT ![id] = d]
  <2> HIDE DEF rosca, asset, fund
  <2> QED BY <1>4 DEF add_to_security_deposit, PhaseInv
<1> HIDE DEF rosca, asset, fund, deposit
<1>7. /\ d.security_deposit = [c.security_deposit EXCEPT ![signer] = deposit + amount]
      /\ d.rosca_details = c.rosca_details /\ d.active_roscas = c.active_roscas
  <2> HIDE DEF c
  <2> QED BY <1>4 DEF Circle
<1> HIDE DEF d
<1>8. DepositAssets(d) = DepositAssets(c)
  <2>1. Pending(d) = Pending(c) /\ Active(d) = Active(c)
    BY Zenon, <1>7 DEF Pending, Active
  <2> HIDE DEF c
  <2> QED BY Zenon, <1>7, <2>1 DEF DepositAssets
<1>9. Deposits(d) = Deposits(c) + amount
  <2> DEFINE v == deposit + amount
  <2>1. v \in Nat
    BY <1>5
  <2> HIDE DEF c, v
  <2>2. Deposits(d) = (Deposits(c) - c.security_deposit[signer]) + v
    BY <1>4, <1>7, <2>1, DepositChanged DEF v
  <2> QED BY <1>5, <2>2 DEF v, deposit, c
<1>10. circle'[id] = d /\ \A j \in RoscaIds : j # id => circle'[j] = circle[j]
  BY Zenon, <1>6, WrittenAt
<1> DEFINE b == balance'
<1> HIDE DEF c, b
<1>11. Booked(id, asset, balance, c, b, d)
  BY ZenonT(30), <1>1, <1>4, <1>5, <1>9, FundReceives DEF fund, b
<1> QED BY Zenon, <1>4, <1>8, <1>10, <1>11 DEF BookedCall, b, c

\* A transfer from outside changes no deposit and only adds to funds.
LEMMA OutsideGrows ==
  ASSUME NoDust, PhaseInv, NEW t \in OutsideTransfers, OutsideTransfer(t)
  PROVE  /\ circle' = circle
         /\ \E asset \in PaymentAssets : \A a \in PaymentAssets, j \in RoscaIds :
               IF a = asset THEN balance'[a][rosca_account_id(j)] >= balance[a][rosca_account_id(j)]
               ELSE balance'[a][rosca_account_id(j)] = balance[a][rosca_account_id(j)]
<1>1. t[1] \in PaymentAssets /\ t[3] \in Holders /\ t[4] \in Nat /\ t[2] \in Accounts
  BY InputsAssumption DEF OutsideTransfer
<1>2. balance \in Ledger /\ CanTransfer(balance, t[1], t[2], t[3], t[4])
      /\ balance' = Transfer(balance, t[1], t[2], t[3], t[4]) /\ circle' = circle
  BY DEF PhaseInv, OutsideTransfer
<1>3. \A j \in RoscaIds : rosca_account_id(j) \in Holders /\ rosca_account_id(j) # t[2]
                          /\ t[2] \in Holders
  BY Zenon, <1>1, FundsApart
<1>4. \A a \in PaymentAssets, h \in Holders : balance[a][h] \in Nat
  BY <1>2 DEF Ledger
<1>5. CASE t[2] = t[3]
  <2>1. balance' = balance
    BY Zenon, <1>2, <1>5 DEF Transfer
  <2> QED BY <1>1, <1>2, <1>3, <1>4, <2>1
<1>6. CASE t[2] # t[3]
  <2> DEFINE x == t[1]
             p == t[2]
             h == t[3]
             m == t[4]
             b == balance'
  <2> HIDE DEF x, p, h, m, b
  <2>1. /\ x \in PaymentAssets /\ p \in Holders /\ h \in Holders /\ m \in Nat /\ p # h
        /\ CanTransfer(balance, x, p, h, m) /\ b = Transfer(balance, x, p, h, m)
    BY ZenonT(30), <1>1, <1>2, <1>6, RoscaFundsAssumption DEF x, p, h, m, b, Holders
  <2>2. \A a \in PaymentAssets, k \in Holders :
           b[a][k] = IF a # x THEN balance[a][k]
                     ELSE IF k = p THEN balance[a][k] - m
                     ELSE IF k = h THEN balance[a][k] + m
                     ELSE balance[a][k]
    BY <1>2, <2>1, TransferMoves
  <2>3. \A a \in PaymentAssets, j \in RoscaIds :
           IF a = x THEN b[a][rosca_account_id(j)] >= balance[a][rosca_account_id(j)]
           ELSE b[a][rosca_account_id(j)] = balance[a][rosca_account_id(j)]
    <3> SUFFICES ASSUME NEW a \in PaymentAssets, NEW j \in RoscaIds
                 PROVE  IF a = x THEN b[a][rosca_account_id(j)] >= balance[a][rosca_account_id(j)]
                        ELSE b[a][rosca_account_id(j)] = balance[a][rosca_account_id(j)]
      OBVIOUS
    <3> DEFINE F == rosca_account_id(j)
    <3> HIDE DEF F
    <3>1. F \in Holders /\ F # p /\ balance[a][F] \in Nat
      BY Zenon, <1>3, <1>4 DEF F, p
    <3>2. b[a][F] = IF a # x THEN balance[a][F]
                    ELSE IF F = h THEN balance[a][F] + m ELSE balance[a][F]
      BY Zenon, <2>2, <3>1
    <3> QED BY <2>1, <3>1, <3>2 DEF F
  <2> QED BY <1>2, <2>1, <2>3 DEF b
<1> QED BY <1>5, <1>6

-----------------------------------------------------------------------------
(***************************************************************************)
(* The calls that close rounds.                                            *)
(***************************************************************************)

\* Layer q is where a call ends that opened layer s and closed k rounds: what
\* it moved is booked, in an asset the deposits can still be in, and every
\* member is charged for the rounds missed.
Worked(id, s, q, k) ==
    LET c     == s.circle
        d     == q.circle
        asset == c.active_roscas.payment_asset
    IN  /\ Booked(id, asset, s.balance, c, q.balance, d)
        /\ asset \in DepositAssets(d)
        /\ \A p \in Members(c) :
              LET a == c.active_roscas.contribution_amount
                  m == Cardinality(MissedOf(c, p, k))
              IN  /\ d.security_deposit[p] = DepositAfter(c.security_deposit[p], a, m)
                  /\ d.default_count[p] = CountAfter(c.default_count[p], c.security_deposit[p], a, m)

\* The invariants give a call on an active circle a layer to start from.
LEMMA OpenedCircle ==
  ASSUME PhaseInv, FundCoversDeposits, NEW id \in RoscaIds, circle[id].active_roscas # None
  PROVE  LET s == OpenLayer(circle[id], balance)
         IN  /\ \E left \in Nat : Opened(id, s, left)
             /\ s.circle = circle[id] /\ s.balance = balance
<1> DEFINE c == circle[id]
           s == OpenLayer(c, balance)
<1>1. c # NoCircle
  BY DEF NoCircle
<1>2. InPhase(c)
  BY <1>1, UsedInPhase
<1>3. PICK left \in Nat : Running(c, left)
  BY ZenonT(30), <1>2 DEF InPhase, Forming, Over
<1>4. Layer(s) /\ s.circle = c /\ s.ok /\ s.balance = balance
  BY <1>3 DEF OpenLayer, Layer, Running, PhaseInv
<1> HIDE DEF s
<1>5. DepositAssets(c) = {c.active_roscas.payment_asset}
  BY Zenon, <1>3, RunningAsset
<1>6. balance[c.active_roscas.payment_asset][rosca_account_id(id)] >= Deposits(c)
  BY <1>5 DEF FundCoversDeposits, Deposits
<1>7. Covered(id, s)
  BY Zenon, <1>4, <1>6 DEF Covered
<1>8. Opened(id, s, left)
  BY Zenon, <1>3, <1>4, <1>7 DEF Opened
<1> QED BY Zenon, <1>4, <1>8 DEF s

\* A completed circle keeps its deposits and counts.
LEMMA CompleteKeeps ==
  ASSUME NEW id, NEW s, Layer(s)
  PROVE  LET q == Complete(id, s)
         IN  /\ Layer(q) /\ q.ok = s.ok /\ q.balance = s.balance
             /\ q.circle.security_deposit = s.circle.security_deposit
             /\ q.circle.default_count = s.circle.default_count
             /\ q.circle.final_pay_by = s.circle.final_pay_by
             /\ q.circle.rosca_details = s.circle.rosca_details
             /\ q.circle.active_roscas = None
             /\ q.circle.completed_roscas
<1> DEFINE q == Complete(id, s)
           c == s.circle
           d == [c EXCEPT !.completed_roscas = TRUE, !.active_roscas = None]
           log == Append(s.events, [type |-> "RoscaComplete", rosca_id |-> id])
<1>1. q = [s EXCEPT !.circle = d, !.events = log]
  BY DEF Complete
<1>2. c \in Circle
  BY DEF Layer
<1>3. /\ d \in Circle
      /\ d.security_deposit = c.security_deposit /\ d.default_count = c.default_count
      /\ d.final_pay_by = c.final_pay_by /\ d.rosca_details = c.rosca_details
      /\ d.active_roscas = None /\ d.completed_roscas = TRUE
  <2> HIDE DEF c
  <2> QED BY ZenonT(60), <1>2 DEF Circle
<1> HIDE DEF d, log, q
<1>4. /\ q = [circle |-> d, balance |-> s.balance, events |-> log, ok |-> s.ok]
  BY Zenon, <1>1 DEF Layer
<1>5. q.circle = d /\ q.balance = s.balance /\ q.events = log /\ q.ok = s.ok
  BY <1>4
<1>6. Layer(q)
  BY ZenonT(30), <1>3, <1>4, <1>5 DEF Layer
<1> QED BY Zenon, <1>3, <1>5, <1>6 DEF q, c

\* A settled circle.
LEMMA SettledWorks ==
  ASSUME NEW id \in RoscaIds, NEW s, NEW left, Opened(id, s, left), NEW q,
         Settled(id, s, left, q)
  PROVE  /\ Layer(q) /\ q.ok
         /\ Worked(id, s, q, left + 1)
         /\ ~Active(q.circle) /\ Completed(q.circle)
         /\ q.circle.final_pay_by = s.circle.final_pay_by
<1>1. PICK r : Progress(id, s, left, r, left + 1) /\ q = Complete(id, r)
  BY DEF Settled
<1> DEFINE c     == s.circle
           d     == r.circle
           e     == q.circle
           asset == c.active_roscas.payment_asset
<1>2. /\ Layer(r) /\ r.ok /\ Booked(id, asset, s.balance, c, r.balance, d)
      /\ Advanced(c, left, d, left + 1)
  BY <1>1 DEF Progress
<1>3. /\ Layer(q) /\ q.ok = r.ok /\ q.balance = r.balance
      /\ e.security_deposit = d.security_deposit
      /\ e.default_count = d.default_count
      /\ e.final_pay_by = d.final_pay_by
      /\ e.rosca_details = d.rosca_details
      /\ e.active_roscas = None /\ e.completed_roscas
  BY Zenon, <1>1, <1>2, CompleteKeeps
<1>4. d.rosca_details = None /\ d.final_pay_by = c.final_pay_by
  <2>1. Running(d, left - (left + 1)) /\ d.final_pay_by = c.final_pay_by
    BY Zenon, <1>2 DEF Advanced
  <2> QED BY Zenon, <2>1 DEF Running
<1>5. asset \in PaymentAssets
  BY Zenon, RunningAsset DEF Opened
<1> HIDE DEF c, d, e, asset
<1>6. asset \in DepositAssets(e)
  BY Zenon, <1>3, <1>4, <1>5, DepositAssetsAre DEF Pending, Active
<1>7. Deposits(e) = Deposits(d)
  BY <1>3 DEF Deposits
<1>8. Booked(id, asset, s.balance, c, q.balance, e)
  BY Zenon, <1>2, <1>3, <1>7 DEF Booked
<1>9. \A p \in Members(c) :
              LET a == c.active_roscas.contribution_amount
                  m == Cardinality(MissedOf(c, p, left + 1))
              IN  /\ e.security_deposit[p] = DepositAfter(c.security_deposit[p], a, m)
                  /\ e.default_count[p] = CountAfter(c.default_count[p], c.security_deposit[p], a, m)
  BY Zenon, <1>2, <1>3 DEF Advanced
<1>10. Worked(id, s, q, left + 1)
  BY Zenon, <1>6, <1>8, <1>9 DEF Worked, c, e, asset
<1> QED BY Zenon, <1>2, <1>3, <1>4, <1>10 DEF Active, Completed, c, e

\* A contribution moves no fund and no deposit.
LEMMA ContributionKeeps ==
  ASSUME NoDust, NEW id \in RoscaIds, NEW s, Layer(s), s.ok, NEW left \in Nat,
         Running(s.circle, left), NEW signer \in Accounts,
         PayContribution(id, s, signer).ok
  PROVE  LET q == PayContribution(id, s, signer)
         IN  /\ \A a \in PaymentAssets, j \in RoscaIds :
                   q.balance[a][rosca_account_id(j)] = s.balance[a][rosca_account_id(j)]
             /\ q.circle.security_deposit = s.circle.security_deposit
             /\ q.circle.default_count = s.circle.default_count
             /\ q.circle.rosca_details = None
             /\ q.circle.active_roscas \in {s.circle.active_roscas, None}
<1> DEFINE c      == s.circle
           rosca  == c.active_roscas
           asset  == rosca.payment_asset
           m      == rosca.contribution_amount
           h      == c.eligible_claimant
           cutoff == c.next_pay_by + rosca.contribution_frequency
           paid   == Transfer(s.balance, asset, signer, h, m)
           d      == [c EXCEPT !.current_contributors = c.current_contributors \cup {signer},
                               !.current_contribution_count = c.current_contribution_count + 1]
           p      == CountContribution(id, s, signer)
           e      == OpenNextRound(p.circle, cutoff)
           q      == PayContribution(id, s, signer)
           can    == CanTransfer(s.balance, asset, signer, h, m)
<1>1. /\ c \in Circle /\ s.balance \in Ledger /\ asset \in PaymentAssets /\ rosca \in RoscaDetails
      /\ h \in Accounts /\ c.rosca_details = None
  BY Zenon, RunningAsset, RunningTyped DEF Layer, Running
<1>2. m \in Nat
  <2> HIDE DEF rosca
  <2> QED BY <1>1, LimitsAssumption DEF RoscaDetails
<1>3. /\ d \in Circle
      /\ d.security_deposit = c.security_deposit /\ d.default_count = c.default_count
      /\ d.rosca_details = c.rosca_details /\ d.active_roscas = c.active_roscas
  <2> HIDE DEF c
  <2>1. /\ c.current_contribution_count + 1 \in Nat
        /\ c.current_contributors \cup {signer} \in SUBSET Accounts
    <3>1. c.current_contribution_count \in Nat /\ c.current_contributors \in SUBSET Accounts
      BY Zenon, <1>1 DEF Circle
    <3>2. \A i \in Nat : i + 1 \in Nat
      OBVIOUS
    <3> QED BY Zenon, <3>1, <3>2
  <2> QED BY ZenonT(60), <1>1, <2>1 DEF Circle
<1>4. p.circle = d /\ p.ok = s.ok /\ p.balance = paid
      /\ p = [circle |-> p.circle, balance |-> p.balance, events |-> p.events, ok |-> p.ok]
  <2> DEFINE log == Append(s.events,
                       [type |-> "ContributionMade", rosca_id |-> id, contributor |-> signer,
                        recipient |-> c.eligible_claimant,
                        amount |-> rosca.contribution_amount])
  <2>1. p = [s EXCEPT !.balance = paid, !.circle = d, !.events = log]
    BY DEF CountContribution
  <2> HIDE DEF p, d, paid, log
  <2> QED BY Zenon, <2>1 DEF Layer
<1> HIDE DEF p, d
<1>5. q = IF ~can THEN Failed(s)
          ELSE IF p.circle.current_contribution_count # Len(c.active_order) - 1 THEN p
          ELSE IF cutoff > MaxMoment THEN Failed(s)
          ELSE IF cutoff > c.final_pay_by THEN Complete(id, p)
          ELSE [p EXCEPT !.circle = e, !.events = Append(@, NewRoundStarted(id, e))]
  BY DEF PayContribution, p, can
<1>6. ~Failed(s).ok
  BY Zenon DEF Failed, Layer
<1>7. q.ok
  OBVIOUS
<1> HIDE DEF q, can, paid, e, c, rosca, asset, m, h, cutoff
<1>8. can /\ \/ q = p
             \/ q = Complete(id, p)
             \/ q = [p EXCEPT !.circle = e, !.events = Append(@, NewRoundStarted(id, e))]
  BY Zenon, <1>5, <1>6, <1>7
<1>9. paid \in Ledger
  <2>1. signer \in Holders /\ h \in Holders
    BY <1>1 DEF Holders
  <2> QED BY Zenon, <1>1, <1>2, <1>8, <2>1, TransferTyped DEF can, paid
<1>10. Layer(p)
  BY Zenon, <1>3, <1>4, <1>9 DEF Layer
<1>11. \A a \in PaymentAssets, j \in RoscaIds :
          paid[a][rosca_account_id(j)] = s.balance[a][rosca_account_id(j)]
  <2>1. \A j \in RoscaIds : /\ rosca_account_id(j) \in Holders /\ signer \in Holders /\ h \in Holders
                            /\ rosca_account_id(j) # signer /\ rosca_account_id(j) # h
    BY Zenon, <1>1, FundsApart
  <2>2. CASE signer = h
    <3>1. paid = s.balance
      BY Zenon, <2>2 DEF paid, Transfer
    <3> QED BY Zenon, <3>1
  <2>3. CASE signer # h
    <3> SUFFICES ASSUME NEW a \in PaymentAssets, NEW j \in RoscaIds
                 PROVE  paid[a][rosca_account_id(j)] = s.balance[a][rosca_account_id(j)]
      OBVIOUS
    <3> DEFINE bal == s.balance
    <3> HIDE DEF bal
    <3>1. /\ signer \in Holders /\ h \in Holders /\ bal \in Ledger
          /\ CanTransfer(bal, asset, signer, h, m)
          /\ paid = Transfer(bal, asset, signer, h, m)
      BY ZenonT(30), <1>1, <1>8, <2>1 DEF can, paid, bal
    <3>2. \A x \in PaymentAssets, k \in Holders :
            paid[x][k] = IF x # asset THEN bal[x][k]
                         ELSE IF k = signer THEN bal[x][k] - m
                         ELSE IF k = h THEN bal[x][k] + m
                         ELSE bal[x][k]
      BY <1>1, <1>2, <2>3, <3>1, TransferMoves
    <3> QED BY Zenon, <2>1, <3>2 DEF bal
  <2> QED BY <2>2, <2>3
<1>12. /\ q.balance = paid /\ q.circle.security_deposit = d.security_deposit
       /\ q.circle.default_count = d.default_count /\ q.circle.rosca_details = d.rosca_details
       /\ q.circle.active_roscas \in {d.active_roscas, None}
  <2>1. CASE q = p
    BY Zenon, <1>4, <2>1
  <2>2. CASE q = Complete(id, p)
    BY <1>4, <1>10, <2>2, CompleteKeeps
  <2>3. CASE q = [p EXCEPT !.circle = e, !.events = Append(@, NewRoundStarted(id, e))]
    <3>1. q.circle = e /\ q.balance = p.balance
      BY Zenon, <1>10, <2>3 DEF Layer
    <3>2. /\ e.security_deposit = d.security_deposit /\ e.default_count = d.default_count
          /\ e.rosca_details = d.rosca_details /\ e.active_roscas = d.active_roscas
      BY <1>3, <1>4 DEF e, OpenNextRound, Circle
    <3> QED BY Zenon, <1>4, <3>1, <3>2
  <2> QED BY Zenon, <1>8, <2>1, <2>2, <2>3
<1> QED BY Zenon, <1>1, <1>3, <1>11, <1>12 DEF q, c

\* A contribution after k closed rounds.
LEMMA ProgressPays ==
  ASSUME NoDust, NEW id \in RoscaIds, NEW s, NEW left, Opened(id, s, left), NEW r,
         NEW k \in 0..left, Progress(id, s, left, r, k), NEW signer \in Accounts,
         PayContribution(id, r, signer).ok
  PROVE  Worked(id, s, PayContribution(id, r, signer), k)
<1> DEFINE c     == s.circle
           d     == r.circle
           q     == PayContribution(id, r, signer)
           e     == q.circle
           asset == c.active_roscas.payment_asset
<1>1. /\ Layer(r) /\ r.ok /\ Booked(id, asset, s.balance, c, r.balance, d)
      /\ Advanced(c, left, d, k)
  BY DEF Progress
<1>2. left \in Nat /\ asset \in PaymentAssets
  BY ZenonT(30), RunningAsset DEF Opened
<1>3. Running(d, left - k) /\ left - k \in Nat /\ d.active_roscas = c.active_roscas
  BY <1>1, <1>2 DEF Advanced
<1>4. /\ \A a \in PaymentAssets, j \in RoscaIds :
            q.balance[a][rosca_account_id(j)] = r.balance[a][rosca_account_id(j)]
      /\ e.security_deposit = d.security_deposit
      /\ e.default_count = d.default_count
      /\ e.rosca_details = None
      /\ e.active_roscas \in {d.active_roscas, None}
  <2> DEFINE m == left - k
  <2> HIDE DEF m, q
  <2>1. m \in Nat /\ Running(r.circle, m)
    BY <1>3 DEF m
  <2> QED BY Zenon, <1>1, <2>1, ContributionKeeps DEF q
<1> HIDE DEF c, d, q, e, asset
<1>5. asset \in DepositAssets(e)
  <2>1. ~Pending(e)
    BY <1>4 DEF Pending
  <2>2. CASE e.active_roscas = None
    BY Zenon, <1>2, <2>1, <2>2, DepositAssetsAre DEF Active
  <2>3. CASE e.active_roscas # None
    <3>1. Active(e) /\ e.active_roscas = c.active_roscas
      BY Zenon, <1>3, <1>4, <2>3 DEF Active
    <3> QED BY Zenon, <2>1, <3>1, DepositAssetsAre DEF asset
  <2> QED BY Zenon, <2>2, <2>3
<1>6. Deposits(e) = Deposits(d)
  BY <1>4 DEF Deposits
<1>7. Booked(id, asset, s.balance, c, q.balance, e)
  BY Zenon, <1>1, <1>4, <1>6 DEF Booked
<1>8. \A p \in Members(c) :
              LET a == c.active_roscas.contribution_amount
                  m == Cardinality(MissedOf(c, p, k))
              IN  /\ e.security_deposit[p] = DepositAfter(c.security_deposit[p], a, m)
                  /\ e.default_count[p] = CountAfter(c.default_count[p], c.security_deposit[p], a, m)
  BY Zenon, <1>1, <1>4 DEF Advanced
<1> QED BY Zenon, <1>5, <1>7, <1>8 DEF Worked, c, q, e, asset

\* A call that commits such a layer, when the rounds it closed are those that
\* were late.
LEMMA WorkedCall ==
  ASSUME PhaseInv, NEW id \in RoscaIds, NEW left \in Nat, NEW s,
         Opened(id, s, left), s.circle = circle[id], s.balance = balance,
         NEW q, NEW k \in Nat, Worked(id, s, q, k), Commit(id, q),
         LateRounds(circle[id], now) = 0..(k - 1)
  PROVE  BookedCall(id) /\ \A p \in Members(circle[id]) : MissesCharged(id, p)
<1> DEFINE c     == circle[id]
           asset == c.active_roscas.payment_asset
           d     == q.circle
           b     == balance'
<1>1. circle' = [circle EXCEPT ![id] = q.circle] /\ balance' = q.balance
  BY DEF Commit
<1>2. circle'[id] = d /\ \A j \in RoscaIds : j # id => circle'[j] = circle[j]
  BY Zenon, <1>1, WrittenAt
<1>3. asset \in PaymentAssets /\ DepositAssets(c) = {asset}
  BY RunningAsset DEF Opened
<1>4. /\ Booked(id, asset, balance, c, b, d)
      /\ asset \in DepositAssets(d)
      /\ \A p \in Members(c) :
              LET a == c.active_roscas.contribution_amount
                  m == Cardinality(MissedOf(c, p, k))
              IN  /\ d.security_deposit[p] = DepositAfter(c.security_deposit[p], a, m)
                  /\ d.default_count[p] = CountAfter(c.default_count[p], c.security_deposit[p], a, m)
  <2> HIDE DEF c, d
  <2> QED BY Zenon, <1>1 DEF Worked, c, d
<1>5. BookedCall(id)
  <2> HIDE DEF c, d, asset, b
  <2>1. DepositAssets(c) \subseteq {asset}
    BY <1>3
  <2> QED BY Zenon, <1>2, <1>3, <1>4, <2>1 DEF BookedCall, c, b
<1>6. ASSUME NEW p \in Members(c) PROVE MissesCharged(id, p)
  <2>1. MissedRounds(c, p, now) = MissedOf(c, p, k)
    <3> HIDE DEF c
    <3> QED BY DEF MissedRounds, MissedOf, c
  <2> DEFINE a == c.active_roscas.contribution_amount
             m == Cardinality(MissedRounds(c, p, now))
             x == c.security_deposit[p]
             n == c.default_count[p]
  <2>2. /\ circle'[id].security_deposit[p] = DepositAfter(x, a, m)
        /\ circle'[id].default_count[p] = CountAfter(n, x, a, m)
    <3> HIDE DEF c, d
    <3> QED BY Zenon, <1>2, <1>4, <1>6, <2>1
  <2> HIDE DEF a, m, x, n
  <2>3. /\ circle'[id].security_deposit[p] = (IF x > m * a THEN x - m * a ELSE 0)
        /\ LET unpaid == IF m > x \div a THEN m - x \div a ELSE 0
               counts == n + unpaid
           IN  circle'[id].default_count[p] = (IF counts > MaxU32 THEN MaxU32 ELSE counts)
    BY Zenon, <2>2 DEF DepositAfter, CountAfter
  <2> QED BY Zenon, <2>3 DEF MissesCharged, a, m, x, n
<1> QED BY Zenon, <1>5, <1>6

\* manually_end_rosca cannot fail: it closes the rounds that are left and
\* arrives at the cutoff it expects.
LEMMA EndSettles ==
  ASSUME NoDust, PhaseInv, NEW id \in RoscaIds, NEW left \in Nat,
         Opened(id, OpenLayer(circle[id], balance), left),
         OpenLayer(circle[id], balance).circle = circle[id]
  PROVE  Settled(id, OpenLayer(circle[id], balance), left, ManualEnd(id))
<1> DEFINE c == circle[id]
           s == OpenLayer(c, balance)
           r == CloseAllRounds(id, s)
           f == c.active_roscas.contribution_frequency
<1>1. Progress(id, s, left, r, left + 1)
  BY AllRoundsClose
<1>2. Running(c, left)
  BY Zenon DEF Opened
<1>3. c.final_pay_by = c.next_pay_by + left * f /\ c.final_pay_by + f <= MaxMoment
  BY <1>2 DEF Running
<1>4. f \in Nat /\ c.next_pay_by \in Nat
  BY ZenonT(30), <1>2, RunningNumbers
<1>5. ManualEnd(id) = IF r.ok /\ c.final_pay_by + f <= MaxMoment
                         /\ r.circle.next_pay_by = c.final_pay_by + f
                      THEN Complete(id, r) ELSE Failed(r)
  BY ZenonT(30) DEF ManualEnd
<1> HIDE DEF r
<1>6. r.ok /\ r.circle.next_pay_by = c.next_pay_by + (left + 1) * f
  BY ZenonT(30), <1>1 DEF Progress, Advanced
<1> HIDE DEF f, c, s
<1>7. (left + 1) * f = left * f + f /\ left * f \in Int
  <2>1. \A i, g \in Nat : (i + 1) * g = i * g + g /\ i * g \in Int
    OBVIOUS
  <2> QED BY Zenon, <1>4, <2>1
<1>8. r.circle.next_pay_by = c.final_pay_by + f
  <2>1. \A b, g \in Nat, x \in Int : b + (x + g) = (b + x) + g
    OBVIOUS
  <2>2. c.next_pay_by + (left * f + f) = (c.next_pay_by + left * f) + f
    BY Zenon, <1>4, <1>7, <2>1
  <2> QED BY Zenon, <1>3, <1>6, <1>7, <2>2
<1>9. ManualEnd(id) = Complete(id, r)
  BY Zenon, <1>3, <1>5, <1>6, <1>8
<1> QED BY Zenon, <1>1, <1>9 DEF Settled, s, c

\* When the final cutoff has passed, all rounds left are late.
LEMMA AllLate ==
  ASSUME NEW c, NEW left \in Nat, Running(c, left), NEW t \in Nat, t > c.final_pay_by
  PROVE  LateRounds(c, t) = 0..((left + 1) - 1)
<1> DEFINE f == c.active_roscas.contribution_frequency
           y == c.next_pay_by
           k == left + 1
<1>1. f \in Nat \ {0} /\ f \in Nat /\ y \in Nat /\ c.final_pay_by = y + left * f
      /\ c.final_pay_by \in Nat
  BY Zenon, RunningNumbers
<1> HIDE DEF f, y
<1>3. ASSUME NEW j \in 0..(k - 1) PROVE y + j * f <= t
  <2>1. j \in Int /\ left \in Int /\ j <= left
    BY <1>3
  <2>2. j * f <= left * f
    BY <1>1, <2>1, RoundsOrder
  <2>3. j * f \in Int /\ left * f \in Int /\ y + j * f \in Int
    BY <1>1, <2>1
  <2>4. y + j * f <= c.final_pay_by
    BY Zenon, <1>1, <2>2, <2>3, CutoffOrder, NaturalInteger
  <2> QED BY Zenon, <1>1, <2>3, <2>4, OrderTransitive, NaturalInteger
<1>4. k \in 0..(left + 1) /\ ~(k <= left)
  OBVIOUS
<1> HIDE DEF k
<1>5. LateRounds(c, t) = 0..(k - 1)
  BY Zenon, <1>3, <1>4, LateRoundsAre DEF f, y
<1> QED BY <1>5 DEF k

\* manually_end_rosca books and charges.
LEMMA EndBooked ==
  ASSUME NoDust, PhaseInv, FundCoversDeposits, NEW id \in RoscaIds, manually_end_rosca(id)
  PROVE  BookedCall(id) /\ \A p \in Members(circle[id]) : MissesCharged(id, p)
<1> DEFINE c == circle[id]
           s == OpenLayer(c, balance)
<1>1. c.active_roscas # None /\ now > c.final_pay_by /\ Commit(id, ManualEnd(id))
  BY Zenon DEF manually_end_rosca
<1>2. /\ s.circle = circle[id] /\ s.balance = balance
      /\ \E left \in Nat : Opened(id, s, left)
  BY Zenon, <1>1, OpenedCircle
<1>3. PICK left \in Nat : Opened(id, s, left)
  BY Zenon, <1>2
<1>4. Settled(id, s, left, ManualEnd(id))
  BY ZenonT(30), <1>2, <1>3, EndSettles
<1> HIDE DEF s
<1>5. Worked(id, s, ManualEnd(id), left + 1)
  BY Zenon, <1>3, <1>4, SettledWorks
<1>6. Running(c, left) /\ now \in Nat
  BY Zenon, <1>2, <1>3, MomentNatural DEF Opened, PhaseInv
<1>7. LateRounds(c, now) = 0..((left + 1) - 1)
  BY Zenon, <1>1, <1>6, AllLate
<1>8. left + 1 \in Nat
  OBVIOUS
<1> QED BY Zenon, <1>1, <1>2, <1>3, <1>5, <1>7, <1>8, WorkedCall

\* contribute_to_rosca books and charges.
LEMMA ContributeBooked ==
  ASSUME NoDust, PhaseInv, FundCoversDeposits, NEW signer \in Accounts, NEW id \in RoscaIds,
         contribute_to_rosca(signer, id)
  PROVE  BookedCall(id) /\ \A p \in Members(circle[id]) : MissesCharged(id, p)
<1> DEFINE c == circle[id]
           s == OpenLayer(c, balance)
           r == CatchUp(id, s, now)
           q == Contribution(id, signer)
<1>1. c.active_roscas # None /\ Commit(id, q) /\ q.ok
  BY Zenon DEF contribute_to_rosca, Commit
<1>2. /\ s.circle = circle[id] /\ s.balance = balance
      /\ \E left \in Nat : Opened(id, s, left)
  BY Zenon, <1>1, OpenedCircle
<1>3. PICK left \in Nat : Opened(id, s, left)
  BY Zenon, <1>2
<1>4. now \in Nat
  BY Zenon, MomentNatural DEF PhaseInv
<1>5. q = IF r.ok /\ ~r.circle.completed_roscas THEN PayContribution(id, r, signer) ELSE r
  BY Zenon DEF Contribution
<1> HIDE DEF s, q
<1>6. \/ \E k \in 0..left :
            Progress(id, s, left, r, k) /\ LateRounds(s.circle, now) = 0..(k - 1)
      \/ Settled(id, s, left, r) /\ LateRounds(s.circle, now) = 0..left
  BY <1>3, <1>4, CatchUpCloses
<1> HIDE DEF r
<1>7. \E k \in Nat : Worked(id, s, q, k) /\ LateRounds(s.circle, now) = 0..(k - 1)
  <2>1. ASSUME NEW k \in 0..left, Progress(id, s, left, r, k),
               LateRounds(s.circle, now) = 0..(k - 1)
        PROVE  Worked(id, s, q, k)
    <3>1. r.ok /\ Running(r.circle, left - k)
      BY Zenon, <2>1 DEF Progress, Advanced
    <3>2. ~r.circle.completed_roscas
      BY Zenon, <3>1 DEF Running
    <3>3. q = PayContribution(id, r, signer)
      BY Zenon, <1>5, <3>1, <3>2
    <3> QED BY Zenon, <1>1, <1>3, <2>1, <3>3, ProgressPays
  <2>2. ASSUME Settled(id, s, left, r), LateRounds(s.circle, now) = 0..left
        PROVE  Worked(id, s, q, left + 1) /\ LateRounds(s.circle, now) = 0..((left + 1) - 1)
    <3>1. Completed(r.circle) /\ Worked(id, s, r, left + 1)
      BY Zenon, <1>3, <2>2, SettledWorks
    <3>2. q = r
      BY Zenon, <1>5, <3>1 DEF Completed
    <3>3. (left + 1) - 1 = left
      OBVIOUS
    <3> QED BY Zenon, <2>2, <3>1, <3>2, <3>3
  <2>3. left + 1 \in Nat /\ \A k \in 0..left : k \in Nat
    OBVIOUS
  <2> QED BY Zenon, <1>6, <2>1, <2>2, <2>3
<1>8. PICK k \in Nat : Worked(id, s, q, k) /\ LateRounds(s.circle, now) = 0..(k - 1)
  BY Zenon, <1>7
<1> QED BY Zenon, <1>1, <1>2, <1>3, <1>8, WorkedCall

-----------------------------------------------------------------------------
(***************************************************************************)
(* Every step.                                                             *)
(***************************************************************************)

\* A step that writes no circle, and no fund but to add to it in one asset.
FundsGrow ==
    /\ circle' = circle
    /\ \E asset \in PaymentAssets : \A a \in PaymentAssets, j \in RoscaIds :
          IF a = asset THEN balance'[a][rosca_account_id(j)] >= balance[a][rosca_account_id(j)]
          ELSE balance'[a][rosca_account_id(j)] = balance[a][rosca_account_id(j)]

LEMMA RestGrows ==
  ASSUME PhaseInv, circle' = circle, balance' = balance
  PROVE  FundsGrow
<1>1. PICK asset \in PaymentAssets : TRUE
  BY Zenon, AssetsAssumption
<1>2. \A a \in PaymentAssets, j \in RoscaIds : balance[a][rosca_account_id(j)] \in Nat
  BY Zenon, DepositsTyped
<1> QED BY <1>1, <1>2 DEF FundsGrow

LEMMA StepBooked ==
  ASSUME NoDust, PhaseInv, FundCoversDeposits, [Next]_vars
  PROVE  (\E id \in RoscaIds : BookedCall(id)) \/ FundsGrow
<1>1. ASSUME NEW p \in Accounts, NEW a \in Proposals, create_rosca(p, a)
      PROVE  \E id \in RoscaIds : BookedCall(id)
  BY Zenon, <1>1, CreateBooked
<1>2. ASSUME NEW id \in RoscaIds, NEW p \in Accounts, NEW position \in JoinPositions,
             join_rosca(p, id, position)
      PROVE  BookedCall(id)
  BY Zenon, <1>2, JoinBooked
<1>3. ASSUME NEW id \in RoscaIds, NEW p \in Accounts, leave_rosca(p, id) PROVE BookedCall(id)
  BY Zenon, <1>3, LeaveBooked
<1>4. ASSUME NEW id \in RoscaIds, NEW p \in Accounts, start_rosca(p, id) PROVE BookedCall(id)
  BY Zenon, <1>4, StartBooked
<1>5. ASSUME NEW id \in RoscaIds, NEW p \in Accounts, contribute_to_rosca(p, id)
      PROVE  BookedCall(id)
  BY Zenon, <1>5, ContributeBooked
<1>6. ASSUME NEW id \in RoscaIds, NEW p \in Accounts, NEW asset \in PaymentAssets,
             claim_security_deposit(p, id, asset)
      PROVE  BookedCall(id)
  BY Zenon, <1>6, ClaimBooked
<1>7. ASSUME NEW id \in RoscaIds, NEW p \in Accounts, NEW amount \in DepositAmounts,
             add_to_security_deposit(p, id, amount)
      PROVE  BookedCall(id)
  BY Zenon, <1>7, AddBooked
<1>8. ASSUME NEW id \in RoscaIds, manually_end_rosca(id) PROVE BookedCall(id)
  BY Zenon, <1>8, EndBooked
<1>9. ASSUME NEW t \in OutsideTransfers, OutsideTransfer(t) PROVE FundsGrow
  BY Zenon, <1>9, OutsideGrows DEF FundsGrow
<1>10. ASSUME Tick PROVE FundsGrow
  BY Zenon, <1>10, RestGrows DEF Tick
<1>11. ASSUME UNCHANGED vars PROVE FundsGrow
  BY Zenon, <1>11, RestGrows DEF vars
<1> QED BY Zenon, <1>1, <1>2, <1>3, <1>4, <1>5, <1>6, <1>7, <1>8, <1>9, <1>10, <1>11 DEF Next

\* The assets of a circle's deposits are assets.
LEMMA DepositAssetsIn ==
  ASSUME PhaseInv, NEW j \in RoscaIds
  PROVE  DepositAssets(circle[j]) \subseteq PaymentAssets
<1>1. circle[j] \in Circle
  BY DEF PhaseInv
<1>2. (Pending(circle[j]) => circle[j].rosca_details.payment_asset \in PaymentAssets)
      /\ (Active(circle[j]) => circle[j].active_roscas.payment_asset \in PaymentAssets)
  <2> DEFINE c == circle[j]
  <2>1. c.rosca_details \in RoscaDetails \cup {None} /\ c.active_roscas \in RoscaDetails \cup {None}
    BY <1>1 DEF Circle
  <2> HIDE DEF c
  <2>2. \A r \in RoscaDetails : r.payment_asset \in PaymentAssets
    BY DEF RoscaDetails
  <2> QED BY Zenon, <2>1, <2>2 DEF Pending, Active, c
<1>3. CASE circle[j] = NoCircle
  <2>1. ~Pending(circle[j]) /\ ~Active(circle[j])
    BY <1>3 DEF NoCircle, Pending, Active
  <2> QED BY ZenonT(30), <2>1, DepositAssetsAre
<1>4. CASE circle[j] # NoCircle
  <2>1. InPhase(circle[j])
    BY ZenonT(30), <1>4, UsedInPhase
  <2>2. ~(Pending(circle[j]) /\ Active(circle[j]))
    BY Zenon, <2>1 DEF InPhase, Forming, Running, Over, Pending, Active
  <2> QED BY Zenon, <1>2, <2>2, DepositAssetsAre
<1> QED BY Zenon, <1>3, <1>4

LEMMA GrowthKeepsCover ==
  ASSUME PhaseInv, PhaseInv', FundsGrow, FundCoversDeposits
  PROVE  FundCoversDeposits'
<1>1. SUFFICES ASSUME NEW j \in RoscaIds
               PROVE  \E a \in DepositAssets(circle[j]) :
                         balance'[a][rosca_account_id(j)] >= Deposits(circle[j])
  BY DEF FundCoversDeposits, Deposits, FundsGrow
<1>2. PICK a \in DepositAssets(circle[j]) :
         balance[a][rosca_account_id(j)] >= Deposits(circle[j])
  BY DEF FundCoversDeposits, Deposits
<1>3. a \in PaymentAssets
  BY Zenon, <1>2, DepositAssetsIn
<1>4. Deposits(circle[j]) \in Nat /\ balance[a][rosca_account_id(j)] \in Nat
  BY Zenon, <1>3, DepositsTyped
<1>5. balance'[a][rosca_account_id(j)] \in Nat
  <2>1. balance' \in Ledger /\ rosca_account_id(j) \in Holders
    BY Zenon, FundsApart DEF PhaseInv
  <2> QED BY Zenon, <1>3, <2>1 DEF Ledger
<1>6. balance'[a][rosca_account_id(j)] >= balance[a][rosca_account_id(j)]
  <2>1. \A u, v \in Nat : u = v => u >= v
    OBVIOUS
  <2> QED BY Zenon, <1>3, <1>4, <1>5, <2>1 DEF FundsGrow
<1> QED BY Zenon, <1>2, <1>4, <1>5, <1>6, OrderTransitive, NaturalInteger

LEMMA GrowthPays ==
  ASSUME PhaseInv, PhaseInv', FundsGrow, NEW j \in RoscaIds
  PROVE  PaysDeposits(j)
<1> DEFINE F == rosca_account_id(j)
           f == [a \in PaymentAssets |-> balance[a][F]]
           g == [a \in PaymentAssets |-> balance'[a][F]]
<1>1. PICK asset \in PaymentAssets : \A a \in PaymentAssets :
          IF a = asset THEN balance'[a][F] >= balance[a][F] ELSE balance'[a][F] = balance[a][F]
  BY DEF FundsGrow
<1>2. \A x \in PaymentAssets : balance[x][F] \in Nat
  BY Zenon, DepositsTyped
<1>3. \A x \in PaymentAssets : balance'[x][F] \in Nat
  <2>1. balance' \in Ledger /\ rosca_account_id(j) \in Holders
    BY Zenon, FundsApart DEF PhaseInv
  <2> QED BY Zenon, <2>1 DEF Ledger
<1> HIDE DEF F
<1>4. f \in [PaymentAssets -> Nat] /\ g \in [PaymentAssets -> Nat]
  BY Zenon, <1>2, <1>3
<1>5. \A a \in PaymentAssets : f[a] = balance[a][F] /\ g[a] = balance'[a][F]
  OBVIOUS
<1> HIDE DEF f, g
<1>6. \A a \in PaymentAssets : a # asset => g[a] = f[a]
  BY Zenon, <1>1, <1>5
<1>7. SumFunction(f) \in Int /\ SumFunction(g) = (SumFunction(f) - f[asset]) + g[asset]
  BY Zenon, <1>4, <1>6, AssetSum
<1>8. f[asset] \in Nat /\ g[asset] \in Nat /\ g[asset] >= f[asset]
  BY Zenon, <1>1, <1>4, <1>5
<1>9. ~(SumFunction(g) < SumFunction(f))
  BY <1>7, <1>8
<1> QED BY Zenon, <1>9 DEF PaysDeposits, f, g, F

\* Every step keeps the funds above the deposits.
LEMMA StepKeepsCover ==
  ASSUME NoDust, PhaseInv, PhaseInv', FundCoversDeposits, [Next]_vars
  PROVE  FundCoversDeposits'
<1>1. ASSUME NEW id \in RoscaIds, BookedCall(id) PROVE FundCoversDeposits'
  BY Zenon, <1>1, CallKeepsCover
<1>2. ASSUME FundsGrow PROVE FundCoversDeposits'
  BY Zenon, <1>2, GrowthKeepsCover
<1> QED BY Zenon, <1>1, <1>2, StepBooked

LEMMA StepPays ==
  ASSUME NoDust, PhaseInv, PhaseInv', FundCoversDeposits, [Next]_vars, NEW j \in RoscaIds
  PROVE  PaysDeposits(j)
<1>1. ASSUME NEW id \in RoscaIds, BookedCall(id) PROVE PaysDeposits(j)
  BY Zenon, <1>1, CallPaysDeposits
<1>2. ASSUME FundsGrow PROVE PaysDeposits(j)
  BY Zenon, <1>2, GrowthPays
<1> QED BY Zenon, <1>1, <1>2, StepBooked

\* At the beginning there is nothing to cover.
LEMMA InitCovers ==
  ASSUME Init, PhaseInv
  PROVE  FundCoversDeposits
<1>1. SUFFICES ASSUME NEW j \in RoscaIds
               PROVE  \E a \in DepositAssets(circle[j]) :
                         balance[a][rosca_account_id(j)] >= Deposits(circle[j])
  BY DEF FundCoversDeposits, Deposits
<1> DEFINE c == circle[j]
<1>2. c = NoCircle
  BY Zenon DEF Init
<1>3. ~Pending(c) /\ ~Active(c)
  BY <1>2 DEF NoCircle, Pending, Active
<1>4. c.security_deposit \in [Accounts -> Nat] /\ \A p \in Accounts : c.security_deposit[p] = 0
  <2>1. \A p \in Accounts : NoCircle.security_deposit[p] = 0
    BY DEF NoCircle
  <2>2. c \in Circle
    BY Zenon DEF PhaseInv
  <2> HIDE DEF c
  <2> QED BY <1>2, <2>1, <2>2, LimitsAssumption DEF Circle
<1> HIDE DEF c
<1>5. Deposits(c) = 0
  BY Zenon, <1>4, SumBounds, AccountsAssumption DEF Deposits
<1>6. PICK a \in PaymentAssets : TRUE
  BY Zenon, AssetsAssumption
<1>7. a \in DepositAssets(c) /\ balance[a][rosca_account_id(j)] \in Nat
  BY Zenon, <1>3, <1>6, DepositAssetsAre, DepositsTyped
<1>8. \A x \in Nat : x >= 0
  OBVIOUS
<1> QED BY Zenon, <1>5, <1>7, <1>8 DEF c

\* The inductive invariant of the funds.
FundInv == PhaseInv /\ FundCoversDeposits

\* Every call keeps it, when the ledger never reaps a balance.
THEOREM FundInvariant ==
  ASSUME NoDust
  PROVE  Spec => []FundInv
<1>1. Init => FundInv
  BY Zenon, InitInv, InitCovers DEF FundInv
<1>2. FundInv /\ [Next]_vars => FundInv'
  <2> SUFFICES ASSUME PhaseInv, FundCoversDeposits, [Next]_vars
               PROVE  PhaseInv' /\ FundCoversDeposits'
    BY DEF FundInv
  <2>1. PhaseInv'
    BY PhaseStep
  <2> QED BY Zenon, <2>1, StepKeepsCover
<1> QED BY <1>1, <1>2, PTL DEF Spec

\* The circle's account always holds at least the deposits recorded for it, in
\* the asset they were made in (in some asset, once the record of a completed
\* circle is gone).
THEOREM FundsCoverDeposits ==
  ASSUME NoDust
  PROVE  Spec => []FundCoversDeposits
<1>1. Spec => []FundInv
  BY FundInvariant
<1>2. FundInv => FundCoversDeposits
  BY DEF FundInv
<1> QED BY <1>1, <1>2, PTL

\* What leaves a circle's account in any step is what leaves the deposits
\* recorded for that circle.
THEOREM FundPaysOut ==
  ASSUME NoDust
  PROVE  Spec => FundPaysOnlyDeposits
<1>1. Spec => []FundInv
  BY FundInvariant
<1>2. FundInv /\ FundInv' /\ [Next]_vars => [\A id \in RoscaIds : PaysDeposits(id)]_vars
  BY StepPays DEF FundInv
<1> QED BY <1>1, <1>2, PTL DEF Spec, FundPaysOnlyDeposits

\* The loop of contribute_to_rosca, in any state of the invariant.
LEMMA CatchUpArrives ==
  ASSUME NoDust, FundInv
  PROVE  CatchUpReachesPresent
<1> SUFFICES ASSUME NEW id \in RoscaIds, Active(circle[id])
             PROVE  LET c    == circle[id]
                        over == Cardinality(LateRounds(c, now))
                        s    == CatchUp(id, OpenLayer(c, balance), now)
                    IN  /\ s.ok
                        /\ Active(s.circle) <=> now < s.circle.final_pay_by
                        /\ Active(s.circle) =>
                              /\ now < s.circle.next_pay_by
                              /\ s.circle.eligible_claimant = RecipientIn(c, over)
                              /\ s.circle.current_contributors =
                                    (IF over = 0 THEN c.current_contributors ELSE {})
  BY ZenonT(30) DEF CatchUpReachesPresent
<1> DEFINE c    == circle[id]
           s    == OpenLayer(c, balance)
           q    == CatchUp(id, s, now)
           d    == q.circle
           over == Cardinality(LateRounds(c, now))
<1>1. s.circle = c /\ \E left \in Nat : Opened(id, s, left)
  BY Zenon, OpenedCircle DEF FundInv, Active
<1>2. PICK left \in Nat : Opened(id, s, left)
  BY Zenon, <1>1
<1>3. now \in Nat /\ Running(c, left)
  <2>1. now \in Moment /\ Running(c, left)
    BY Zenon, <1>1, <1>2 DEF FundInv, PhaseInv, Opened
  <2> QED BY Zenon, <2>1, MomentNatural
<1> HIDE DEF s
<1>4. \/ \E k \in 0..left :
            Progress(id, s, left, q, k) /\ now < d.next_pay_by
            /\ Cardinality(LateRounds(s.circle, now)) = k
      \/ Settled(id, s, left, q) /\ now >= s.circle.final_pay_by
  BY <1>2, <1>3, CatchUpCloses
<1> HIDE DEF q, d
<1>5. ASSUME NEW k \in 0..left, Progress(id, s, left, q, k), now < d.next_pay_by, over = k
      PROVE  /\ q.ok /\ Active(d) /\ now < d.final_pay_by /\ now < d.next_pay_by
             /\ d.eligible_claimant = RecipientIn(c, over)
             /\ d.current_contributors = (IF over = 0 THEN c.current_contributors ELSE {})
  <2>1. q.ok /\ Advanced(c, left, d, k)
    BY Zenon, <1>1, <1>5 DEF Progress, d
  <2>2. k \in Nat /\ k <= left
    OBVIOUS
  <2>3. d.next_pay_by <= d.final_pay_by
    BY Zenon, <2>1, <2>2, RoundsRemain
  <2>4. d.next_pay_by \in Nat /\ d.final_pay_by \in Nat
    <3>1. Running(d, left - k)
      BY <2>1 DEF Advanced
    <3> QED BY Zenon, <3>1, RunningNumbers
  <2>5. now < d.final_pay_by
    BY Zenon, <1>3, <1>5, <2>3, <2>4, OrderTransitive, NaturalInteger
  <2>6. Active(d) /\ d.current_contributors = IF k = 0 THEN c.current_contributors ELSE {}
    BY Zenon, <2>1 DEF Advanced, Running, Active
  <2>7. d.eligible_claimant = RecipientIn(c, k)
    BY ZenonT(30), <1>3, <2>1, AdvancedClaimant
  <2> HIDE DEF c, over
  <2> QED BY ZenonT(30), <1>5, <2>1, <2>5, <2>6, <2>7
<1>6. ASSUME Settled(id, s, left, q), now >= c.final_pay_by
      PROVE  q.ok /\ ~Active(d) /\ ~(now < d.final_pay_by)
  <2>1. q.ok /\ ~Active(d) /\ d.final_pay_by = c.final_pay_by
    BY ZenonT(30), <1>1, <1>2, <1>6, SettledWorks DEF d
  <2>2. c.final_pay_by \in Nat
    BY Zenon, <1>3, RunningNumbers
  <2> QED BY Zenon, <1>3, <1>6, <2>1, <2>2, OrderTotal, NaturalInteger
<1>7. \/ /\ q.ok /\ Active(d) /\ now < d.final_pay_by /\ now < d.next_pay_by
         /\ d.eligible_claimant = RecipientIn(c, over)
         /\ d.current_contributors = (IF over = 0 THEN c.current_contributors ELSE {})
      \/ q.ok /\ ~Active(d) /\ ~(now < d.final_pay_by)
  <2> HIDE DEF c
  <2> QED BY Zenon, <1>1, <1>4, <1>5, <1>6
<1> HIDE DEF c, over
<1> QED BY Zenon, <1>7 DEF c, over, q, d, s

\* manually_end_rosca, in any state of the invariant.
LEMMA EndSucceeds ==
  ASSUME NoDust, FundInv
  PROVE  CanAlwaysEnd
<1> SUFFICES ASSUME NEW id \in RoscaIds, Active(circle[id]) PROVE ManualEnd(id).ok
  BY DEF CanAlwaysEnd
<1> DEFINE s == OpenLayer(circle[id], balance)
<1>1. s.circle = circle[id] /\ \E left \in Nat : Opened(id, s, left)
  BY Zenon, OpenedCircle DEF FundInv, Active
<1>2. PICK left \in Nat : Opened(id, s, left)
  BY <1>1
<1>3. Settled(id, s, left, ManualEnd(id))
  BY ZenonT(30), <1>1, <1>2, EndSettles DEF FundInv
<1> HIDE DEF s
<1> QED BY Zenon, <1>2, <1>3, SettledWorks

\* A step that leaves the rounds of a circle alone.
LEMMA RoundsRest ==
  ASSUME PhaseInv, NEW j \in RoscaIds,
         circle'[j].next_pay_by = circle[j].next_pay_by,
         circle'[j].current_contributors = circle[j].current_contributors,
         circle'[j].completed_roscas = circle[j].completed_roscas
  PROVE  ~RoundsMove(j)
<1>1. SUFFICES ASSUME Active(circle[j]) PROVE ~Completed(circle[j])
  BY Zenon DEF RoundsMove, Completed
<1>2. circle[j] # NoCircle
  BY <1>1 DEF Active, NoCircle
<1>3. InPhase(circle[j])
  BY Zenon, <1>2, UsedInPhase
<1> QED BY Zenon, <1>1, <1>3 DEF InPhase, Forming, Running, Over, Active, Completed

\* A call on a circle that is not running moves no rounds.
LEMMA NotActiveRests ==
  ASSUME PhaseInv, NEW id \in RoscaIds, circle[id].active_roscas = None, BookedCall(id),
         NEW j \in RoscaIds
  PROVE  ~RoundsMove(j)
<1>1. CASE j = id
  BY <1>1 DEF RoundsMove, Active
<1>2. CASE j # id
  <2>1. circle'[j] = circle[j]
    BY <1>2 DEF BookedCall
  <2> QED BY ZenonT(30), <2>1, RoundsRest
<1> QED BY Zenon, <1>1, <1>2

\* Paying in a deposit moves no rounds.
LEMMA AddRests ==
  ASSUME PhaseInv, NEW signer \in Accounts, NEW id \in RoscaIds, NEW amount \in DepositAmounts,
         add_to_security_deposit(signer, id, amount), NEW j \in RoscaIds
  PROVE  ~RoundsMove(j)
<1> DEFINE c == circle[id]
           d == [c EXCEPT !.security_deposit[signer] = c.security_deposit[signer] + amount]
<1>1. c \in Circle /\ circle' = [circle EXCEPT ![id] = d]
  BY DEF add_to_security_deposit, PhaseInv
<1>2. /\ d.next_pay_by = c.next_pay_by /\ d.current_contributors = c.current_contributors
      /\ d.completed_roscas = c.completed_roscas
  <2> HIDE DEF c
  <2> QED BY <1>1 DEF Circle
<1> HIDE DEF d
<1>3. circle'[id] = d /\ \A i \in RoscaIds : i # id => circle'[i] = circle[i]
  BY Zenon, <1>1, WrittenAt
<1>4. CASE j = id
  BY ZenonT(30), <1>2, <1>3, <1>4, RoundsRest
<1>5. CASE j # id
  BY Zenon, <1>3, <1>5, RoundsRest
<1> QED BY Zenon, <1>4, <1>5

\* A call that works on the rounds of its circle charges its members, and no
\* other circle's rounds move.
LEMMA CallCharges ==
  ASSUME PhaseInv, NEW id \in RoscaIds, BookedCall(id),
         \A p \in Members(circle[id]) : MissesCharged(id, p),
         NEW j \in RoscaIds, RoundsMove(j), NEW p \in Members(circle[j])
  PROVE  MissesCharged(j, p)
<1>1. CASE j = id
  BY <1>1
<1>2. CASE j # id
  <2>1. circle'[j] = circle[j]
    BY <1>2 DEF BookedCall
  <2> QED BY ZenonT(30), <2>1, RoundsRest
<1> QED BY Zenon, <1>1, <1>2

LEMMA StepCharges ==
  ASSUME NoDust, FundInv, [Next]_vars, NEW j \in RoscaIds, RoundsMove(j),
         NEW q \in Members(circle[j])
  PROVE  MissesCharged(j, q)
<1>0. PhaseInv /\ FundCoversDeposits
  BY DEF FundInv
<1>1. ASSUME NEW p \in Accounts, NEW a \in Proposals, create_rosca(p, a) PROVE FALSE
  <2>1. next_rosca_id \in RoscaIds /\ BookedCall(next_rosca_id)
    BY ZenonT(30), <1>0, <1>1, CreateBooked
  <2>2. circle[next_rosca_id] = NoCircle
    <3>1. IF next_rosca_id < next_rosca_id THEN InPhase(circle[next_rosca_id])
          ELSE circle[next_rosca_id] = NoCircle
      BY Zenon, <1>0, <2>1 DEF PhaseInv
    <3>2. ~(next_rosca_id < next_rosca_id)
      <4>1. \A i \in RoscaIds : ~(i < i)
        BY DEF RoscaIds
      <4> QED BY Zenon, <2>1, <4>1
    <3> QED BY Zenon, <3>1, <3>2
  <2>3. circle[next_rosca_id].active_roscas = None
    BY <2>2 DEF NoCircle
  <2> QED BY Zenon, <1>0, <2>1, <2>3, NotActiveRests
<1>2. ASSUME NEW id \in RoscaIds, NEW p \in Accounts, NEW position \in JoinPositions,
             join_rosca(p, id, position)
      PROVE  FALSE
  <2>1. circle[id].active_roscas = None
    BY Zenon, <1>2 DEF join_rosca
  <2>2. BookedCall(id)
    BY Zenon, <1>0, <1>2, JoinBooked
  <2> QED BY Zenon, <1>0, <2>1, <2>2, NotActiveRests
<1>3. ASSUME NEW id \in RoscaIds, NEW p \in Accounts, leave_rosca(p, id) PROVE FALSE
  <2>1. circle[id].active_roscas = None
    BY Zenon, <1>3 DEF leave_rosca
  <2>2. BookedCall(id)
    BY Zenon, <1>0, <1>3, LeaveBooked
  <2> QED BY Zenon, <1>0, <2>1, <2>2, NotActiveRests
<1>4. ASSUME NEW id \in RoscaIds, NEW p \in Accounts, start_rosca(p, id) PROVE FALSE
  <2>1. circle[id].active_roscas = None
    BY ZenonT(30), <1>4 DEF start_rosca
  <2>2. BookedCall(id)
    BY Zenon, <1>0, <1>4, StartBooked
  <2> QED BY Zenon, <1>0, <2>1, <2>2, NotActiveRests
<1>5. ASSUME NEW id \in RoscaIds, NEW p \in Accounts, contribute_to_rosca(p, id)
      PROVE  MissesCharged(j, q)
  <2>1. BookedCall(id) /\ \A m \in Members(circle[id]) : MissesCharged(id, m)
    BY Zenon, <1>0, <1>5, ContributeBooked
  <2> QED BY Zenon, <1>0, <2>1, CallCharges
<1>6. ASSUME NEW id \in RoscaIds, NEW p \in Accounts, NEW asset \in PaymentAssets,
             claim_security_deposit(p, id, asset)
      PROVE  FALSE
  <2>1. BookedCall(id) /\ circle[id].active_roscas = None
    BY Zenon, <1>0, <1>6, ClaimBooked DEF Over
  <2> QED BY Zenon, <1>0, <2>1, NotActiveRests
<1>7. ASSUME NEW id \in RoscaIds, NEW p \in Accounts, NEW amount \in DepositAmounts,
             add_to_security_deposit(p, id, amount)
      PROVE  FALSE
  BY Zenon, <1>0, <1>7, AddRests
<1>8. ASSUME NEW id \in RoscaIds, manually_end_rosca(id) PROVE MissesCharged(j, q)
  <2>1. BookedCall(id) /\ \A m \in Members(circle[id]) : MissesCharged(id, m)
    BY Zenon, <1>0, <1>8, EndBooked
  <2> QED BY Zenon, <1>0, <2>1, CallCharges
<1>9. ASSUME NEW t \in OutsideTransfers, OutsideTransfer(t) PROVE FALSE
  BY Zenon, <1>0, <1>9, RoundsRest DEF OutsideTransfer
<1>10. ASSUME Tick PROVE FALSE
  BY Zenon, <1>0, <1>10, RoundsRest DEF Tick
<1>11. ASSUME UNCHANGED vars PROVE FALSE
  BY ZenonT(30), <1>0, <1>11, RoundsRest DEF vars
<1> QED BY ZenonT(30), <1>1, <1>2, <1>3, <1>4, <1>5, <1>6, <1>7, <1>8, <1>9, <1>10, <1>11 DEF Next

\* However many rounds are over, the loop of contribute_to_rosca closes them
\* without an error and stops in the round of the present, with the recipient
\* announced for it.
THEOREM CatchUpIsTotal ==
  ASSUME NoDust
  PROVE  Spec => []CatchUpReachesPresent
<1>1. Spec => []FundInv
  BY FundInvariant
<1>2. FundInv => CatchUpReachesPresent
  BY Zenon, CatchUpArrives
<1> QED BY <1>1, <1>2, PTL

\* manually_end_rosca succeeds on every circle whose final cutoff has passed:
\* no transfer it makes can fail and the schedule ends where it expects.
THEOREM EndIsTotal ==
  ASSUME NoDust
  PROVE  Spec => []CanAlwaysEnd
<1>1. Spec => []FundInv
  BY FundInvariant
<1>2. FundInv => CanAlwaysEnd
  BY EndSucceeds
<1> QED BY <1>1, <1>2, PTL

\* contribute_to_rosca and manually_end_rosca charge each member for exactly
\* the late rounds the member missed, however many one call closes.
THEOREM MissesAreCharged ==
  ASSUME NoDust
  PROVE  Spec => MissedRoundsCharged
<1>1. Spec => []FundInv
  BY FundInvariant
<1>2. FundInv /\ [Next]_vars =>
        [\A id \in RoscaIds :
           RoundsMove(id) => \A p \in Members(circle[id]) : MissesCharged(id, p)]_vars
  BY StepCharges
<1> QED BY <1>1, <1>2, PTL DEF Spec, MissedRoundsCharged

=============================================================================
