-------------------------- MODULE RoscaChargeProofs --------------------------
(***************************************************************************)
(* The money a circle's rounds move, and the two loops over its rounds:    *)
(* what a charge takes from a deposit it pays to the recipient and books,  *)
(* closing a round cannot fail while the fund covers the deposits, and the *)
(* loops close exactly the rounds that are late, or left.                  *)
(*                                                                         *)
(* All of it is for assets whose minimum balance is one unit.  With a      *)
(* larger one an Expendable transfer that leaves less than the minimum in  *)
(* the fund reaps it, and the rest of the deposits with it; the run "dust" *)
(* shows that step.                                                        *)
(***************************************************************************)
EXTENDS RoscaProofs

\* The obligations are large; each prover call may take a minute.
USE SMTT(60)

NoDust == MinBalance = 1

\* All the deposits recorded for a circle.
Deposits(c) == SumFunction(c.security_deposit)

-----------------------------------------------------------------------------
(***************************************************************************)
(* One transfer, one charge.                                               *)
(***************************************************************************)

\* No two circles share an account, and no account that signs is a fund.
LEMMA FundsApart ==
  ASSUME NEW id \in RoscaIds
  PROVE  /\ rosca_account_id(id) \in Holders
         /\ \A p \in Accounts : p # rosca_account_id(id) /\ p \in Holders
         /\ \A j \in RoscaIds : rosca_account_id(j) = rosca_account_id(id) => j = id
<1>1. rosca_account_id(id) \in RoscaFunds
  BY DEF RoscaFunds
<1>2. \A p \in Accounts : p # rosca_account_id(id) /\ p \in Holders
  BY Zenon, <1>1, RoscaFundsAssumption DEF Holders
<1>3. \A j \in RoscaIds : rosca_account_id(j) = rosca_account_id(id) => j = id
  BY DEF rosca_account_id
<1> QED BY Zenon, <1>1, <1>2, <1>3 DEF Holders

\* Without dust a transfer moves its amount and touches nothing else.
LEMMA TransferMoves ==
  ASSUME NoDust, NEW bal \in Ledger, NEW asset \in PaymentAssets,
         NEW source \in Holders, NEW dest \in Holders, source # dest, NEW amount \in Nat,
         CanTransfer(bal, asset, source, dest, amount)
  PROVE  \A a \in PaymentAssets, h \in Holders :
            Transfer(bal, asset, source, dest, amount)[a][h] =
                IF a # asset THEN bal[a][h]
                ELSE IF h = source THEN bal[a][h] - amount
                ELSE IF h = dest THEN bal[a][h] + amount
                ELSE bal[a][h]
<1> DEFINE new == Transfer(bal, asset, source, dest, amount)
           kept == AfterDebit(bal[asset][source], amount)
<1>1. bal[asset][source] \in Nat /\ bal[asset][dest] \in Nat
  BY DEF Ledger
<1>2. kept = bal[asset][source] - amount
  BY <1>1 DEF CanTransfer, AfterDebit, NoDust
<1> HIDE DEF kept
<1>3. /\ \A a \in PaymentAssets : a # asset => new[a] = bal[a]
      /\ new[asset] = [bal[asset] EXCEPT ![source] = kept, ![dest] = bal[asset][dest] + amount]
  BY DEF Transfer, Ledger, kept
<1> HIDE DEF new
<1>4. \A h \in Holders : new[asset][h] =
           IF h = dest THEN bal[asset][dest] + amount
           ELSE IF h = source THEN kept ELSE bal[asset][h]
  BY <1>3 DEF Ledger
<1>5. ASSUME NEW a \in PaymentAssets, NEW h \in Holders
      PROVE  new[a][h] = IF a # asset THEN bal[a][h]
                         ELSE IF h = source THEN bal[a][h] - amount
                         ELSE IF h = dest THEN bal[a][h] + amount
                         ELSE bal[a][h]
  <2>1. CASE a # asset
    BY <1>3, <2>1
  <2>2. CASE a = asset
    BY <1>2, <1>4, <2>2
  <2> QED BY <2>1, <2>2
<1> QED BY Zenon, <1>5 DEF new

\* The deposits of a well-typed circle add up to a natural number that is at
\* least each of them, and changing one changes the sum by as much.
LEMMA DepositsSum ==
  ASSUME NEW c \in Circle
  PROVE  /\ Deposits(c) \in Nat
         /\ \A p \in Accounts : c.security_deposit[p] \in 0..MaxU32
         /\ \A p \in Accounts : c.security_deposit[p] <= Deposits(c)
<1>1. c.security_deposit \in [Accounts -> 0..MaxU32]
  BY DEF Circle
<1>2. c.security_deposit \in [Accounts -> Nat]
  BY <1>1, LimitsAssumption
<1> QED BY <1>1, <1>2, SumBounds, AccountsAssumption DEF Deposits

LEMMA DepositChanged ==
  ASSUME NEW c \in Circle, NEW p \in Accounts, NEW v \in Nat, NEW d,
         d.security_deposit = [c.security_deposit EXCEPT ![p] = v]
  PROVE  Deposits(d) = (Deposits(c) - c.security_deposit[p]) + v
<1>1. c.security_deposit \in [Accounts -> 0..MaxU32]
  BY DEF Circle
<1>2. c.security_deposit \in [Accounts -> Int] /\ v \in Int
  BY <1>1, LimitsAssumption
<1> DEFINE f == c.security_deposit
<1>3. SumFunction([f EXCEPT ![p] = v]) = (SumFunction(f) - f[p]) + v
  <2> HIDE DEF f
  <2> QED BY <1>2, SumExcept, AccountsAssumption DEF f
<1> QED BY Zenon, <1>3 DEF Deposits

\* Between ledger bal with circle c under id, and ledger new with d, the fund
\* of id has changed in asset by what the deposits have changed, and no other
\* fund and no other asset of a fund has changed.
Booked(id, asset, bal, c, new, d) ==
    \A a \in PaymentAssets, j \in RoscaIds :
        new[a][rosca_account_id(j)] =
            IF a = asset /\ j = id
            THEN bal[a][rosca_account_id(j)] + (Deposits(d) - Deposits(c))
            ELSE bal[a][rosca_account_id(j)]

\* A transfer between a fund and an account, booked as one deposit.
LEMMA FundPays ==
  ASSUME NoDust, NEW bal \in Ledger, NEW asset \in PaymentAssets, NEW id \in RoscaIds,
         NEW p \in Accounts, NEW amount \in Nat, NEW c, NEW d,
         Deposits(c) \in Nat, Deposits(d) = Deposits(c) - amount,
         CanTransfer(bal, asset, rosca_account_id(id), p, amount)
  PROVE  Booked(id, asset, bal, c,
                Transfer(bal, asset, rosca_account_id(id), p, amount), d)
<1> DEFINE fund == rosca_account_id(id)
           new  == Transfer(bal, asset, fund, p, amount)
<1>1. /\ fund \in Holders /\ p \in Holders /\ p # fund
      /\ \A j \in RoscaIds : /\ rosca_account_id(j) \in Holders
                             /\ p # rosca_account_id(j)
                             /\ rosca_account_id(j) = fund => j = id
  BY Zenon, FundsApart
<1> HIDE DEF fund
<1>2. \A a \in PaymentAssets, h \in Holders :
           new[a][h] = IF a # asset THEN bal[a][h]
                       ELSE IF h = fund THEN bal[a][h] - amount
                       ELSE IF h = p THEN bal[a][h] + amount
                       ELSE bal[a][h]
  BY <1>1, TransferMoves DEF fund
<1> HIDE DEF new
<1>3. \A a \in PaymentAssets, h \in Holders : bal[a][h] \in Nat
  BY DEF Ledger
<1>4. ASSUME NEW a \in PaymentAssets, NEW j \in RoscaIds
      PROVE  new[a][rosca_account_id(j)] =
                IF a = asset /\ j = id
                THEN bal[a][rosca_account_id(j)] + (Deposits(d) - Deposits(c))
                ELSE bal[a][rosca_account_id(j)]
  <2>1. CASE j = id
    <3>1. new[a][fund] = IF a # asset THEN bal[a][fund] ELSE bal[a][fund] - amount
      BY <1>1, <1>2
    <3> QED BY <1>1, <1>3, <2>1, <3>1 DEF fund
  <2>2. CASE j # id
    BY <1>1, <1>2, <2>2
  <2> QED BY <2>1, <2>2
<1> QED BY <1>4 DEF Booked, new, fund

\* Booked steps add up.
LEMMA BookedTransitive ==
  ASSUME NEW id \in RoscaIds, NEW asset \in PaymentAssets,
         NEW bal \in Ledger, NEW c, NEW mid \in Ledger, NEW d, NEW new \in Ledger, NEW e,
         Deposits(c) \in Nat, Deposits(d) \in Nat, Deposits(e) \in Nat,
         Booked(id, asset, bal, c, mid, d), Booked(id, asset, mid, d, new, e)
  PROVE  Booked(id, asset, bal, c, new, e)
<1>1. \A j \in RoscaIds : rosca_account_id(j) \in Holders
  BY FundsApart
<1>2. \A a \in PaymentAssets, j \in RoscaIds : bal[a][rosca_account_id(j)] \in Nat
  BY <1>1 DEF Ledger
<1> QED BY <1>2 DEF Booked

\* A booked step keeps the deposits covered.
LEMMA BookedCovers ==
  ASSUME NEW id \in RoscaIds, NEW asset \in PaymentAssets,
         NEW bal \in Ledger, NEW c, NEW new, NEW d,
         Deposits(c) \in Nat, Deposits(d) \in Nat,
         Booked(id, asset, bal, c, new, d),
         bal[asset][rosca_account_id(id)] >= Deposits(c)
  PROVE  new[asset][rosca_account_id(id)] >= Deposits(d)
<1>1. bal[asset][rosca_account_id(id)] \in Nat
  BY FundsApart DEF Ledger
<1>2. new[asset][rosca_account_id(id)]
         = bal[asset][rosca_account_id(id)] + (Deposits(d) - Deposits(c))
  BY DEF Booked
<1> QED BY <1>1, <1>2

\* A step that moves no fund and no deposit is booked.
LEMMA NothingBooked ==
  ASSUME NEW id, NEW asset, NEW bal \in Ledger, NEW c, NEW new, NEW d,
         Deposits(c) \in Nat, Deposits(d) = Deposits(c),
         \A a \in PaymentAssets, j \in RoscaIds :
            new[a][rosca_account_id(j)] = bal[a][rosca_account_id(j)]
  PROVE  Booked(id, asset, bal, c, new, d)
<1>1. \A j \in RoscaIds : rosca_account_id(j) \in Holders
  BY FundsApart
<1>2. \A a \in PaymentAssets, j \in RoscaIds : bal[a][rosca_account_id(j)] \in Nat
  BY <1>1 DEF Ledger
<1> QED BY <1>2 DEF Booked

\* The fund of an active circle holds its deposits.
Covered(id, s) ==
    s.balance[s.circle.active_roscas.payment_asset][rosca_account_id(id)] >= Deposits(s.circle)

\* What is left of p's deposit and p's default count, in circle c, after a
\* round that p missed.
DepositAfterMiss(c, p) ==
    RemainingDeposit(c.security_deposit[p], c.active_roscas.contribution_amount)
CountAfterMiss(c, p) ==
    IF c.security_deposit[p] < c.active_roscas.contribution_amount /\ c.default_count[p] < MaxU32
    THEN c.default_count[p] + 1 ELSE c.default_count[p]

\* One iteration of process_defaulters cannot fail on a covered circle, and
\* it books what it charges.
LEMMA ChargeBooks ==
  ASSUME NoDust, NEW id \in RoscaIds, NEW s, Layer(s), s.ok, NEW p \in Accounts,
         s.circle.active_roscas # None, s.circle.eligible_claimant # None, Covered(id, s)
  PROVE  LET q == ChargeParticipant(id, s, p)
             c == s.circle
         IN  /\ q.ok
             /\ Booked(id, c.active_roscas.payment_asset, s.balance, c, q.balance, q.circle)
             /\ q.circle.security_deposit =
                   IF Exempt(c, p) THEN c.security_deposit
                   ELSE [c.security_deposit EXCEPT ![p] = DepositAfterMiss(c, p)]
             /\ q.circle.default_count =
                   IF Exempt(c, p) THEN c.default_count
                   ELSE [c.default_count EXCEPT ![p] = CountAfterMiss(c, p)]
<1> DEFINE c      == s.circle
           rosca  == c.active_roscas
           asset  == rosca.payment_asset
           amount == rosca.contribution_amount
           held   == c.security_deposit[p]
           charge == DepositCharge(held, amount)
           left   == RemainingDeposit(held, amount)
           fund   == rosca_account_id(id)
           paid   == IF charge > 0 THEN Transfer(s.balance, asset, fund,
                                                 c.eligible_claimant, charge)
                     ELSE s.balance
           enough == held >= amount
           count  == IF ~enough /\ c.default_count[p] < MaxU32
                     THEN c.default_count[p] + 1 ELSE c.default_count[p]
           after  == [c EXCEPT !.security_deposit[p] = left, !.default_count[p] = count]
           q      == ChargeParticipant(id, s, p)
<1>1. /\ c \in Circle /\ s.balance \in Ledger
      /\ rosca \in RoscaDetails /\ c.eligible_claimant \in Accounts
      /\ Deposits(c) \in Nat /\ held \in 0..MaxU32 /\ held <= Deposits(c)
  <2>1. c \in Circle /\ s.balance \in Ledger
    BY DEF Layer
  <2> HIDE DEF c
  <2>2. rosca \in RoscaDetails /\ c.eligible_claimant \in Accounts
    BY <2>1 DEF Circle, c
  <2> QED BY <2>1, <2>2, DepositsSum
<1>2. amount \in 1..MaxU32 /\ asset \in PaymentAssets
  BY <1>1 DEF RoscaDetails
<1>3. charge \in Nat /\ left \in Nat /\ held = left + charge /\ charge <= held /\ held \in Nat
  BY <1>1, <1>2, LimitsAssumption DEF DepositCharge, RemainingDeposit
<1>4. CASE Exempt(c, p)
  <2>1. q = s
    BY Zenon, <1>4 DEF ChargeParticipant
  <2>2. Booked(id, asset, s.balance, c, q.balance, q.circle)
    <3> HIDE DEF asset, q
    <3> QED BY <1>1, <2>1, NothingBooked
  <2> QED BY Zenon, <1>4, <2>1, <2>2
<1>5. CASE ~Exempt(c, p)
  <2>1. charge > 0 => CanTransfer(s.balance, asset, fund, c.eligible_claimant, charge)
    <3>1. fund \in Holders /\ c.eligible_claimant \in Holders
      BY Zenon, <1>1, FundsApart
    <3>2. s.balance[asset][fund] \in Nat /\ s.balance[asset][c.eligible_claimant] \in Nat
      <4> HIDE DEF fund, asset
      <4> QED BY <1>1, <1>2, <3>1 DEF Ledger
    <3>3. s.balance[asset][fund] >= Deposits(c)
      BY Zenon DEF Covered
    <3> HIDE DEF charge, held, asset, fund
    <3> QED BY <1>1, <1>3, <3>2, <3>3 DEF CanTransfer, NoDust
  <2>2. q.ok = TRUE /\ q.balance = paid /\ q.circle = after
    BY Zenon, <1>5, <2>1 DEF ChargeParticipant
  <2>3. /\ after.security_deposit = [c.security_deposit EXCEPT ![p] = left]
        /\ after.default_count = [c.default_count EXCEPT ![p] = count]
    <3> HIDE DEF left, count
    <3> QED BY Zenon, <1>1 DEF Circle
  <2> HIDE DEF after, q
  <2>4. Deposits(after) = (Deposits(c) - held) + left
    <3> HIDE DEF left
    <3> QED BY <1>1, <1>3, <2>3, DepositChanged
  <2>5. Deposits(after) = Deposits(c) - charge
    <3> HIDE DEF charge, left, held
    <3> QED BY <1>1, <1>3, <2>4
  <2>6. Booked(id, asset, s.balance, c, q.balance, q.circle)
    <3>1. CASE charge > 0
      <4>1. paid = Transfer(s.balance, asset, fund, c.eligible_claimant, charge)
        BY <3>1
      <4> HIDE DEF charge, asset, c, paid
      <4> QED BY Zenon, <1>1, <1>2, <1>3, <2>1, <2>2, <2>5, <3>1, <4>1, FundPays
    <3>2. CASE ~(charge > 0)
      <4>1. Deposits(after) = Deposits(c) /\ q.balance = s.balance
        <5>1. paid = s.balance
          BY <3>2
        <5>2. charge = 0
          <6> HIDE DEF charge
          <6> QED BY <1>3, <3>2
        <5> HIDE DEF charge, paid
        <5> QED BY <1>1, <2>2, <2>5, <5>1, <5>2
      <4> HIDE DEF asset, c
      <4> QED BY Zenon, <1>1, <2>2, <4>1, NothingBooked
    <3> QED BY <3>1, <3>2
  <2>7. left = DepositAfterMiss(c, p)
    BY DEF DepositAfterMiss
  <2>8. count = CountAfterMiss(c, p)
    <3>1. enough <=> ~(held < amount)
      BY <1>2, <1>3
    <3> HIDE DEF enough
    <3> QED BY Zenon, <3>1 DEF CountAfterMiss
  <2> HIDE DEF left, count
  <2> QED BY Zenon, <1>5, <2>2, <2>3, <2>6, <2>7, <2>8 DEF q
<1> QED BY Zenon, <1>4, <1>5

\* Circle d is circle c after the members in S have been charged for a round,
\* as far as they missed it.
Charged(c, S, d) ==
    \A p \in Accounts :
        /\ d.security_deposit[p] = IF p \in S /\ ~Exempt(c, p) THEN DepositAfterMiss(c, p)
                                   ELSE c.security_deposit[p]
        /\ d.default_count[p] = IF p \in S /\ ~Exempt(c, p) THEN CountAfterMiss(c, p)
                                ELSE c.default_count[p]

\* One more member is charged.
LEMMA OneMoreCharged ==
  ASSUME NEW c, NEW d \in Circle, NEW e, NEW S, NEW p \in Accounts, p \notin S,
         SameRound(c, d), Charged(c, S, d),
         e.security_deposit = (IF Exempt(d, p) THEN d.security_deposit
                               ELSE [d.security_deposit EXCEPT ![p] = DepositAfterMiss(d, p)]),
         e.default_count = (IF Exempt(d, p) THEN d.default_count
                            ELSE [d.default_count EXCEPT ![p] = CountAfterMiss(d, p)])
  PROVE  Charged(c, S \cup {p}, e)
<1>1. DOMAIN d.security_deposit = Accounts /\ DOMAIN d.default_count = Accounts
  BY DEF Circle
<1>2. \A x \in Accounts : Exempt(d, x) <=> Exempt(c, x)
  BY Zenon DEF SameRound, Exempt
<1>3. d.security_deposit[p] = c.security_deposit[p] /\ d.default_count[p] = c.default_count[p]
  BY DEF Charged
<1>4. DepositAfterMiss(d, p) = DepositAfterMiss(c, p) /\ CountAfterMiss(d, p) = CountAfterMiss(c, p)
  BY Zenon, <1>3 DEF SameRound, DepositAfterMiss, CountAfterMiss
<1>5. ASSUME NEW x \in Accounts
      PROVE  /\ e.security_deposit[x] = IF x \in S \cup {p} /\ ~Exempt(c, x)
                                        THEN DepositAfterMiss(c, x) ELSE c.security_deposit[x]
             /\ e.default_count[x] = IF x \in S \cup {p} /\ ~Exempt(c, x)
                                     THEN CountAfterMiss(c, x) ELSE c.default_count[x]
  <2>1. /\ d.security_deposit[x] = IF x \in S /\ ~Exempt(c, x) THEN DepositAfterMiss(c, x)
                                   ELSE c.security_deposit[x]
        /\ d.default_count[x] = IF x \in S /\ ~Exempt(c, x) THEN CountAfterMiss(c, x)
                                ELSE c.default_count[x]
    BY Zenon DEF Charged
  <2>2. CASE x = p
    BY <1>1, <1>2, <1>3, <1>4, <2>2
  <2>3. CASE x # p
    <3>1. e.security_deposit[x] = d.security_deposit[x] /\ e.default_count[x] = d.default_count[x]
      BY <1>1, <2>3
    <3> QED BY Zenon, <2>1, <2>3, <3>1
  <2> QED BY <2>2, <2>3
<1> QED BY Zenon, <1>5 DEF Charged

\* process_defaulters cannot fail on a covered circle; it books what it
\* charges, and it charges each member once.
LEMMA DefaultersBook ==
  ASSUME NoDust, NEW id \in RoscaIds, NEW s, Layer(s), s.ok,
         s.circle.active_roscas # None, s.circle.eligible_claimant # None, Covered(id, s),
         Lists(s.circle.active_order, Members(s.circle))
  PROVE  LET q == process_defaulters(id, s)
             c == s.circle
         IN  /\ q.ok
             /\ Booked(id, c.active_roscas.payment_asset, s.balance, c, q.balance, q.circle)
             /\ Charged(c, Members(c), q.circle)
<1> DEFINE c     == s.circle
           order == c.active_order
           asset == c.active_roscas.payment_asset
           n     == Len(order)
           upto(i) == {order[j] : j \in 1..i}
<1>0. order \in Seq(Accounts) /\ c \in Circle /\ s.balance \in Ledger /\ asset \in PaymentAssets
  BY Zenon DEF Layer, Circle, RoscaDetails
<1>01. Deposits(c) \in Nat
  <2> HIDE DEF c
  <2> QED BY <1>0, DepositsSum
<1> HIDE DEF order
<1>1. n \in Nat /\ \A i \in 1..n : order[i] \in Accounts
  BY <1>0
<1>11. /\ \A i, j \in 1..n : order[i] = order[j] => i = j
       /\ upto(n) = Members(c)
  BY DEF Lists, order
<1>2. PICK g : /\ process_defaulters(id, s) = g[n]
               /\ g[0] = s
               /\ \A i \in 1..n : g[i] = ChargeParticipant(id, g[i-1], order[i])
  <2>1. Len(s.circle.active_order) \in Nat
    BY <1>1 DEF order
  <2>2. PICK g : DefaultersRun(g, id, s)
    BY <2>1, DefaultersLoop
  <2>3. /\ process_defaulters(id, s) = g[n]
        /\ g[0] = s
        /\ \A i \in 1..n : g[i] = ChargeParticipant(id, g[i-1], order[i])
    BY Zenon, <2>2 DEF DefaultersRun, order
  <2> QED BY <2>3
<1> HIDE DEF n
<1> DEFINE P(i) == /\ Layer(g[i]) /\ g[i].ok
                   /\ SameRound(c, g[i].circle)
                   /\ Booked(id, asset, s.balance, c, g[i].balance, g[i].circle)
                   /\ Charged(c, upto(i), g[i].circle)
           S    == {i \in Nat : i <= n => P(i)}
<1>3. P(0)
  <2>1. Booked(id, asset, s.balance, c, s.balance, c)
    <3> HIDE DEF c, asset
    <3> QED BY Zenon, <1>0, <1>01, NothingBooked
  <2>2. upto(0) = {}
    OBVIOUS
  <2>3. Charged(c, upto(0), c)
    BY Zenon, <2>2 DEF Charged
  <2> QED BY Zenon, <1>2, <2>1, <2>3 DEF SameRound
<1>4. ASSUME NEW i \in Nat, i + 1 <= n, P(i) PROVE P(i + 1)
  <2> DEFINE x == g[i]
             y == g[i + 1]
             p == order[i + 1]
  <2>1. Layer(x) /\ x.ok /\ SameRound(c, x.circle) /\ Charged(c, upto(i), x.circle)
    BY <1>4
  <2>2. i + 1 \in 1..n /\ (i + 1) - 1 = i
    BY <1>1, <1>4
  <2>3. y = ChargeParticipant(id, x, p) /\ p \in Accounts
    BY Zenon, <1>1, <1>2, <2>2
  <2>4. x.circle.active_roscas # None /\ x.circle.eligible_claimant # None
    BY <2>1 DEF SameRound
  <2>5. x.circle \in Circle /\ x.balance \in Ledger /\ Deposits(x.circle) \in Nat
    <3>1. x.circle \in Circle /\ x.balance \in Ledger
      BY <2>1 DEF Layer
    <3> HIDE DEF x
    <3> QED BY Zenon, <3>1, DepositsSum
  <2>6. Booked(id, asset, s.balance, c, x.balance, x.circle)
    BY Zenon, <1>4
  <2>7. x.circle.active_roscas = c.active_roscas
    BY <2>1 DEF SameRound
  <2>8. Covered(id, x)
    <3>1. s.balance[asset][rosca_account_id(id)] >= Deposits(c)
      BY Zenon DEF Covered
    <3>2. x.balance[asset][rosca_account_id(id)] >= Deposits(x.circle)
      <4> HIDE DEF x, c, asset
      <4> QED BY Zenon, <1>0, <1>01, <2>5, <2>6, <3>1, BookedCovers
    <3> QED BY Zenon, <2>7, <3>2 DEF Covered
  <2> HIDE DEF x, y, p
  <2>9. /\ Layer(y) /\ SameRound(x.circle, y.circle)
    BY Zenon, <2>1, <2>3, <2>4, ChargeTyped
  <2>10. /\ y.ok
         /\ Booked(id, asset, x.balance, x.circle, y.balance, y.circle)
         /\ y.circle.security_deposit =
                   IF Exempt(x.circle, p) THEN x.circle.security_deposit
                   ELSE [x.circle.security_deposit EXCEPT ![p] = DepositAfterMiss(x.circle, p)]
         /\ y.circle.default_count =
                   IF Exempt(x.circle, p) THEN x.circle.default_count
                   ELSE [x.circle.default_count EXCEPT ![p] = CountAfterMiss(x.circle, p)]
    BY ZenonT(60), <2>1, <2>3, <2>4, <2>7, <2>8, ChargeBooks
  <2>11. y.circle \in Circle /\ y.balance \in Ledger /\ Deposits(y.circle) \in Nat
    <3>1. y.circle \in Circle /\ y.balance \in Ledger
      BY <2>9 DEF Layer
    <3> QED BY <3>1, DepositsSum
  <2>12. Booked(id, asset, s.balance, c, y.balance, y.circle)
    <3> HIDE DEF c, asset
    <3> QED BY <1>0, <1>01, <2>5, <2>6, <2>10, <2>11, BookedTransitive
  <2>13. SameRound(c, y.circle)
    BY Zenon, <2>1, <2>9, SameRoundTransitive
  <2>14. p \notin upto(i) /\ upto(i + 1) = upto(i) \cup {p}
    BY <1>1, <1>11, <2>2 DEF p
  <2>15. Charged(c, upto(i + 1), y.circle)
    <3> DEFINE T == upto(i)
    <3>1. Charged(c, T, x.circle) /\ p \notin T /\ upto(i + 1) = T \cup {p}
      BY <2>1, <2>14
    <3> HIDE DEF T, upto, c
    <3>2. Charged(c, T \cup {p}, y.circle)
      BY ZenonT(60), <2>1, <2>3, <2>5, <2>10, <3>1, OneMoreCharged
    <3> QED BY Zenon, <3>1, <3>2
  <2> QED BY Zenon, <2>9, <2>10, <2>12, <2>13, <2>15 DEF y
<1>5. n \in S
  <2> HIDE DEF P
  <2>1. 0 \in S
    BY <1>3
  <2>2. \A i \in Nat : i \in S => i + 1 \in S
    BY <1>1, <1>4
  <2> HIDE DEF S
  <2> QED BY Zenon, <1>1, <2>1, <2>2, NatSetInduction
<1>6. P(n)
  <2> HIDE DEF P
  <2> QED BY <1>1, <1>5
<1>7. /\ g[n].ok
      /\ Booked(id, asset, s.balance, c, g[n].balance, g[n].circle)
      /\ Charged(c, Members(c), g[n].circle)
  BY Zenon, <1>6, <1>11
<1> QED BY Zenon, <1>2, <1>7

-----------------------------------------------------------------------------
(***************************************************************************)
(* Rounds closed in a row.                                                 *)
(***************************************************************************)

\* Closing a round of a covered circle cannot fail: it charges who missed it
\* and opens the next one.
LEMMA CloseRoundBooks ==
  ASSUME NoDust, NEW id \in RoscaIds, NEW s, Layer(s), s.ok,
         NEW left, Running(s.circle, left), left >= 0, Covered(id, s)
  PROVE  LET q == CloseRound(id, s)
             c == s.circle
         IN  /\ Layer(q) /\ q.ok
             /\ Running(q.circle, left - 1)
             /\ Booked(id, c.active_roscas.payment_asset, s.balance, c, q.balance, q.circle)
             /\ Charged(c, Members(c), q.circle)
             /\ q.circle.next_pay_by = c.next_pay_by + c.active_roscas.contribution_frequency
             /\ q.circle.final_pay_by = c.final_pay_by
             /\ q.circle.active_roscas = c.active_roscas
             /\ q.circle.active_order = RotateRight(c.active_order)
             /\ q.circle.participants = c.participants
             /\ q.circle.current_contributors = {}
<1> DEFINE c      == s.circle
           f      == c.active_roscas.contribution_frequency
           asset  == c.active_roscas.payment_asset
           r      == process_defaulters(id, s)
           d      == r.circle
           cutoff == d.next_pay_by + d.active_roscas.contribution_frequency
           e      == OpenNextRound(d, cutoff)
           q      == CloseRound(id, s)
<1>1. c.active_roscas # None /\ c.eligible_claimant # None
  <2>1. c.eligible_claimant \in Accounts
    BY RunningTyped
  <2> QED BY <2>1, AccountsAssumption DEF Running
<1>2. Layer(r) /\ SameRound(c, d)
  BY <1>1, DefaultersTyped
<1>3. /\ r.ok
      /\ Booked(id, asset, s.balance, c, r.balance, d)
      /\ Charged(c, Members(c), d)
  <2>1. Lists(c.active_order, Members(c))
    BY DEF Running
  <2> QED BY Zenon, <1>1, <2>1, DefaultersBook
<1>4. cutoff = c.next_pay_by + f
  BY Zenon, <1>2 DEF SameRound
<1>5. cutoff <= MaxMoment
  <2>1. /\ f \in Moment \ {0} /\ c.next_pay_by \in Moment /\ c.final_pay_by \in Moment
        /\ left \in Int
    BY RunningTyped
  <2>2. f \in Nat /\ f > 0 /\ c.next_pay_by \in Nat /\ c.final_pay_by \in Nat /\ MaxMoment \in Nat
    BY <2>1, LimitsAssumption DEF Moment
  <2>3. c.final_pay_by = c.next_pay_by + left * f /\ c.final_pay_by + f <= MaxMoment
    BY DEF Running
  <2> HIDE DEF f, c, cutoff
  <2>4. left * f >= 0 /\ left * f \in Int
    BY <2>1, <2>2, RoundsSign
  <2> DEFINE k == left * f
  <2>5. k \in Int /\ k >= 0 /\ c.final_pay_by = c.next_pay_by + k
    BY <2>3, <2>4
  <2> HIDE DEF k
  <2> QED BY <1>4, <2>2, <2>3, <2>5
<1>6. cutoff \in Int /\ MaxMoment \in Int
  <2>1. f \in Moment \ {0} /\ c.next_pay_by \in Moment
    BY RunningTyped
  <2> HIDE DEF f, c, cutoff
  <2> QED BY <1>4, <2>1, LimitsAssumption DEF Moment
<1>7. q = [r EXCEPT !.circle = e, !.events = Append(@, NewRoundStarted(id, e))]
  <2> HIDE DEF r
  <2>1. ~(~r.ok \/ cutoff > MaxMoment)
    <3> HIDE DEF cutoff
    <3> QED BY <1>3, <1>5, <1>6
  <2> QED BY Zenon, <2>1 DEF CloseRound, advance_rosca_round, r
<1>8. d \in Circle
  BY <1>2 DEF Layer
<1>9. /\ e.next_pay_by = cutoff /\ e.final_pay_by = d.final_pay_by
      /\ e.active_roscas = d.active_roscas
      /\ e.active_order = RotateRight(d.active_order)
      /\ e.participants = d.participants
      /\ e.security_deposit = d.security_deposit
      /\ e.default_count = d.default_count
  <2> HIDE DEF d, cutoff
  <2> QED BY ZenonT(60), <1>8 DEF OpenNextRound, Circle
<1> HIDE DEF e, d, r, cutoff
<1>10. q.ok = r.ok /\ q.circle = e /\ q.balance = r.balance
  BY Zenon, <1>2, <1>7 DEF Layer
<1>11. /\ Layer(q) /\ Running(q.circle, left - 1) /\ q.circle.current_contributors = {}
  <2>1. q.ok
    BY <1>3, <1>10
  <2> QED BY Zenon, <2>1, CloseRoundRuns
<1>12. Booked(id, asset, s.balance, c, q.balance, q.circle)
  <2>1. Deposits(e) = Deposits(d)
    BY Zenon, <1>9 DEF Deposits
  <2> HIDE DEF q, c, asset
  <2>2. Booked(id, asset, s.balance, c, r.balance, e)
    BY <1>3, <2>1 DEF Booked
  <2> QED BY Zenon, <1>10, <2>2
<1>13. Charged(c, Members(c), q.circle)
  BY Zenon, <1>3, <1>9, <1>10 DEF Charged
<1>14. /\ q.circle.next_pay_by = c.next_pay_by + f
       /\ q.circle.final_pay_by = c.final_pay_by
       /\ q.circle.active_roscas = c.active_roscas
       /\ q.circle.active_order = RotateRight(c.active_order)
       /\ q.circle.participants = c.participants
  BY Zenon, <1>2, <1>4, <1>9, <1>10 DEF SameRound
<1> HIDE DEF q
<1> QED BY Zenon, <1>3, <1>10, <1>11, <1>12, <1>13, <1>14 DEF q

\* Division with its remainder left out.
LEMMA DivBounds ==
  ASSUME NEW d \in Nat, NEW a \in Nat \ {0}
  PROVE  d \div a \in Nat /\ (d \div a) * a <= d /\ d < (d \div a) * a + a
<1> DEFINE q == d \div a
           r == d % a
<1>1. q \in Nat
  OBVIOUS
<1>2. r \in 0..(a - 1)
  OBVIOUS
<1>3. d = a * q + r
  OBVIOUS
<1> HIDE DEF q, r
<1>4. q * a = a * q
  BY <1>1
<1> QED BY <1>1, <1>2, <1>3, <1>4 DEF q

\* A deposit d after m missed rounds that cost a each, and the count of
\* defaults, which saturates.
DepositAfter(d, a, m) == IF d > m * a THEN d - m * a ELSE 0
CountAfter(count, d, a, m) ==
    LET unpaid == IF m > d \div a THEN m - d \div a ELSE 0
        counts == count + unpaid
    IN  IF counts > MaxU32 THEN MaxU32 ELSE counts

\* One more missed round.
LEMMA OneMoreMiss ==
  ASSUME NEW d \in Nat, NEW a \in Nat \ {0}, NEW m \in Nat, NEW count \in 0..MaxU32
  PROVE  LET left == DepositAfter(d, a, m)
             seen == CountAfter(count, d, a, m)
         IN  /\ RemainingDeposit(left, a) = DepositAfter(d, a, m + 1)
             /\ (IF left < a /\ seen < MaxU32 THEN seen + 1 ELSE seen)
                    = CountAfter(count, d, a, m + 1)
<1> DEFINE x == m * a
           q == d \div a
           y == q * a
           z == (m + 1) * a
<1>1. x \in Nat /\ z = x + a /\ z \in Nat
  OBVIOUS
<1>2. q \in Nat /\ y <= d /\ d < y + a /\ y \in Nat
  BY DivBounds
<1>3. RemainingDeposit(DepositAfter(d, a, m), a) = DepositAfter(d, a, m + 1)
  <2>1. DepositAfter(d, a, m) = IF d > x THEN d - x ELSE 0
    BY DEF DepositAfter
  <2>2. DepositAfter(d, a, m + 1) = IF d > z THEN d - z ELSE 0
    BY DEF DepositAfter
  <2> HIDE DEF x, z
  <2> QED BY <1>1, <2>1, <2>2 DEF RemainingDeposit
<1>4. DepositAfter(d, a, m) < a <=> d < z
  <2>1. DepositAfter(d, a, m) = IF d > x THEN d - x ELSE 0
    BY DEF DepositAfter
  <2> HIDE DEF x, z
  <2> QED BY <1>1, <2>1
<1>5. d < z <=> q <= m
  <2>1. q * a <= m * a <=> q <= m
    <3> HIDE DEF q
    <3> QED BY <1>2, RoundsOrder
  <2>2. (m + 1) * a <= q * a <=> m + 1 <= q
    <3> HIDE DEF q
    <3> QED BY <1>2, RoundsOrder
  <2>3. (y <= x <=> q <= m) /\ (z <= y <=> m + 1 <= q)
    BY <2>1, <2>2
  <2> HIDE DEF x, y, z, q
  <2> QED BY <1>1, <1>2, <2>3
<1>6. \A k \in Nat : CountAfter(count, d, a, k) =
          LET counts == count + (IF k > q THEN k - q ELSE 0)
          IN  IF counts > MaxU32 THEN MaxU32 ELSE counts
  BY Zenon DEF CountAfter
<1> HIDE DEF x, y, z, q
<1>7. LET seen == CountAfter(count, d, a, m)
      IN  (IF q <= m /\ seen < MaxU32 THEN seen + 1 ELSE seen) = CountAfter(count, d, a, m + 1)
  <2>1. m + 1 \in Nat
    OBVIOUS
  <2> QED BY <1>2, <1>6, <2>1, LimitsAssumption
<1> QED BY <1>3, <1>4, <1>5, <1>7

\* The first k rounds from now that p misses when nobody contributes any more.
MissedOf(c, p, k) ==
    {j \in 0..(k - 1) : RecipientIn(c, j) # p /\ ~(j = 0 /\ p \in c.current_contributors)}

\* Circle d is circle c, which had left rounds to come after the open one,
\* when k rounds have been closed.
Advanced(c, left, d, k) ==
    /\ Running(d, left - k)
    /\ d.active_roscas = c.active_roscas
    /\ d.participants = c.participants
    /\ d.final_pay_by = c.final_pay_by
    /\ d.next_pay_by = c.next_pay_by + k * c.active_roscas.contribution_frequency
    /\ Len(d.active_order) = Len(c.active_order)
    /\ \A i \in 1..Len(c.active_order) :
          d.active_order[i] = c.active_order[IF i > k THEN i - k
                                             ELSE (i - k) + Len(c.active_order)]
    /\ d.current_contributors = IF k = 0 THEN c.current_contributors ELSE {}
    /\ \A p \in Members(c) :
          LET a == c.active_roscas.contribution_amount
              m == Cardinality(MissedOf(c, p, k))
          IN  /\ d.security_deposit[p] = DepositAfter(c.security_deposit[p], a, m)
              /\ d.default_count[p] = CountAfter(c.default_count[p], c.security_deposit[p], a, m)

\* The layer q of a call that opened layer s and has closed k rounds since.
Progress(id, s, left, q, k) ==
    /\ Layer(q) /\ q.ok
    /\ Booked(id, s.circle.active_roscas.payment_asset, s.balance, s.circle,
              q.balance, q.circle)
    /\ Advanced(s.circle, left, q.circle, k)

\* Counting missed rounds, one round at a time.
LEMMA MissedCount ==
  ASSUME NEW c, NEW p, NEW k \in Nat
  PROVE  /\ Cardinality(MissedOf(c, p, 0)) = 0
         /\ Cardinality(MissedOf(c, p, k)) \in Nat
         /\ Cardinality(MissedOf(c, p, k + 1)) =
               IF RecipientIn(c, k) # p /\ ~(k = 0 /\ p \in c.current_contributors)
               THEN Cardinality(MissedOf(c, p, k)) + 1 ELSE Cardinality(MissedOf(c, p, k))
<1> DEFINE Miss(j) == RecipientIn(c, j) # p /\ ~(j = 0 /\ p \in c.current_contributors)
<1> HIDE DEF Miss
<1>1. \A m : MissedOf(c, p, m) = {j \in 0..(m - 1) : Miss(j)}
  BY DEF MissedOf, Miss
<1>2. MissedOf(c, p, 0) = {}
  BY <1>1
<1>3. MissedOf(c, p, k) \subseteq 0..(k - 1)
  BY <1>1
<1>4. IsFiniteSet(MissedOf(c, p, k)) /\ Cardinality(MissedOf(c, p, k)) \in Nat
  <2>1. IsFiniteSet(0..(k - 1))
    BY FS_Interval
  <2> QED BY <1>3, <2>1, FS_Subset, FS_CardinalityType
<1>5. k \notin MissedOf(c, p, k)
  BY <1>3
<1>6. MissedOf(c, p, k + 1) = IF Miss(k) THEN MissedOf(c, p, k) \cup {k} ELSE MissedOf(c, p, k)
  <2>1. \A j : j \in 0..((k + 1) - 1) <=> j \in 0..(k - 1) \/ j = k
    OBVIOUS
  <2>2. MissedOf(c, p, k + 1) = {j \in 0..((k + 1) - 1) : Miss(j)}
    BY Zenon, <1>1
  <2>3. MissedOf(c, p, k) = {j \in 0..(k - 1) : Miss(j)}
    BY Zenon, <1>1
  <2> QED BY Zenon, <2>1, <2>2, <2>3
<1>7. Cardinality(MissedOf(c, p, k) \cup {k}) = Cardinality(MissedOf(c, p, k)) + 1
  BY Zenon, <1>4, <1>5, FS_AddElement
<1> QED BY Zenon, <1>2, <1>4, <1>6, <1>7, FS_EmptySet DEF Miss

\* Nothing has been closed yet.
LEMMA AdvancedStart ==
  ASSUME NEW c, NEW left \in Nat, Running(c, left)
  PROVE  Advanced(c, left, c, 0)
<1> DEFINE a == c.active_roscas.contribution_amount
           f == c.active_roscas.contribution_frequency
<1>1. /\ c \in Circle /\ c.active_roscas \in RoscaDetails
      /\ c.next_pay_by \in Nat /\ f \in Nat /\ Len(c.active_order) \in Nat
  <2>1. /\ c.active_roscas \in RoscaDetails /\ c.next_pay_by \in Moment
        /\ f \in Moment \ {0} /\ Len(c.active_order) \in Nat \ {0}
    BY RunningTyped
  <2>2. c \in Circle
    BY DEF Running
  <2> QED BY <2>1, <2>2, LimitsAssumption DEF Moment
<1>2. a \in Nat \ {0}
  BY <1>1, LimitsAssumption DEF RoscaDetails
<1>3. /\ c.security_deposit \in [Accounts -> 0..MaxU32]
      /\ c.default_count \in [Accounts -> 0..MaxU32]
  BY <1>1 DEF Circle
<1>4. Running(c, left - 0)
  OBVIOUS
<1> HIDE DEF a, f
<1>5. c.next_pay_by = c.next_pay_by + 0 * f
  BY <1>1
<1>6. ASSUME NEW p \in Members(c)
      PROVE  LET m == Cardinality(MissedOf(c, p, 0))
             IN  /\ c.security_deposit[p] = DepositAfter(c.security_deposit[p], a, m)
                 /\ c.default_count[p] = CountAfter(c.default_count[p], c.security_deposit[p], a, m)
  <2>1. Cardinality(MissedOf(c, p, 0)) = 0
    BY MissedCount
  <2>2. c.security_deposit[p] \in Nat /\ c.default_count[p] \in 0..MaxU32
    BY <1>3, LimitsAssumption DEF Members
  <2> DEFINE d == c.security_deposit[p]
             n == c.default_count[p]
  <2> HIDE DEF d, n
  <2>3. d \in Nat /\ n \in 0..MaxU32
    BY <2>2 DEF d, n
  <2>4. d \div a \in Nat /\ 0 * a = 0
    BY <1>2, <2>3, DivBounds
  <2>5. d = DepositAfter(d, a, 0)
    BY <2>3, <2>4 DEF DepositAfter
  <2>6. n = CountAfter(n, d, a, 0)
    <3> DEFINE q == d \div a
    <3>1. CountAfter(n, d, a, 0) = LET counts == n + (IF 0 > q THEN 0 - q ELSE 0)
                                   IN  IF counts > MaxU32 THEN MaxU32 ELSE counts
      BY Zenon DEF CountAfter
    <3>2. q \in Nat
      BY <2>4
    <3> HIDE DEF q
    <3> QED BY <2>3, <3>1, <3>2, LimitsAssumption
  <2> QED BY <2>1, <2>5, <2>6 DEF d, n
<1>7. \A i \in 1..Len(c.active_order) :
         c.active_order[i] = c.active_order[IF i > 0 THEN i - 0 ELSE (i - 0) + Len(c.active_order)]
  BY <1>1
<1> QED BY Zenon, <1>4, <1>5, <1>6, <1>7 DEF Advanced, a, f

\* The claimant after k closed rounds is the recipient k rounds from now.
LEMMA AdvancedClaimant ==
  ASSUME NEW c, NEW left \in Nat, Running(c, left), NEW d, NEW k \in 0..left,
         Advanced(c, left, d, k)
  PROVE  d.eligible_claimant = RecipientIn(c, k)
<1>1. Len(c.active_order) \in Nat \ {0} /\ left <= Len(c.active_order) - 1
  BY RunningTyped DEF Running
<1>2. 1 \in 1..Len(c.active_order) /\ k <= Len(c.active_order) - 1
  BY <1>1
<1>3. d.active_order[1] = c.active_order[IF 1 > k THEN 1 - k ELSE (1 - k) + Len(c.active_order)]
  BY Zenon, <1>2 DEF Advanced
<1>4. d.eligible_claimant = d.active_order[1]
  BY DEF Advanced, Running
<1>5. CASE k = 0
  BY <1>3, <1>4, <1>5 DEF RecipientIn
<1>6. CASE k # 0
  <2>1. (1 - k) + Len(c.active_order) = (Len(c.active_order) + 1) - k /\ ~(1 > k)
    BY <1>1, <1>6
  <2> QED BY <1>3, <1>4, <1>6, <2>1 DEF RecipientIn
<1> QED BY Zenon, <1>5, <1>6

\* One more round is closed.
LEMMA AdvancedNext ==
  ASSUME NEW c, NEW left \in Nat, Running(c, left), NEW d, NEW k \in 0..left,
         Advanced(c, left, d, k), NEW e,
         Running(e, (left - k) - 1), Charged(d, Members(d), e),
         e.next_pay_by = d.next_pay_by + d.active_roscas.contribution_frequency,
         e.final_pay_by = d.final_pay_by, e.active_roscas = d.active_roscas,
         e.active_order = RotateRight(d.active_order), e.participants = d.participants,
         e.current_contributors = {}
  PROVE  Advanced(c, left, e, k + 1)
<1> DEFINE a == c.active_roscas.contribution_amount
           f == c.active_roscas.contribution_frequency
           n == Len(c.active_order)
           v == c.active_order
           w == d.active_order
<1>1. /\ c \in Circle /\ c.active_roscas \in RoscaDetails
      /\ c.next_pay_by \in Nat /\ f \in Nat /\ n \in Nat \ {0} /\ left <= n - 1
      /\ v \in Seq(Accounts)
  BY Zenon, RunningTyped, RunningNumbers DEF Running
<1>2. a \in Nat \ {0}
  BY <1>1, LimitsAssumption DEF RoscaDetails
<1>3. /\ Running(d, left - k) /\ d.active_roscas = c.active_roscas
      /\ d.participants = c.participants /\ d.final_pay_by = c.final_pay_by
      /\ d.next_pay_by = c.next_pay_by + k * f /\ Len(w) = n
      /\ \A i \in 1..n : w[i] = v[IF i > k THEN i - k ELSE (i - k) + n]
      /\ d.current_contributors = IF k = 0 THEN c.current_contributors ELSE {}
  BY Zenon DEF Advanced
<1>4. Running(e, left - (k + 1))
  <2>1. (left - k) - 1 = left - (k + 1)
    OBVIOUS
  <2> QED BY Zenon, <2>1
<1>5. e.next_pay_by = c.next_pay_by + (k + 1) * f
  <2>1. (k + 1) * f = k * f + f /\ k * f \in Nat
    <3> HIDE DEF f
    <3>1. k \in Nat
      OBVIOUS
    <3> QED BY Zenon, <1>1, <3>1, NextMultiple
  <2> DEFINE x == k * f
  <2>2. e.next_pay_by = (c.next_pay_by + x) + f /\ x \in Nat
    BY <1>3, <2>1
  <2>3. (k + 1) * f = x + f
    BY <2>1
  <2>4. \A b, u, g \in Nat : (b + u) + g = b + (u + g)
    OBVIOUS
  <2> HIDE DEF f, x
  <2>5. (c.next_pay_by + x) + f = c.next_pay_by + (x + f)
    BY Zenon, <1>1, <2>2, <2>4
  <2> QED BY Zenon, <2>2, <2>3, <2>5
<1>6. Len(e.active_order) = n /\ \A i \in 1..n : e.active_order[i] = IF i = 1 THEN w[n] ELSE w[i - 1]
  <2> HIDE DEF n, w
  <2> QED BY <1>1, <1>3 DEF RotateRight, w
<1>7. \A i \in 1..n : e.active_order[i] = v[IF i > k + 1 THEN i - (k + 1) ELSE (i - (k + 1)) + n]
  <2> SUFFICES ASSUME NEW i \in 1..n
               PROVE  e.active_order[i] = v[IF i > k + 1 THEN i - (k + 1) ELSE (i - (k + 1)) + n]
    OBVIOUS
  <2> HIDE DEF n, v, w
  <2>1. CASE i = 1
    <3>1. n > k /\ n \in 1..n
      BY <1>1
    <3>2. ~(i > k + 1) /\ (i - (k + 1)) + n = n - k
      BY <1>1, <2>1
    <3>3. w[n] = v[n - k]
      BY Zenon, <1>3, <3>1
    <3> QED BY Zenon, <1>6, <2>1, <3>2, <3>3
  <2>2. CASE i # 1
    <3>1. i - 1 \in 1..n
      BY <1>1, <2>2
    <3>2. w[i - 1] = v[IF i - 1 > k THEN (i - 1) - k ELSE ((i - 1) - k) + n]
      BY Zenon, <1>3, <3>1
    <3>3. /\ i - 1 > k <=> i > k + 1
          /\ (i - 1) - k = i - (k + 1)
          /\ ((i - 1) - k) + n = (i - (k + 1)) + n
      BY <1>1
    <3> QED BY Zenon, <1>6, <2>2, <3>2, <3>3
  <2> QED BY Zenon, <2>1, <2>2
<1>8. Members(d) = Members(c)
  BY Zenon, <1>3 DEF Members
<1>9. ASSUME NEW p \in Members(c)
      PROVE  LET m == Cardinality(MissedOf(c, p, k + 1))
             IN  /\ e.security_deposit[p] = DepositAfter(c.security_deposit[p], a, m)
                 /\ e.default_count[p] = CountAfter(c.default_count[p], c.security_deposit[p], a, m)
  <2> DEFINE m == Cardinality(MissedOf(c, p, k))
             h == c.security_deposit[p]
             x == c.default_count[p]
  <2>1. m \in Nat /\ h \in Nat /\ x \in 0..MaxU32 /\ p \in Accounts
    <3>1. p \in Accounts
      BY Zenon DEF Members
    <3>2. c.security_deposit \in [Accounts -> 0..MaxU32] /\ c.default_count \in [Accounts -> 0..MaxU32]
      BY Zenon, <1>1 DEF Circle
    <3>3. h \in 0..MaxU32 /\ x \in 0..MaxU32
      BY Zenon, <3>1, <3>2
    <3> HIDE DEF h, x
    <3>4. h \in Nat
      BY <3>3, LimitsAssumption
    <3>5. m \in Nat
      <4>1. k \in Nat
        OBVIOUS
      <4> QED BY Zenon, <4>1, MissedCount
    <3> QED BY Zenon, <3>1, <3>3, <3>4, <3>5
  <2>2. /\ d.security_deposit[p] = DepositAfter(h, a, m)
        /\ d.default_count[p] = CountAfter(x, h, a, m)
    BY Zenon DEF Advanced
  <2>3. d.eligible_claimant = RecipientIn(c, k)
    BY Zenon, AdvancedClaimant
  <2>4. Exempt(d, p) <=> ~(RecipientIn(c, k) # p /\ ~(k = 0 /\ p \in c.current_contributors))
    BY Zenon, <1>3, <2>3 DEF Exempt
  <2>5. Cardinality(MissedOf(c, p, k + 1)) = IF Exempt(d, p) THEN m ELSE m + 1
    BY <2>4, MissedCount
  <2>6. /\ e.security_deposit[p] = IF Exempt(d, p) THEN d.security_deposit[p]
                                   ELSE DepositAfterMiss(d, p)
        /\ e.default_count[p] = IF Exempt(d, p) THEN d.default_count[p] ELSE CountAfterMiss(d, p)
    BY Zenon, <1>8, <2>1 DEF Charged
  <2> HIDE DEF m, h, x, a
  <2>7. /\ DepositAfterMiss(d, p) = DepositAfter(h, a, m + 1)
        /\ CountAfterMiss(d, p) = CountAfter(x, h, a, m + 1)
    <3>1. /\ DepositAfterMiss(d, p) = RemainingDeposit(DepositAfter(h, a, m), a)
          /\ CountAfterMiss(d, p) =
                IF DepositAfter(h, a, m) < a /\ CountAfter(x, h, a, m) < MaxU32
                THEN CountAfter(x, h, a, m) + 1 ELSE CountAfter(x, h, a, m)
      BY Zenon, <1>3, <2>2 DEF DepositAfterMiss, CountAfterMiss, a
    <3>2. m \in Nat /\ h \in Nat /\ x \in 0..MaxU32 /\ a \in Nat \ {0}
      BY Zenon, <1>2, <2>1
    <3> QED BY ZenonT(60), <3>1, <3>2, OneMoreMiss
  <2>8. CASE Exempt(d, p)
    BY ZenonT(30), <2>2, <2>5, <2>6, <2>8 DEF h, x
  <2>9. CASE ~Exempt(d, p)
    BY ZenonT(30), <2>5, <2>6, <2>7, <2>9 DEF h, x
  <2> QED BY <2>8, <2>9
<1>10. k + 1 # 0
  OBVIOUS
<1> HIDE DEF n, v, w, a, f
<1> QED BY Zenon, <1>3, <1>4, <1>5, <1>6, <1>7, <1>9, <1>10 DEF Advanced, n, v, w, a, f

\* A round remains as long as not all of them are closed.
LEMMA RoundsRemain ==
  ASSUME NEW c, NEW left \in Nat, NEW d, NEW k \in Nat, Advanced(c, left, d, k)
  PROVE  d.next_pay_by <= d.final_pay_by <=> k <= left
<1> DEFINE f == d.active_roscas.contribution_frequency
           m == left - k
<1>1. Running(d, m)
  BY DEF Advanced
<1>2. /\ f \in Nat \ {0} /\ d.next_pay_by \in Nat /\ d.final_pay_by \in Nat /\ m \in Int
  BY Zenon, <1>1, RunningNumbers
<1>3. d.final_pay_by = d.next_pay_by + m * f
  BY Zenon, <1>1, RunningNumbers
<1> HIDE DEF f
<1>4. (m >= 0 <=> m * f >= 0) /\ m * f \in Int
  BY <1>2, RoundsSign
<1> DEFINE x == m * f
<1>5. (m >= 0 <=> x >= 0) /\ x \in Int /\ d.final_pay_by = d.next_pay_by + x
  BY <1>3, <1>4
<1> HIDE DEF x
<1> QED BY <1>2, <1>5

\* What a covered call starts from.
Opened(id, s, left) ==
    /\ Layer(s) /\ s.ok
    /\ left \in Nat
    /\ Running(s.circle, left)
    /\ Covered(id, s)

LEMMA ProgressStart ==
  ASSUME NEW id \in RoscaIds, NEW s, NEW left, Opened(id, s, left)
  PROVE  Progress(id, s, left, s, 0)
<1>1. s.circle \in Circle /\ s.balance \in Ledger
  BY DEF Opened, Layer
<1>2. Deposits(s.circle) \in Nat
  BY Zenon, <1>1, DepositsSum
<1>3. Booked(id, s.circle.active_roscas.payment_asset, s.balance, s.circle, s.balance, s.circle)
  BY Zenon, <1>1, <1>2, NothingBooked
<1>4. Advanced(s.circle, left, s.circle, 0)
  BY AdvancedStart DEF Opened
<1> QED BY Zenon, <1>3, <1>4 DEF Progress, Opened

\* Closing one more round.
LEMMA ProgressNext ==
  ASSUME NoDust, NEW id \in RoscaIds, NEW s, NEW left, Opened(id, s, left),
         NEW q, NEW k \in 0..left, Progress(id, s, left, q, k)
  PROVE  Progress(id, s, left, CloseRound(id, q), k + 1)
<1> DEFINE c     == s.circle
           d     == q.circle
           r     == CloseRound(id, q)
           e     == r.circle
           asset == c.active_roscas.payment_asset
<1>1. /\ Layer(s) /\ s.ok /\ left \in Nat /\ Running(c, left) /\ Covered(id, s)
      /\ Layer(q) /\ q.ok /\ Advanced(c, left, d, k)
      /\ Booked(id, asset, s.balance, c, q.balance, d)
  BY Zenon DEF Opened, Progress
<1>2. /\ Running(d, left - k) /\ d.active_roscas = c.active_roscas
  BY Zenon, <1>1 DEF Advanced
<1>3. c \in Circle /\ s.balance \in Ledger /\ d \in Circle /\ q.balance \in Ledger
  BY Zenon, <1>1 DEF Layer
<1>4. asset \in PaymentAssets
  <2>1. c.active_roscas \in RoscaDetails
    BY Zenon, <1>1, RunningTyped
  <2> QED BY <2>1 DEF RoscaDetails
<1> HIDE DEF d, c, asset
<1>5. Deposits(c) \in Nat /\ Deposits(d) \in Nat
  BY <1>3, DepositsSum
<1>6. Covered(id, q)
  <2>1. s.balance[asset][rosca_account_id(id)] >= Deposits(c)
    BY Zenon, <1>1 DEF Covered, c, asset
  <2>2. q.balance[asset][rosca_account_id(id)] >= Deposits(d)
    BY Zenon, <1>1, <1>3, <1>4, <1>5, <2>1, BookedCovers
  <2> QED BY Zenon, <1>2, <2>2 DEF Covered, d, asset
<1>7. left - k >= 0
  BY <1>1
<1>8. /\ Layer(r) /\ r.ok
      /\ Running(e, (left - k) - 1)
      /\ Booked(id, asset, q.balance, d, r.balance, e)
      /\ Charged(d, Members(d), e)
      /\ e.next_pay_by = d.next_pay_by + d.active_roscas.contribution_frequency
      /\ e.final_pay_by = d.final_pay_by
      /\ e.active_roscas = d.active_roscas
      /\ e.active_order = RotateRight(d.active_order)
      /\ e.participants = d.participants
      /\ e.current_contributors = {}
  <2>1. Running(q.circle, left - k)
    BY <1>2 DEF d
  <2>2. q.circle.active_roscas.payment_asset = asset
    BY <1>2 DEF d, asset
  <2> DEFINE m == left - k
  <2> HIDE DEF m
  <2>3. Running(q.circle, m) /\ m >= 0
    BY <1>7, <2>1 DEF m
  <2> QED BY Zenon, <1>1, <1>6, <2>2, <2>3, CloseRoundBooks DEF d, m
<1> HIDE DEF r, e
<1>9. e \in Circle /\ r.balance \in Ledger
  BY <1>8 DEF Layer, e
<1>10. Deposits(e) \in Nat
  BY Zenon, <1>9, DepositsSum
<1>11. Booked(id, asset, s.balance, c, r.balance, e)
  BY Zenon, <1>1, <1>3, <1>4, <1>5, <1>8, <1>9, <1>10, BookedTransitive
<1>12. Advanced(c, left, e, k + 1)
  BY Zenon, <1>1, <1>8, AdvancedNext
<1> QED BY Zenon, <1>8, <1>11, <1>12 DEF Progress, c, asset, r, e

\* The loop of manually_end_rosca closes exactly the rounds that are left.
LEMMA AllRoundsClose ==
  ASSUME NoDust, NEW id \in RoscaIds, NEW s, NEW left, Opened(id, s, left)
  PROVE  Progress(id, s, left, CloseAllRounds(id, s), left + 1)
<1> DEFINE n == Len(s.circle.active_order)
<1>1. n \in Nat /\ left \in Nat /\ left <= n - 1
  BY RunningTyped DEF Opened, Running
<1>2. PICK g : CloseAllRun(g, id, s)
  BY Zenon, <1>1, CloseAllLoop
<1>3. /\ CloseAllRounds(id, s) = g[n]
      /\ g[0] = s
      /\ \A i \in 1..n : g[i] = CloseRemainingRound(id, g[i-1])
  BY <1>2 DEF CloseAllRun
<1> HIDE DEF n
<1> DEFINE Done(i, k) == k <= left + 1 /\ (k < i => k = left + 1) /\ Progress(id, s, left, g[i], k)
           P(i) == \E k \in 0..i : Done(i, k)
           S    == {i \in Nat : i <= n => P(i)}
<1>4. P(0)
  <2>1. Done(0, 0)
    BY <1>1, <1>3, ProgressStart
  <2> HIDE DEF Done
  <2> QED BY <2>1
<1>5. ASSUME NEW i \in Nat, i + 1 <= n, P(i) PROVE P(i + 1)
  <2>1. PICK k \in 0..i : Done(i, k)
    BY <1>5
  <2>2. i + 1 \in 1..n /\ (i + 1) - 1 = i
    BY <1>1, <1>5
  <2>3. g[i + 1] = CloseRemainingRound(id, g[i])
    BY <1>3, <2>2
  <2>4. Advanced(s.circle, left, g[i].circle, k) /\ g[i].ok
    BY <2>1 DEF Progress
  <2>5. RoundRemains(g[i].circle) <=> k <= left
    BY <1>1, <2>4, RoundsRemain DEF RoundRemains
  <2>6. CASE k <= left
    <3>1. g[i + 1] = CloseRound(id, g[i])
      BY Zenon, <2>3, <2>4, <2>5, <2>6 DEF CloseRemainingRound
    <3>2. k \in 0..left /\ Progress(id, s, left, g[i], k)
      BY <1>1, <2>1, <2>6
    <3>3. Progress(id, s, left, g[i + 1], k + 1)
      BY <3>1, <3>2, ProgressNext
    <3>4. k + 1 \in 0..(i + 1) /\ k + 1 <= left + 1 /\ (k + 1 < i + 1 => k + 1 = left + 1)
      BY <1>1, <2>1, <2>6
    <3>5. Done(i + 1, k + 1)
      BY <3>3, <3>4
    <3> HIDE DEF Done
    <3> QED BY <3>4, <3>5
  <2>7. CASE ~(k <= left)
    <3>1. g[i + 1] = g[i]
      BY Zenon, <2>3, <2>5, <2>7 DEF CloseRemainingRound
    <3>2. k \in 0..(i + 1) /\ k = left + 1
      BY <1>1, <2>1, <2>7
    <3>3. Done(i + 1, k)
      BY Zenon, <1>1, <2>1, <3>1, <3>2
    <3> HIDE DEF Done
    <3> QED BY <3>2, <3>3
  <2> QED BY <2>6, <2>7
<1>6. n \in S
  <2> HIDE DEF P
  <2>1. 0 \in S
    BY <1>4
  <2>2. \A i \in Nat : i \in S => i + 1 \in S
    BY <1>1, <1>5
  <2> HIDE DEF S
  <2> QED BY <1>1, <2>1, <2>2, NatSetInduction
<1>7. P(n)
  <2>1. n <= n
    BY <1>1
  <2> HIDE DEF P
  <2> QED BY Zenon, <1>6, <2>1
<1>8. PICK k \in 0..n : Done(n, k)
  BY <1>7
<1>9. k = left + 1
  BY <1>1, <1>8
<1> QED BY Zenon, <1>3, <1>8, <1>9

\* All rounds are closed and the circle is completed.
Settled(id, s, left, q) ==
    \E r : Progress(id, s, left, r, left + 1) /\ q = Complete(id, r)

\* When k rounds from now on have a cutoff that is not after t, and the next
\* one's cutoff is after t or there is none, those k are the late ones.
LEMMA LateRoundsAre ==
  ASSUME NEW c, NEW left \in Nat, Running(c, left), NEW t \in Nat, NEW k \in 0..(left + 1),
         k <= left => t < c.next_pay_by + k * c.active_roscas.contribution_frequency,
         \A j \in 0..(k - 1) : c.next_pay_by + j * c.active_roscas.contribution_frequency <= t
  PROVE  LateRounds(c, t) = 0..(k - 1) /\ Cardinality(LateRounds(c, t)) = k
<1> DEFINE f == c.active_roscas.contribution_frequency
           n == Len(c.active_order)
           y == c.next_pay_by
<1>1. /\ f \in Nat \ {0} /\ y \in Nat /\ n \in Nat /\ left <= n - 1
  BY Zenon, RunningNumbers
<1>2. c.final_pay_by = y + left * f
  BY Zenon, RunningNumbers
<1> HIDE DEF f, n, y
<1>3. LateRounds(c, t) = {j \in 0..(n - 1) : y + j * f <= t /\ y + j * f <= y + left * f}
  BY <1>2 DEF LateRounds, f, n, y
<1>4. ASSUME NEW j \in 0..(n - 1)
      PROVE  (y + j * f <= t /\ y + j * f <= y + left * f) <=> j <= k - 1
  <2>1. /\ j * f <= left * f <=> j <= left
        /\ k * f <= j * f <=> k <= j
    BY <1>1, RoundsOrder
  <2>2. j * f \in Int /\ left * f \in Int /\ k * f \in Int
    BY <1>1
  <2>0. y \in Int /\ t \in Int
    BY <1>1
  <2>3. y + j * f <= y + left * f <=> j <= left
    BY Zenon, <2>0, <2>1, <2>2, CutoffOrder
  <2>4. CASE j <= k - 1
    <3>1. y + j * f <= t
      BY <2>4 DEF f, y
    <3>2. j <= left
      BY <2>4
    <3> QED BY Zenon, <2>3, <2>4, <3>1, <3>2
  <2>5. CASE ~(j <= k - 1)
    <3>1. CASE k <= left
      <4>1. t < y + k * f
        BY Zenon, <3>1 DEF f, y
      <4>2. k * f <= j * f
        BY <2>1, <2>5
      <4> QED BY Zenon, <2>0, <2>2, <2>5, <4>1, <4>2, CutoffAhead
    <3>2. CASE ~(k <= left)
      BY <2>3, <2>5, <3>2
    <3> QED BY Zenon, <3>1, <3>2
  <2> QED BY Zenon, <2>4, <2>5
<1>5. LateRounds(c, t) = 0..(k - 1)
  <2>1. \A j : j \in 0..(k - 1) <=> j \in 0..(n - 1) /\ j <= k - 1
    BY <1>1
  <2> QED BY Zenon, <1>3, <1>4, <2>1
<1>6. Cardinality(0..(k - 1)) = k
  BY FS_Interval
<1> QED BY Zenon, <1>5, <1>6

\* The loop of contribute_to_rosca cannot fail, and it closes exactly the late
\* rounds; when these are all there are, it completes the circle.
LEMMA CatchUpCloses ==
  ASSUME NoDust, NEW id \in RoscaIds, NEW s, NEW left, Opened(id, s, left), NEW t \in Nat
  PROVE  LET q == CatchUp(id, s, t)
             c == s.circle
         IN  \/ \E k \in 0..left :
                   /\ Progress(id, s, left, q, k)
                   /\ t < q.circle.next_pay_by
                   /\ LateRounds(c, t) = 0..(k - 1) /\ Cardinality(LateRounds(c, t)) = k
             \/ /\ Settled(id, s, left, q)
                /\ t >= c.final_pay_by
                /\ LateRounds(c, t) = 0..left /\ Cardinality(LateRounds(c, t)) = left + 1
<1> DEFINE c == s.circle
           n == Len(c.active_order)
           f == c.active_roscas.contribution_frequency
           y == c.next_pay_by
<1>1. /\ n \in Nat /\ left \in Nat /\ left <= n - 1 /\ f \in Nat \ {0} /\ y \in Nat
      /\ c.final_pay_by = y + left * f /\ Running(c, left)
  <2>1. Running(c, left) /\ left \in Nat
    BY DEF Opened
  <2>2. f \in Moment \ {0} /\ y \in Moment /\ n \in Nat \ {0}
    BY Zenon, <2>1, RunningTyped
  <2>3. left <= n - 1 /\ c.final_pay_by = y + left * f
    BY <2>1 DEF Running
  <2>4. \A m \in Moment : m \in Nat
    BY LimitsAssumption DEF Moment
  <2>5. \A m \in Nat \ {0} : m \in Nat
    OBVIOUS
  <2> HIDE DEF f, y, n, c
  <2> QED BY Zenon, <2>1, <2>2, <2>3, <2>4, <2>5
<1>2. PICK g : CatchUpRun(g, id, s, t)
  <2>1. Len(s.circle.active_order) \in Nat
    BY Zenon, <1>1
  <2> QED BY Zenon, <2>1, CatchUpLoop
<1>3. /\ CatchUp(id, s, t) = g[n]
      /\ g[0] = s
      /\ \A i \in 1..n : g[i] = CloseLateRound(id, g[i-1], t)
  BY <1>2 DEF CatchUpRun
<1> HIDE DEF n, f, y, c
<1> DEFINE Late(k) == \A j \in 0..(k - 1) : y + j * f <= t
           Open(i, k) == /\ k <= left /\ (k < i => t < y + k * f) /\ Late(k)
                         /\ Progress(id, s, left, g[i], k)
           Shut(i) == Settled(id, s, left, g[i]) /\ Late(left + 1)
           P(i) == (\E k \in 0..i : Open(i, k)) \/ Shut(i)
           S    == {i \in Nat : i <= n => P(i)}
<1>4. P(0)
  <2>1. Open(0, 0)
    BY <1>1, <1>3, ProgressStart
  <2> HIDE DEF Open
  <2> QED BY <2>1
<1>5. ASSUME NEW i \in Nat, i + 1 <= n, P(i) PROVE P(i + 1)
  <2>1. i + 1 \in 1..n /\ (i + 1) - 1 = i
    BY <1>1, <1>5
  <2>2. g[i + 1] = CloseLateRound(id, g[i], t)
    BY Zenon, <1>3, <2>1
  <2>3. CASE Shut(i)
    <3>1. PICK r : Progress(id, s, left, r, left + 1) /\ g[i] = Complete(id, r)
      BY Zenon, <2>3 DEF Settled
    <3>2. r.circle \in Circle /\ Layer(r)
      BY <3>1 DEF Progress, Layer
    <3>3. g[i].circle.active_roscas = None
      <4>1. g[i].circle = [r.circle EXCEPT !.completed_roscas = TRUE, !.active_roscas = None]
        BY Zenon, <3>1, <3>2 DEF Complete, Layer
      <4> QED BY Zenon, <3>2, <4>1 DEF Circle
    <3>4. g[i + 1] = g[i]
      BY Zenon, <2>2, <3>3 DEF CloseLateRound
    <3>5. Shut(i + 1)
      BY Zenon, <2>3, <3>4
    <3> HIDE DEF Shut
    <3> QED BY Zenon, <3>5
  <2>4. ASSUME NEW k \in 0..i, Open(i, k) PROVE P(i + 1)
    <3> DEFINE d == g[i].circle
    <3>1. /\ k <= left /\ Late(k) /\ Progress(id, s, left, g[i], k) /\ (k < i => t < y + k * f)
      BY Zenon, <2>4
    <3>2. Advanced(c, left, d, k) /\ g[i].ok
      BY Zenon, <3>1 DEF Progress, c
    <3>3. d.next_pay_by = y + k * f /\ d.active_roscas # None
      BY Zenon, <3>2 DEF Advanced, Running, y, f
    <3>4. y + k * f \in Int
      BY <1>1
    <3>7. t \in Int
      OBVIOUS
    <3>8. k \in 0..(i + 1) /\ k + 1 \in 0..(i + 1) /\ k + 1 \in Nat
      BY Zenon, IndexUpTo
    <3>5. CASE t < y + k * f
      <4>1. ~(t >= d.next_pay_by)
        BY Zenon, <3>3, <3>4, <3>5, <3>7, OrderTotal
      <4>2. g[i + 1] = g[i]
        BY Zenon, <2>2, <4>1 DEF CloseLateRound
      <4>3. Open(i + 1, k)
        BY Zenon, <3>1, <3>5, <4>2
      <4> HIDE DEF Open
      <4> QED BY Zenon, <3>8, <4>3
    <3>6. CASE ~(t < y + k * f)
      <4> DEFINE r == CloseRound(id, g[i])
      <4>10. t >= d.next_pay_by
        BY Zenon, <3>3, <3>4, <3>6, <3>7, OrderTotal
      <4>1. g[i + 1] = check_and_complete_rosca(id, r)
        BY Zenon, <2>2, <3>2, <3>3, <4>10 DEF CloseLateRound
      <4>2. k = i
        BY <3>1, <3>6
      <4>3. k \in 0..left
        <5>1. left \in Int
          BY <1>1
        <5> QED BY Zenon, <3>1, <5>1, IndexUpTo
      <4>4. Progress(id, s, left, r, k + 1)
        BY Zenon, <3>1, <4>3, ProgressNext
      <4> HIDE DEF r
      <4>5. Advanced(c, left, r.circle, k + 1) /\ r.ok
        BY Zenon, <4>4 DEF Progress, c
      <4>6. r.circle.next_pay_by > r.circle.final_pay_by <=> ~(k + 1 <= left)
        <5>1. Running(r.circle, left - (k + 1))
          BY Zenon, <4>5 DEF Advanced
        <5>2. r.circle.next_pay_by \in Nat /\ r.circle.final_pay_by \in Nat
          BY Zenon, <5>1, RunningNumbers
        <5>3. \A m \in Nat : m \in Int
          OBVIOUS
        <5>4. r.circle.next_pay_by <= r.circle.final_pay_by <=> k + 1 <= left
          BY Zenon, <1>1, <3>8, <4>5, RoundsRemain
        <5> QED BY Zenon, <5>2, <5>3, <5>4, OrderTotal
      <4>7. Late(k + 1)
        <5> SUFFICES ASSUME NEW j \in 0..((k + 1) - 1) PROVE y + j * f <= t
          OBVIOUS
        <5>1. CASE j = k
          BY Zenon, <3>4, <3>6, <3>7, <5>1, OrderTotal
        <5>2. CASE j # k
          <6>1. j \in 0..(k - 1)
            BY <5>2
          <6> QED BY Zenon, <3>1, <6>1
        <5> QED BY Zenon, <5>1, <5>2
      <4>8. CASE k + 1 <= left
        <5>1. g[i + 1] = r
          BY Zenon, <4>1, <4>6, <4>8 DEF check_and_complete_rosca
        <5>2. ~(k + 1 < i + 1)
          BY <4>2
        <5>3. Open(i + 1, k + 1)
          BY Zenon, <4>4, <4>7, <4>8, <5>1, <5>2
        <5> HIDE DEF Open
        <5> QED BY Zenon, <3>8, <5>3
      <4>9. CASE ~(k + 1 <= left)
        <5>1. g[i + 1] = Complete(id, r)
          BY Zenon, <4>1, <4>5, <4>6, <4>9 DEF check_and_complete_rosca
        <5>2. k = left
          BY <1>1, <3>1, <4>9
        <5>3. Shut(i + 1)
          BY Zenon, <4>4, <4>7, <5>1, <5>2 DEF Settled
        <5> HIDE DEF Shut
        <5> QED BY Zenon, <5>3
      <4> QED BY Zenon, <4>8, <4>9
    <3> QED BY Zenon, <3>5, <3>6
  <2> HIDE DEF Open, Shut
  <2> QED BY Zenon, <1>5, <2>3, <2>4
<1>6. n \in S
  <2> HIDE DEF P
  <2>1. 0 \in S
    BY <1>4
  <2>2. \A i \in Nat : i \in S => i + 1 \in S
    BY <1>1, <1>5
  <2> HIDE DEF S
  <2> QED BY Zenon, <1>1, <2>1, <2>2, NatSetInduction
<1>7. P(n)
  <2>1. n <= n
    BY <1>1
  <2> HIDE DEF P
  <2> QED BY Zenon, <1>6, <2>1
<1>8. ASSUME NEW k \in 0..n, Open(n, k)
      PROVE  /\ k \in 0..left /\ Progress(id, s, left, g[n], k) /\ t < g[n].circle.next_pay_by
             /\ LateRounds(c, t) = 0..(k - 1) /\ Cardinality(LateRounds(c, t)) = k
  <2>1. k \in 0..left /\ k < n /\ t < y + k * f /\ Late(k) /\ Progress(id, s, left, g[n], k)
    BY <1>1, <1>8
  <2>2. Advanced(c, left, g[n].circle, k)
    BY Zenon, <2>1 DEF Progress, c
  <2>3. g[n].circle.next_pay_by = y + k * f
    BY <2>2 DEF Advanced, y, f
  <2>4. k \in 0..(left + 1)
    BY <1>1, <2>1
  <2>5. LateRounds(c, t) = 0..(k - 1) /\ Cardinality(LateRounds(c, t)) = k
    BY ZenonT(30), <1>1, <2>1, <2>4, LateRoundsAre DEF y, f
  <2> QED BY Zenon, <2>1, <2>3, <2>5
<1>9. ASSUME Shut(n)
      PROVE  /\ Settled(id, s, left, g[n]) /\ t >= c.final_pay_by
             /\ LateRounds(c, t) = 0..left /\ Cardinality(LateRounds(c, t)) = left + 1
  <2> DEFINE k == left + 1
  <2>1. Late(k) /\ k \in 0..(left + 1) /\ ~(k <= left) /\ k - 1 = left
    BY <1>1, <1>9
  <2>2. y + left * f <= t
    BY <1>1, <2>1
  <2>3. LateRounds(c, t) = 0..(k - 1) /\ Cardinality(LateRounds(c, t)) = k
    <3> HIDE DEF k, Late
    <3>1. k <= left => t < y + k * f
      BY <2>1
    <3>2. \A j \in 0..(k - 1) : y + j * f <= t
      BY Zenon, <2>1 DEF Late
    <3> QED BY Zenon, <1>1, <2>1, <3>1, <3>2, LateRoundsAre DEF y, f
  <2>4. y + left * f \in Int
    BY <1>1
  <2> QED BY Zenon, <1>1, <1>9, <2>1, <2>2, <2>3, <2>4
<1> HIDE DEF Open, Shut
<1> QED BY Zenon, <1>3, <1>7, <1>8, <1>9 DEF c

=============================================================================
