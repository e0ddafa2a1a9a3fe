------------------------- MODULE RoscaRoundsProofs --------------------------
(***************************************************************************)
(* The storage of one started circle, followed through the operators of    *)
(* RoscaRounds: rotations and the orders start_rosca can install, charging *)
(* deposits, closing a round, the two loops, and a contribution.           *)
(***************************************************************************)
EXTENDS RoscaProperties, SumLemmas

\* The obligations are large; each prover call may take a minute.
USE SMTT(60)

\* Two functions of time used by the schedule: stepping one round nearer to
\* the end, and the sign of a number of rounds.
LEMMA OneRoundLess ==
  ASSUME NEW k \in Int, NEW f \in Int
  PROVE  (k - 1) * f = k * f - f
OBVIOUS

\* A number of rounds and the time they take have the same sign.
LEMMA RoundsSign ==
  ASSUME NEW k \in Int, NEW f \in Nat \ {0}
  PROVE  /\ k >= 0 <=> k * f >= 0
         /\ k * f \in Int
OBVIOUS

\* Time and rounds compare alike.
LEMMA RoundsOrder ==
  ASSUME NEW k \in Int, NEW m \in Int, NEW f \in Nat \ {0}
  PROVE  k * f <= m * f <=> k <= m
<1>1. ASSUME k <= m PROVE k * f <= m * f
  <2>1. (m - k) * f >= 0
    BY <1>1, RoundsSign
  <2>2. (m - k) * f = m * f - k * f
    OBVIOUS
  <2> QED BY <2>1, <2>2
<1>2. ASSUME k * f <= m * f PROVE k <= m
  <2>1. (m - k) * f = m * f - k * f
    OBVIOUS
  <2>2. (m - k) * f >= 0
    BY <1>2, <2>1
  <2> QED BY <2>2, RoundsSign
<1> QED BY <1>1, <1>2

-----------------------------------------------------------------------------
\* try_rotate_right keeps what a sequence lists, and puts its last element
\* first.
LEMMA RotateRightLists ==
  ASSUME NEW order \in Seq(Accounts), Len(order) > 0
  PROVE  /\ RotateRight(order) \in Seq(Accounts)
         /\ Len(RotateRight(order)) = Len(order)
         /\ RotateRight(order)[1] = order[Len(order)]
         /\ order[Len(order)] \in Accounts
         /\ \A S : Lists(order, S) => Lists(RotateRight(order), S)
<1> DEFINE n == Len(order)
           r == RotateRight(order)
<1>1. n \in Nat /\ n > 0 /\ \A i \in 1..n : order[i] \in Accounts
  OBVIOUS
<1>2. r = [i \in 1..n |-> IF i = 1 THEN order[n] ELSE order[i-1]]
  BY DEF RotateRight
<1> HIDE DEF n, r
<1>3. \A i \in 1..n : r[i] = IF i = 1 THEN order[n] ELSE order[i-1]
  BY <1>2
<1>4. r \in [1..n -> Accounts]
  BY <1>1, <1>2
<1>5. r \in Seq(Accounts) /\ Len(r) = n
  BY <1>1, <1>2, <1>4
<1>6. r[1] = order[n]
  BY <1>1, <1>3
<1>7. ASSUME NEW S, Lists(order, S) PROVE Lists(r, S)
  <2>1. /\ \A i \in 1..n : r[i] \in S
        /\ \A p \in S : \E i \in 1..n : r[i] = p
    <3>1. \A i \in 1..n : \E j \in 1..n : r[i] = order[j]
      <4> SUFFICES ASSUME NEW i \in 1..n PROVE \E j \in 1..n : r[i] = order[j]
        OBVIOUS
      <4>1. CASE i = 1 BY <4>1, <1>1, <1>3
      <4>2. CASE i # 1 BY <4>2, <1>1, <1>3
      <4> QED BY <4>1, <4>2
    <3>2. \A j \in 1..n : \E i \in 1..n : r[i] = order[j]
      <4> SUFFICES ASSUME NEW j \in 1..n PROVE \E i \in 1..n : r[i] = order[j]
        BY Zenon
      <4>1. CASE j = n BY <4>1, <1>1, <1>3
      <4>2. CASE j # n
        <5>1. j + 1 \in 1..n /\ j + 1 # 1 /\ (j + 1) - 1 = j
          BY <4>2, <1>1
        <5> QED BY <5>1, <1>3
      <4> QED BY <4>1, <4>2
    <3> QED BY ZenonT(60), <3>1, <3>2, <1>7 DEF Lists, n
  <2>2. \A i, j \in 1..n : r[i] = r[j] => i = j
    <3> SUFFICES ASSUME NEW i \in 1..n, NEW j \in 1..n, r[i] = r[j] PROVE i = j
      OBVIOUS
    <3> DEFINE at(x) == IF x = 1 THEN n ELSE x - 1
    <3>1. at(i) \in 1..n /\ at(j) \in 1..n /\ r[i] = order[at(i)] /\ r[j] = order[at(j)]
      BY <1>1, <1>3
    <3>2. at(i) = at(j)
      BY Zenon, <3>1, <1>7 DEF Lists, n
    <3> QED BY <3>2, <1>1
  <2> QED BY <2>1, <2>2, <1>5, <1>7 DEF Lists, n
<1> QED BY <1>1, <1>5, <1>6, <1>7 DEF n, r

-----------------------------------------------------------------------------
\* An injection between two intervals, or from one to a finite set, of the
\* same size reaches every element.
LEMMA InjectionCovers ==
  ASSUME NEW n \in Nat, NEW F, IsFiniteSet(F), Cardinality(F) = n,
         NEW s \in [1..n -> F],
         \A i, j \in 1..n : s[i] = s[j] => i = j
  PROVE  \A x \in F : \E i \in 1..n : s[i] = x
<1>1. s \in Injection(1..n, F)
  BY DEF Injection, IsInjective
<1>2. Cardinality(1..n) = n
  BY FS_Interval
<1>3. s \in Surjection(1..n, F)
  BY <1>1, <1>2, FS_Injection
<1> QED BY <1>3 DEF Surjection

\* The taken slots and the members of a consistent circle correspond.
LEMMA SlotsOfMembers ==
  ASSUME NEW c \in Circle, MembershipConsistentIn(c)
  PROVE  LET F == FilledSlots(c.pending_order)
         IN  /\ F \subseteq 1..Len(c.pending_order)
             /\ IsFiniteSet(F)
             /\ Cardinality(F) = c.participants_count
             /\ \A i \in F : c.pending_order[i] \in Members(c)
             /\ \A p \in Members(c) : \E i \in F : c.pending_order[i] = p
             /\ \A i, j \in F : c.pending_order[i] = c.pending_order[j] => i = j
<1> DEFINE po == c.pending_order
           F  == FilledSlots(po)
           g  == [i \in F |-> po[i]]
<1>1. po \in Seq(Accounts \cup {None}) /\ Len(po) \in Nat
  BY DEF Circle
<1>2. F \subseteq 1..Len(po)
  BY DEF FilledSlots
<1>3. IsFiniteSet(F)
  <2>1. IsFiniteSet(1..Len(po))
    BY <1>1, FS_Interval
  <2> HIDE DEF F, po
  <2> QED BY Zenon, <1>2, <2>1, FS_Subset
<1>4. \A i \in F : po[i] \in Accounts /\ c.participants[po[i]] = i - 1 /\ i \in Nat
  BY <1>1, <1>2 DEF FilledSlots, MembershipConsistentIn
<1>5. \A i \in F : po[i] \in Members(c)
  <2> SUFFICES ASSUME NEW i \in F PROVE po[i] \in Members(c)
    OBVIOUS
  <2>1. i - 1 \in Nat
    BY <1>1, <1>2
  <2> QED BY <1>4, <2>1, NoneAssumption DEF Members
<1>6. \A p \in Members(c) : \E i \in F : po[i] = p
  <2> SUFFICES ASSUME NEW p \in Members(c) PROVE \E i \in F : po[i] = p
    OBVIOUS
  <2>1. /\ c.participants[p] + 1 \in 1..Len(po)
        /\ po[c.participants[p] + 1] = p
    BY DEF MembershipConsistentIn
  <2>2. p # None
    BY AccountsAssumption DEF Members
  <2> QED BY <2>1, <2>2 DEF FilledSlots
<1>7. \A i, j \in F : po[i] = po[j] => i = j
  BY <1>4
<1>8. g \in Bijection(F, Members(c))
  <2> HIDE DEF F, po
  <2>1. g \in [F -> Members(c)]
    BY <1>5
  <2>2. g \in Injection(F, Members(c))
    BY <2>1, <1>7 DEF Injection, IsInjective
  <2>3. g \in Surjection(F, Members(c))
    BY <2>1, <1>6 DEF Surjection
  <2> QED BY <2>2, <2>3 DEF Bijection
<1>9. Cardinality(F) = Cardinality(Members(c))
  <2> HIDE DEF F, g
  <2>1. ExistsBijection(F, Members(c))
    BY <1>8 DEF ExistsBijection
  <2> QED BY <2>1, <1>3, FS_Bijection
<1> HIDE DEF F, po
<1> QED BY <1>2, <1>3, <1>5, <1>6, <1>7, <1>9 DEF MembershipConsistentIn, F, po

\* Reversing the slots and dropping the empty ones lists the members.
LEMMA ReversedMembersList ==
  ASSUME NEW c \in Circle, MembershipConsistentIn(c),
         NEW order \in ReversedMembers(c.pending_order)
  PROVE  /\ order \in Seq(Accounts)
         /\ Len(order) = c.participants_count
         /\ Lists(order, Members(c))
<1> DEFINE po == c.pending_order
           F  == FilledSlots(po)
           n  == c.participants_count
<1>1. /\ F \subseteq 1..Len(po)
      /\ IsFiniteSet(F)
      /\ Cardinality(F) = n
      /\ \A i \in F : po[i] \in Members(c)
      /\ \A p \in Members(c) : \E i \in F : po[i] = p
      /\ \A i, j \in F : po[i] = po[j] => i = j
  BY SlotsOfMembers
<1>2. n \in Nat /\ Len(po) \in Nat /\ Members(c) \subseteq Accounts
  BY DEF Circle, Members
<1>3. PICK s \in [1..n -> F] :
        /\ \A i, j \in DOMAIN s : i < j => s[i] > s[j]
        /\ order = [k \in DOMAIN s |-> po[s[k]]]
  BY <1>1 DEF ReversedMembers
<1>a. F \subseteq Nat
  BY <1>2 DEF FilledSlots
<1>b. \A i, j \in F : po[i] = po[j] => i = j
  BY <1>1
<1> HIDE DEF F, n, po
<1>4. \A i, j \in 1..n : s[i] = s[j] => i = j
  <2> SUFFICES ASSUME NEW i \in 1..n, NEW j \in 1..n, s[i] = s[j], i # j PROVE FALSE
    OBVIOUS
  <2>1. s[i] \in F /\ s[j] \in F
    OBVIOUS
  <2>2. s[i] \in Nat /\ s[j] \in Nat
    BY Zenon, <2>1, <1>a
  <2>3. i < j \/ j < i
    BY <1>2
  <2> QED BY <2>2, <2>3, <1>3
<1>5. \A x \in F : \E i \in 1..n : s[i] = x
  BY <1>1, <1>2, <1>4, InjectionCovers
<1>6. order = [k \in 1..n |-> po[s[k]]]
  BY <1>3
<1>7. order \in [1..n -> Accounts]
  BY Zenon, <1>1, <1>2, <1>6
<1>8. order \in Seq(Accounts) /\ Len(order) = n
  BY <1>2, <1>6, <1>7
<1>9. \A i \in 1..n : order[i] = po[s[i]] /\ s[i] \in F
  BY <1>6
<1>10. Lists(order, Members(c))
  <2>1. \A i \in 1..n : order[i] \in Members(c)
    BY <1>1, <1>9
  <2>2. ASSUME NEW p \in Members(c) PROVE \E i \in 1..n : order[i] = p
    <3>1. PICK x \in F : po[x] = p
      BY <1>1
    <3>2. PICK i \in 1..n : s[i] = x
      BY <1>5
    <3> QED BY <1>9, <3>1, <3>2
  <2>3. ASSUME NEW i \in 1..n, NEW j \in 1..n, order[i] = order[j] PROVE i = j
    <3>1. s[i] = s[j]
      BY <1>9, <1>b, <2>3
    <3> QED BY <1>4, <3>1
  <2> QED BY <2>1, <2>2, <2>3, <1>8 DEF Lists
<1> QED BY <1>8, <1>10 DEF n

\* Whatever the byte, the draws of shuffle_participants use each index once,
\* so a shuffle lists what the order listed.
LEMMA ShuffleLists ==
  ASSUME NEW o \in Seq(Accounts), NEW S, Lists(o, S),
         NEW order \in shuffle_participants(o)
  PROVE  /\ order \in Seq(Accounts)
         /\ Len(order) = Len(o)
         /\ Lists(order, S)
<1> DEFINE n == Len(o)
<1>1. n \in Nat /\ \A i \in 1..n : o[i] \in Accounts
  OBVIOUS
<1>2. PICK d \in ShuffledIndices(n) : order = [k \in DOMAIN d |-> o[d[k]]]
  BY DEF shuffle_participants
<1> HIDE DEF n
<1>3. /\ d \in [1..n -> 1..n]
      /\ \A i \in 1..n : d[i] \notin {d[j] : j \in 1..(i-1)}
  BY Zenon DEF ShuffledIndices
<1>4. \A i, j \in 1..n : d[i] = d[j] => i = j
  <2> SUFFICES ASSUME NEW i \in 1..n, NEW j \in 1..n, d[i] = d[j], i < j PROVE FALSE
    BY <1>1
  <2>1. i \in 1..(j-1)
    BY <1>1
  <2> QED BY <1>3, <2>1
<1>5. \A x \in 1..n : \E i \in 1..n : d[i] = x
  <2>1. IsFiniteSet(1..n)
    BY <1>1, FS_Interval
  <2>2. Cardinality(1..n) = n
    BY <1>1, FS_Interval
  <2> DEFINE R == 1..n
  <2>3. d \in [1..n -> R] /\ IsFiniteSet(R) /\ Cardinality(R) = n
    BY <1>3, <2>1, <2>2
  <2> HIDE DEF R
  <2>4. \A x \in R : \E i \in 1..n : d[i] = x
    BY <1>1, <1>4, <2>3, InjectionCovers
  <2> QED BY <2>4 DEF R
<1>6. order = [k \in 1..n |-> o[d[k]]]
  BY <1>2, <1>3
<1>7. order \in [1..n -> Accounts]
  BY <1>1, <1>3, <1>6
<1>8. order \in Seq(Accounts) /\ Len(order) = n
  BY <1>1, <1>6, <1>7
<1>9. \A i \in 1..n : order[i] = o[d[i]] /\ d[i] \in 1..n
  BY <1>3, <1>6
<1>10. Lists(order, S)
  <2>0. /\ \A i \in 1..n : o[i] \in S
        /\ \A p \in S : \E i \in 1..n : o[i] = p
        /\ \A i, j \in 1..n : o[i] = o[j] => i = j
    BY DEF Lists, n
  <2>1. \A i \in 1..n : order[i] \in S
    BY <1>9, <2>0
  <2>2. \A p \in S : \E i \in 1..n : order[i] = p
    BY <1>5, <1>9, <2>0
  <2>3. \A i, j \in 1..n : order[i] = order[j] => i = j
    BY <1>4, <1>9, <2>0
  <2> QED BY <2>1, <2>2, <2>3, <1>8 DEF Lists
<1> QED BY <1>8, <1>10 DEF n

\* Any order start_rosca can install lists the members of the circle, so its
\* length is the stored count of participants.
LEMMA ClaimOrdersList ==
  ASSUME NEW c \in Circle, MembershipConsistentIn(c), NEW details,
         NEW order \in ClaimOrders(details, c.pending_order)
  PROVE  /\ order \in Seq(Accounts)
         /\ Len(order) = c.participants_count
         /\ Lists(order, Members(c))
<1>1. CASE order \in ReversedMembers(c.pending_order)
  BY <1>1, ReversedMembersList
<1>2. CASE \E o \in ReversedMembers(c.pending_order) : order \in shuffle_participants(o)
  <2>1. PICK o \in ReversedMembers(c.pending_order) : order \in shuffle_participants(o)
    BY <1>2
  <2>2. o \in Seq(Accounts) /\ Len(o) = c.participants_count /\ Lists(o, Members(c))
    BY ReversedMembersList
  <2> QED BY <2>1, <2>2, ShuffleLists
<1> QED BY <1>1, <1>2 DEF ClaimOrders

-----------------------------------------------------------------------------
(***************************************************************************)
(* Loops.  The three loops of the pallet are recursive functions on 0..n;  *)
(* the prover knows their equations once such a function is shown to       *)
(* exist.  LoopBody gathers the three bodies so that this is shown once.   *)
(***************************************************************************)

LoopBody(loop, id, s, t, q, i) ==
    IF loop = 1 THEN ChargeParticipant(id, q, s.circle.active_order[i])
    ELSE IF loop = 2 THEN CloseLateRound(id, q, t)
    ELSE CloseRemainingRound(id, q)

\* g holds the iterates of a loop body.
Iterates(g, loop, id, s, t, n) ==
    g = [i \in 0..n |-> IF i = 0 THEN s ELSE LoopBody(loop, id, s, t, g[i-1], i)]

\* For each of the bodies there is a function of its iterates.
LEMMA LoopExists ==
  ASSUME NEW loop, NEW id, NEW s, NEW t, NEW n \in Nat
  PROVE  \E g : Iterates(g, loop, id, s, t, n)
<1> DEFINE B(q, i) == LoopBody(loop, id, s, t, q, i)
           P(m) == \E g : g = [i \in 0..m |-> IF i = 0 THEN s ELSE B(g[i-1], i)]
           S == {m \in Nat : P(m)}
<1> HIDE DEF B
<1>1. 0 \in S
  <2>1. [i \in 0..0 |-> s] =
            [i \in 0..0 |-> IF i = 0 THEN s ELSE B([j \in 0..0 |-> s][i-1], i)]
    OBVIOUS
  <2> QED BY Zenon, <2>1
<1>2. \A m \in Nat : m \in S => m + 1 \in S
  <2> SUFFICES ASSUME NEW m \in Nat, P(m) PROVE P(m+1)
    OBVIOUS
  <2>1. PICK g : g = [i \in 0..m |-> IF i = 0 THEN s ELSE B(g[i-1], i)]
    OBVIOUS
  <2> DEFINE h == [i \in 0..(m+1) |-> IF i = m+1 THEN B(g[m], m+1) ELSE g[i]]
  <2>2. \A k \in 0..m : g[k] = IF k = 0 THEN s ELSE B(g[k-1], k)
    <3> DEFINE r == [k \in 0..m |-> IF k = 0 THEN s ELSE B(g[k-1], k)]
    <3>1. \A k \in 0..m : r[k] = IF k = 0 THEN s ELSE B(g[k-1], k)
      OBVIOUS
    <3> HIDE DEF r
    <3>2. g = r
      BY <2>1 DEF r
    <3> QED BY <3>1, <3>2
  <2>3. ASSUME NEW i \in 0..(m+1)
        PROVE  h[i] = IF i = 0 THEN s ELSE B(h[i-1], i)
    <3>1. CASE i = m+1
      BY <3>1
    <3>2. CASE i = 0
      BY <3>2, <2>2
    <3>3. CASE i \in 1..m
      BY <3>3, <2>2
    <3> QED BY <3>1, <3>2, <3>3
  <2>4. h = [i \in 0..(m+1) |-> IF i = 0 THEN s ELSE B(h[i-1], i)]
    <3> DEFINE r == [i \in 0..(m+1) |-> IF i = 0 THEN s ELSE B(h[i-1], i)]
    <3>1. \A i \in 0..(m+1) : h[i] = r[i]
      BY <2>3
    <3>2. /\ DOMAIN h = DOMAIN r
          /\ h = [i \in DOMAIN h |-> h[i]]
          /\ r = [i \in DOMAIN r |-> r[i]]
      OBVIOUS
    <3> QED BY <3>1, <3>2
  <2> HIDE DEF h
  <2> QED BY <2>4
<1>3. n \in S
  <2> HIDE DEF S
  <2> QED BY <1>1, <1>2, NatSetInduction
<1> QED BY <1>3 DEF B, Iterates

\* process_defaulters visits the members one by one.
DefaultersRun(g, id, s) ==
    /\ process_defaulters(id, s) = g[Len(s.circle.active_order)]
    /\ g[0] = s
    /\ \A i \in 1..Len(s.circle.active_order) :
          g[i] = ChargeParticipant(id, g[i-1], s.circle.active_order[i])

\* The loop of process_defaulters has such iterates.
LEMMA DefaultersLoop ==
  ASSUME NEW id, NEW s, Len(s.circle.active_order) \in Nat
  PROVE  \E g : DefaultersRun(g, id, s)
<1> DEFINE n == Len(s.circle.active_order)
           B(g, i) == ChargeParticipant(id, g[i-1], s.circle.active_order[i])
           F(g) == [i \in 0..n |-> IF i = 0 THEN s ELSE B(g, i)]
           G == CHOOSE g : g = F(g)
<1>1. \E g : g = F(g)
  <2>1. \A g, i : B(g, i) = LoopBody(1, id, s, 0, g[i-1], i)
    BY DEF LoopBody
  <2> HIDE DEF B
  <2>2. n \in Nat
    OBVIOUS
  <2> HIDE DEF n
  <2>3. PICK g : Iterates(g, 1, id, s, 0, n)
    BY Zenon, <2>2, LoopExists
  <2>4. g = F(g)
    BY Zenon, <2>1, <2>3 DEF Iterates
  <2> HIDE DEF F
  <2> QED BY <2>4
<1>2. G = F(G)
  <2> HIDE DEF F
  <2> QED BY <1>1, Zenon
<1>3. process_defaulters(id, s) = G[n]
  BY DEF process_defaulters
<1> HIDE DEF G
<1>4. G[0] = s /\ \A i \in 1..n : G[i] = B(G, i)
  <2> DEFINE r == F(G)
  <2> HIDE DEF B
  <2>1. r[0] = s /\ \A i \in 1..n : r[i] = B(G, i)
    OBVIOUS
  <2> HIDE DEF r, F
  <2>2. G = r
    BY <1>2 DEF r
  <2> QED BY <2>1, <2>2
<1> QED BY <1>3, <1>4 DEF DefaultersRun

\* The loop of contribute_to_rosca tests for a late round n times.
CatchUpRun(g, id, s, t) ==
    /\ CatchUp(id, s, t) = g[Len(s.circle.active_order)]
    /\ g[0] = s
    /\ \A i \in 1..Len(s.circle.active_order) :
          g[i] = CloseLateRound(id, g[i-1], t)

\* The loop of contribute_to_rosca has such iterates.
LEMMA CatchUpLoop ==
  ASSUME NEW id, NEW s, NEW t, Len(s.circle.active_order) \in Nat
  PROVE  \E g : CatchUpRun(g, id, s, t)
<1> DEFINE n == Len(s.circle.active_order)
           B(g, i) == CloseLateRound(id, g[i-1], t)
           F(g) == [i \in 0..n |-> IF i = 0 THEN s ELSE B(g, i)]
           G == CHOOSE g : g = F(g)
<1>1. \E g : g = F(g)
  <2>1. \A g, i : B(g, i) = LoopBody(2, id, s, t, g[i-1], i)
    BY DEF LoopBody
  <2> HIDE DEF B
  <2>2. n \in Nat
    OBVIOUS
  <2> HIDE DEF n
  <2>3. PICK g : Iterates(g, 2, id, s, t, n)
    BY Zenon, <2>2, LoopExists
  <2>4. g = F(g)
    BY Zenon, <2>1, <2>3 DEF Iterates
  <2> HIDE DEF F
  <2> QED BY <2>4
<1>2. G = F(G)
  <2> HIDE DEF F
  <2> QED BY <1>1, Zenon
<1>3. CatchUp(id, s, t) = G[n]
  BY DEF CatchUp
<1> HIDE DEF G
<1>4. G[0] = s /\ \A i \in 1..n : G[i] = B(G, i)
  <2> DEFINE r == F(G)
  <2> HIDE DEF B
  <2>1. r[0] = s /\ \A i \in 1..n : r[i] = B(G, i)
    OBVIOUS
  <2> HIDE DEF r, F
  <2>2. G = r
    BY <1>2 DEF r
  <2> QED BY <2>1, <2>2
<1> QED BY <1>3, <1>4 DEF CatchUpRun

\* The loop of manually_end_rosca tests for a remaining round n times.
CloseAllRun(g, id, s) ==
    /\ CloseAllRounds(id, s) = g[Len(s.circle.active_order)]
    /\ g[0] = s
    /\ \A i \in 1..Len(s.circle.active_order) :
          g[i] = CloseRemainingRound(id, g[i-1])

\* The loop of manually_end_rosca has such iterates.
LEMMA CloseAllLoop ==
  ASSUME NEW id, NEW s, Len(s.circle.active_order) \in Nat
  PROVE  \E g : CloseAllRun(g, id, s)
<1> DEFINE n == Len(s.circle.active_order)
           B(g, i) == CloseRemainingRound(id, g[i-1])
           F(g) == [i \in 0..n |-> IF i = 0 THEN s ELSE B(g, i)]
           G == CHOOSE g : g = F(g)
<1>1. \E g : g = F(g)
  <2>1. \A g, i : B(g, i) = LoopBody(3, id, s, 0, g[i-1], i)
    BY DEF LoopBody
  <2> HIDE DEF B
  <2>2. n \in Nat
    OBVIOUS
  <2> HIDE DEF n
  <2>3. PICK g : Iterates(g, 3, id, s, 0, n)
    BY Zenon, <2>2, LoopExists
  <2>4. g = F(g)
    BY Zenon, <2>1, <2>3 DEF Iterates
  <2> HIDE DEF F
  <2> QED BY <2>4
<1>2. G = F(G)
  <2> HIDE DEF F
  <2> QED BY <1>1, Zenon
<1>3. CloseAllRounds(id, s) = G[n]
  BY DEF CloseAllRounds
<1> HIDE DEF G
<1>4. G[0] = s /\ \A i \in 1..n : G[i] = B(G, i)
  <2> DEFINE r == F(G)
  <2> HIDE DEF B
  <2>1. r[0] = s /\ \A i \in 1..n : r[i] = B(G, i)
    OBVIOUS
  <2> HIDE DEF r, F
  <2>2. G = r
    BY <1>2 DEF r
  <2> QED BY <2>1, <2>2
<1> QED BY <1>3, <1>4 DEF CloseAllRun

-----------------------------------------------------------------------------
(***************************************************************************)
(* Charging deposits.                                                      *)
(***************************************************************************)

Ledger == [PaymentAssets -> [Holders -> Nat]]

\* The storage layer of a call, well typed.  Its events are not typed.
Layer(s) ==
    /\ s = [circle |-> s.circle, balance |-> s.balance, events |-> s.events, ok |-> s.ok]
    /\ s.circle \in Circle
    /\ s.balance \in Ledger
    /\ s.ok \in BOOLEAN

\* d differs from c in deposits and default counts at most.
SameRound(c, d) ==
    /\ d.rosca_details = c.rosca_details
    /\ d.active_roscas = c.active_roscas
    /\ d.completed_roscas = c.completed_roscas
    /\ d.invited = c.invited
    /\ d.participants = c.participants
    /\ d.participants_count = c.participants_count
    /\ d.pending_order = c.pending_order
    /\ d.active_order = c.active_order
    /\ d.next_pay_by = c.next_pay_by
    /\ d.final_pay_by = c.final_pay_by
    /\ d.eligible_claimant = c.eligible_claimant
    /\ d.current_contributors = c.current_contributors
    /\ d.current_contribution_count = c.current_contribution_count

-----------------------------------------------------------------------------
\* A transfer that passes its checks keeps every balance a natural number.
LEMMA TransferTyped ==
  ASSUME NEW bal \in Ledger, NEW asset \in PaymentAssets,
         NEW source \in Holders, NEW dest \in Holders, NEW amount \in Nat,
         CanTransfer(bal, asset, source, dest, amount)
  PROVE  Transfer(bal, asset, source, dest, amount) \in Ledger
<1>1. bal[asset][source] \in Nat /\ bal[asset][dest] \in Nat
  BY DEF Ledger
<1>2. AfterDebit(bal[asset][source], amount) \in Nat
  BY <1>1, MinBalanceAssumption DEF CanTransfer, AfterDebit
<1> QED BY <1>1, <1>2 DEF Transfer, Ledger

\* One iteration of process_defaulters touches deposits, default counts and
\* the ledger only.
LEMMA ChargeTyped ==
  ASSUME NEW id \in RoscaIds, NEW s, Layer(s), NEW p \in Accounts,
         s.circle.active_roscas # None, s.circle.eligible_claimant # None
  PROVE  /\ Layer(ChargeParticipant(id, s, p))
         /\ SameRound(s.circle, ChargeParticipant(id, s, p).circle)
<1> DEFINE c      == s.circle
           rosca  == c.active_roscas
           charge == DepositCharge(c.security_deposit[p], rosca.contribution_amount)
           left   == RemainingDeposit(c.security_deposit[p], rosca.contribution_amount)
           fund   == rosca_account_id(id)
           paid   == IF charge > 0 THEN Transfer(s.balance, rosca.payment_asset, fund,
                                                 c.eligible_claimant, charge)
                     ELSE s.balance
           enough == c.security_deposit[p] >= rosca.contribution_amount
           count  == IF ~enough /\ c.default_count[p] < MaxU32
                     THEN c.default_count[p] + 1 ELSE c.default_count[p]
           after  == [c EXCEPT !.security_deposit[p] = left, !.default_count[p] = count]
<1>1. /\ rosca \in RoscaDetails /\ c.eligible_claimant \in Accounts
      /\ c.security_deposit \in [Accounts -> 0..MaxU32]
      /\ c.default_count \in [Accounts -> 0..MaxU32]
  BY Zenon DEF Layer, Circle
<1>2. /\ rosca.contribution_amount \in 1..MaxU32
      /\ rosca.payment_asset \in PaymentAssets
  BY <1>1 DEF RoscaDetails
<1>3. charge \in Nat /\ left \in 0..MaxU32 /\ count \in 0..MaxU32
  BY <1>1, <1>2, LimitsAssumption DEF DepositCharge, RemainingDeposit
<1>4. fund \in Holders /\ c.eligible_claimant \in Holders
  <2> HIDE DEF charge, left, paid, enough, count, after
  <2> QED BY <1>1 DEF Holders, RoscaFunds
<1>5. CASE ~s.ok \/ Exempt(c, p)
  <2>1. ChargeParticipant(id, s, p) = s
    BY Zenon, <1>5 DEF ChargeParticipant
  <2> QED BY Zenon, <2>1 DEF SameRound
<1>6. CASE /\ ~(~s.ok \/ Exempt(c, p))
           /\ charge > 0
           /\ ~CanTransfer(s.balance, rosca.payment_asset, fund, c.eligible_claimant, charge)
  <2>1. ChargeParticipant(id, s, p) = Failed(s)
    BY <1>6 DEF ChargeParticipant
  <2> QED BY Zenon, <2>1 DEF Failed, Layer, SameRound
<1>7. CASE /\ ~(~s.ok \/ Exempt(c, p))
           /\ ~(charge > 0 /\ ~CanTransfer(s.balance, rosca.payment_asset, fund,
                                           c.eligible_claimant, charge))
  <2> DEFINE q == ChargeParticipant(id, s, p)
  <2>1. /\ q = [circle |-> q.circle, balance |-> q.balance, events |-> q.events, ok |-> q.ok]
        /\ q.ok = TRUE
        /\ q.balance = paid
        /\ q.circle = after
    BY Zenon, <1>7 DEF ChargeParticipant
  <2>2. paid \in Ledger
    BY <1>2, <1>3, <1>4, <1>7, TransferTyped DEF Layer
  <2>3. after \in Circle /\ SameRound(c, after)
    <3> HIDE DEF left, count
    <3>1. c \in Circle
      BY DEF Layer
    <3> QED BY Zenon, <1>1, <1>3, <3>1 DEF Circle, SameRound
  <2> HIDE DEF q, paid, after
  <2> QED BY Zenon, <2>1, <2>2, <2>3 DEF Layer, q
<1> QED BY <1>5, <1>6, <1>7

\* Charges add up to a charge.
LEMMA SameRoundTransitive ==
  ASSUME NEW c, NEW d, NEW e, SameRound(c, d), SameRound(d, e)
  PROVE  SameRound(c, e)
BY DEF SameRound

\* The whole of process_defaulters keeps the round as it is.
LEMMA DefaultersTyped ==
  ASSUME NEW id \in RoscaIds, NEW s, Layer(s),
         s.circle.active_roscas # None, s.circle.eligible_claimant # None
  PROVE  /\ Layer(process_defaulters(id, s))
         /\ SameRound(s.circle, process_defaulters(id, s).circle)
<1> DEFINE order == s.circle.active_order
           n     == Len(order)
<1>0. order \in Seq(Accounts)
  BY DEF Layer, Circle
<1> HIDE DEF order
<1>1. n \in Nat /\ \A i \in 1..n : order[i] \in Accounts
  BY <1>0
<1>2. PICK g : /\ process_defaulters(id, s) = g[n]
               /\ g[0] = s
               /\ \A i \in 1..n : g[i] = ChargeParticipant(id, g[i-1], order[i])
  <2>1. Len(s.circle.active_order) \in Nat
    BY <1>1 DEF order
  <2>2. PICK g : DefaultersRun(g, id, s)
    BY <2>1, DefaultersLoop
  <2>3. /\ process_defaulters(id, s) = g[n]
        /\ g[0] = s
        /\ \A i \in 1..n : g[i] = ChargeParticipant(id, g[i-1], order[i])
    BY <2>2 DEF DefaultersRun, order
  <2> QED BY <2>3
<1> HIDE DEF n
<1> DEFINE P(i) == Layer(g[i]) /\ SameRound(s.circle, g[i].circle)
           S    == {i \in Nat : i <= n => P(i)}
<1>3. 0 \in S
  BY <1>2 DEF SameRound
<1>4. \A i \in Nat : i \in S => i + 1 \in S
  <2> SUFFICES ASSUME NEW i \in Nat, i \in S, i + 1 <= n PROVE P(i + 1)
    BY <1>1
  <2>1. P(i)
    BY <1>1
  <2>2. i + 1 \in 1..n /\ (i + 1) - 1 = i
    BY <1>1
  <2>3. g[i + 1] = ChargeParticipant(id, g[i], order[i + 1]) /\ order[i + 1] \in Accounts
    BY Zenon, <1>1, <1>2, <2>2
  <2>4. g[i].circle.active_roscas # None /\ g[i].circle.eligible_claimant # None
    BY <2>1 DEF SameRound
  <2>5. Layer(g[i + 1]) /\ SameRound(g[i].circle, g[i + 1].circle)
    BY <2>1, <2>3, <2>4, ChargeTyped
  <2> QED BY Zenon, <2>1, <2>5, SameRoundTransitive
<1>5. n \in S
  <2> HIDE DEF S
  <2> QED BY Zenon, <1>1, <1>3, <1>4, NatSetInduction
<1> QED BY <1>1, <1>2, <1>5

-----------------------------------------------------------------------------
(***************************************************************************)
(* A circle with an open round.  left counts the rounds after the open     *)
(* one; it is -1 between the closing of the final round and the            *)
(* completion of the circle, which happen in one call.                     *)
(***************************************************************************)

Running(c, left) ==
    /\ c \in Circle
    /\ MembershipConsistentIn(c)
    /\ c.rosca_details = None /\ c.active_roscas # None /\ ~c.completed_roscas
    /\ c.next_pay_by # None /\ c.final_pay_by # None
    /\ Len(c.active_order) = c.participants_count
    /\ Lists(c.active_order, Members(c))
    /\ Len(c.active_order) >= 1
    /\ c.eligible_claimant = c.active_order[1]
    /\ left \in (-1)..(Len(c.active_order) - 1)
    /\ c.final_pay_by = c.next_pay_by + left * c.active_roscas.contribution_frequency
    /\ c.final_pay_by + c.active_roscas.contribution_frequency <= MaxMoment
    /\ ContributionsCountedIn(c)

\* What a circle is after its last round: the phase of a completed circle.
Over(c) ==
    /\ c \in Circle
    /\ MembershipConsistentIn(c)
    /\ c.rosca_details = None /\ c.active_roscas = None /\ c.completed_roscas
    /\ c.next_pay_by # None /\ c.final_pay_by # None /\ c.eligible_claimant # None

\* Charging deposits does not disturb a running circle.
LEMMA ChargedRuns ==
  ASSUME NEW c, NEW left, Running(c, left), NEW d \in Circle, SameRound(c, d)
  PROVE  Running(d, left)
<1>1. Members(d) = Members(c)
  BY Zenon DEF SameRound, Members
<1>2. MembershipConsistentIn(d)
  BY Zenon, <1>1 DEF Running, SameRound, MembershipConsistentIn
<1>3. ContributionsCountedIn(d)
  BY <1>1 DEF Running, SameRound, ContributionsCountedIn, Active
<1> QED BY <1>1, <1>2, <1>3 DEF Running, SameRound

\* Typed facts about a running circle that the arithmetic below needs.
LEMMA RunningTyped ==
  ASSUME NEW c, NEW left, Running(c, left)
  PROVE  /\ c.active_roscas \in RoscaDetails
         /\ c.active_roscas.contribution_frequency \in Moment \ {0}
         /\ c.next_pay_by \in Moment /\ c.final_pay_by \in Moment
         /\ c.active_order \in Seq(Accounts)
         /\ Len(c.active_order) \in Nat \ {0}
         /\ c.eligible_claimant \in Accounts
         /\ left \in Int
<1>1. c.active_order \in Seq(Accounts) /\ Len(c.active_order) \in Nat
  BY DEF Running, Circle
<1>2. c.active_order[1] \in Accounts
  BY <1>1 DEF Running
<1>3. c.active_roscas \in RoscaDetails
  BY DEF Running, Circle
<1>4. c.active_roscas.contribution_frequency \in Moment \ {0}
  BY <1>3 DEF RoscaDetails
<1>5. c.next_pay_by \in Moment /\ c.final_pay_by \in Moment
  BY DEF Running, Circle
<1> QED BY <1>1, <1>2, <1>3, <1>4, <1>5 DEF Running

\* Arithmetic of cutoffs, which the proofs about the loops cite by name.
LEMMA MomentNatural == \A m \in Moment : m \in Nat
  BY LimitsAssumption DEF Moment

LEMMA NaturalInteger == \A m \in Nat : m \in Int
  OBVIOUS

LEMMA OrderTransitive ==
  ASSUME NEW t \in Int, NEW u \in Int, NEW v \in Int
  PROVE  /\ t >= u /\ u >= v => t >= v
         /\ t < u /\ u <= v => t < v
         /\ t <= u /\ v > u => t <= v
  OBVIOUS

LEMMA OrderTotal ==
  ASSUME NEW t \in Int, NEW u \in Int
  PROVE  /\ t < u <=> ~(t >= u)
         /\ t < u <=> ~(u <= t)
         /\ t > u <=> ~(t <= u)
  OBVIOUS

LEMMA CutoffOrder ==
  ASSUME NEW y \in Int, NEW u \in Int, NEW v \in Int
  PROVE  y + u <= y + v <=> u <= v
  OBVIOUS

LEMMA CutoffAhead ==
  ASSUME NEW t \in Int, NEW y \in Int, NEW u \in Int, NEW v \in Int, t < y + u, u <= v
  PROVE  ~(y + v <= t)
  OBVIOUS

LEMMA NextMultiple ==
  ASSUME NEW k \in Nat, NEW f \in Nat
  PROVE  (k + 1) * f = k * f + f /\ k * f \in Nat
  OBVIOUS

LEMMA IndexUpTo ==
  ASSUME NEW i \in Nat, NEW k \in 0..i
  PROVE  /\ k \in Nat /\ k + 1 \in Nat
         /\ k \in 0..(i + 1) /\ k + 1 \in 0..(i + 1)
         /\ \A left \in Int : k <= left => k \in 0..left
  OBVIOUS

\* The same as numbers: what arithmetic on the rounds needs.
LEMMA RunningNumbers ==
  ASSUME NEW c, NEW left, Running(c, left)
  PROVE  /\ c.active_roscas.contribution_frequency \in Nat \ {0}
         /\ c.active_roscas.contribution_frequency \in Nat
         /\ c.next_pay_by \in Nat /\ c.final_pay_by \in Nat
         /\ Len(c.active_order) \in Nat \ {0} /\ Len(c.active_order) \in Nat
         /\ left \in Int /\ left <= Len(c.active_order) - 1
         /\ c.final_pay_by = c.next_pay_by + left * c.active_roscas.contribution_frequency
<1>1. \A m \in Moment : m \in Nat
  BY LimitsAssumption DEF Moment
<1>2. \A m \in Moment \ {0} : m \in Nat \ {0} /\ m \in Nat
  BY <1>1
<1>3. \A m \in Nat \ {0} : m \in Nat
  OBVIOUS
<1>4. left <= Len(c.active_order) - 1
      /\ c.final_pay_by = c.next_pay_by + left * c.active_roscas.contribution_frequency
  BY DEF Running
<1> QED BY Zenon, <1>1, <1>2, <1>3, <1>4, RunningTyped

-----------------------------------------------------------------------------
\* A record of contributors no longer than clear_prefix's limit is emptied.
LEMMA ClearedAll ==
  ASSUME NEW keys, NEW limit, Cardinality(keys) <= limit
  PROVE  ClearPrefix(keys, limit) = {}
BY DEF ClearPrefix

\* The next round of a running circle runs, with one round less to come.
LEMMA NextRoundRuns ==
  ASSUME NEW c, NEW left, Running(c, left), left >= 0,
         NEW d,
         d \in Circle,
         d.active_order = c.active_order,
         d.active_roscas = c.active_roscas,
         d.rosca_details = None, ~d.completed_roscas,
         d.participants = c.participants,
         d.participants_count = c.participants_count,
         d.invited = c.invited,
         d.pending_order = c.pending_order,
         d.next_pay_by = c.next_pay_by,
         d.final_pay_by = c.final_pay_by,
         Cardinality(d.current_contributors) <= Len(c.active_order) - 1
  PROVE  LET cutoff == c.next_pay_by + c.active_roscas.contribution_frequency
         IN  /\ cutoff <= MaxMoment
             /\ Running(OpenNextRound(d, cutoff), left - 1)
<1> DEFINE f      == c.active_roscas.contribution_frequency
           order  == c.active_order
           n      == Len(order)
           cutoff == c.next_pay_by + f
           e      == OpenNextRound(d, cutoff)
<1>1. /\ f \in Moment \ {0} /\ c.next_pay_by \in Moment /\ c.final_pay_by \in Moment
      /\ order \in Seq(Accounts) /\ n \in Nat \ {0} /\ left \in Int
  BY RunningTyped
<1>2. MaxMoment \in Nat /\ f \in Nat /\ f > 0 /\ c.next_pay_by \in Nat /\ c.final_pay_by \in Nat
  BY <1>1, LimitsAssumption DEF Moment
<1>3. c.final_pay_by = c.next_pay_by + left * f /\ c.final_pay_by + f <= MaxMoment
  BY DEF Running
<1>4. (left - 1) * f = left * f - f
  <2> HIDE DEF f
  <2> QED BY <1>1, <1>2, OneRoundLess
<1>5. left * f >= 0
  <2> HIDE DEF f
  <2> QED BY <1>1, <1>2, RoundsSign
<1>6. left * f \in Int
  BY <1>1, <1>2
<1>7. cutoff <= MaxMoment /\ cutoff \in Moment /\ c.final_pay_by = cutoff + (left - 1) * f
  <2> DEFINE k == left * f
  <2>1. k \in Int /\ k >= 0 /\ (left - 1) * f = k - f /\ c.final_pay_by = c.next_pay_by + k
    BY Zenon, <1>3, <1>4, <1>5, <1>6
  <2> HIDE DEF k, f
  <2> QED BY <1>2, <1>3, <2>1 DEF Moment
<1>8. /\ RotateRight(order) \in Seq(Accounts)
      /\ Len(RotateRight(order)) = n
      /\ RotateRight(order)[1] = order[n]
      /\ Lists(RotateRight(order), Members(c))
  BY <1>1, RotateRightLists DEF Running
<1>9. order[n] \in Accounts
  BY <1>1
<1>10. ClearPrefix(d.current_contributors, n - 1) = {}
  BY ClearedAll
<1> HIDE DEF f, order, n, cutoff
<1>11. /\ e \in Circle
       /\ e.next_pay_by = cutoff /\ e.eligible_claimant = order[n]
       /\ e.active_order = RotateRight(order)
       /\ e.current_contributors = {} /\ e.current_contribution_count = 0
       /\ e.active_roscas = c.active_roscas
       /\ e.rosca_details = None /\ ~e.completed_roscas
       /\ e.participants = c.participants
       /\ e.participants_count = c.participants_count
       /\ e.invited = c.invited
       /\ e.pending_order = c.pending_order
       /\ e.final_pay_by = c.final_pay_by
  BY ZenonT(60), <1>7, <1>8, <1>9, <1>10 DEF OpenNextRound, Circle, order, n
<1>12. Members(e) = Members(c)
  BY <1>11 DEF Members
<1>13. MembershipConsistentIn(e)
  BY ZenonT(30), <1>11, <1>12 DEF Running, MembershipConsistentIn
<1>14. ContributionsCountedIn(e)
  BY <1>11, FS_EmptySet DEF ContributionsCountedIn
<1>15. e.next_pay_by # None
  BY <1>7, <1>11, NoneAssumption DEF Moment
<1> HIDE DEF e
<1> DEFINE k == left - 1
<1>16. /\ n = e.participants_count /\ n >= 1
       /\ k \in (-1)..(n - 1)
  <2>1. left \in (-1)..(n - 1) /\ n = c.participants_count /\ n >= 1
    BY DEF Running, n, order
  <2> QED BY <1>1, <1>11, <2>1
<1>17. /\ e.final_pay_by = e.next_pay_by + k * e.active_roscas.contribution_frequency
       /\ e.final_pay_by + e.active_roscas.contribution_frequency <= MaxMoment
       /\ e.final_pay_by # None /\ e.active_roscas # None
  <2>1. c.final_pay_by # None /\ c.active_roscas # None
    BY DEF Running
  <2> QED BY Zenon, <1>3, <1>7, <1>11, <2>1 DEF f
<1>18. Lists(e.active_order, Members(e)) /\ Len(e.active_order) = n
       /\ e.eligible_claimant = e.active_order[1]
  BY Zenon, <1>8, <1>11, <1>12
<1> HIDE DEF k
<1>19. Running(e, k)
  BY Zenon, <1>11, <1>13, <1>14, <1>15, <1>16, <1>17, <1>18 DEF Running
<1> QED BY Zenon, <1>7, <1>19 DEF k, e, cutoff, f

\* Closing a round of a running circle opens the next one, or fails.
LEMMA CloseRoundRuns ==
  ASSUME NEW id \in RoscaIds, NEW s, Layer(s), NEW left, Running(s.circle, left), left >= 0
  PROVE  LET q == CloseRound(id, s)
         IN  /\ Layer(q)
             /\ q.ok => /\ Running(q.circle, left - 1)
                        /\ q.circle.participants = s.circle.participants
                        /\ q.circle.participants_count = s.circle.participants_count
                        /\ q.circle.current_contributors = {}
<1> DEFINE c      == s.circle
           r      == process_defaulters(id, s)
           d      == r.circle
           cutoff == d.next_pay_by + d.active_roscas.contribution_frequency
           e      == OpenNextRound(d, cutoff)
           q      == CloseRound(id, s)
<1>1. c.active_roscas # None /\ c.eligible_claimant # None
  <2>1. c.eligible_claimant \in Accounts
    BY RunningTyped
  <2> QED BY Zenon, <2>1, AccountsAssumption DEF Running
<1>2. Layer(r) /\ SameRound(c, d)
  BY <1>1, DefaultersTyped
<1>3. d \in Circle
  BY <1>2 DEF Layer
<1>4. Running(d, left)
  BY <1>2, <1>3, ChargedRuns
<1>5. Cardinality(d.current_contributors) <= Len(d.active_order) - 1
  <2>1. /\ d.current_contribution_count = Cardinality(d.current_contributors)
        /\ \/ d.current_contribution_count = 0
           \/ d.current_contribution_count < Len(d.active_order) - 1
        /\ Len(d.active_order) >= 1
    BY Zenon, <1>4 DEF Running, ContributionsCountedIn, Active
  <2>2. d.current_contribution_count \in Nat /\ Len(d.active_order) \in Nat
    BY <1>3 DEF Circle
  <2>3. \A x, y \in Nat : (x = 0 \/ x < y - 1) /\ y >= 1 => x <= y - 1
    OBVIOUS
  <2> QED BY Zenon, <2>1, <2>2, <2>3
<1>6. Running(e, left - 1)
  <2>1. d.rosca_details = None /\ ~d.completed_roscas
    BY <1>4 DEF Running
  <2> HIDE DEF d
  <2> QED BY ZenonT(30), <1>3, <1>4, <1>5, <2>1, NextRoundRuns
<1>7. /\ e \in Circle
      /\ e.participants = c.participants
      /\ e.participants_count = c.participants_count
      /\ e.current_contributors = {}
  <2>1. e \in Circle
    <3> HIDE DEF e
    <3> QED BY <1>6 DEF Running
  <2>2. ClearPrefix(d.current_contributors, Len(d.active_order) - 1) = {}
    BY <1>5, ClearedAll
  <2>3. /\ e.participants = d.participants
        /\ e.participants_count = d.participants_count
        /\ e.current_contributors = {}
    BY <1>3, <2>2 DEF OpenNextRound, Circle
  <2> HIDE DEF d, e
  <2> QED BY Zenon, <1>2, <2>1, <2>3 DEF SameRound
<1>8. CASE ~r.ok \/ cutoff > MaxMoment
  <2>1. q = Failed(r)
    BY <1>8 DEF CloseRound, advance_rosca_round
  <2>2. Layer(q) /\ ~q.ok
    BY Zenon, <1>2, <2>1 DEF Failed, Layer
  <2> QED BY <2>2
<1>9. CASE ~(~r.ok \/ cutoff > MaxMoment)
  <2>1. q = [r EXCEPT !.circle = e, !.events = Append(@, NewRoundStarted(id, e))]
    BY <1>9 DEF CloseRound, advance_rosca_round
  <2> HIDE DEF e
  <2>2. Layer(q) /\ q.circle = e
    BY Zenon, <1>2, <1>7, <2>1 DEF Layer
  <2> QED BY <1>6, <1>7, <2>2
<1> QED BY Zenon, <1>8, <1>9

\* Closing a round rotates the order, keeps the members and the details, and
\* moves the cutoff by one contribution_frequency.
LEMMA CloseRoundRotates ==
  ASSUME NEW id \in RoscaIds, NEW s, Layer(s), NEW left, Running(s.circle, left),
         CloseRound(id, s).ok
  PROVE  /\ CloseRound(id, s).circle.active_order = RotateRight(s.circle.active_order)
         /\ CloseRound(id, s).circle.participants = s.circle.participants
         /\ CloseRound(id, s).circle.active_roscas = s.circle.active_roscas
         /\ CloseRound(id, s).circle.next_pay_by
                = s.circle.next_pay_by + s.circle.active_roscas.contribution_frequency
<1> DEFINE c      == s.circle
           r      == process_defaulters(id, s)
           d      == r.circle
           cutoff == d.next_pay_by + d.active_roscas.contribution_frequency
           e      == OpenNextRound(d, cutoff)
           q      == CloseRound(id, s)
<1>1. c.active_roscas # None /\ c.eligible_claimant # None
  <2>1. c.eligible_claimant \in Accounts
    BY RunningTyped
  <2> QED BY Zenon, <2>1, AccountsAssumption DEF Running
<1>2. Layer(r) /\ SameRound(c, d)
  BY <1>1, DefaultersTyped
<1>3. d \in Circle
  BY <1>2 DEF Layer
<1>4. /\ e.active_order = RotateRight(d.active_order) /\ e.participants = d.participants
      /\ e.active_roscas = d.active_roscas /\ e.next_pay_by = cutoff
  BY Zenon, <1>3 DEF OpenNextRound, Circle
<1>5. q = IF ~r.ok \/ cutoff > MaxMoment THEN Failed(r)
          ELSE [r EXCEPT !.circle = e, !.events = Append(@, NewRoundStarted(id, e))]
  BY DEF CloseRound, advance_rosca_round
<1> HIDE DEF e, r, q, d
<1>6. ~Failed(r).ok
  BY <1>2 DEF Failed, Layer
<1>7. q.circle = e
  <2>1. q = [r EXCEPT !.circle = e, !.events = Append(@, NewRoundStarted(id, e))]
    BY Zenon, <1>5, <1>6 DEF q
  <2> QED BY <1>2, <2>1 DEF Layer
<1> QED BY Zenon, <1>2, <1>4, <1>7 DEF SameRound, q, c

\* Completing a circle leaves it completed and nothing else.
LEMMA CompleteIsOver ==
  ASSUME NEW id, NEW s, Layer(s), MembershipConsistentIn(s.circle),
         s.circle.rosca_details = None,
         s.circle.next_pay_by # None, s.circle.final_pay_by # None,
         s.circle.eligible_claimant # None
  PROVE  LET q == Complete(id, s)
         IN  /\ Layer(q)
             /\ q.ok = s.ok
             /\ Over(q.circle)
             /\ q.circle.participants = s.circle.participants
             /\ q.circle.participants_count = s.circle.participants_count
             /\ q.circle.current_contributors = s.circle.current_contributors
<1> DEFINE c == s.circle
           d == [c EXCEPT !.completed_roscas = TRUE, !.active_roscas = None]
           q == Complete(id, s)
<1>1. /\ q = [circle |-> q.circle, balance |-> q.balance, events |-> q.events, ok |-> q.ok]
      /\ q.ok = s.ok
      /\ q.balance = s.balance
      /\ q.circle = d
  <2> DEFINE log == Append(s.events, [type |-> "RoscaComplete", rosca_id |-> id])
  <2>1. q = [s EXCEPT !.circle = d, !.events = log]
    BY DEF Complete
  <2> HIDE DEF d, q, log
  <2> QED BY Zenon, <2>1 DEF Layer
<1>2. c \in Circle
  BY DEF Layer
<1>3. /\ d \in Circle
      /\ d.rosca_details = None /\ d.active_roscas = None /\ d.completed_roscas
      /\ d.participants = c.participants
      /\ d.participants_count = c.participants_count
      /\ d.current_contributors = c.current_contributors
      /\ d.invited = c.invited
      /\ d.pending_order = c.pending_order
      /\ d.next_pay_by = c.next_pay_by
      /\ d.final_pay_by = c.final_pay_by
      /\ d.eligible_claimant = c.eligible_claimant
  BY ZenonT(60), <1>2 DEF Circle
<1> HIDE DEF d, q
<1>4. Members(d) = Members(c)
  BY <1>3 DEF Members
<1>5. MembershipConsistentIn(d)
  BY <1>3, <1>4 DEF MembershipConsistentIn
<1>6. Over(d)
  BY <1>3, <1>5 DEF Over
<1> QED BY <1>1, <1>3, <1>6 DEF Layer, q

\* The layer s of a call that started on circle c and has closed some rounds:
\* unless the call has failed, the circle is over or has an open round, the
\* members are those of c, and no contributor has been added.
Caught(s, c) ==
    /\ Layer(s)
    /\ s.ok => /\ Over(s.circle) \/ \E left \in Nat : Running(s.circle, left)
               /\ s.circle.participants = c.participants
               /\ s.circle.participants_count = c.participants_count
               /\ s.circle.current_contributors \subseteq c.current_contributors

\* Closing one late round, and completing the circle when it was the final
\* one, is again such a layer.
LEMMA LateRoundCaught ==
  ASSUME NEW id \in RoscaIds, NEW s, NEW c, NEW t, Caught(s, c)
  PROVE  Caught(CloseLateRound(id, s, t), c)
<1>1. CASE ~(s.ok /\ s.circle.active_roscas # None /\ t >= s.circle.next_pay_by)
  BY <1>1 DEF CloseLateRound
<1>2. CASE s.ok /\ s.circle.active_roscas # None /\ t >= s.circle.next_pay_by
  <2> DEFINE r == CloseRound(id, s)
             q == check_and_complete_rosca(id, r)
  <2>1. PICK left \in Nat : Running(s.circle, left)
    BY <1>2 DEF Caught, Over
  <2>2. Layer(s) /\ left >= 0
    BY DEF Caught
  <2>3. /\ Layer(r)
        /\ r.ok => /\ Running(r.circle, left - 1)
                   /\ r.circle.participants = s.circle.participants
                   /\ r.circle.participants_count = s.circle.participants_count
                   /\ r.circle.current_contributors = {}
    BY <2>1, <2>2, CloseRoundRuns
  <2> HIDE DEF r
  <2>4. q = CloseLateRound(id, s, t)
    BY Zenon, <1>2 DEF CloseLateRound, r
  <2>5. CASE r.ok /\ r.circle.next_pay_by > r.circle.final_pay_by
    <3>1. q = Complete(id, r)
      BY <2>5 DEF check_and_complete_rosca
    <3>2. r.circle.eligible_claimant # None
      <4>1. r.circle.eligible_claimant \in Accounts
        BY ZenonT(30), <2>3, <2>5, RunningTyped
      <4> QED BY <4>1, AccountsAssumption
    <3>3. /\ Layer(q) /\ Over(q.circle)
          /\ q.circle.participants = r.circle.participants
          /\ q.circle.participants_count = r.circle.participants_count
          /\ q.circle.current_contributors = r.circle.current_contributors
      BY <2>3, <2>5, <3>1, <3>2, CompleteIsOver DEF Running
    <3> QED BY Zenon, <1>2, <2>3, <2>4, <2>5, <3>3 DEF Caught
  <2>6. CASE ~(r.ok /\ r.circle.next_pay_by > r.circle.final_pay_by)
    <3>1. q = r
      BY <2>6 DEF check_and_complete_rosca
    <3>2. ASSUME r.ok PROVE left - 1 \in Nat
      <4> DEFINE f == r.circle.active_roscas.contribution_frequency
      <4>1. f \in Moment \ {0} /\ r.circle.next_pay_by \in Moment /\ r.circle.final_pay_by \in Moment
        BY Zenon, <2>3, <3>2, RunningTyped
      <4>2. r.circle.final_pay_by = r.circle.next_pay_by + (left - 1) * f
        BY <2>3, <3>2 DEF Running
      <4>3. ~(r.circle.next_pay_by > r.circle.final_pay_by)
        BY <2>6, <3>2
      <4> HIDE DEF f
      <4>4. f \in Nat /\ f > 0 /\ r.circle.next_pay_by \in Nat /\ r.circle.final_pay_by \in Nat
        BY <4>1, LimitsAssumption DEF Moment
      <4>5. (left - 1) * f \in Int
        BY <4>4
      <4>6. (left - 1) * f >= 0
        BY <4>2, <4>3, <4>4, <4>5
      <4> QED BY <4>4, <4>6, RoundsSign
    <3> QED BY Zenon, <1>2, <2>3, <2>4, <3>1, <3>2 DEF Caught
  <2> QED BY <2>5, <2>6
<1> QED BY Zenon, <1>1, <1>2

\* The loop of contribute_to_rosca leaves a circle that is over or has an
\* open round.
LEMMA CatchUpCaught ==
  ASSUME NEW id \in RoscaIds, NEW s, NEW t, Caught(s, s.circle)
  PROVE  Caught(CatchUp(id, s, t), s.circle)
<1> DEFINE n == Len(s.circle.active_order)
<1>1. n \in Nat
  BY DEF Caught, Layer, Circle
<1>2. PICK g : CatchUpRun(g, id, s, t)
  BY <1>1, CatchUpLoop
<1>3. /\ CatchUp(id, s, t) = g[n]
      /\ g[0] = s
      /\ \A i \in 1..n : g[i] = CloseLateRound(id, g[i-1], t)
  BY <1>2 DEF CatchUpRun
<1> HIDE DEF n
<1> DEFINE S == {i \in Nat : i <= n => Caught(g[i], s.circle)}
<1>4. 0 \in S
  BY <1>3
<1>5. \A i \in Nat : i \in S => i + 1 \in S
  <2> SUFFICES ASSUME NEW i \in Nat, i \in S, i + 1 <= n PROVE Caught(g[i + 1], s.circle)
    BY <1>1
  <2>1. Caught(g[i], s.circle) /\ i + 1 \in 1..n /\ (i + 1) - 1 = i
    BY <1>1
  <2>2. g[i + 1] = CloseLateRound(id, g[i], t)
    BY <1>3, <2>1
  <2> QED BY Zenon, <2>1, <2>2, LateRoundCaught
<1>6. n \in S
  <2> HIDE DEF S
  <2> QED BY Zenon, <1>1, <1>4, <1>5, NatSetInduction
<1> QED BY <1>1, <1>3, <1>6

\* The layer of manually_end_rosca between two tests of its loop.
Closing(s) == Layer(s) /\ (s.ok => \E left \in Int : Running(s.circle, left))

\* Closing a remaining round is again such a layer.
LEMMA RemainingRoundClosing ==
  ASSUME NEW id \in RoscaIds, NEW s, Closing(s)
  PROVE  Closing(CloseRemainingRound(id, s))
<1>1. CASE ~(s.ok /\ RoundRemains(s.circle))
  BY <1>1 DEF CloseRemainingRound
<1>2. CASE s.ok /\ RoundRemains(s.circle)
  <2> DEFINE c == s.circle
             f == c.active_roscas.contribution_frequency
  <2>1. PICK left \in Int : Running(c, left)
    BY <1>2 DEF Closing
  <2>2. f \in Moment \ {0} /\ c.next_pay_by \in Moment /\ c.final_pay_by \in Moment
    BY Zenon, <2>1, RunningTyped
  <2>3. c.final_pay_by = c.next_pay_by + left * f
    BY <2>1 DEF Running
  <2>4. c.next_pay_by <= c.final_pay_by
    BY <1>2 DEF RoundRemains
  <2>5. left >= 0
    <3> HIDE DEF f, c
    <3>1. f \in Nat /\ f > 0 /\ c.next_pay_by \in Nat /\ c.final_pay_by \in Nat
      BY <2>2, LimitsAssumption DEF Moment
    <3>2. left * f \in Int
      BY <3>1
    <3>3. left * f >= 0
      BY <2>3, <2>4, <3>1, <3>2
    <3> QED BY <3>1, <3>3, RoundsSign
  <2>6. Layer(s)
    BY DEF Closing
  <2>7. /\ Layer(CloseRound(id, s))
        /\ CloseRound(id, s).ok => Running(CloseRound(id, s).circle, left - 1)
    BY <2>1, <2>5, <2>6, CloseRoundRuns
  <2>8. left - 1 \in Int
    OBVIOUS
  <2> QED BY <1>2, <2>7, <2>8 DEF CloseRemainingRound, Closing
<1> QED BY <1>1, <1>2

\* So is the layer at the end of the loop.
LEMMA CloseAllClosing ==
  ASSUME NEW id \in RoscaIds, NEW s, Closing(s)
  PROVE  Closing(CloseAllRounds(id, s))
<1> DEFINE n == Len(s.circle.active_order)
<1>1. n \in Nat
  BY DEF Closing, Layer, Circle
<1>2. PICK g : CloseAllRun(g, id, s)
  BY <1>1, CloseAllLoop
<1>3. /\ CloseAllRounds(id, s) = g[n]
      /\ g[0] = s
      /\ \A i \in 1..n : g[i] = CloseRemainingRound(id, g[i-1])
  BY <1>2 DEF CloseAllRun
<1> HIDE DEF n
<1> DEFINE S == {i \in Nat : i <= n => Closing(g[i])}
<1>4. 0 \in S
  BY <1>3
<1>5. \A i \in Nat : i \in S => i + 1 \in S
  <2> SUFFICES ASSUME NEW i \in Nat, i \in S, i + 1 <= n PROVE Closing(g[i + 1])
    BY <1>1
  <2>1. Closing(g[i]) /\ i + 1 \in 1..n /\ (i + 1) - 1 = i
    BY <1>1
  <2>2. g[i + 1] = CloseRemainingRound(id, g[i])
    BY <1>3, <2>1
  <2> QED BY Zenon, <2>1, <2>2, RemainingRoundClosing
<1>6. n \in S
  <2> HIDE DEF S
  <2> QED BY Zenon, <1>1, <1>4, <1>5, NatSetInduction
<1> QED BY <1>1, <1>3, <1>6

\* A contribution to a running circle, by a member who is not yet recorded
\* and is not alone, is recorded; or it closes the round; or it fails.
LEMMA ContributionPaid ==
  ASSUME NEW id \in RoscaIds, NEW s, Layer(s), s.ok,
         NEW left \in Nat, Running(s.circle, left),
         NEW signer \in Members(s.circle), signer \notin s.circle.current_contributors,
         s.circle.participants_count >= 2
  PROVE  LET q == PayContribution(id, s, signer)
         IN  /\ Layer(q)
             /\ q.ok => Over(q.circle) \/ \E k \in Nat : Running(q.circle, k)
<1> DEFINE c      == s.circle
           rosca  == c.active_roscas
           f      == rosca.contribution_frequency
           n      == Len(c.active_order)
           count  == c.current_contribution_count + 1
           cutoff == c.next_pay_by + f
           paid   == Transfer(s.balance, rosca.payment_asset, signer, c.eligible_claimant,
                              rosca.contribution_amount)
           d      == [c EXCEPT !.current_contributors = c.current_contributors \cup {signer},
                               !.current_contribution_count = count]
           p      == CountContribution(id, s, signer)
           e      == OpenNextRound(p.circle, cutoff)
           q      == PayContribution(id, s, signer)
           can    == CanTransfer(s.balance, rosca.payment_asset, signer,
                                 c.eligible_claimant, rosca.contribution_amount)
<1>1. /\ c \in Circle /\ rosca \in RoscaDetails /\ f \in Moment \ {0}
      /\ c.next_pay_by \in Moment /\ c.final_pay_by \in Moment
      /\ c.active_order \in Seq(Accounts) /\ n \in Nat \ {0}
      /\ c.eligible_claimant \in Accounts /\ signer \in Accounts
  BY Zenon, RunningTyped DEF Running, Members
<1>2. /\ c.current_contribution_count = Cardinality(c.current_contributors)
      /\ c.current_contributors \subseteq Members(c)
      /\ c.current_contribution_count = 0 \/ c.current_contribution_count < n - 1
      /\ n >= 2
  BY DEF Running, ContributionsCountedIn, Active
<1>3. c.current_contribution_count \in Nat /\ c.current_contributors \subseteq Accounts
  BY ZenonT(30), <1>1 DEF Circle
<1>4. IsFiniteSet(c.current_contributors)
  BY <1>3, AccountsAssumption, FS_Subset
<1>5. Cardinality(c.current_contributors \cup {signer}) = count
  BY Zenon, <1>2, <1>4, FS_AddElement
<1>6. can => paid \in Ledger
  <2>1. /\ rosca.payment_asset \in PaymentAssets
        /\ rosca.contribution_amount \in 1..MaxU32
    BY <1>1 DEF RoscaDetails
  <2>2. rosca.contribution_amount \in Nat
    BY <2>1, LimitsAssumption
  <2>3. signer \in Holders /\ c.eligible_claimant \in Holders
    BY <1>1 DEF Holders
  <2> HIDE DEF rosca, c
  <2> QED BY <2>1, <2>2, <2>3, TransferTyped DEF Layer
<1>7. /\ d \in Circle
      /\ d.current_contributors = c.current_contributors \cup {signer}
      /\ d.current_contribution_count = count
      /\ d.active_order = c.active_order /\ d.active_roscas = rosca
      /\ d.rosca_details = c.rosca_details /\ d.completed_roscas = c.completed_roscas
      /\ d.participants = c.participants
      /\ d.participants_count = c.participants_count
      /\ d.invited = c.invited /\ d.pending_order = c.pending_order
      /\ d.next_pay_by = c.next_pay_by /\ d.final_pay_by = c.final_pay_by
      /\ d.eligible_claimant = c.eligible_claimant
  <2>1. count \in Nat /\ c.current_contributors \cup {signer} \in SUBSET Accounts
    BY <1>1, <1>3
  <2>2. c \in Circle
    BY <1>1
  <2> HIDE DEF c, count
  <2> QED BY ZenonT(60), <2>1, <2>2 DEF Circle, rosca
<1>8. Members(d) = Members(c)
  BY Zenon, <1>7 DEF Members
<1>9. MembershipConsistentIn(d)
  BY <1>7, <1>8 DEF Running, MembershipConsistentIn
<1>10. /\ p.circle = d /\ p.ok = s.ok /\ p.balance = paid
       /\ p = [circle |-> p.circle, balance |-> p.balance, events |-> p.events, ok |-> p.ok]
  <2> DEFINE log == Append(s.events,
                       [type |-> "ContributionMade", rosca_id |-> id, contributor |-> signer,
                        recipient |-> c.eligible_claimant,
                        amount |-> rosca.contribution_amount])
  <2>1. p = [s EXCEPT !.balance = paid, !.circle = d, !.events = log]
    BY DEF CountContribution
  <2> HIDE DEF p, d, paid, log
  <2> QED BY Zenon, <2>1 DEF Layer
<1> HIDE DEF p, d, can, paid
<1>11. q = IF ~can THEN Failed(s)
           ELSE IF p.circle.current_contribution_count # n - 1 THEN p
           ELSE IF cutoff > MaxMoment THEN Failed(s)
           ELSE IF cutoff > c.final_pay_by THEN Complete(id, p)
           ELSE [p EXCEPT !.circle = e, !.events = Append(@, NewRoundStarted(id, e))]
  BY DEF PayContribution, p, can
<1>12. can => Layer(p)
  BY <1>6, <1>7, <1>10 DEF Layer
<1>13. p.circle.current_contribution_count = count
  BY Zenon, <1>7, <1>10
<1> HIDE DEF q
<1>14. CASE ~can \/ (count = n - 1 /\ cutoff > MaxMoment)
  <2>1. q = Failed(s)
    BY <1>11, <1>13, <1>14
  <2>2. Layer(q) /\ ~q.ok
    BY Zenon, <2>1 DEF Failed, Layer
  <2> QED BY <2>2 DEF q
<1>15. CASE can /\ count # n - 1
  <2>1. q = p
    BY Zenon, <1>11, <1>13, <1>15
  <2>2. ContributionsCountedIn(d)
    <3>1. d.current_contribution_count < n - 1
      BY <1>1, <1>2, <1>3, <1>7, <1>15
    <3>2. d.final_pay_by # None
      BY ZenonT(30), <1>7 DEF Running
    <3> QED BY Zenon, <1>2, <1>5, <1>7, <1>8, <3>1, <3>2 DEF ContributionsCountedIn
  <2>3. Running(d, left)
    BY Zenon, <1>7, <1>8, <1>9, <2>2 DEF Running
  <2> QED BY <1>10, <1>12, <1>15, <2>1, <2>3 DEF q
<1>16. CASE can /\ count = n - 1 /\ ~(cutoff > MaxMoment) /\ cutoff > c.final_pay_by
  <2>1. q = Complete(id, p)
    BY Zenon, <1>11, <1>13, <1>16
  <2>2. /\ d.rosca_details = None /\ d.next_pay_by # None /\ d.final_pay_by # None
        /\ d.eligible_claimant # None
    BY Zenon, <1>1, <1>7, AccountsAssumption DEF Running
  <2>3. Layer(q) /\ Over(q.circle)
    BY Zenon, <1>9, <1>10, <1>12, <1>16, <2>1, <2>2, CompleteIsOver
  <2> QED BY <2>3 DEF q
<1>17. CASE can /\ count = n - 1 /\ ~(cutoff > MaxMoment) /\ ~(cutoff > c.final_pay_by)
  <2>1. q = [p EXCEPT !.circle = e, !.events = Append(@, NewRoundStarted(id, e))]
    BY Zenon, <1>11, <1>13, <1>17
  <2>2. Cardinality(d.current_contributors) <= n - 1
    BY <1>1, <1>3, <1>5, <1>7, <1>17
  <2>3. Running(e, left - 1)
    <3>1. d.rosca_details = None /\ ~d.completed_roscas
      BY <1>7 DEF Running
    <3>2. left >= 0
      OBVIOUS
    <3>3. Running(OpenNextRound(d, cutoff), left - 1)
      BY Zenon, <1>7, <2>2, <3>1, <3>2, NextRoundRuns
    <3> QED BY Zenon, <1>10, <3>3
  <2>4. left - 1 \in Nat
    <3>1. c.final_pay_by = c.next_pay_by + left * f
      BY DEF Running
    <3> HIDE DEF f, c
    <3>2. f \in Nat /\ f > 0 /\ c.next_pay_by \in Nat /\ c.final_pay_by \in Nat
      BY <1>1, LimitsAssumption DEF Moment
    <3>3. left * f \in Int /\ (left - 1) * f = left * f - f
      BY <3>2, OneRoundLess
    <3>4. c.next_pay_by + f <= c.final_pay_by
      BY <1>17, <3>2
    <3>5. (left - 1) * f >= 0
      <4>1. \A y, z, g \in Nat, x \in Int : z = y + x /\ y + g <= z => x - g >= 0
        OBVIOUS
      <4> QED BY Zenon, <3>1, <3>2, <3>3, <3>4, <4>1
    <3> QED BY <3>2, <3>5, RoundsSign
  <2> HIDE DEF e
  <2>5. e \in Circle
    BY <2>3 DEF Running
  <2>6. Layer(q) /\ q.circle = e
    BY Zenon, <1>12, <1>17, <2>1, <2>5 DEF Layer
  <2> QED BY <2>3, <2>4, <2>6 DEF q
<1> QED BY <1>14, <1>15, <1>16, <1>17

=============================================================================
