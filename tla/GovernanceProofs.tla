-------------------------- MODULE GovernanceProofs --------------------------
(***************************************************************************)
(* Referenda and proxies: the slots of the tracks, what an approval has    *)
(* been through and what acts as root, and the deposits that proxies and   *)
(* announcements reserve.  The two pallets keep their own clocks and       *)
(* accounts and are proved about one after the other.                      *)
(***************************************************************************)
EXTENDS Governance, Proxies, SumLemmas

\* The obligations are large; each prover call may take a minute.
USE SMTT(60)

-----------------------------------------------------------------------------
(***************************************************************************)
(* Governance.                                                             *)
(***************************************************************************)

\* The calls of referenda, and the one of an index not yet handed out.
GovCalls == {f[r].call : f \in Plans, r \in Referenda} \cup {[kind |-> "none"]}

GovRecords ==
    [status : {"none", "ongoing", "approved", "rejected", "timedout", "cancelled", "killed"},
     origin : Origins, call : GovCalls,
     submitted : Int, deposit : BOOLEAN, since : Int, confirming : Int, queued : BOOLEAN,
     alarm : Int, passing : BOOLEAN, lost : Int]

\* What the record q of an ongoing referendum says of its deciding: only one
\* that left the queue is being decided, and a confirmation that runs began
\* after the deciding did, and after the last look that found the votes failing.
Confirmable(q, at) ==
    /\ q.since <= at /\ q.lost <= at
    /\ q.queued => q.since = Never
    /\ q.confirming # Never =>
          LET p == TRACKS_DATA[track_for(q.origin)].confirm_period
          IN  /\ q.since # Never
              /\ q.since + p <= q.confirming /\ q.lost + p <= q.confirming

\* The record q holds a deciding slot of track id.
HoldsSlot(q, id) ==
    q.status = "ongoing" /\ track_for(q.origin) = id /\ q.since # Never

SlotHolders(id) == {r \in Referenda : HoldsSlot(referendum[r], id)}

\* The record q of an entry in the queue of track id: its referendum waits
\* for the track's slot, or has ended.
Entry(q, id) ==
    /\ q.status # "none"
    /\ q.status = "ongoing" => q.queued /\ track_for(q.origin) = id

\* The inductive invariant of the referenda.
GovInv ==
    /\ plan \in Plans /\ now \in Nat
    /\ referendum \in [Referenda -> GovRecords]
    /\ deciding \in [TrackIds -> Nat] /\ freed \in [TrackIds -> Nat]
    /\ early \in [TrackIds -> Nat]
    /\ queue \in [TrackIds -> SUBSET Referenda]
    /\ \A id \in TrackIds : \A r \in queue[id] : Entry(referendum[r], id)
    /\ \A r \in Referenda : referendum[r].status = "ongoing" => Confirmable(referendum[r], now)
    /\ \A e \in agenda : /\ e.at \in Nat /\ e.of \in Referenda
                         /\ referendum[e.of].status = "approved"
    /\ \A id \in TrackIds :
          /\ deciding[id] <= Cardinality(SlotHolders(id)) + freed[id]
          /\ Cardinality(SlotHolders(id)) + freed[id] <= deciding[id] + early[id]
          /\ deciding[id] <= TRACKS_DATA[id].max_deciding

\* Every origin has a track of the table.
LEMMA TrackFor ==
  ASSUME NEW o \in Origins
  PROVE  track_for(o) \in TrackIds
BY DEF Origins, track_for, TrackIds

\* The periods and the slots of a track.
TrackRecords ==
    [max_deciding : Nat, decision_deposit : Nat, prepare_period : Nat, decision_period : Nat,
     confirm_period : Nat, min_enactment_period : Nat]

LEMMA TrackTyped ==
  ASSUME NEW id \in TrackIds
  PROVE  TRACKS_DATA[id] \in TrackRecords
<1> DEFINE T == TRACKS_DATA
<1>1. /\ T[0] = Track(1, 100 * GRAND, 8, 20, 12, 5)
      /\ T[1] = Track(100, 10 * GRAND, 6, 20, 4, 3)
      /\ T[11] = Track(10, GRAND, 8, 20, 8, 5)
      /\ T[20] = Track(1000, 10 * GRAND, 8, 14, 8, 3)
      /\ T[21] = Track(1000, 50 * GRAND, 8, 20, 8, 3)
      /\ T[30] = Track(200, 3, 1, 14, 4, 1)
      /\ T[31] = Track(100, 10 * 3, 4, 14, 12, 3)
      /\ T[32] = Track(50, 100 * 3, 10, 20, 10, 5)
      /\ T[33] = Track(50, 200 * 3, 10, 20, 12, 5)
      /\ T[34] = Track(50, 400 * 3, 10, 20, 14, 5)
  BY DEF TRACKS_DATA, TrackIds
<1>2. \A k \in TrackIds : T[k] \in TrackRecords
  <2> HIDE DEF T
  <2> QED BY <1>1 DEF Track, MINUTES, GRAND, TrackIds, TrackRecords
<1> QED BY <1>2

\* Among moments later than a natural number there is an earliest.
LEMMA LeastMoment ==
  ASSUME NEW S \in SUBSET Nat, S # {}
  PROVE  Min(S) \in S
<1> DEFINE Later == {n \in Nat : \A x \in S : n <= x}
<1>1. PICK m \in S : m \in Nat
  BY Zenon
<1>2. \E n \in Nat : n \in Later /\ n + 1 \notin Later
  <2> SUFFICES ASSUME \A n \in Nat : n \in Later => n + 1 \in Later
               PROVE  FALSE
    OBVIOUS
  <2>1. 0 \in Later
    OBVIOUS
  <2>2. \A n \in Nat : n \in Later
    <3> HIDE DEF Later
    <3> QED BY <2>1, NatSetInduction
  <2>3. m + 1 \in Later
    BY <1>1, <2>2
  <2> QED BY <1>1, <2>3
<1>3. PICK n \in Nat : n \in Later /\ n + 1 \notin Later
  BY <1>2
<1>4. n \in S /\ \A y \in S : n <= y
  <2>1. PICK x \in S : ~(n + 1 <= x)
    BY <1>3
  <2>2. n <= x /\ x \in Nat
    BY <1>3
  <2>3. x = n
    BY <2>1, <2>2
  <2> QED BY <1>3, <2>3
<1> QED
  BY Zenon, <1>4 DEF Min

\* The greater of two moments.
LEMMA GreaterMoment ==
  ASSUME NEW a \in Int, NEW b \in Int
  PROVE  Max({a, b}) \in {a, b}
<1>1. \E x \in {a, b} : \A y \in {a, b} : x >= y
  <2>1. CASE a >= b
    BY <2>1
  <2>2. CASE b >= a
    BY <2>2
  <2> QED BY <2>1, <2>2
<1> QED
  BY Zenon, <1>1 DEF Max

\* How many slots of track id the record q holds.
Held(q, id) == IF HoldsSlot(q, id) THEN 1 ELSE 0

\* Replacing the record of r changes the number of slot holders of a track by
\* what the new record holds less what the old one held.
LEMMA SetSlots ==
  ASSUME MaxReferenda \in Nat, referendum \in [Referenda -> GovRecords],
         NEW r \in Referenda, NEW q, NEW id, Set(r, q)
  PROVE  /\ Cardinality(SlotHolders(id)) \in Nat
         /\ Cardinality(SlotHolders(id)') =
              Cardinality(SlotHolders(id)) + Held(q, id) - Held(referendum[r], id)
<1> DEFINE H == SlotHolders(id)
           K == SlotHolders(id)'
<1>1. IsFiniteSet(H) /\ Cardinality(H) \in Nat
  <2>1. IsFiniteSet(Referenda)
    BY FS_Interval DEF Referenda
  <2>2. H \subseteq Referenda
    BY DEF SlotHolders
  <2> HIDE DEF H
  <2> QED BY <2>1, <2>2, FS_Subset, FS_CardinalityType
<1>2. \A x \in Referenda : referendum'[x] = IF x = r THEN q ELSE referendum[x]
  BY DEF Set
<1>3. K = {x \in Referenda : HoldsSlot(referendum'[x], id)}
  BY DEF SlotHolders
<1>4. (r \in H <=> HoldsSlot(referendum[r], id)) /\ (r \in K <=> HoldsSlot(q, id))
  BY <1>2, <1>3 DEF SlotHolders
<1>5. \A x : x # r => (x \in H <=> x \in K)
  BY <1>2, <1>3 DEF SlotHolders
<1> HIDE DEF H, K
<1>6. CASE HoldsSlot(q, id)
  <2>1. K = H \cup {r}
    BY <1>4, <1>5, <1>6
  <2>2. Cardinality(K) = IF r \in H THEN Cardinality(H) ELSE Cardinality(H) + 1
    BY <1>1, <2>1, FS_AddElement
  <2> QED BY <1>1, <1>4, <1>6, <2>2 DEF Held, H, K
<1>7. CASE ~HoldsSlot(q, id)
  <2>1. K = H \ {r}
    BY <1>4, <1>5, <1>7
  <2>2. CASE r \in H
    <3>1. Cardinality(K) = Cardinality(H) - 1
      BY Zenon, <1>1, <2>1, <2>2, FS_RemoveElement
    <3> QED BY <1>1, <1>4, <1>7, <2>2, <3>1 DEF Held, H, K
  <2>3. CASE r \notin H
    <3>1. K = H
      BY Zenon, <2>1, <2>3
    <3> QED BY <1>1, <1>4, <1>7, <2>3, <3>1 DEF Held, H, K
  <2> QED BY <2>2, <2>3
<1> QED
  BY <1>6, <1>7

\* No look at the tally of r during the last confirm_period found it failing.
Confirmed(r) ==
    Max({referendum[r].since, referendum[r].lost}) + track(r).confirm_period <= now

\* What a step may do about approvals: the record of an approved referendum
\* stays, and a referendum is approved only when its votes were confirmed.
ApprovalsKept ==
    \A r \in Referenda :
        IF referendum[r].status = "approved" THEN referendum'[r] = referendum[r]
        ELSE referendum'[r].status = "approved" => Confirmed(r)

\* The queues after the record of r became q: entries are those there were,
\* and r where its record belongs.
QueueFits(r, q) ==
    /\ queue' \in [TrackIds -> SUBSET Referenda]
    /\ \A id \in TrackIds : \A x \in queue'[id] : IF x = r THEN Entry(q, id) ELSE x \in queue[id]

\* The counts of a track after the record of r became q: the count of slots,
\* the releases on their way and the holders move together, but for a removal
\* before the deciding.
CountsFit(r, q, id) ==
    /\ deciding'[id] <= TRACKS_DATA[id].max_deciding
    /\ early'[id] >= early[id]
    /\ deciding'[id] - freed'[id] + early'[id]
          = deciding[id] - freed[id] + early[id] + Held(q, id) - Held(referendum[r], id)

\* A step that replaces one record keeps the invariant when the new record,
\* the agenda, the queues and the counts of slots fit together.
LEMMA SetKeeps ==
  ASSUME MaxReferenda \in Nat, GovInv, now' = now, plan' = plan,
         NEW r \in Referenda, NEW q \in GovRecords, Set(r, q),
         referendum[r].status # "approved",
         q.status = "ongoing" => Confirmable(q, now), q.status = "approved" => Confirmed(r),
         \A e \in agenda' : e \in agenda \/ (e.at \in Nat /\ e.of = r /\ q.status = "approved"),
         deciding' \in [TrackIds -> Nat], freed' \in [TrackIds -> Nat],
         early' \in [TrackIds -> Nat],
         QueueFits(r, q), \A id \in TrackIds : CountsFit(r, q, id)
  PROVE  GovInv' /\ ApprovalsKept
<1>1. /\ referendum' \in [Referenda -> GovRecords]
      /\ \A x \in Referenda : referendum'[x] = IF x = r THEN q ELSE referendum[x]
  BY DEF GovInv, Set
<1>2. \A x \in Referenda : referendum'[x].status = "ongoing" => Confirmable(referendum'[x], now)
  BY <1>1 DEF GovInv
<1>3. \A e \in agenda' : /\ e.at \in Nat /\ e.of \in Referenda
                          /\ referendum'[e.of].status = "approved"
  BY <1>1 DEF GovInv
<1>4. ASSUME NEW id \in TrackIds
      PROVE  /\ deciding'[id] <= Cardinality(SlotHolders(id)') + freed'[id]
             /\ Cardinality(SlotHolders(id)') + freed'[id] <= deciding'[id] + early'[id]
             /\ deciding'[id] <= TRACKS_DATA[id].max_deciding
  <2>1. /\ Cardinality(SlotHolders(id)) \in Nat
        /\ Cardinality(SlotHolders(id)') =
              Cardinality(SlotHolders(id)) + Held(q, id) - Held(referendum[r], id)
    BY SetSlots DEF GovInv
  <2>2. /\ deciding[id] <= Cardinality(SlotHolders(id)) + freed[id]
        /\ Cardinality(SlotHolders(id)) + freed[id] <= deciding[id] + early[id]
    BY DEF GovInv
  <2>3. /\ deciding[id] \in Nat /\ freed[id] \in Nat /\ early[id] \in Nat
        /\ deciding'[id] \in Nat /\ freed'[id] \in Nat /\ early'[id] \in Nat
        /\ Held(q, id) \in Nat /\ Held(referendum[r], id) \in Nat
    BY DEF GovInv, Held
  <2>4. CountsFit(r, q, id)
    BY Zenon
  <2> QED BY <2>1, <2>2, <2>3, <2>4 DEF CountsFit
<1>5. \A id \in TrackIds : Cardinality(SlotHolders(id))' = Cardinality(SlotHolders(id)')
  OBVIOUS
<1>6. ApprovalsKept
  BY <1>1 DEF ApprovalsKept
<1>7. /\ queue' \in [TrackIds -> SUBSET Referenda]
      /\ \A id \in TrackIds : \A x \in queue'[id] : Entry(referendum'[x], id)
  <2>1. queue' \in [TrackIds -> SUBSET Referenda]
    BY Zenon DEF QueueFits
  <2>2. ASSUME NEW id \in TrackIds, NEW x \in queue'[id]
        PROVE  Entry(referendum'[x], id)
    <3>1. x \in Referenda
      BY <2>1, <2>2
    <3>2. x = r => Entry(q, id)
      BY Zenon, <2>2 DEF QueueFits
    <3>3. x # r => Entry(referendum[x], id)
      BY Zenon, <2>2 DEF QueueFits, GovInv
    <3> QED BY <1>1, <3>1, <3>2, <3>3
  <2> QED BY Zenon, <2>1, <2>2
<1>8. /\ plan' \in Plans /\ now' \in Nat
      /\ \A x \in Referenda : referendum'[x].status = "ongoing" => Confirmable(referendum'[x], now')
  BY Zenon, <1>2 DEF GovInv
<1> QED
  BY Zenon, <1>1, <1>3, <1>4, <1>5, <1>6, <1>7, <1>8 DEF GovInv

\* The track of a record, and its periods.
LEMMA TrackOf ==
  ASSUME NEW q \in GovRecords
  PROVE  /\ track_for(q.origin) \in TrackIds
         /\ TRACKS_DATA[track_for(q.origin)] \in TrackRecords
         /\ q.origin \in Origins
<1>1. q.origin \in Origins
  BY DEF GovRecords
<1> QED
  BY <1>1, TrackFor, TrackTyped

\* A referendum that enters the deciding phase.
LEMMA BegunRecord ==
  ASSUME NEW q \in GovRecords, q.status = "ongoing", now \in Nat, Confirmable(q, now)
  PROVE  LET b == Begun(q, TRACKS_DATA[track_for(q.origin)])
         IN  /\ b \in GovRecords /\ b.status = "ongoing" /\ b.origin = q.origin
             /\ b.since = now /\ Confirmable(b, now)
<1> DEFINE t == TRACKS_DATA[track_for(q.origin)]
           b == Begun(q, t)
<1>1. t \in TrackRecords
  BY TrackOf
<1>2. t.confirm_period \in Nat /\ t.decision_period \in Nat
  BY <1>1 DEF TrackRecords
<1> HIDE DEF t
<1>3. /\ b \in GovRecords /\ b.status = "ongoing" /\ b.origin = q.origin /\ b.since = now
      /\ b.queued = FALSE
      /\ b.lost = IF q.passing THEN q.lost ELSE now
      /\ b.confirming = IF q.passing THEN now + t.confirm_period ELSE Never
  <2> DEFINE c == IF q.passing THEN now + t.confirm_period ELSE Never
             l == IF q.passing THEN q.lost ELSE now
             a == IF q.passing THEN c ELSE now + t.decision_period
  <2>1. c \in Int /\ l \in Int /\ a \in Int /\ now \in Int
    BY <1>2 DEF GovRecords, Never
  <2>2. b = [q EXCEPT !.since = now, !.queued = FALSE, !.confirming = c, !.lost = l, !.alarm = a]
    BY Zenon DEF Begun
  <2> HIDE DEF b
  <2>3. /\ b \in GovRecords /\ b.status = q.status /\ b.origin = q.origin /\ b.since = now
        /\ b.queued = FALSE /\ b.confirming = c /\ b.lost = l
    <3> HIDE DEF c, l, a
    <3>1. b \in GovRecords
      BY Zenon, <2>1, <2>2 DEF GovRecords
    <3>2. b.status = q.status /\ b.origin = q.origin
      BY Zenon, <2>1, <2>2 DEF GovRecords
    <3>3. b.since = now /\ b.queued = FALSE
      BY Zenon, <2>1, <2>2 DEF GovRecords
    <3>4. b.confirming = c /\ b.lost = l
      BY Zenon, <2>1, <2>2 DEF GovRecords
    <3> QED BY Zenon, <3>1, <3>2, <3>3, <3>4
  <2> QED BY Zenon, <2>3
<1>4. q.lost \in Int /\ q.lost <= now
  BY DEF GovRecords, Confirmable
<1> HIDE DEF b
<1>5. Confirmable(b, now)
  <2>1. TRACKS_DATA[track_for(b.origin)] = t
    BY <1>3 DEF t
  <2> QED BY <1>2, <1>3, <1>4, <2>1 DEF Confirmable, Never
<1> QED
  BY <1>3, <1>5 DEF b, t

\* A referendum whose deciding goes on.
LEMMA StillDecidingRecord ==
  ASSUME NEW q \in GovRecords, q.status = "ongoing", now \in Nat, Confirmable(q, now),
         q.since # Never
  PROVE  LET b == StillDeciding(q, TRACKS_DATA[track_for(q.origin)])
         IN  /\ b \in GovRecords /\ b.status = "ongoing" /\ b.origin = q.origin
             /\ b.since = q.since /\ Confirmable(b, now)
<1> DEFINE t == TRACKS_DATA[track_for(q.origin)]
           b == StillDeciding(q, t)
<1>1. t \in TrackRecords
  BY TrackOf
<1>2. t.confirm_period \in Nat /\ t.decision_period \in Nat
  BY <1>1 DEF TrackRecords
<1> HIDE DEF t
<1>3. /\ b \in GovRecords /\ b.status = "ongoing" /\ b.origin = q.origin /\ b.since = q.since
      /\ b.queued = q.queued
      /\ b.lost = IF q.passing THEN q.lost ELSE now
      /\ b.confirming = IF ~q.passing THEN Never
                        ELSE IF q.confirming = Never THEN now + t.confirm_period
                        ELSE q.confirming
  <2> DEFINE c == IF ~q.passing THEN Never
                  ELSE IF q.confirming = Never THEN now + t.confirm_period
                  ELSE q.confirming
             l == IF q.passing THEN q.lost ELSE now
             a == IF q.passing THEN c ELSE q.since + t.decision_period
  <2>1. c \in Int /\ l \in Int /\ a \in Int /\ now \in Int
    BY <1>2 DEF GovRecords, Never
  <2>2. b = [q EXCEPT !.confirming = c, !.lost = l, !.alarm = a]
    BY Zenon DEF StillDeciding
  <2> HIDE DEF b
  <2>3. /\ b \in GovRecords /\ b.status = q.status /\ b.origin = q.origin /\ b.since = q.since
        /\ b.queued = q.queued /\ b.confirming = c /\ b.lost = l
    <3> HIDE DEF c, l, a
    <3>1. b \in GovRecords
      BY Zenon, <2>1, <2>2 DEF GovRecords
    <3>2. b.status = q.status /\ b.origin = q.origin
      BY Zenon, <2>1, <2>2 DEF GovRecords
    <3>3. b.since = q.since /\ b.queued = q.queued
      BY Zenon, <2>1, <2>2 DEF GovRecords
    <3>4. b.confirming = c /\ b.lost = l
      BY Zenon, <2>1, <2>2 DEF GovRecords
    <3> QED BY Zenon, <3>1, <3>2, <3>3, <3>4
  <2> QED BY Zenon, <2>3
<1>4. /\ q.lost \in Int /\ q.since \in Int /\ q.confirming \in Int
      /\ q.lost <= now /\ q.since <= now /\ ~q.queued
      /\ q.confirming # Never => /\ q.since + t.confirm_period <= q.confirming
                                     /\ q.lost + t.confirm_period <= q.confirming
  BY DEF GovRecords, Confirmable, t
<1> HIDE DEF b
<1>5. Confirmable(b, now)
  <2>1. TRACKS_DATA[track_for(b.origin)] = t
    BY <1>3 DEF t
  <2> QED BY <1>2, <1>3, <1>4, <2>1 DEF Confirmable, Never
<1> QED
  BY <1>3, <1>5 DEF b, t

\* An index not yet handed out, and a referendum that ended, hold no slot.
LEMMA NoRecord ==
  NoReferendum \in GovRecords /\ NoReferendum.status = "none"
<1>1. [kind |-> "none"] \in GovCalls
  BY DEF GovCalls
<1> QED
  BY <1>1 DEF NoReferendum, Never, GovRecords, Origins

LEMMA EndedRecord ==
  ASSUME NEW s \in {"approved", "rejected", "timedout", "cancelled", "killed"}
  PROVE  Ended(s) \in GovRecords /\ Ended(s).status = s
BY NoRecord DEF Ended, GovRecords

LEMMA ApprovedRecord ==
  ASSUME NEW q \in GovRecords
  PROVE  /\ Approved(q) \in GovRecords /\ Approved(q).status = "approved"
         /\ Approved(q).origin = q.origin /\ Approved(q).call = q.call
<1>1. Ended("approved") \in GovRecords /\ Ended("approved").status = "approved"
  BY EndedRecord
<1>2. q.origin \in Origins /\ q.call \in GovCalls
  BY DEF GovRecords
<1> DEFINE e == Ended("approved")
<1> HIDE DEF e
<1>3. Approved(q) = [e EXCEPT !.origin = q.origin, !.call = q.call]
  BY Zenon DEF e, Approved
<1>4. e \in GovRecords /\ e.status = "approved"
  BY Zenon, <1>1 DEF e
<1>5. [e EXCEPT !.origin = q.origin, !.call = q.call] \in GovRecords
  BY Zenon, <1>2, <1>4 DEF GovRecords
<1>6. LET a == [e EXCEPT !.origin = q.origin, !.call = q.call]
      IN  a.status = e.status /\ a.origin = q.origin /\ a.call = q.call
  BY Zenon, <1>4 DEF GovRecords
<1> QED
  BY Zenon, <1>3, <1>4, <1>5, <1>6

\* Replacing fields that say nothing about the deciding.
LEMMA OtherFields ==
  ASSUME NEW q \in GovRecords, NEW a \in Int, NEW u \in BOOLEAN, NEW at \in Nat, Confirmable(q, at),
         NEW b,
         \/ b = [q EXCEPT !.alarm = a]
         \/ b = [q EXCEPT !.deposit = u]
         \/ b = [q EXCEPT !.passing = u, !.alarm = a]
         \/ b = [q EXCEPT !.queued = u, !.alarm = a] /\ q.since = Never
  PROVE  /\ b \in GovRecords /\ b.status = q.status /\ b.origin = q.origin /\ b.since = q.since
         /\ b.lost = q.lost /\ Confirmable(b, at)
<1>1. b \in GovRecords
  BY Zenon DEF GovRecords
<1>2. b.status = q.status /\ b.origin = q.origin
  BY Zenon DEF GovRecords
<1>3. b.since = q.since /\ b.confirming = q.confirming
  BY Zenon DEF GovRecords
<1>4. b.lost = q.lost /\ (b.queued = q.queued \/ q.since = Never)
  BY Zenon DEF GovRecords
<1>5. Confirmable(b, at)
  BY Zenon, <1>2, <1>3, <1>4 DEF Confirmable
<1> QED
  BY Zenon, <1>1, <1>2, <1>3, <1>4, <1>5

\* A record that stays in its track and its phase holds what it held.
LEMMA HeldSame ==
  ASSUME NEW p, NEW q, p.status = q.status, p.origin = q.origin, p.since = q.since, NEW id
  PROVE  Held(p, id) = Held(q, id)
BY Zenon DEF Held, HoldsSlot

\* An alarm and the deposit leave the queueing as it is.
LEMMA SameQueueing ==
  ASSUME NEW q \in GovRecords, NEW a, NEW u, NEW b,
         \/ b = [q EXCEPT !.alarm = a]
         \/ b = [q EXCEPT !.deposit = u]
  PROVE  b.queued = q.queued
BY Zenon DEF GovRecords

\* Putting a referendum into a queue, or back into it, adds no other.
LEMMA QueuedWithin ==
  ASSUME NEW S, NEW r, NEW T, T \in Insertions(S, r) \/ T \in Requeued(S, r)
  PROVE  T \subseteq S \cup {r}
<1>1. ASSUME T \in Insertions(S, r)
      PROVE  T \subseteq S \cup {r}
  BY Zenon, <1>1 DEF Insertions
<1> QED
  BY Zenon, <1>1 DEF Requeued

\* The queues stay, and the new record of r is one that may be in them.
LEMMA SameQueues ==
  ASSUME GovInv, NEW r \in Referenda, NEW w, UNCHANGED queue, w.status # "none",
         w.status = "ongoing" /\ (\E id \in TrackIds : r \in queue[id]) =>
            referendum[r].status = "ongoing" /\ w.origin = referendum[r].origin /\ w.queued
  PROVE  QueueFits(r, w)
BY Zenon DEF GovInv, Entry, QueueFits

\* What service_referendum does to an ongoing referendum keeps the invariant.
LEMMA ServiceKeeps ==
  ASSUME MaxReferenda \in Nat, GovInv, UNCHANGED <<plan, now, early>>,
         NEW r \in Referenda, referendum[r].status = "ongoing",
         NEW q \in GovRecords, q.status = "ongoing", q.origin = referendum[r].origin,
         q.queued = referendum[r].queued,
         q.since = referendum[r].since, q.lost = referendum[r].lost, Confirmable(q, now),
         Service(r, q)
  PROVE  GovInv' /\ ApprovalsKept
<1> DEFINE id == track_for(q.origin)
           t  == TRACKS_DATA[id]
<1>1. /\ id \in TrackIds /\ t \in TrackRecords
      /\ t.prepare_period \in Nat /\ t.min_enactment_period \in Nat /\ t.max_deciding \in Nat
  <2>1. id \in TrackIds /\ t \in TrackRecords
    BY TrackOf
  <2> HIDE DEF t
  <2> QED BY <2>1 DEF TrackRecords
<1>2. /\ now \in Nat /\ deciding \in [TrackIds -> Nat] /\ freed \in [TrackIds -> Nat]
      /\ early \in [TrackIds -> Nat] /\ early' \in [TrackIds -> Nat]
      /\ \A k \in TrackIds : deciding[k] <= TRACKS_DATA[k].max_deciding /\ early'[k] = early[k]
  BY DEF GovInv
<1>3. \A k : Held(referendum[r], k) = Held(q, k)
  BY HeldSame
<1>4. ASSUME NEW w \in GovRecords, Set(r, w), w.status = "ongoing", w.origin = q.origin,
             w.since = q.since, Confirmable(w, now), QueueFits(r, w),
             UNCHANGED <<deciding, freed, agenda>>
      PROVE  GovInv' /\ ApprovalsKept
  <2>1. \A k : Held(w, k) = Held(q, k) /\ Held(q, k) \in Int
    BY <1>4, HeldSame DEF Held
  <2>2. \A k \in TrackIds : CountsFit(r, w, k)
    BY <1>2, <1>3, <1>4, <2>1 DEF CountsFit
  <2> QED BY <1>2, <1>4, <2>2, SetKeeps
<1>5. ASSUME q.since = Never, ~q.queued, Set(r, Begun(q, t)), deciding[id] < t.max_deciding,
             deciding' = [deciding EXCEPT ![id] = @ + 1], UNCHANGED <<freed, queue, agenda>>
      PROVE  GovInv' /\ ApprovalsKept
  <2> DEFINE w == Begun(q, t)
  <2>1. /\ w \in GovRecords /\ w.status = "ongoing" /\ w.origin = q.origin
        /\ w.since = now /\ Confirmable(w, now)
    BY <1>2, BegunRecord
  <2> HIDE DEF w
  <2>2. \A k : Held(w, k) = (IF k = id THEN 1 ELSE 0) /\ Held(q, k) = 0
    BY <1>2, <1>5, <2>1 DEF Held, HoldsSlot, Never
  <2>3. /\ deciding' \in [TrackIds -> Nat]
        /\ \A k \in TrackIds :
             /\ deciding'[k] <= TRACKS_DATA[k].max_deciding
             /\ deciding'[k] = IF k = id THEN deciding[k] + 1 ELSE deciding[k]
    BY <1>1, <1>2, <1>5
  <2>4. \A k \in TrackIds : CountsFit(r, w, k)
    BY <1>2, <1>3, <1>5, <2>2, <2>3 DEF CountsFit
  <2>5. QueueFits(r, w)
    <3>1. \A k \in TrackIds : r \notin queue[k]
      BY Zenon, <1>5 DEF GovInv, Entry
    <3>2. w.status # "none"
      BY <2>1
    <3> QED BY Zenon, <1>5, <3>1, <3>2, SameQueues
  <2> QED BY <1>2, <1>5, <2>1, <2>3, <2>4, <2>5, SetKeeps DEF w
<1>6. ASSUME q.since = Never, Set(r, Ended("timedout")),
             UNCHANGED <<deciding, freed, queue, agenda>>
      PROVE  GovInv' /\ ApprovalsKept
  <2> DEFINE w == Ended("timedout")
  <2>1. w \in GovRecords /\ w.status = "timedout"
    BY EndedRecord
  <2> HIDE DEF w
  <2>2. \A k : Held(w, k) = 0 /\ Held(q, k) = 0
    BY <1>6, <2>1 DEF Held, HoldsSlot
  <2>3. \A k \in TrackIds : CountsFit(r, w, k)
    BY <1>2, <1>3, <1>6, <2>2 DEF CountsFit
  <2>4. w.status # "none" /\ w.status # "ongoing" /\ w.status # "approved"
    BY <2>1
  <2>5. QueueFits(r, w)
    BY Zenon, <1>6, <2>4, SameQueues
  <2> QED BY <1>2, <1>6, <2>1, <2>3, <2>5, SetKeeps DEF w
<1>7. ASSUME q.since # Never, NEW w \in GovRecords, Set(r, w),
             w.status # "ongoing", w.status # "none",
             freed' = [freed EXCEPT ![id] = @ + 1], UNCHANGED <<deciding, queue>>,
             w.status = "approved" => Confirmed(r),
             \/ UNCHANGED agenda
             \/ /\ w.status = "approved"
                /\ agenda' = agenda \cup {[at |-> now + t.min_enactment_period, of |-> r]}
      PROVE  GovInv' /\ ApprovalsKept
  <2>2. \A k : Held(w, k) = 0 /\ Held(q, k) = IF k = id THEN 1 ELSE 0
    BY <1>7 DEF Held, HoldsSlot
  <2>3. /\ freed' \in [TrackIds -> Nat]
        /\ \A k \in TrackIds : freed'[k] = IF k = id THEN freed[k] + 1 ELSE freed[k]
    BY <1>1, <1>2, <1>7
  <2>4. \A k \in TrackIds : CountsFit(r, w, k)
    BY <1>2, <1>3, <1>7, <2>2, <2>3 DEF CountsFit
  <2>5. \A e \in agenda' : e \in agenda \/ (e.at \in Nat /\ e.of = r /\ w.status = "approved")
    BY <1>1, <1>2, <1>7
  <2>6. QueueFits(r, w)
    BY Zenon, <1>7, SameQueues
  <2> QED BY <1>2, <1>7, <2>3, <2>4, <2>5, <2>6, SetKeeps
<1>8. Never \in Int /\ q.submitted \in Int /\ UndecidingTimeout \in Nat
  BY DEF Never, GovRecords, UndecidingTimeout, DAYS, MINUTES
<1>9. ASSUME NEW T, T \subseteq queue[id] \cup {r}, queue' = [queue EXCEPT ![id] = T],
             NEW w, w.status = "ongoing", w.origin = q.origin, w.queued
      PROVE  QueueFits(r, w)
  <2>1. queue \in [TrackIds -> SUBSET Referenda]
    BY DEF GovInv
  <2>2. /\ queue' \in [TrackIds -> SUBSET Referenda]
        /\ \A k \in TrackIds : queue'[k] = IF k = id THEN T ELSE queue[k]
    BY <1>1, <1>9, <2>1
  <2>3. Entry(w, id)
    BY <1>9 DEF Entry
  <2>4. \A k \in TrackIds : r \in queue[k] => k = id
    BY Zenon DEF GovInv, Entry
  <2> QED BY Zenon, <1>9, <2>2, <2>3, <2>4 DEF QueueFits
<1>10. CASE /\ q.since = Never /\ ~q.queued /\ Ready(q, t)
            /\ deciding[id] < t.max_deciding
            /\ Set(r, Begun(q, t)) /\ deciding' = [deciding EXCEPT ![id] = @ + 1]
            /\ UNCHANGED <<freed, queue, agenda>>
  BY Zenon, <1>5, <1>10
<1>11. CASE /\ q.since = Never /\ ~q.queued /\ Ready(q, t)
            /\ deciding[id] >= t.max_deciding
            /\ Set(r, [q EXCEPT !.queued = TRUE, !.alarm = Never])
            /\ \E S \in Insertions(queue[id], r) : queue' = [queue EXCEPT ![id] = S]
            /\ UNCHANGED <<deciding, freed, agenda>>
  <2> DEFINE w == [q EXCEPT !.queued = TRUE, !.alarm = Never]
  <2>1. /\ w \in GovRecords /\ w.status = q.status /\ w.origin = q.origin /\ w.since = q.since
        /\ w.lost = q.lost /\ Confirmable(w, now)
    BY Zenon, <1>2, <1>8, <1>11, OtherFields
  <2>2. w.queued
    BY Zenon DEF GovRecords
  <2>3. PICK T \in Insertions(queue[id], r) : queue' = [queue EXCEPT ![id] = T]
    BY Zenon, <1>11
  <2>4. T \subseteq queue[id] \cup {r}
    BY Zenon, <2>3, QueuedWithin
  <2>5. QueueFits(r, w)
    BY Zenon, <1>9, <2>1, <2>2, <2>3, <2>4
  <2> QED BY Zenon, <1>4, <1>11, <2>1, <2>5
<1>12. CASE /\ q.since = Never /\ ~q.queued /\ ~Ready(q, t)
            /\ Set(r, IF now >= q.submitted + UndecidingTimeout THEN Ended("timedout")
                          ELSE [q EXCEPT !.alarm = q.submitted +
                                  IF q.deposit THEN t.prepare_period ELSE UndecidingTimeout])
            /\ UNCHANGED <<deciding, freed, queue, agenda>>
  <2>1. CASE now >= q.submitted + UndecidingTimeout
    BY Zenon, <1>6, <1>12, <2>1
  <2>2. CASE ~(now >= q.submitted + UndecidingTimeout)
    <3> DEFINE a == q.submitted + IF q.deposit THEN t.prepare_period ELSE UndecidingTimeout
               w == [q EXCEPT !.alarm = a]
    <3>0. a \in Int
      BY <1>1, <1>8
    <3>1. /\ w \in GovRecords /\ w.status = q.status /\ w.origin = q.origin /\ w.since = q.since
          /\ w.lost = q.lost /\ Confirmable(w, now)
      <4> HIDE DEF a
      <4> QED BY Zenon, <1>2, <3>0, OtherFields
    <3>2. w.queued = q.queued
      <4> HIDE DEF a
      <4> QED BY Zenon, SameQueueing
    <3>3. QueueFits(r, w)
      <4>1. (\E k \in TrackIds : r \in queue[k]) => q.queued
        BY Zenon DEF GovInv, Entry
      <4>2. w.status # "none"
        BY <3>1
      <4> HIDE DEF w
      <4> QED BY Zenon, <1>12, <3>1, <3>2, <4>1, <4>2, SameQueues
    <3> QED BY Zenon, <1>4, <1>12, <2>2, <3>1, <3>3
  <2> QED BY Zenon, <2>1, <2>2
<1>13. CASE /\ q.queued
            /\ Set(r, [q EXCEPT !.alarm = Never])
            /\ \E S \in Requeued(queue[id], r) : queue' = [queue EXCEPT ![id] = S]
            /\ UNCHANGED <<deciding, freed, agenda>>
  <2> DEFINE w == [q EXCEPT !.alarm = Never]
  <2>1. /\ w \in GovRecords /\ w.status = q.status /\ w.origin = q.origin /\ w.since = q.since
        /\ w.lost = q.lost /\ Confirmable(w, now)
    BY Zenon, <1>2, <1>8, OtherFields
  <2>2. w.queued
    BY Zenon, <1>13, SameQueueing
  <2>3. PICK T \in Requeued(queue[id], r) : queue' = [queue EXCEPT ![id] = T]
    BY Zenon, <1>13
  <2>4. T \subseteq queue[id] \cup {r}
    BY Zenon, <2>3, QueuedWithin
  <2>5. QueueFits(r, w)
    BY Zenon, <1>9, <2>1, <2>2, <2>3, <2>4
  <2> QED BY Zenon, <1>4, <1>13, <2>1, <2>5
<1>14. CASE /\ q.since # Never /\ ~Approves(q) /\ ~Rejects(q, t)
            /\ Set(r, StillDeciding(q, t)) /\ UNCHANGED <<deciding, freed, queue, agenda>>
  <2> DEFINE w == StillDeciding(q, t)
  <2>1. /\ w \in GovRecords /\ w.status = "ongoing" /\ w.origin = q.origin
        /\ w.since = q.since /\ Confirmable(w, now)
    BY Zenon, <1>2, <1>14, StillDecidingRecord
  <2> HIDE DEF w
  <2>2. QueueFits(r, w)
    <3>1. ~q.queued
      BY Zenon, <1>14 DEF Confirmable
    <3>2. \A k \in TrackIds : r \notin queue[k]
      BY Zenon, <3>1 DEF GovInv, Entry
    <3>3. w.status # "none"
      BY <2>1
    <3> QED BY Zenon, <1>14, <3>2, <3>3, SameQueues
  <2> QED BY Zenon, <1>4, <1>14, <2>1, <2>2 DEF w
<1>15. CASE /\ q.since # Never /\ Rejects(q, t)
            /\ Set(r, Ended("rejected"))
            /\ freed' = [freed EXCEPT ![id] = @ + 1]
            /\ UNCHANGED <<deciding, queue, agenda>>
  <2>1. /\ Ended("rejected") \in GovRecords /\ Ended("rejected").status # "ongoing"
        /\ Ended("rejected").status # "none" /\ Ended("rejected").status # "approved"
    BY EndedRecord
  <2> QED BY Zenon, <1>7, <1>15, <2>1
<1>16. CASE /\ q.since # Never /\ Approves(q)
            /\ Set(r, Approved(q))
            /\ freed' = [freed EXCEPT ![id] = @ + 1]
            /\ agenda' = agenda \cup {[at |-> now + t.min_enactment_period, of |-> r]}
            /\ UNCHANGED <<deciding, queue>>
  <2>1. /\ Approved(q) \in GovRecords /\ Approved(q).status = "approved"
        /\ Approved(q).status # "ongoing" /\ Approved(q).status # "none"
    BY ApprovedRecord
  <2>2. Confirmed(r)
    <3>1. /\ q.since \in Int /\ q.lost \in Int /\ q.confirming \in Int
          /\ q.since + t.confirm_period <= q.confirming /\ q.lost + t.confirm_period <= q.confirming
          /\ q.confirming <= now
      BY <1>2, <1>16 DEF GovRecords, Confirmable, Approves
    <3>2. Max({q.since, q.lost}) \in {q.since, q.lost}
      BY <3>1, GreaterMoment
    <3>3. t.confirm_period \in Nat
      <4> HIDE DEF t
      <4> QED BY <1>1 DEF TrackRecords
    <3>4. Max({q.since, q.lost}) + t.confirm_period <= now
      <4> HIDE DEF t
      <4> QED BY <1>2, <3>1, <3>2, <3>3
    <3> QED BY Zenon, <3>4 DEF Confirmed, track
  <2> QED BY Zenon, <1>7, <1>16, <2>1, <2>2
<1> QED
  BY Zenon, <1>10, <1>11, <1>12, <1>13, <1>14, <1>15, <1>16 DEF Service

\* Time passing, and whatever leaves the referenda alone, keeps the invariant.
LEMMA RestKeeps ==
  ASSUME GovInv, UNCHANGED <<plan, referendum, deciding, freed, queue, early>>,
         now' \in Nat, now' >= now,
         agenda' \subseteq agenda
  PROVE  GovInv' /\ ApprovalsKept
<1>1. \A r \in Referenda : referendum[r].status = "ongoing" => Confirmable(referendum[r], now')
  <2> SUFFICES ASSUME NEW r \in Referenda, referendum[r].status = "ongoing"
               PROVE  Confirmable(referendum[r], now')
    BY Zenon
  <2> DEFINE q == referendum[r]
  <2>1. q \in GovRecords /\ Confirmable(q, now) /\ now \in Nat
    BY DEF GovInv
  <2> HIDE DEF q
  <2>2. q.since \in Int /\ q.lost \in Int
    BY <2>1 DEF GovRecords
  <2>3. q.since <= now' /\ q.lost <= now'
    BY <2>1, <2>2 DEF Confirmable
  <2>4. Confirmable(q, now')
    BY Zenon, <2>1, <2>3 DEF Confirmable
  <2> QED BY Zenon, <2>4 DEF q
<1>2. \A id : SlotHolders(id)' = SlotHolders(id)
  BY DEF SlotHolders
<1>3. \A id : Cardinality(SlotHolders(id))' = Cardinality(SlotHolders(id))
  BY <1>2
<1>4. ApprovalsKept
  <2> SUFFICES ASSUME NEW r \in Referenda
               PROVE  IF referendum[r].status = "approved" THEN referendum'[r] = referendum[r]
                      ELSE referendum'[r].status = "approved" => Confirmed(r)
    BY Zenon DEF ApprovalsKept
  <2> QED BY Zenon
<1> QED
  BY Zenon, <1>1, <1>3, <1>4 DEF GovInv

\* A referendum that is cancelled or killed.
LEMMA RemovedKeeps ==
  ASSUME MaxReferenda \in Nat, GovInv, NEW r, NEW s \in {"cancelled", "killed"}, Removed(r, s),
         UNCHANGED <<plan, now, deciding, queue>>, agenda' \subseteq agenda
  PROVE  GovInv' /\ ApprovalsKept
<1> DEFINE q  == referendum[r]
           w  == Ended(s)
           id == track_for(q.origin)
<1>1. r \in Referenda /\ q \in GovRecords /\ q.status = "ongoing" /\ Set(r, w)
  BY DEF Removed, Ongoing, GovInv
<1>2. /\ w \in GovRecords /\ w.status # "ongoing" /\ w.status # "approved"
      /\ w.status # "none"
  BY EndedRecord
<1>3. id \in TrackIds
  BY <1>1, TrackOf
<1>4. /\ now \in Nat /\ deciding \in [TrackIds -> Nat] /\ freed \in [TrackIds -> Nat]
      /\ early \in [TrackIds -> Nat]
      /\ \A k \in TrackIds : deciding[k] <= TRACKS_DATA[k].max_deciding
  BY DEF GovInv
<1>5. /\ freed' = [freed EXCEPT ![id] = @ + 1]
      /\ early' = IF q.since = Never THEN [early EXCEPT ![id] = @ + 1] ELSE early
  BY DEF Removed
<1>6. QueueFits(r, w)
  BY Zenon, <1>1, <1>2, SameQueues
<1> HIDE DEF w, q, id
<1>7. \A k : Held(w, k) = 0 /\ Held(q, k) = IF k = id /\ q.since # Never THEN 1 ELSE 0
  BY <1>1, <1>2 DEF Held, HoldsSlot, id
<1>8. /\ freed' \in [TrackIds -> Nat] /\ early' \in [TrackIds -> Nat]
      /\ \A k \in TrackIds :
           /\ freed'[k] = IF k = id THEN freed[k] + 1 ELSE freed[k]
           /\ early'[k] = IF k = id /\ q.since = Never THEN early[k] + 1 ELSE early[k]
  BY <1>3, <1>4, <1>5
<1>9. \A k \in TrackIds : CountsFit(r, w, k)
  BY <1>4, <1>7, <1>8 DEF CountsFit, q
<1>10. \A e \in agenda' : e \in agenda \/ (e.at \in Nat /\ e.of = r /\ w.status = "approved")
  OBVIOUS
<1> QED
  BY <1>1, <1>2, <1>4, <1>6, <1>8, <1>9, <1>10, SetKeeps DEF q

\* A dispatched call, an enacted proposal's or the sudo key's.
LEMMA DispatchKeeps ==
  ASSUME MaxReferenda \in Nat, GovInv, NEW o, NEW c, Dispatch(o, c),
         UNCHANGED <<plan, now, deciding, queue>>, agenda' \subseteq agenda
  PROVE  GovInv' /\ ApprovalsKept
<1>1. now' \in Nat /\ now' >= now
  BY DEF GovInv
<1>2. CASE UNCHANGED <<referendum, freed, early>>
  BY Zenon, <1>1, <1>2, RestKeeps
<1>3. CASE Removed(c.of, "cancelled") \/ Removed(c.of, "killed")
  BY Zenon, <1>3, RemovedKeeps
<1> QED
  BY Zenon, <1>2, <1>3 DEF Dispatch

\* A referendum is submitted with a fresh record, which holds no slot.
LEMMA SubmitKeeps ==
  ASSUME MaxReferenda \in Nat, GovInv, NEW r \in Referenda, submit(r)
  PROVE  GovInv' /\ ApprovalsKept
<1> DEFINE p == plan[r]
           z == NoReferendum
           a == now + UndecidingTimeout
           w == [z EXCEPT !.status = "ongoing", !.origin = p.origin, !.call = p.call,
                          !.submitted = now, !.alarm = a]
<1>1. /\ referendum[r].status = "none" /\ p.origin \in Origins /\ Set(r, w)
      /\ UNCHANGED <<plan, now, deciding, freed, queue, early, agenda>>
  BY Zenon DEF submit
<1>2. p.call \in GovCalls
  <2>1. plan \in Plans
    BY DEF GovInv
  <2> QED BY <2>1 DEF GovCalls
<1>3. now \in Int /\ a \in Int /\ now \in Nat
  BY DEF GovInv, UndecidingTimeout, DAYS, MINUTES
<1>4. z \in GovRecords
  BY NoRecord
<1>5. z.since = Never /\ z.confirming = Never /\ z.lost = Never /\ z.queued = FALSE
  BY DEF NoReferendum
<1> HIDE DEF z, a, p
<1>6. w \in GovRecords
  BY Zenon, <1>1, <1>2, <1>3, <1>4 DEF GovRecords
<1>7. w.status = "ongoing" /\ w.since = z.since
  BY Zenon, <1>4 DEF GovRecords
<1>8. w.confirming = z.confirming /\ w.lost = z.lost /\ w.queued = z.queued
  BY Zenon, <1>4 DEF GovRecords
<1> HIDE DEF w
<1>9. Confirmable(w, now)
  BY <1>3, <1>5, <1>7, <1>8 DEF Confirmable, Never
<1>10. \A k : Held(w, k) = 0 /\ Held(referendum[r], k) = 0
  BY <1>1, <1>5, <1>7 DEF Held, HoldsSlot
<1>11. /\ deciding \in [TrackIds -> Nat] /\ freed \in [TrackIds -> Nat]
       /\ early \in [TrackIds -> Nat]
       /\ \A k \in TrackIds : deciding[k] <= TRACKS_DATA[k].max_deciding
  BY DEF GovInv
<1>12. \A k \in TrackIds : CountsFit(r, w, k)
  BY <1>1, <1>10, <1>11 DEF CountsFit
<1>13. QueueFits(r, w)
  <2>1. \A k \in TrackIds : r \notin queue[k]
    BY Zenon, <1>1 DEF GovInv, Entry
  <2>2. w.status # "none"
    BY <1>7
  <2> QED BY Zenon, <1>1, <2>1, <2>2, SameQueues
<1> QED
  BY <1>1, <1>6, <1>7, <1>9, <1>11, <1>12, <1>13, SetKeeps

\* The record of an ongoing referendum.
LEMMA OngoingRecord ==
  ASSUME GovInv, NEW r, Ongoing(r)
  PROVE  /\ r \in Referenda /\ referendum[r] \in GovRecords /\ referendum[r].status = "ongoing"
         /\ Confirmable(referendum[r], now) /\ now \in Nat /\ now \in Int
BY DEF GovInv, Ongoing

LEMMA DepositKeeps ==
  ASSUME MaxReferenda \in Nat, GovInv, NEW r, place_decision_deposit(r)
  PROVE  GovInv' /\ ApprovalsKept
<1> DEFINE q == referendum[r]
           w == [q EXCEPT !.deposit = TRUE]
<1>1. /\ r \in Referenda /\ q \in GovRecords /\ q.status = "ongoing"
      /\ Confirmable(q, now) /\ now \in Nat /\ now \in Int
  BY OngoingRecord DEF place_decision_deposit
<1>2. Service(r, w) /\ UNCHANGED <<plan, now, early>>
  BY Zenon DEF place_decision_deposit
<1>3. /\ w \in GovRecords /\ w.status = q.status /\ w.origin = q.origin /\ w.since = q.since
      /\ w.lost = q.lost /\ Confirmable(w, now)
  <2> HIDE DEF q
  <2> QED BY Zenon, <1>1, OtherFields
<1>4. w.queued = q.queued
  <2> HIDE DEF q
  <2> QED BY Zenon, <1>1, SameQueueing
<1> QED
  BY Zenon, <1>1, <1>2, <1>3, <1>4, ServiceKeeps

LEMMA NudgeKeeps ==
  ASSUME MaxReferenda \in Nat, GovInv, NEW r, nudge_referendum(r)
  PROVE  GovInv' /\ ApprovalsKept
<1>1. /\ r \in Referenda /\ referendum[r] \in GovRecords /\ referendum[r].status = "ongoing"
      /\ Confirmable(referendum[r], now) /\ now \in Nat
  BY OngoingRecord DEF nudge_referendum
<1>2. Service(r, referendum[r]) /\ UNCHANGED <<plan, now, early>>
  BY Zenon DEF nudge_referendum
<1> QED
  BY Zenon, <1>1, <1>2, ServiceKeeps

LEMMA VoteKeeps ==
  ASSUME MaxReferenda \in Nat, GovInv, NEW r, vote(r)
  PROVE  GovInv' /\ ApprovalsKept
<1> DEFINE q == referendum[r]
           u == ~q.passing
           a == now + 1
           w == [q EXCEPT !.passing = u, !.alarm = a]
<1>1. /\ r \in Referenda /\ q \in GovRecords /\ q.status = "ongoing"
      /\ Confirmable(q, now) /\ now \in Nat
  BY OngoingRecord DEF vote
<1>2. Set(r, w) /\ UNCHANGED <<plan, now, deciding, freed, queue, early, agenda>>
  BY Zenon DEF vote
<1>3. /\ w \in GovRecords /\ w.status = q.status /\ w.origin = q.origin /\ w.since = q.since
      /\ w.lost = q.lost /\ Confirmable(w, now)
  <2>1. a \in Int
    BY <1>1
  <2>2. u \in BOOLEAN
    BY Zenon
  <2> HIDE DEF q, u, a
  <2> QED BY Zenon, <1>1, <2>1, <2>2, OtherFields
<1>4. w.queued = q.queued
  <2>1. q \in GovRecords
    BY Zenon, <1>1
  <2> HIDE DEF q, u, a
  <2> QED BY Zenon, <2>1 DEF GovRecords
<1> HIDE DEF w
<1>5. \A k : Held(w, k) = Held(q, k) /\ Held(q, k) \in Int
  BY <1>3, HeldSame DEF Held
<1>6. /\ deciding \in [TrackIds -> Nat] /\ freed \in [TrackIds -> Nat]
      /\ early \in [TrackIds -> Nat]
      /\ \A k \in TrackIds : deciding[k] <= TRACKS_DATA[k].max_deciding
  BY DEF GovInv
<1>7. \A k \in TrackIds : CountsFit(r, w, k)
  BY <1>2, <1>5, <1>6 DEF CountsFit
<1>8. QueueFits(r, w)
  <2>1. (\E k \in TrackIds : r \in queue[k]) => q.queued
    BY Zenon, <1>1 DEF GovInv, Entry
  <2>2. w.status # "none"
    BY <1>1, <1>3
  <2> QED BY Zenon, <1>1, <1>2, <1>3, <1>4, <2>1, <2>2, SameQueues
<1> QED
  BY <1>1, <1>2, <1>3, <1>6, <1>7, <1>8, SetKeeps

\* A release goes to a waiting referendum of the queue, or is taken off the
\* count.
LEMMA OneFewerKeeps ==
  ASSUME MaxReferenda \in Nat, GovInv, NEW id \in TrackIds, one_fewer_deciding(id)
  PROVE  GovInv' /\ ApprovalsKept
<1>1. /\ freed[id] > 0 /\ freed' = [freed EXCEPT ![id] = @ - 1]
      /\ UNCHANGED <<plan, now, early, agenda>>
  BY Zenon DEF one_fewer_deciding
<1>2. /\ now \in Nat /\ deciding \in [TrackIds -> Nat] /\ freed \in [TrackIds -> Nat]
      /\ early \in [TrackIds -> Nat] /\ queue \in [TrackIds -> SUBSET Referenda]
      /\ \A k \in TrackIds : deciding[k] <= TRACKS_DATA[k].max_deciding
  BY DEF GovInv
<1>3. /\ freed' \in [TrackIds -> Nat]
      /\ \A k \in TrackIds : freed'[k] = IF k = id THEN freed[k] - 1 ELSE freed[k]
  BY <1>1, <1>2
<1>4. ASSUME NEW r \in queue[id], Ongoing(r), NEW skipped,
             Set(r, Begun(referendum[r], TRACKS_DATA[id])),
             queue' = [queue EXCEPT ![id] = @ \ (skipped \cup {r})], UNCHANGED deciding
      PROVE  GovInv' /\ ApprovalsKept
  <2> DEFINE q == referendum[r]
             w == Begun(q, TRACKS_DATA[id])
  <2>1. /\ r \in Referenda /\ q \in GovRecords /\ q.status = "ongoing" /\ Confirmable(q, now)
    BY <1>4, OngoingRecord
  <2>2. q.queued /\ \A k \in TrackIds : r \in queue[k] => k = track_for(q.origin)
    BY Zenon, <1>4, <2>1 DEF GovInv, Entry
  <2>3. track_for(q.origin) = id
    BY Zenon, <1>4, <2>2
  <2>4. /\ w \in GovRecords /\ w.status = "ongoing" /\ w.origin = q.origin
        /\ w.since = now /\ Confirmable(w, now)
    <3>1. w = Begun(q, TRACKS_DATA[track_for(q.origin)]) /\ now \in Nat
      BY Zenon, <1>2, <2>3
    <3> HIDE DEF w, q
    <3> QED BY Zenon, <2>1, <3>1, BegunRecord
  <2>5. q.since = Never
    BY Zenon, <2>1, <2>2 DEF Confirmable
  <2>6. Set(r, w)
    BY Zenon, <1>4
  <2> HIDE DEF w, q
  <2>7. \A k : Held(w, k) = (IF k = id THEN 1 ELSE 0) /\ Held(q, k) = 0
    BY <1>2, <2>1, <2>3, <2>4, <2>5 DEF Held, HoldsSlot, Never
  <2>8. \A k \in TrackIds : CountsFit(r, w, k)
    BY <1>1, <1>2, <1>3, <1>4, <2>7 DEF CountsFit, q
  <2>9. QueueFits(r, w)
    <3>1. /\ queue' \in [TrackIds -> SUBSET Referenda]
          /\ \A k \in TrackIds : queue'[k] = IF k = id THEN queue[k] \ (skipped \cup {r})
                                              ELSE queue[k]
      <4> DEFINE T == queue[id] \ (skipped \cup {r})
      <4>1. queue' = [queue EXCEPT ![id] = T] /\ T \in SUBSET Referenda
        BY <1>2, <1>4
      <4>2. /\ queue' \in [TrackIds -> SUBSET Referenda]
            /\ \A k \in TrackIds : queue'[k] = IF k = id THEN T ELSE queue[k]
        <5> HIDE DEF T
        <5> QED BY <1>2, <4>1
      <4> QED BY Zenon, <4>2
    <3> QED BY Zenon, <2>2, <2>3, <3>1 DEF QueueFits
  <2>10. early' \in [TrackIds -> Nat] /\ deciding' \in [TrackIds -> Nat]
    BY <1>1, <1>2, <1>4
  <2> QED BY <1>1, <1>3, <2>1, <2>4, <2>6, <2>8, <2>9, <2>10, SetKeeps DEF q
<1>5. ASSUME deciding' = [deciding EXCEPT ![id] = IF @ = 0 THEN 0 ELSE @ - 1],
             UNCHANGED <<referendum, queue>>
      PROVE  GovInv' /\ ApprovalsKept
  <2>1. \A k : SlotHolders(k)' = SlotHolders(k)
    BY <1>5 DEF SlotHolders
  <2>2. \A k : Cardinality(SlotHolders(k))' = Cardinality(SlotHolders(k))
    BY <2>1
  <2>3. \A k \in TrackIds :
           /\ deciding[k] <= Cardinality(SlotHolders(k)) + freed[k]
           /\ Cardinality(SlotHolders(k)) + freed[k] <= deciding[k] + early[k]
           /\ deciding[k] \in Nat /\ freed[k] \in Nat /\ early[k] \in Nat
    BY DEF GovInv
  <2>4. \A k \in TrackIds : Cardinality(SlotHolders(k)) \in Nat
    <3> SUFFICES ASSUME NEW k \in TrackIds PROVE Cardinality(SlotHolders(k)) \in Nat
      BY Zenon
    <3>1. IsFiniteSet(Referenda)
      BY FS_Interval DEF Referenda
    <3>2. SlotHolders(k) \subseteq Referenda
      BY DEF SlotHolders
    <3> QED BY <3>1, <3>2, FS_Subset, FS_CardinalityType
  <2>5. \A k \in TrackIds :
           deciding'[k] = IF k = id /\ deciding[k] > 0 THEN deciding[k] - 1 ELSE deciding[k]
    BY <1>2, <1>5
  <2>6. \A k \in TrackIds :
           /\ deciding'[k] <= Cardinality(SlotHolders(k)) + freed'[k]
           /\ Cardinality(SlotHolders(k)) + freed'[k] <= deciding'[k] + early'[k]
           /\ deciding'[k] \in Nat
    BY <1>1, <1>3, <2>3, <2>4, <2>5
  <2>7. deciding' \in [TrackIds -> Nat] /\ early' \in [TrackIds -> Nat]
    BY <1>1, <1>2, <1>5, <2>5, <2>6
  <2>8. \A k \in TrackIds : deciding'[k] <= TRACKS_DATA[k].max_deciding
    <3> SUFFICES ASSUME NEW k \in TrackIds
                 PROVE  deciding'[k] <= TRACKS_DATA[k].max_deciding
      BY Zenon
    <3>1. TRACKS_DATA[k].max_deciding \in Nat
      BY TrackTyped DEF TrackRecords
    <3> QED BY <1>2, <2>3, <2>5, <2>6, <3>1
  <2>9. /\ plan' \in Plans /\ now' \in Nat /\ referendum' \in [Referenda -> GovRecords]
        /\ queue' \in [TrackIds -> SUBSET Referenda]
        /\ \A k \in TrackIds : \A r \in queue'[k] : Entry(referendum'[r], k)
        /\ \A r \in Referenda :
             referendum'[r].status = "ongoing" => Confirmable(referendum'[r], now')
        /\ \A e \in agenda' : /\ e.at \in Nat /\ e.of \in Referenda
                               /\ referendum'[e.of].status = "approved"
    BY Zenon, <1>1, <1>5 DEF GovInv
  <2>10. ApprovalsKept
    BY Zenon, <1>5 DEF ApprovalsKept
  <2> QED BY Zenon, <1>3, <2>2, <2>6, <2>7, <2>8, <2>9, <2>10 DEF GovInv
<1> QED
  BY Zenon, <1>4, <1>5 DEF one_fewer_deciding

\* Time jumps to a later moment.
LEMMA TimeKeeps ==
  ASSUME Moments \subseteq Nat, GovInv, Advance \/ Pause
  PROVE  GovInv' /\ ApprovalsKept
<1>1. now \in Nat
  BY DEF GovInv
<1>2. ASSUME NEW m \in Nat, m >= now, AdvanceTo(m)
      PROVE  GovInv' /\ ApprovalsKept
  BY <1>1, <1>2, RestKeeps DEF AdvanceTo
<1>3. CASE Advance
  <2>1. DueMoments \subseteq Int
    <3>1. \A r \in Referenda : referendum[r].alarm \in Int
      BY DEF GovInv, GovRecords
    <3>2. \A e \in agenda : e.at \in Int
      BY DEF GovInv
    <3> QED BY <3>1, <3>2 DEF DueMoments
  <2>2. \A m \in LaterMoments : m \in Nat /\ m >= now
    <3> SUFFICES ASSUME NEW m \in LaterMoments PROVE m \in Nat /\ m >= now
      BY Zenon
    <3>1. m \in Int /\ m > now
      BY Zenon, <2>1 DEF LaterMoments
    <3> QED BY <1>1, <3>1
  <2>3. Min(LaterMoments) \in LaterMoments
    BY Zenon, <1>3, <2>2, LeastMoment DEF Advance
  <2>4. Min(LaterMoments) \in Nat /\ Min(LaterMoments) >= now
    BY Zenon, <2>2, <2>3
  <2> QED BY Zenon, <1>2, <1>3, <2>4 DEF Advance
<1>4. CASE Pause
  <2>1. PICK m \in Moments : now < m /\ AdvanceTo(m)
    BY Zenon, <1>4 DEF Pause
  <2>2. m \in Nat /\ m >= now
    BY <1>1, <2>1
  <2> QED BY Zenon, <1>2, <2>1, <2>2
<1> QED
  BY <1>3, <1>4

\* Every step keeps the invariant.
LEMMA GovStep ==
  ASSUME MaxReferenda \in Nat, Moments \subseteq Nat, GovInv, [Next]_vars
  PROVE  GovInv' /\ ApprovalsKept
<1>1. CASE \E r \in Referenda : submit(r)
  BY Zenon, <1>1, SubmitKeeps
<1>2. CASE \E r \in Referenda : place_decision_deposit(r) \/ vote(r)
  BY Zenon, <1>2, DepositKeeps, VoteKeeps
<1>3. CASE \E call \in SudoCalls : sudo(call)
  <2>1. PICK call \in SudoCalls : sudo(call)
    BY <1>3
  <2>2. /\ Dispatch("Root", call) /\ UNCHANGED <<plan, now, deciding, queue>>
        /\ agenda' \subseteq agenda
    BY Zenon, <2>1 DEF sudo
  <2> QED BY Zenon, <2>2, DispatchKeeps
<1>4. CASE \E r \in Referenda : nudge_referendum(r)
  BY Zenon, <1>4, NudgeKeeps
<1>5. CASE \E id \in TrackIds : one_fewer_deciding(id)
  BY Zenon, <1>5, OneFewerKeeps
<1>6. CASE \E e \in agenda : Enact(e)
  <2>1. PICK e \in agenda : Enact(e)
    BY <1>6
  <2> DEFINE q == referendum[e.of]
  <2>2. /\ UNCHANGED <<plan, now, deciding, queue>> /\ agenda' \subseteq agenda
        /\ Dispatch(q.origin, q.call) \/ UNCHANGED <<referendum, freed, early>>
    BY Zenon, <2>1 DEF Enact
  <2>3. now' \in Nat /\ now' >= now
    BY <2>2 DEF GovInv
  <2> QED BY Zenon, <2>2, <2>3, DispatchKeeps, RestKeeps
<1>7. CASE Advance \/ Pause
  BY Zenon, <1>7, TimeKeeps
<1>8. CASE UNCHANGED vars
  <2>1. UNCHANGED <<plan, now, referendum, deciding, freed, queue, early, agenda>>
    BY <1>8 DEF vars
  <2>2. now' \in Nat /\ now' >= now
    BY <2>1 DEF GovInv
  <2> QED BY Zenon, <2>1, <2>2, RestKeeps
<1> QED
  BY Zenon, <1>1, <1>2, <1>3, <1>4, <1>5, <1>6, <1>7, <1>8 DEF Next, Users, Scheduled

LEMMA GovInit ==
  ASSUME MaxReferenda \in Nat, Init
  PROVE  GovInv
<1>1. \A r \in Referenda : referendum[r] = NoReferendum
  BY DEF Init
<1>2. NoReferendum \in GovRecords /\ NoReferendum.status = "none"
  BY NoRecord
<1>3. \A r \in Referenda : referendum[r].status # "ongoing"
  BY <1>1, <1>2
<1>4. \A id : SlotHolders(id) = {}
  BY Zenon, <1>3 DEF SlotHolders, HoldsSlot
<1>5. \A id \in TrackIds : Cardinality(SlotHolders(id)) = 0
  BY <1>4, FS_EmptySet
<1>6. \A id \in TrackIds : 0 <= TRACKS_DATA[id].max_deciding
  <2> SUFFICES ASSUME NEW id \in TrackIds
               PROVE  0 <= TRACKS_DATA[id].max_deciding
    BY Zenon
  <2>1. TRACKS_DATA[id].max_deciding \in Nat
    BY TrackTyped DEF TrackRecords
  <2> QED BY <2>1
<1>7. \A id \in TrackIds : deciding[id] = 0 /\ freed[id] = 0 /\ early[id] = 0 /\ queue[id] = {}
  BY DEF Init
<1>8. /\ plan \in Plans /\ now \in Nat /\ agenda = {}
      /\ deciding \in [TrackIds -> Nat] /\ freed \in [TrackIds -> Nat]
      /\ early \in [TrackIds -> Nat] /\ queue \in [TrackIds -> SUBSET Referenda]
  BY DEF Init
<1>9. referendum \in [Referenda -> GovRecords]
  <2> DEFINE z == NoReferendum
  <2>1. referendum = [r \in Referenda |-> z] /\ z \in GovRecords
    BY <1>2 DEF Init
  <2> HIDE DEF z
  <2> QED BY <2>1
<1>10. \A id \in TrackIds : /\ deciding[id] <= Cardinality(SlotHolders(id)) + freed[id]
                             /\ Cardinality(SlotHolders(id)) + freed[id] <= deciding[id] + early[id]
  BY <1>5, <1>7
<1>11. \A id \in TrackIds : deciding[id] <= TRACKS_DATA[id].max_deciding
  BY <1>6, <1>7
<1> QED
  BY Zenon, <1>3, <1>7, <1>8, <1>9, <1>10, <1>11 DEF GovInv

\* Through submissions, votes, the scheduler's alarms, cancelling and killing,
\* the records of pallet_referenda stay in step: the slots with the referenda
\* that decide, the queues with those that wait or have ended, and on the
\* agenda only what was approved.
THEOREM ReferendaInvariant ==
  ASSUME MaxReferenda \in Nat, Moments \subseteq Nat
  PROVE  Spec => []GovInv
<1>1. Init => GovInv
  BY GovInit
<1>2. GovInv /\ [Next]_vars => GovInv'
  BY GovStep
<1> QED
  BY <1>1, <1>2, PTL DEF Spec

\* Whatever votes, removals and promotions came between, no deciding slot of
\* DecidingCount is lost, the count stays within max_deciding, and it lags
\* behind the referenda being decided by no more than those cancelled or
\* killed before their deciding: for any number of referenda and votes, and
\* queues of any length.
THEOREM SlotsStayAccounted ==
  ASSUME MaxReferenda \in Nat, Moments \subseteq Nat
  PROVE  Spec => []SlotsAccounted
<1>1. GovInv => SlotsAccounted
  <2> SUFFICES ASSUME GovInv, NEW id \in TrackIds
               PROVE  LET held == Cardinality({r \in Referenda : Ongoing(r) /\ InTrack(r, id)
                                                    /\ referendum[r].since # Never})
                      IN  /\ deciding[id] <= held + freed[id]
                          /\ held + freed[id] <= deciding[id] + early[id]
                          /\ deciding[id] <= TRACKS_DATA[id].max_deciding
    BY Zenon DEF SlotsAccounted
  <2>1. {r \in Referenda : Ongoing(r) /\ InTrack(r, id)
                               /\ referendum[r].since # Never} = SlotHolders(id)
    BY Zenon DEF SlotHolders, HoldsSlot, Ongoing, InTrack
  <2> QED BY Zenon, <2>1 DEF GovInv
<1> QED
  BY <1>1, ReferendaInvariant, PTL

\* A referendum is approved only when no look at its tally during the last
\* confirm_period of its track, all of it in the deciding phase, found the
\* votes failing.
THEOREM ApprovalsConfirmed ==
  ASSUME MaxReferenda \in Nat, Moments \subseteq Nat
  PROVE  Spec => ConfirmedThroughout
<1>1. GovInv /\ [Next]_vars =>
        \A r \in Referenda :
          Ongoing(r) /\ referendum'[r].status = "approved" =>
             LET q == referendum[r]
             IN  Max({q.since, q.lost}) + track(r).confirm_period <= now
  <2> SUFFICES ASSUME GovInv, [Next]_vars, NEW r \in Referenda,
                      Ongoing(r), referendum'[r].status = "approved"
               PROVE  Confirmed(r)
    BY Zenon DEF Confirmed
  <2>1. ApprovalsKept
    BY GovStep
  <2>2. referendum[r].status # "approved"
    BY DEF Ongoing
  <2> QED BY Zenon, <2>1, <2>2 DEF ApprovalsKept
<1> QED
  BY <1>1, ReferendaInvariant, PTL DEF Spec, ConfirmedThroughout

\* Who dispatches a call: the sudo key as Root, or an approved referendum.
Authority(o, c) ==
    \/ o = "Root" /\ c \in sudoed'
    \/ \E r \in Referenda : /\ referendum[r].status = "approved"
                                /\ referendum[r].origin = o /\ referendum[r].call = c

\* What the referenda approved, and the sudo key dispatched, covers outlays.
LEMMA OutlaysStay ==
  ASSUME \A r \in Referenda : referendum[r].status = "approved" => referendum'[r] = referendum[r],
         sudoed \subseteq sudoed', OutlaysApproved, NEW s \in treasury
  PROVE  \/ s.by = "Root" /\ \E d \in sudoed' : d.kind = s.via
         \/ /\ \E r \in Referenda : /\ referendum'[r].status = "approved"
                                        /\ referendum'[r].origin = s.by
                                        /\ referendum'[r].call.kind = s.via
                                        /\ referendum'[r].call.amount = s.amount
            /\ \/ s.by = "Root"
               \/ s.by = "Treasurer" /\ s.via = "approve_proposal"
               \/ s.amount <= Spender[s.by]
BY Zenon DEF OutlaysApproved

\* What is on record of approvals and of the sudo key stays on record.
LEMMA RecordsStay ==
  ASSUME ApprovalsKept, sudoed \subseteq sudoed', UNCHANGED <<treasury, whitelisted, upgraded>>,
         ActsAuthorised
  PROVE  ActsAuthorised'
<1>1. \A r \in Referenda : referendum[r].status = "approved" => referendum'[r] = referendum[r]
  BY Zenon DEF ApprovalsKept
<1>2. OutlaysApproved'
  <2>1. OutlaysApproved /\ treasury' = treasury
    BY Zenon DEF ActsAuthorised
  <2> QED BY Zenon, <1>1, <2>1, OutlaysStay DEF OutlaysApproved
<1>3. WhitelistedByRoot'
  BY Zenon, <1>1 DEF ActsAuthorised, WhitelistedByRoot
<1> QED
  BY Zenon, <1>2, <1>3 DEF ActsAuthorised

LEMMA DispatchAuthorised ==
  ASSUME ApprovalsKept, sudoed \subseteq sudoed', ActsAuthorised,
         NEW o, NEW c, Authority(o, c), Dispatch(o, c)
  PROVE  ActsAuthorised'
<1>1. \A r \in Referenda : referendum[r].status = "approved" => referendum'[r] = referendum[r]
  BY Zenon DEF ApprovalsKept
<1>2. ASSUME Spend(o, c), UNCHANGED <<whitelisted, upgraded>>,
             \/ o = "Root"
             \/ o = "Treasurer" /\ c.kind = "approve_proposal"
             \/ c.amount <= Spender[o]
      PROVE  ActsAuthorised'
  <2>1. WhitelistedByRoot'
    BY Zenon, <1>1, <1>2 DEF ActsAuthorised, WhitelistedByRoot
  <2>2. OutlaysApproved'
    <3> SUFFICES ASSUME NEW s \in treasury'
                 PROVE  \/ s.by = "Root" /\ \E d \in sudoed' : d.kind = s.via
                        \/ /\ \E r \in Referenda : /\ referendum'[r].status = "approved"
                                                       /\ referendum'[r].origin = s.by
                                                       /\ referendum'[r].call.kind = s.via
                                                       /\ referendum'[r].call.amount = s.amount
                           /\ \/ s.by = "Root"
                              \/ s.by = "Treasurer" /\ s.via = "approve_proposal"
                              \/ s.amount <= Spender[s.by]
      BY Zenon DEF OutlaysApproved
    <3>1. CASE s \in treasury
      BY Zenon, <1>1, <3>1, OutlaysStay DEF ActsAuthorised
    <3>2. CASE s = [by |-> o, via |-> c.kind, amount |-> c.amount]
      <4>1. s.by = o /\ s.via = c.kind /\ s.amount = c.amount
        BY <3>2
      <4> QED BY Zenon, <1>1, <1>2, <4>1 DEF Authority
    <3> QED BY Zenon, <1>2, <3>1, <3>2 DEF Spend
  <2> QED BY Zenon, <2>1, <2>2 DEF ActsAuthorised
<1>3. ASSUME UNCHANGED treasury,
             \/ o = "Root" /\ c.kind = "whitelist_call"
             \/ whitelisted
      PROVE  ActsAuthorised'
  <2>1. OutlaysApproved'
    <3>1. OutlaysApproved /\ treasury' = treasury
      BY Zenon, <1>3 DEF ActsAuthorised
    <3> QED BY Zenon, <1>1, <3>1, OutlaysStay DEF OutlaysApproved
  <2>2. WhitelistedByRoot'
    BY Zenon, <1>1, <1>3 DEF ActsAuthorised, WhitelistedByRoot, Authority
  <2> QED BY Zenon, <2>1, <2>2 DEF ActsAuthorised
<1>4. CASE UNCHANGED <<treasury, whitelisted, upgraded>>
  BY Zenon, <1>4, RecordsStay
<1> QED
  BY Zenon, <1>2, <1>3, <1>4 DEF Dispatch, TreasurySpender, ApproveOrigin,
     WhitelistOrigin

\* Whatever is enacted has the authority it needs, through any order of
\* approvals, removals and uses of the sudo key.
THEOREM ActsStayAuthorised ==
  ASSUME MaxReferenda \in Nat, Moments \subseteq Nat
  PROVE  Spec => []ActsAuthorised
<1>1. Init => ActsAuthorised
  BY Zenon DEF Init, ActsAuthorised, OutlaysApproved, WhitelistedByRoot
<1>2. ASSUME GovInv, ActsAuthorised, [Next]_vars
      PROVE  ActsAuthorised'
  <2>1. ApprovalsKept
    BY <1>2, GovStep
  <2>2. CASE \E call \in SudoCalls : sudo(call)
    BY Zenon, <1>2, <2>1, <2>2, DispatchAuthorised DEF sudo, Authority
  <2>3. CASE \E e \in agenda : Enact(e)
    <3>1. PICK e \in agenda : Enact(e)
      BY <2>3
    <3>2. e.of \in Referenda /\ referendum[e.of].status = "approved"
      BY Zenon, <1>2 DEF GovInv
    <3>3. Authority(referendum[e.of].origin, referendum[e.of].call)
      BY Zenon, <3>2 DEF Authority
    <3>4. UNCHANGED sudoed
      BY Zenon, <3>1 DEF Enact
    <3>5. \/ Dispatch(referendum[e.of].origin, referendum[e.of].call)
          \/ UNCHANGED <<treasury, whitelisted, upgraded>>
      BY Zenon, <3>1 DEF Enact
    <3> QED BY Zenon, <1>2, <2>1, <3>3, <3>4, <3>5, DispatchAuthorised, RecordsStay
  <2>4. CASE UNCHANGED <<treasury, whitelisted, upgraded, sudoed>>
    BY Zenon, <1>2, <2>1, <2>4, RecordsStay
  <2>5. \/ \E call \in SudoCalls : sudo(call)
        \/ \E e \in agenda : Enact(e)
        \/ UNCHANGED <<treasury, whitelisted, upgraded, sudoed>>
    BY Zenon, <1>2 DEF Next, Users, Scheduled, submit, place_decision_deposit,
       vote, nudge_referendum, one_fewer_deciding, Advance, Pause,
       AdvanceTo, vars
  <2> QED BY Zenon, <2>2, <2>3, <2>4, <2>5
<1> QED
  BY <1>1, <1>2, ReferendaInvariant, PTL DEF Spec

-----------------------------------------------------------------------------
(***************************************************************************)
(* Proxies.                                                                *)
(***************************************************************************)

\* Deposits are natural numbers, and fewer announcements cost no more.
LEMMA Deposits ==
  ASSUME NEW S, IsFiniteSet(S)
  PROVE  /\ ProxyDeposit(S) \in Nat /\ AnnouncementDeposit(S) \in Nat
         /\ ProxyDeposit({}) = 0 /\ AnnouncementDeposit({}) = 0
         /\ \A T \in SUBSET S : AnnouncementDeposit(T) <= AnnouncementDeposit(S)
<1>1. ASSUME NEW T, IsFiniteSet(T)
      PROVE  /\ ProxyDeposit(T) = (IF T = {} THEN 0 ELSE 255 + Cardinality(T) * 198)
             /\ AnnouncementDeposit(T) = (IF T = {} THEN 0 ELSE 303 + Cardinality(T) * 396)
             /\ Cardinality(T) \in Nat
  <2>1. Cardinality(T) \in Nat
    BY <1>1, FS_CardinalityType
  <2> QED BY <2>1 DEF ProxyDeposit, AnnouncementDeposit, deposit
<1>2. IsFiniteSet({})
  BY FS_EmptySet
<1>3. ASSUME NEW T \in SUBSET S
      PROVE  AnnouncementDeposit(T) <= AnnouncementDeposit(S)
  <2>1. IsFiniteSet(T) /\ Cardinality(T) <= Cardinality(S)
    BY FS_Subset
  <2>2. S = {} => T = {}
    BY Zenon
  <2> QED BY <1>1, <2>1, <2>2
<1> QED
  BY <1>1, <1>2, <1>3

\* The state whose parts are P, N and R.
Parts(P, N, R) == [proxies : {P}, announcements : {N}, reserved : {R}]

\* f has a value for each account and no other.
ForHolders(f) == f = [a \in Holders |-> f[a]]

\* The proxies, announcements and reserves of st, each consistent with the
\* others: what is reserved of an account is what its own deposits come to.
Sound(st) ==
    /\ st \in Parts(st.proxies, st.announcements, st.reserved)
    /\ ForHolders(st.proxies) /\ ForHolders(st.announcements) /\ ForHolders(st.reserved)
    /\ \A a \in Holders :
          /\ IsFiniteSet(st.proxies[a]) /\ IsFiniteSet(st.announcements[a])
          /\ st.reserved[a] = ProxyDeposit(st.proxies[a])
                              + AnnouncementDeposit(st.announcements[a])

\* Replacing what one account has, with the reserve that goes with it.
LEMMA ReplacedSound ==
  ASSUME NEW st, Sound(st), NEW a \in Holders,
         NEW defs, IsFiniteSet(defs), NEW anns, IsFiniteSet(anns),
         NEW r, r = ProxyDeposit(defs) + AnnouncementDeposit(anns),
         NEW P, P = [st.proxies EXCEPT ![a] = defs],
         NEW N, N = [st.announcements EXCEPT ![a] = anns],
         NEW R, R = [st.reserved EXCEPT ![a] = r],
         NEW w, w \in Parts(P, N, R)
  PROVE  Sound(w)
<1>1. w.proxies = P /\ w.announcements = N /\ w.reserved = R
  BY Zenon DEF Parts
<1>2. ForHolders(st.proxies) /\ ForHolders(st.announcements) /\ ForHolders(st.reserved)
  BY Zenon DEF Sound
<1>3. ForHolders(P) /\ \A b \in Holders : P[b] = IF b = a THEN defs ELSE st.proxies[b]
  BY <1>2 DEF ForHolders
<1>4. ForHolders(N) /\ \A b \in Holders : N[b] = IF b = a THEN anns ELSE st.announcements[b]
  BY <1>2 DEF ForHolders
<1>5. ForHolders(R) /\ \A b \in Holders : R[b] = IF b = a THEN r ELSE st.reserved[b]
  BY <1>2 DEF ForHolders
<1>6. \A b \in Holders :
          /\ IsFiniteSet(P[b]) /\ IsFiniteSet(N[b])
          /\ R[b] = ProxyDeposit(P[b]) + AnnouncementDeposit(N[b])
  BY Zenon, <1>3, <1>4, <1>5 DEF Sound
<1> QED
  BY Zenon, <1>1, <1>3, <1>4, <1>5, <1>6 DEF Sound

\* What the state says of one account.
LEMMA SoundAt ==
  ASSUME NEW st, Sound(st), NEW a \in Holders
  PROVE  LET P == st.proxies
             N == st.announcements
         IN  /\ IsFiniteSet(N[a]) /\ IsFiniteSet(P[a])
             /\ P = [P EXCEPT ![a] = P[a]] /\ N = [N EXCEPT ![a] = N[a]]
             /\ st.reserved[a] = ProxyDeposit(P[a]) + AnnouncementDeposit(N[a])
             /\ ProxyDeposit(P[a]) \in Nat /\ AnnouncementDeposit(N[a]) \in Nat
<1>1. \A f : ForHolders(f) => f = [f EXCEPT ![a] = f[a]]
  BY DEF ForHolders
<1>2. IsFiniteSet(st.announcements[a]) /\ IsFiniteSet(st.proxies[a])
  BY Zenon DEF Sound
<1>3. ProxyDeposit(st.proxies[a]) \in Nat /\ AnnouncementDeposit(st.announcements[a]) \in Nat
  BY <1>2, Deposits
<1> QED
  BY Zenon, <1>1, <1>2, <1>3 DEF Sound

LEMMA SetProxiesSound ==
  ASSUME NEW st, Sound(st), NEW a \in Holders, NEW defs, IsFiniteSet(defs)
  PROVE  /\ Sound(SetProxies(st, a, defs))
<1> DEFINE P == st.proxies
           N == st.announcements
           R == st.reserved
           by == ProxyDeposit(defs) - ProxyDeposit(P[a])
           r == IF R[a] + by > 0 THEN R[a] + by ELSE 0
           w == SetProxies(st, a, defs)
<1>1. st \in Parts(P, N, R)
  BY Zenon DEF Sound
<1>2. r = ProxyDeposit(defs) + AnnouncementDeposit(N[a])
  <2> DEFINE d == ProxyDeposit(defs)
             p == ProxyDeposit(P[a])
             n == AnnouncementDeposit(N[a])
  <2>1. R[a] = p + n /\ p \in Nat /\ n \in Nat
    BY Zenon, SoundAt
  <2>2. d \in Nat
    BY Deposits
  <2>3. r = IF R[a] + (d - p) > 0 THEN R[a] + (d - p) ELSE 0
    OBVIOUS
  <2> HIDE DEF d, p, n, R, r
  <2>4. r = d + n
    BY <2>1, <2>2, <2>3
  <2> QED BY Zenon, <2>4 DEF d, n
<1>3. Reserved(st, a, by) = [R EXCEPT ![a] = r]
  <2> HIDE DEF by
  <2> QED BY DEF Reserved
<1> HIDE DEF r
<1>4. w \in Parts([P EXCEPT ![a] = defs], N, [R EXCEPT ![a] = r])
  <2>1. w = [st EXCEPT !.proxies[a] = defs, !.reserved = [R EXCEPT ![a] = r]]
    BY Zenon, <1>3 DEF SetProxies
  <2> HIDE DEF P, N, R, w
  <2> QED BY Zenon, <1>1, <2>1 DEF Parts
<1>5. w \in Parts([P EXCEPT ![a] = defs], [N EXCEPT ![a] = N[a]], [R EXCEPT ![a] = r])
  BY Zenon, <1>4, SoundAt
<1> HIDE DEF w
<1>6. IsFiniteSet(N[a])
  BY Zenon, SoundAt
<1>7. Sound(w)
  BY Zenon, <1>2, <1>5, <1>6, ReplacedSound
<1> QED
  BY Zenon, <1>7 DEF w

\* Setting announcements reserves what they cost, besides the proxies.
LEMMA SetAnnouncementsSound ==
  ASSUME NEW st, Sound(st), NEW a \in Holders, NEW anns, IsFiniteSet(anns)
  PROVE  /\ Sound(SetAnnouncements(st, a, anns))
         /\ SetAnnouncements(st, a, anns).proxies = st.proxies
         /\ SetAnnouncements(st, a, anns).announcements[a] = anns
         /\ \A b \in Holders :
              b # a => SetAnnouncements(st, a, anns).reserved[b] = st.reserved[b]
<1> DEFINE P == st.proxies
           N == st.announcements
           R == st.reserved
           by == AnnouncementDeposit(anns) - AnnouncementDeposit(N[a])
           r == IF R[a] + by > 0 THEN R[a] + by ELSE 0
           w == SetAnnouncements(st, a, anns)
<1>1. st \in Parts(P, N, R)
  BY Zenon DEF Sound
<1>2. r = ProxyDeposit(P[a]) + AnnouncementDeposit(anns)
  <2> DEFINE d == AnnouncementDeposit(anns)
             p == ProxyDeposit(P[a])
             n == AnnouncementDeposit(N[a])
  <2>1. R[a] = p + n /\ p \in Nat /\ n \in Nat
    BY Zenon, SoundAt
  <2>2. d \in Nat
    BY Deposits
  <2>3. r = IF R[a] + (d - n) > 0 THEN R[a] + (d - n) ELSE 0
    OBVIOUS
  <2> HIDE DEF d, p, n, R, r
  <2>4. r = p + d
    BY <2>1, <2>2, <2>3
  <2> QED BY Zenon, <2>4 DEF d, p
<1>3. Reserved(st, a, by) = [R EXCEPT ![a] = r]
  <2> HIDE DEF by
  <2> QED BY DEF Reserved
<1> HIDE DEF r
<1>4. w \in Parts(P, [N EXCEPT ![a] = anns], [R EXCEPT ![a] = r])
  <2>1. w = [st EXCEPT !.announcements[a] = anns, !.reserved = [R EXCEPT ![a] = r]]
    BY Zenon, <1>3 DEF SetAnnouncements
  <2> HIDE DEF P, N, R, w
  <2> QED BY Zenon, <1>1, <2>1 DEF Parts
<1>5. w \in Parts([P EXCEPT ![a] = P[a]], [N EXCEPT ![a] = anns], [R EXCEPT ![a] = r])
  BY Zenon, <1>4, SoundAt
<1> HIDE DEF w
<1>6. IsFiniteSet(P[a])
  BY Zenon, SoundAt
<1>7. Sound(w)
  BY Zenon, <1>2, <1>5, <1>6, ReplacedSound
<1>8. w.proxies = P /\ w.announcements = [N EXCEPT ![a] = anns] /\ w.reserved = [R EXCEPT ![a] = r]
  BY Zenon, <1>4 DEF Parts
<1>9. ForHolders(N) /\ ForHolders(R)
  BY Zenon DEF Sound
<1>10. [N EXCEPT ![a] = anns][a] = anns /\ \A b \in Holders : b # a => [R EXCEPT ![a] = r][b] = R[b]
  <2> HIDE DEF N, R
  <2> QED BY <1>9 DEF ForHolders
<1> QED
  BY Zenon, <1>7, <1>8, <1>10 DEF w

\* A call of the proxy pallet names one of its methods, and an account.
ProxyCall(c) ==
    c.pallet = "Proxy" =>
        /\ c.method \in {"add_proxy", "remove_proxy", "announce", "remove_announcement",
                         "reject_announcement", "create_pure", "kill_pure", "remove_proxies"}
        /\ c.method = "reject_announcement" => c.delegate \in Holders

\* Every call the runtime's filter lets through keeps the reserves consistent.
LEMMA AfterSound ==
  ASSUME NEW st, Sound(st), NEW who \in Holders, NEW c, ProxyCall(c), NormalFilter(c)
  PROVE  Sound(After(st, who, c))
<1> DEFINE w == After(st, who, c)
<1>0. IsFiniteSet(st.proxies[who]) /\ IsFiniteSet(st.announcements[who])
  BY Zenon, SoundAt
<1>1. CASE c.pallet # "Proxy"
  <2>1. w = st
    BY <1>1 DEF After
  <2> QED BY Zenon, <2>1
<1>2. CASE c.pallet = "Proxy" /\ c.method = "add_proxy"
  <2>1. w = st \/ w = SetProxies(st, who, st.proxies[who] \cup {c.def})
    BY <1>2 DEF After
  <2>2. IsFiniteSet(st.proxies[who] \cup {c.def})
    BY Zenon, <1>0, FS_AddElement
  <2> QED BY Zenon, <2>1, <2>2, SetProxiesSound
<1>3. CASE c.pallet = "Proxy" /\ c.method = "remove_proxy"
  <2>1. w = SetProxies(st, who, st.proxies[who] \ {c.def})
    BY <1>3 DEF After
  <2>2. IsFiniteSet(st.proxies[who] \ {c.def})
    BY Zenon, <1>0, FS_RemoveElement
  <2> QED BY Zenon, <2>1, <2>2, SetProxiesSound
<1>4. CASE c.pallet = "Proxy" /\ c.method = "announce"
  <2> DEFINE anns == st.announcements[who] \cup {[real |-> c.real, call |-> c.call, height |-> height]}
  <2>1. w = st \/ w = SetAnnouncements(st, who, anns)
    BY <1>4 DEF After
  <2>2. IsFiniteSet(anns)
    BY Zenon, <1>0, FS_AddElement
  <2>3. Sound(SetAnnouncements(st, who, anns))
    <3> HIDE DEF anns
    <3> QED BY <2>2, SetAnnouncementsSound
  <2> QED BY Zenon, <2>1, <2>3
<1>5. CASE c.pallet = "Proxy" /\ c.method = "remove_announcement"
  <2> DEFINE anns == st.announcements[who] \ Announced(st, who, c.real, c.call)
  <2>1. w = SetAnnouncements(st, who, anns)
    BY <1>5 DEF After
  <2>2. IsFiniteSet(anns)
    BY <1>0, FS_Subset
  <2>3. Sound(SetAnnouncements(st, who, anns))
    <3> HIDE DEF anns
    <3> QED BY <2>2, SetAnnouncementsSound
  <2> QED BY Zenon, <2>1, <2>3
<1>6. CASE c.pallet = "Proxy" /\ c.method = "reject_announcement"
  <2> DEFINE anns == st.announcements[c.delegate] \ Announced(st, c.delegate, who, c.call)
  <2>1. w = SetAnnouncements(st, c.delegate, anns)
    BY <1>6 DEF After
  <2>2. c.delegate \in Holders
    BY <1>6 DEF ProxyCall
  <2>3. IsFiniteSet(st.announcements[c.delegate])
    BY Zenon, <2>2, SoundAt
  <2>4. IsFiniteSet(anns)
    BY <2>3, FS_Subset
  <2>5. Sound(SetAnnouncements(st, c.delegate, anns))
    <3> HIDE DEF anns
    <3> QED BY <2>2, <2>4, SetAnnouncementsSound
  <2> QED BY Zenon, <2>1, <2>5
<1>7. c.pallet = "Proxy" => c.method \notin {"create_pure", "kill_pure", "remove_proxies"}
  BY Zenon DEF NormalFilter
<1> QED
  BY Zenon, <1>1, <1>2, <1>3, <1>4, <1>5, <1>6, <1>7 DEF ProxyCall

\* Taking announcements away lowers what is reserved.
LEMMA WithdrawnSound ==
  ASSUME NEW st, Sound(st), Funds \in Nat, \A b \in Holders : st.reserved[b] <= Funds,
         NEW a \in Holders, NEW S, NEW w, w = SetAnnouncements(st, a, st.announcements[a] \ S)
  PROVE  /\ Sound(w) /\ \A x \in S : x \notin w.announcements[a]
         /\ \A b \in Holders : w.reserved[b] <= Funds
<1> DEFINE anns == st.announcements[a] \ S
<1>1. IsFiniteSet(st.announcements[a])
  BY Zenon, SoundAt
<1>2. IsFiniteSet(anns) /\ AnnouncementDeposit(anns) <= AnnouncementDeposit(st.announcements[a])
  BY <1>1, FS_Subset, Deposits
<1> HIDE DEF anns
<1>3. /\ Sound(w) /\ w.proxies = st.proxies /\ w.announcements[a] = anns
      /\ \A b \in Holders : b # a => w.reserved[b] = st.reserved[b]
  <2>1. w = SetAnnouncements(st, a, anns)
    BY Zenon DEF anns
  <2>2. IsFiniteSet(anns)
    BY Zenon, <1>2
  <2>3. /\ Sound(SetAnnouncements(st, a, anns))
        /\ SetAnnouncements(st, a, anns).proxies = st.proxies
        /\ SetAnnouncements(st, a, anns).announcements[a] = anns
        /\ \A b \in Holders :
              b # a => SetAnnouncements(st, a, anns).reserved[b] = st.reserved[b]
    BY <2>2, SetAnnouncementsSound
  <2> QED BY Zenon, <2>1, <2>3
<1>4. w.reserved[a] <= Funds
  <2> DEFINE p == ProxyDeposit(st.proxies[a])
             n == AnnouncementDeposit(st.announcements[a])
             m == AnnouncementDeposit(anns)
  <2>1. st.reserved[a] = p + n /\ p \in Nat /\ n \in Nat
    BY Zenon, SoundAt
  <2>2. w.reserved[a] = p + m /\ m \in Nat
    <3>1. w.reserved[a] = ProxyDeposit(w.proxies[a]) + AnnouncementDeposit(w.announcements[a])
      BY Zenon, <1>3 DEF Sound
    <3>2. m \in Nat
      BY <1>2, Deposits
    <3> QED BY Zenon, <1>3, <3>1, <3>2
  <2>3. m <= n /\ st.reserved[a] <= Funds
    BY Zenon, <1>2
  <2> HIDE DEF p, n, m
  <2> QED BY <2>1, <2>2, <2>3
<1>5. \A x \in S : x \notin w.announcements[a]
  BY Zenon, <1>3 DEF anns
<1> QED
  BY Zenon, <1>3, <1>4, <1>5

\* The inductive invariant of the proxies.
ProxInv ==
    /\ Sound(state)
    /\ \A a \in Holders : reserved[a] <= Funds

LEMMA StateParts ==
  /\ state.proxies = proxies /\ state.announcements = announcements
  /\ state.reserved = reserved
BY DEF state

LEMMA BecomeKeeps ==
  ASSUME NEW w, Sound(w), \A a \in Holders : w.reserved[a] <= Funds, Become(w)
  PROVE  ProxInv'
<1> DEFINE v == state'
<1>1. proxies' = w.proxies /\ announcements' = w.announcements /\ reserved' = w.reserved
  BY Zenon DEF Become
<1>2. v.proxies = w.proxies /\ v.announcements = w.announcements /\ v.reserved = w.reserved
  BY <1>1 DEF state
<1>3. v \in Parts(w.proxies, w.announcements, w.reserved)
  BY <1>1 DEF state, Parts
<1> HIDE DEF v
<1>4. Sound(v)
  BY Zenon, <1>2, <1>3 DEF Sound
<1>5. \A a \in Holders : reserved'[a] <= Funds
  BY Zenon, <1>1
<1> QED
  BY Zenon, <1>4, <1>5 DEF ProxInv, v

\* The inputs: delegates have keys, and announced calls are calls.
ProxyInputs ==
    /\ Funds \in Nat
    /\ \A d \in Definitions : d.delegate \in Accounts
    /\ \A c \in AnnouncedCalls : ProxyCall(c)

LEMMA CallsAreCalls ==
  ASSUME NEW c \in Calls
  PROVE  ProxyCall(c)
<1>1. CASE c \in OtherCalls
  BY <1>1 DEF OtherCalls, Call, ProxyCall
<1>2. CASE c \in ProxyCalls
  BY <1>2 DEF ProxyCalls, ProxyCall, Holders
<1> QED
  BY Zenon, <1>1, <1>2 DEF Calls

\* A call that succeeds keeps the invariant.
LEMMA CallKeeps ==
  ASSUME NEW st, Sound(st), \A a \in Holders : st.reserved[a] <= Funds,
         NEW who \in Holders, NEW c, ProxyCall(c),
         NormalFilter(c), Succeeds(st, who, c), Become(After(st, who, c))
  PROVE  ProxInv'
<1>1. Sound(After(st, who, c))
  BY Zenon, AfterSound
<1>2. \A a \in Holders : After(st, who, c).reserved[a] <= Funds
  <2>1. CASE c.pallet # "Proxy"
    <3>1. After(st, who, c) = st
      BY <2>1 DEF After
    <3> QED BY Zenon, <3>1
  <2>2. CASE c.pallet = "Proxy"
    BY Zenon, <2>2 DEF Succeeds
  <2> QED BY Zenon, <2>1, <2>2
<1> QED
  BY Zenon, <1>1, <1>2, BecomeKeeps

\* Every step keeps the invariant.
LEMMA ProxStep ==
  ASSUME ProxyInputs, ProxInv, [ProxyNext]_proxyVars
  PROVE  ProxInv'
<1> DEFINE st == state
<1>1. /\ Sound(st) /\ Funds \in Nat
      /\ \A a \in Holders : st.reserved[a] <= Funds
  BY Zenon, StateParts DEF ProxInv, ProxyInputs
<1>2. Accounts \subseteq Holders
  BY DEF Holders
<1>3. CASE \E who \in Accounts, c \in Calls : Sign(who, c)
  <2>1. PICK who \in Accounts, c \in Calls : Sign(who, c)
    BY <1>3
  <2>2. who \in Holders
    BY Zenon, <1>2
  <2>3. NormalFilter(c) /\ Succeeds(st, who, c) /\ Become(After(st, who, c))
    BY Zenon, <2>1 DEF Sign
  <2>4. ProxyCall(c)
    BY Zenon, CallsAreCalls
  <2> HIDE DEF st
  <2> QED BY Zenon, <1>1, <2>2, <2>3, <2>4, CallKeeps
<1>4. CASE \E delegate \in Accounts, real \in Holders, c \in Calls :
             \E type \in {"Any", "NonTransfer", "CancelProxy", "Collator"} :
                proxy(delegate, real, type, c)
  <2>1. PICK delegate \in Accounts, real \in Holders, c \in Calls :
             \E type \in {"Any", "NonTransfer", "CancelProxy", "Collator"} :
                proxy(delegate, real, type, c)
    BY <1>4
  <2>2. NormalFilter(c) /\ Succeeds(st, real, c) /\ Become(After(st, real, c))
    BY Zenon, <2>1 DEF proxy, CanProxy, MayProxy
  <2>3. ProxyCall(c)
    BY Zenon, CallsAreCalls
  <2> HIDE DEF st
  <2> QED BY Zenon, <1>1, <2>2, <2>3, CallKeeps
<1>5. CASE \E def \in Definitions, real \in Holders, c \in AnnouncedCalls :
             proxy_announced(def.delegate, def, real, c)
  <2>1. PICK def \in Definitions, real \in Holders, c \in AnnouncedCalls :
             proxy_announced(def.delegate, def, real, c)
    BY <1>5
  <2> DEFINE d == def.delegate
             ripe == {ann \in Announced(st, d, real, c) : height - ann.height >= def.delay}
             w == SetAnnouncements(st, d, announcements[d] \ ripe)
  <2>2. Become(IF MayProxy(def, c) /\ Succeeds(w, real, c)
                    THEN After(w, real, c) ELSE w)
    BY Zenon, <2>1 DEF proxy_announced
  <2>3. d \in Holders /\ ProxyCall(c)
    BY Zenon, <1>2 DEF ProxyInputs
  <2>4. w = SetAnnouncements(st, d, st.announcements[d] \ ripe)
    BY Zenon, StateParts
  <2> HIDE DEF d, ripe, w, st
  <2>5. Sound(w) /\ \A b \in Holders : w.reserved[b] <= Funds
    BY Zenon, <1>1, <2>3, <2>4, WithdrawnSound
  <2>6. CASE MayProxy(def, c) /\ Succeeds(w, real, c)
    <3>1. NormalFilter(c) /\ Become(After(w, real, c))
      BY Zenon, <2>2, <2>6 DEF MayProxy
    <3> QED BY Zenon, <2>3, <2>5, <2>6, <3>1, CallKeeps
  <2>7. CASE ~(MayProxy(def, c) /\ Succeeds(w, real, c))
    <3>1. Become(w)
      BY Zenon, <2>2, <2>7
    <3> QED BY Zenon, <2>5, <3>1, BecomeKeeps
  <2> QED BY Zenon, <2>6, <2>7
<1>6. CASE UNCHANGED <<proxies, announcements, reserved>>
  <2>1. state' = state
    BY <1>6 DEF state
  <2> QED BY Zenon, <1>6, <2>1 DEF ProxInv
<1> QED
  BY Zenon, <1>3, <1>4, <1>5, <1>6 DEF ProxyNext, Tick, proxyVars

LEMMA ProxInit ==
  ASSUME ProxyInputs, ProxyInit
  PROVE  ProxInv
<1> DEFINE st == state
<1>1. st.proxies = proxies /\ st.announcements = announcements /\ st.reserved = reserved
  BY Zenon, StateParts
<1>2. /\ ForHolders(proxies) /\ ForHolders(announcements) /\ ForHolders(reserved)
      /\ \A a \in Holders : proxies[a] = {} /\ announcements[a] = {} /\ reserved[a] = 0
  BY DEF ProxyInit, ForHolders
<1>3. st \in Parts(proxies, announcements, reserved)
  BY DEF state, Parts
<1>4. IsFiniteSet({}) /\ ProxyDeposit({}) = 0 /\ AnnouncementDeposit({}) = 0
  BY FS_EmptySet, Deposits
<1>5. 0 = 0 + 0 /\ 0 <= Funds
  BY DEF ProxyInputs
<1> HIDE DEF st
<1>6. Sound(st)
  BY Zenon, <1>1, <1>2, <1>3, <1>4, <1>5 DEF Sound
<1> QED
  BY Zenon, <1>2, <1>5, <1>6 DEF ProxInv, st

\* The proxy pallet under the runtime's filters keeps every reserve equal to
\* the deposits of its owner and within its funds, nested proxy calls included.
THEOREM ProxiesInvariant ==
  ASSUME ProxyInputs
  PROVE  ProxySpec => []ProxInv
<1>1. ProxyInit => ProxInv
  BY ProxInit
<1>2. ProxInv /\ [ProxyNext]_proxyVars => ProxInv'
  BY ProxStep
<1> QED
  BY <1>1, <1>2, PTL DEF ProxySpec

\* With the runtime's filter, what an account has reserved is the deposit of
\* its own proxies and announcements: for any accounts and calls.
THEOREM ReservesStayConsistent ==
  ASSUME ProxyInputs
  PROVE  ProxySpec => []ReservesConsistent
<1>1. ProxInv => ReservesConsistent
  BY Zenon, StateParts DEF ProxInv, Sound, ReservesConsistent
<1> QED
  BY <1>1, ProxiesInvariant, PTL

\* Rejecting what was announced changes the state, and costs nothing.
LEMMA RejectionSucceeds ==
  ASSUME NEW st, Sound(st), Funds \in Nat, \A a \in Holders : st.reserved[a] <= Funds,
         NEW d \in Holders, NEW ann \in st.announcements[d], NEW c, c.pallet = "Proxy",
         c.method = "reject_announcement", c.delegate = d, c.call = ann.call
  PROVE  Succeeds(st, ann.real, c)
<1> DEFINE S == Announced(st, d, ann.real, ann.call)
           w == SetAnnouncements(st, d, st.announcements[d] \ S)
<1>1. ann \in S
  BY Zenon DEF Announced
<1>2. After(st, ann.real, c) = w
  BY DEF After
<1> HIDE DEF S
<1>3. ann \notin w.announcements[d]
  BY Zenon, <1>1, WithdrawnSound
<1>4. \A b \in Holders : w.reserved[b] <= Funds
  BY Zenon, WithdrawnSound
<1> HIDE DEF w
<1>5. w # st
  BY Zenon, <1>1, <1>3
<1> QED
  BY Zenon, <1>2, <1>4, <1>5 DEF Succeeds

\* While a call is announced for an account, each of its undelayed cancel
\* proxies can reject it: the rejection is let through, and always affordable.
THEOREM AnnouncementsStayCancellable ==
  ASSUME ProxyInputs
  PROVE  ProxySpec => []AnnouncementsCancellable
<1>1. ProxInv => AnnouncementsCancellable
  <2> SUFFICES ASSUME ProxInv, NEW d \in Accounts, NEW e \in Accounts, NEW real \in Accounts,
                      NEW ann \in announcements[d], ann.real = real,
                      [delegate |-> e, type |-> "CancelProxy", delay |-> 0] \in proxies[real]
               PROVE  CanProxy(e, real, "CancelProxy",
                            [pallet |-> "Proxy", method |-> "reject_announcement",
                             delegate |-> d, call |-> ann.call])
    BY Zenon DEF AnnouncementsCancellable
  <2> DEFINE st == state
             def == [delegate |-> e, type |-> "CancelProxy", delay |-> 0]
             c == [pallet |-> "Proxy", method |-> "reject_announcement", delegate |-> d,
                   call |-> ann.call]
  <2>1. /\ Sound(st) /\ Funds \in Nat /\ d \in Holders
        /\ \A a \in Holders : st.reserved[a] <= Funds
        /\ ann \in st.announcements[d]
    BY Zenon, StateParts DEF ProxInv, ProxyInputs, Holders
  <2>2. MayProxy(def, c)
    BY DEF MayProxy, NormalFilter, filter
  <2>3. def.delegate = e /\ def.type = "CancelProxy" /\ def.delay = 0
    OBVIOUS
  <2>4. c.pallet = "Proxy" /\ c.method = "reject_announcement" /\ c.delegate = d /\ c.call = ann.call
    OBVIOUS
  <2>5. def \in proxies[real]
    BY Zenon
  <2> HIDE DEF st, def, c
  <2>6. Succeeds(st, real, c)
    BY Zenon, <2>1, <2>4, RejectionSucceeds
  <2>7. CanProxy(e, real, "CancelProxy", c)
    BY Zenon, <2>2, <2>3, <2>5, <2>6 DEF CanProxy, st
  <2> QED BY Zenon, <2>7 DEF c
<1> QED
  BY <1>1, ProxiesInvariant, PTL

=============================================================================
