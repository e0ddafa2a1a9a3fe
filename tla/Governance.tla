----------------------------- MODULE Governance -----------------------------
(***************************************************************************)
(* Governance of the runtime (runtime/src/configs/governance): the tracks  *)
(* and origins of referenda, the limits of the treasury's spenders and the *)
(* whitelist.  The referenda and the scheduler are external; their steps   *)
(* are here as the tracks parameterise them.  Time counts blocks and jumps *)
(* from one due moment to the next; amounts count CENTS.                   *)
(***************************************************************************)
EXTENDS Integers, FiniteSets, FiniteSetsExt

CONSTANTS MaxReferenda, \* bound: referenda submitted
          MaxQueued,    \* room in the queue of a track (20 in the runtime)
          Plans,        \* what may be put to referenda, each with origin and call
          SudoCalls,    \* calls the sudo key may dispatch, each once
          Moments,      \* blocks in which users may act, besides the due ones
          MaxVotes      \* bound: times the votes turn around

VARIABLES plan,         \* what the users of this behaviour put to referenda
          now,          \* the block number
          referendum,   \* the referenda
          deciding,     \* DecidingCount of each track
          freed,        \* calls of one_fewer_deciding on their way
          queue,        \* TrackQueue of each track
          early,        \* referenda of each track removed before their deciding
          agenda,       \* approved proposals waiting for their enactment
          treasury,     \* spends: who approved how much
          whitelisted,  \* the upgrade is on the whitelist
          upgraded,     \* ways the upgrade was dispatched as Root
          sudoed,       \* calls dispatched with the sudo key
          votes

vars == <<plan, now, referendum, deciding, freed, queue, early, agenda, treasury,
          whitelisted, upgraded, sudoed, votes>>

(* Indices as ReferendumCount hands them out.                              *)
Referenda == 0 .. MaxReferenda - 1

MINUTES == 10
DAYS == 24 * 60 * MINUTES
GRAND == 100000

(* TRACKS_DATA.                                                            *)
Track(max, deposit, prepare, decision, confirm, enactment) ==
    [max_deciding |-> max, decision_deposit |-> deposit,
     prepare_period |-> prepare * MINUTES, decision_period |-> decision * MINUTES,
     confirm_period |-> confirm * MINUTES, min_enactment_period |-> enactment * MINUTES]

TrackIds == {0, 1, 11, 20, 21, 30, 31, 32, 33, 34}

TRACKS_DATA == [id \in TrackIds |->
    CASE id = 0  -> Track(1, 100 * GRAND, 8, 20, 12, 5)
      [] id = 1  -> Track(100, 10 * GRAND, 6, 20, 4, 3)
      [] id = 11 -> Track(10, GRAND, 8, 20, 8, 5)
      [] id = 20 -> Track(1000, 10 * GRAND, 8, 14, 8, 3)
      [] id = 21 -> Track(1000, 50 * GRAND, 8, 20, 8, 3)
      [] id = 30 -> Track(200, 3, 1, 14, 4, 1)
      [] id = 31 -> Track(100, 10 * 3, 4, 14, 12, 3)
      [] id = 32 -> Track(50, 100 * 3, 10, 20, 10, 5)
      [] id = 33 -> Track(50, 200 * 3, 10, 20, 12, 5)
      [] id = 34 -> Track(50, 400 * 3, 10, 20, 14, 5)]

Origins == {"Root", "WhitelistedCaller", "Treasurer", "ReferendumCanceller",
            "ReferendumKiller", "SmallTipper", "BigTipper", "SmallSpender",
            "MediumSpender", "BigSpender"}

(* TracksInfo::track_for; every other origin, a signed one for instance,   *)
(* has no track.                                                           *)
track_for(origin) ==
    CASE origin = "Root" -> 0
      [] origin = "WhitelistedCaller" -> 1
      [] origin = "Treasurer" -> 11
      [] origin = "ReferendumCanceller" -> 20
      [] origin = "ReferendumKiller" -> 21
      [] origin = "SmallTipper" -> 30
      [] origin = "BigTipper" -> 31
      [] origin = "SmallSpender" -> 32
      [] origin = "MediumSpender" -> 33
      [] origin = "BigSpender" -> 34

UndecidingTimeout == 14 * DAYS

(* What each origin may spend in one call; Root has no limit.              *)
Spender ==
    [SmallTipper |-> 250 * 3, BigTipper |-> GRAND, SmallSpender |-> 10 * GRAND,
     MediumSpender |-> 100 * GRAND, BigSpender |-> 1000 * GRAND,
     Treasurer |-> 10000 * GRAND]

TreasurySpender(origin, amount) ==
    \/ origin = "Root"
    \/ origin \in DOMAIN Spender /\ amount <= Spender[origin]

ApproveOrigin(origin) == origin \in {"Root", "Treasurer"}

CancelOrigin(origin) == origin = "Root"
KillOrigin(origin) == origin = "Root"

WhitelistOrigin_Caller(origin) == origin \in {"Root", "WhitelistedCaller"}

WhitelistOrigin(origin) == origin = "Root"
DispatchWhitelistedOrigin(origin) == origin \in {"Root", "WhitelistedCaller"}

-----------------------------------------------------------------------------

Never == -1

NoReferendum ==
    [status |-> "none", origin |-> "Root", call |-> [kind |-> "none"], submitted |-> Never,
     deposit |-> FALSE, since |-> Never, confirming |-> Never, queued |-> FALSE,
     alarm |-> Never, passing |-> FALSE, lost |-> Never]

track(r) == TRACKS_DATA[track_for(referendum[r].origin)]

InTrack(r, id) == track_for(referendum[r].origin) = id

Ongoing(r) == r \in Referenda /\ referendum[r].status = "ongoing"

Init ==
    /\ plan \in Plans /\ now = 0
    /\ referendum = [r \in Referenda |-> NoReferendum]
    /\ deciding = [id \in TrackIds |-> 0]
    /\ freed = [id \in TrackIds |-> 0]
    /\ queue = [id \in TrackIds |-> {}] /\ early = [id \in TrackIds |-> 0]
    /\ agenda = {} /\ treasury = {}
    /\ whitelisted = FALSE /\ upgraded = {}
    /\ sudoed = {} /\ votes = 0

Set(r, q) == referendum' = [referendum EXCEPT ![r] = q]

submit(r) ==
    LET p == plan[r]
    IN  /\ r \in DOMAIN plan /\ p.origin \in Origins
        /\ referendum[r].status = "none"
        /\ \A i \in 0 .. r - 1 : referendum[i].status # "none"
        /\ Set(r, [NoReferendum EXCEPT !.status = "ongoing", !.origin = p.origin,
                                       !.call = p.call, !.submitted = now,
                                       !.alarm = now + UndecidingTimeout])
        /\ UNCHANGED <<plan, now, deciding, freed, queue, early, agenda, treasury,
                       whitelisted, upgraded, sudoed, votes>>

(* The referendum enters the deciding phase.                               *)
Begun(q, t) ==
    LET c == IF q.passing THEN now + t.confirm_period ELSE Never
    IN  [q EXCEPT !.since = now, !.queued = FALSE, !.confirming = c,
                  !.lost = IF q.passing THEN @ ELSE now,
                  !.alarm = IF q.passing THEN c ELSE now + t.decision_period]

Rejects(q, t) == ~q.passing /\ now >= q.since + t.decision_period
Approves(q) == q.passing /\ q.confirming # Never /\ now >= q.confirming

StillDeciding_KeepsConfirming(q, t) ==
    LET c == IF q.confirming = Never /\ q.passing THEN now + t.confirm_period ELSE q.confirming
    IN  [q EXCEPT !.confirming = c, !.lost = IF q.passing THEN @ ELSE now,
                  !.alarm = IF q.passing THEN c ELSE q.since + t.decision_period]

(* Confirmation starts over whenever the votes are found not to pass.      *)
StillDeciding(q, t) ==
    LET c == IF ~q.passing THEN Never
             ELSE IF q.confirming = Never THEN now + t.confirm_period ELSE q.confirming
    IN  [q EXCEPT !.confirming = c, !.lost = IF q.passing THEN @ ELSE now,
                  !.alarm = IF q.passing THEN c ELSE q.since + t.decision_period]

(* A referendum that ended keeps no record of its deciding; what it was    *)
(* about stays on record when it was approved.                             *)
Ended(status) == [NoReferendum EXCEPT !.status = status]

Approved(q) == [Ended("approved") EXCEPT !.origin = q.origin, !.call = q.call]

Ready(q, t) == q.deposit /\ now >= q.submitted + t.prepare_period

(* A queue is sorted by ayes, which the model leaves open.  Putting r into  *)
(* a full one drops the entry with the fewest, which may be r itself.       *)
Insertions(S, r) ==
    IF Cardinality(S) < MaxQueued THEN {S \cup {r}}
    ELSE {(S \cup {r}) \ {x} : x \in S \cup {r}}

(* A queued referendum that is looked at again slides to its place.  One    *)
(* that was dropped goes back in only ahead of another entry.               *)
Requeued(S, r) ==
    IF r \in S \/ S = {} THEN {S} ELSE {S} \cup Insertions(S, r)

(* service_referendum on the record q of r.                                *)
Service(r, q) ==
    LET t == TRACKS_DATA[track_for(q.origin)]
        id == track_for(q.origin)
    IN  \/ /\ q.since = Never /\ ~q.queued /\ Ready(q, t)
           /\ deciding[id] < t.max_deciding
           /\ Set(r, Begun(q, t)) /\ deciding' = [deciding EXCEPT ![id] = @ + 1]
           /\ UNCHANGED <<freed, queue, agenda>>
        \/ /\ q.since = Never /\ ~q.queued /\ Ready(q, t)
           /\ deciding[id] >= t.max_deciding
           /\ Set(r, [q EXCEPT !.queued = TRUE, !.alarm = Never])
           /\ \E S \in Insertions(queue[id], r) : queue' = [queue EXCEPT ![id] = S]
           /\ UNCHANGED <<deciding, freed, agenda>>
        \/ /\ q.since = Never /\ ~q.queued /\ ~Ready(q, t)
           /\ Set(r, IF now >= q.submitted + UndecidingTimeout THEN Ended("timedout")
                     ELSE [q EXCEPT !.alarm = q.submitted +
                              IF q.deposit THEN t.prepare_period ELSE UndecidingTimeout])
           /\ UNCHANGED <<deciding, freed, queue, agenda>>
        \/ /\ q.queued
           /\ Set(r, [q EXCEPT !.alarm = Never])
           /\ \E S \in Requeued(queue[id], r) : queue' = [queue EXCEPT ![id] = S]
           /\ UNCHANGED <<deciding, freed, agenda>>
        \/ /\ q.since # Never /\ ~Approves(q) /\ ~Rejects(q, t)
           /\ Set(r, StillDeciding(q, t)) /\ UNCHANGED <<deciding, freed, queue, agenda>>
        \/ /\ q.since # Never /\ Rejects(q, t)
           /\ Set(r, Ended("rejected"))
           /\ freed' = [freed EXCEPT ![id] = @ + 1]
           /\ UNCHANGED <<deciding, queue, agenda>>
        \/ /\ q.since # Never /\ Approves(q)
           /\ Set(r, Approved(q))
           /\ freed' = [freed EXCEPT ![id] = @ + 1]
           /\ agenda' = agenda \cup {[at |-> now + t.min_enactment_period, of |-> r]}
           /\ UNCHANGED <<deciding, queue>>

place_decision_deposit(r) ==
    /\ Ongoing(r) /\ ~referendum[r].deposit
    /\ Service(r, [referendum[r] EXCEPT !.deposit = TRUE])
    /\ UNCHANGED <<plan, now, early, treasury, whitelisted, upgraded, sudoed, votes>>

(* The scheduler calls nudge_referendum when the alarm is due.             *)
nudge_referendum(r) ==
    /\ Ongoing(r) /\ referendum[r].alarm # Never /\ referendum[r].alarm <= now
    /\ Service(r, referendum[r])
    /\ UNCHANGED <<plan, now, early, treasury, whitelisted, upgraded, sudoed, votes>>

(* Entries are taken from the end of the queue, removed referenda skipped, *)
(* until one is found that goes on; it takes the slot over.  When none is  *)
(* found the count goes down and the queue stays as it is stored.          *)
one_fewer_deciding(id) ==
    LET waiting == {r \in queue[id] : Ongoing(r)}
    IN  /\ freed[id] > 0
        /\ freed' = [freed EXCEPT ![id] = @ - 1]
        /\ \/ /\ waiting = {}
              /\ deciding' = [deciding EXCEPT ![id] = IF @ = 0 THEN 0 ELSE @ - 1]
              /\ UNCHANGED <<referendum, queue>>
           \/ /\ \E r \in waiting, skipped \in SUBSET (queue[id] \ waiting) :
                    /\ Set(r, Begun(referendum[r], TRACKS_DATA[id]))
                    /\ queue' = [queue EXCEPT ![id] = @ \ (skipped \cup {r})]
              /\ UNCHANGED deciding
        /\ UNCHANGED <<plan, now, early, agenda, treasury, whitelisted, upgraded, sudoed, votes>>

(* Votes, or time and the curves, turn the tally; the poll's next look at  *)
(* it is a block later.                                                    *)
vote(r) ==
    /\ Ongoing(r) /\ votes < MaxVotes
    /\ votes' = votes + 1
    /\ Set(r, [referendum[r] EXCEPT !.passing = ~@, !.alarm = now + 1])
    /\ UNCHANGED <<plan, now, deciding, freed, queue, early, agenda, treasury, whitelisted,
                   upgraded, sudoed>>

Removed_KeepsSlot(r, status) ==
    /\ Ongoing(r)
    /\ Set(r, Ended(status))
    /\ UNCHANGED <<freed, early>>

(* cancel and kill call one_fewer_deciding whether or not the referendum   *)
(* was being decided, and leave its entry in the queue.                    *)
Removed(r, status) ==
    LET id == track_for(referendum[r].origin)
    IN  /\ Ongoing(r)
        /\ Set(r, Ended(status))
        /\ freed' = [freed EXCEPT ![id] = @ + 1]
        /\ early' = IF referendum[r].since = Never THEN [early EXCEPT ![id] = @ + 1] ELSE early

Spend(origin, call) == treasury' = treasury \cup {[by |-> origin, via |-> call.kind,
                                                   amount |-> call.amount]}

(* The call of an enacted proposal with the proposal's origin.  A call     *)
(* that fails has no effect.                                               *)
Dispatch(origin, call) ==
    \/ /\ call.kind = "spend" /\ TreasurySpender(origin, call.amount)
       /\ Spend(origin, call) /\ UNCHANGED <<referendum, freed, early, whitelisted, upgraded>>
    \/ /\ call.kind = "approve_proposal" /\ ApproveOrigin(origin)
       /\ Spend(origin, call) /\ UNCHANGED <<referendum, freed, early, whitelisted, upgraded>>
    \/ /\ call.kind = "cancel" /\ CancelOrigin(origin)
       /\ Removed(call.of, "cancelled") /\ UNCHANGED <<treasury, whitelisted, upgraded>>
    \/ /\ call.kind = "kill" /\ KillOrigin(origin)
       /\ Removed(call.of, "killed") /\ UNCHANGED <<treasury, whitelisted, upgraded>>
    \/ /\ call.kind = "whitelist_call" /\ WhitelistOrigin(origin)
       /\ whitelisted' = TRUE /\ UNCHANGED <<referendum, freed, early, treasury, upgraded>>
    \/ /\ call.kind = "dispatch_whitelisted_call"
       /\ DispatchWhitelistedOrigin(origin) /\ whitelisted
       /\ whitelisted' = FALSE /\ upgraded' = upgraded \cup {origin}
       /\ UNCHANGED <<referendum, freed, early, treasury>>

Fails(origin, call) ==
    CASE call.kind = "spend" -> ~TreasurySpender(origin, call.amount)
      [] call.kind = "approve_proposal" -> ~ApproveOrigin(origin)
      [] call.kind = "cancel" -> ~CancelOrigin(origin) \/ ~Ongoing(call.of)
      [] call.kind = "kill" -> ~KillOrigin(origin) \/ ~Ongoing(call.of)
      [] call.kind = "whitelist_call" -> ~WhitelistOrigin(origin)
      [] call.kind = "dispatch_whitelisted_call" ->
            ~DispatchWhitelistedOrigin(origin) \/ ~whitelisted

Enact(e) ==
    LET q == referendum[e.of]
    IN  /\ e \in agenda /\ e.at <= now
        /\ agenda' = agenda \ {e}
        /\ \/ Dispatch(q.origin, q.call)
           \/ /\ Fails(q.origin, q.call)
              /\ UNCHANGED <<referendum, freed, early, treasury, whitelisted, upgraded>>
        /\ UNCHANGED <<plan, now, deciding, queue, sudoed, votes>>

(* sudo: the holder of the sudo key dispatches as Root, at once.           *)
sudo(call) ==
    /\ call \in SudoCalls \ sudoed
    /\ sudoed' = sudoed \cup {call}
    /\ Dispatch("Root", call)
    /\ UNCHANGED <<plan, now, deciding, queue, agenda, votes>>

DueMoments ==
    {referendum[r].alarm : r \in {x \in Referenda : Ongoing(x)}} \cup {e.at : e \in agenda}

LaterMoments == {m \in DueMoments : m > now}

(* The scheduler serves what is due before the block's transactions; a     *)
(* freed slot waits for the next block.                                    *)
Served == \A m \in DueMoments : m = Never \/ m > now

Settled ==
    /\ Served
    /\ \A id \in TrackIds : freed[id] = 0

AdvanceTo(m) ==
    /\ Settled
    /\ now' = m
    /\ UNCHANGED <<plan, referendum, deciding, freed, queue, early, agenda, treasury,
                   whitelisted, upgraded, sudoed, votes>>

Advance ==
    /\ LaterMoments # {}
    /\ AdvanceTo(Min(LaterMoments))

Pause == \E m \in Moments : now < m /\ (\A d \in LaterMoments : m < d) /\ AdvanceTo(m)

Users ==
    /\ Served
    /\ \/ \E r \in Referenda : submit(r) \/ place_decision_deposit(r) \/ vote(r)
       \/ \E call \in SudoCalls : sudo(call)

Scheduled ==
    \/ \E r \in Referenda : nudge_referendum(r)
    \/ \E id \in TrackIds : one_fewer_deciding(id)
    \/ \E e \in agenda : Enact(e)

Next == Users \/ Scheduled \/ Advance \/ Pause

Spec == Init /\ [][Next]_vars

(* Blocks go on being produced, and the scheduler serves what is due: weak *)
(* fairness of Scheduled, enabled unless Settled, and of Advance, with     *)
(* ENABLED written out.                                                    *)
FairSpec ==
    /\ Spec
    /\ []<>Settled \/ []<><<Scheduled>>_vars
    /\ []<>(~Settled \/ LaterMoments = {}) \/ []<><<Advance>>_vars

-----------------------------------------------------------------------------

(* DecidingCount and the referenda being decided stay in step, whatever    *)
(* votes, removals and promotions come between: no slot is lost, so the    *)
(* count is never more than the referenda being decided and the releases   *)
(* on their way, and at most max_deciding; and it lags behind them by no   *)
(* more than the referenda cancelled or killed before their deciding, for  *)
(* which a release is made that nobody held a slot for.                    *)
SlotsAccounted ==
    \A id \in TrackIds :
        LET held == Cardinality({r \in Referenda : Ongoing(r) /\ InTrack(r, id)
                                                    /\ referendum[r].since # Never})
        IN  /\ deciding[id] <= held + freed[id]
            /\ held + freed[id] <= deciding[id] + early[id]
            /\ deciding[id] <= TRACKS_DATA[id].max_deciding

(* A referendum is approved only when no look at its tally during the last *)
(* confirm_period of its track, all of it in the deciding phase, found the *)
(* votes failing.                                                          *)
ConfirmedThroughout ==
    [][\A r \in Referenda :
          Ongoing(r) /\ referendum'[r].status = "approved" =>
             LET q == referendum[r]
             IN  Max({q.since, q.lost}) + track(r).confirm_period <= now]_vars

(* Whoever dispatches the whitelisted call with Root's privilege, Root, by *)
(* the sudo key or an approved Root referendum, had whitelisted it first.  *)
WhitelistedByRoot ==
    whitelisted \/ upgraded # {} =>
        \/ \E c \in sudoed : c.kind = "whitelist_call"
        \/ \E r \in Referenda : /\ referendum[r].status = "approved"
                                 /\ referendum[r].origin = "Root"
                                 /\ referendum[r].call.kind = "whitelist_call"

(* Whatever leaves the treasury on a track's authority was approved in a   *)
(* referendum of that track and stays within the track's Spender limit,    *)
(* except that Root and the Treasurer approve proposals of any amount.     *)
OutlaysApproved ==
    \A s \in treasury :
        \/ s.by = "Root" /\ \E c \in sudoed : c.kind = s.via
        \/ /\ \E r \in Referenda : /\ referendum[r].status = "approved"
                                    /\ referendum[r].origin = s.by
                                    /\ referendum[r].call.kind = s.via
                                    /\ referendum[r].call.amount = s.amount
           /\ \/ s.by = "Root"
              \/ s.by = "Treasurer" /\ s.via = "approve_proposal"
              \/ s.amount <= Spender[s.by]

(* Whatever is enacted has the authority it needs, through any order of    *)
(* approvals, removals and uses of the sudo key: outlays stay within the   *)
(* Spender limits of origins.rs, and the WhitelistedCaller track alone     *)
(* upgrades nothing.                                                       *)
ActsAuthorised == OutlaysApproved /\ WhitelistedByRoot

Dropped(r) ==
    /\ Ongoing(r) /\ referendum[r].queued
    /\ r \notin queue[track_for(referendum[r].origin)]

(* Every submitted referendum ends, one that waits in the queue of a full  *)
(* track included, whatever is cancelled or killed around it: unless a     *)
(* full queue drops it.  That one has no alarm, and is bound to be looked  *)
(* at again neither outside the queue nor, when votes bring it back into   *)
(* it after the last slot was given back, inside.                          *)
ReferendaEnd == \A r \in Referenda : []~Dropped(r) => (Ongoing(r) ~> ~Ongoing(r))
=============================================================================
