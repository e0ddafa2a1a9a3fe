---------------------------- MODULE RoscaIndexer ----------------------------
(***************************************************************************)
(* The SubQuery project beside the chain: the events of every call are     *)
(* handed, in the order they were deposited, to one mapping handler each,  *)
(* and the handlers keep the entities the web pages read.  The chain does  *)
(* not wait for them, so the pages may see a past of the chain.            *)
(*                                                                         *)
(* SubQuery itself (which handler gets which event, one at a time and in   *)
(* chain order, and that an interrupted block is rolled back and handed    *)
(* over again) is external.  RoscaManuallyEnded, the one event without a   *)
(* handler, is never deposited.                                            *)
(*                                                                         *)
(* Source: indexer/src/mappings/mappingHandlers.ts, indexer/project.ts and *)
(* indexer/schema.graphql.                                                 *)
(***************************************************************************)
EXTENDS RoscaPallet

CONSTANTS
    MaxInt,             \* the largest Int of the schema, 2^31 - 1
    MaxLag              \* bound: the chain pauses when so many events wait

ASSUME MaxLagAssumption == MaxInt \in Nat /\ MaxLag \in Nat \ {0}

VARIABLES
    feed,               \* events deposited on the chain and not yet handled
    index               \* the entities

indexVars == <<feed, index>>

\* A Round entity of a round announced at the start.
RoundEntity(round) ==
    [round |-> round, defaulters |-> {}, actualContributors |-> {}]

\* Before handleRoscaCreated there is no Rosca entity.  A Rosca entity is
\* kept here with the entities that hang off it: its rounds, the eligible
\* accounts whose joinedAt is set, and the SecurityDeposit entities.
NoEntity ==
    [exists |-> FALSE, creator |-> None, minParticipants |-> 0, contributionAmount |-> 0,
     eligibleParticipants |-> {}, activeParticipants |-> {}, joinedAt |-> {},
     startedBy |-> None, completed |-> FALSE,
     currentRecipient |-> None, currentRoundNumber |-> 0,
     currentRoundPaymentCutoff |-> None, rounds |-> << >>,
     totalSecurityDeposits |-> 0, deposits |-> [p \in Accounts |-> None]]

IndexInit ==
    /\ Init
    /\ feed = << >>
    /\ index = [accounts |-> {}, rosca |-> [id \in RoscaIds |-> NoEntity]]

-----------------------------------------------------------------------------
(***************************************************************************)
(* What the handlers write: x is the set of entities, e the event.         *)
(***************************************************************************)

handleRoscaCreated(x, e) ==
    [accounts |-> x.accounts \cup e.eligible_participants,
     rosca    |-> [x.rosca EXCEPT ![e.rosca_id] =
        [NoEntity EXCEPT !.exists = TRUE,
                         !.creator = e.creator,
                         !.minParticipants = e.details.minimum_participant_threshold,
                         !.contributionAmount = e.details.contribution_amount,
                         !.eligibleParticipants = e.eligible_participants,
                         !.activeParticipants = {e.creator},
                         !.joinedAt = {e.creator}]]]

\* Writing the entities of circle id back to the store.
save(x, id, rosca) == [x EXCEPT !.rosca[id] = rosca]

handleRoscaStarted(x, e) ==
    save(x, e.rosca_id,
         [x.rosca[e.rosca_id] EXCEPT
            !.startedBy = e.started_by,
            !.currentRecipient = e.first_eligible_claimant,
            !.currentRoundNumber = 1,
            !.currentRoundPaymentCutoff = e.first_payment_cutoff,
            !.rounds = [k \in DOMAIN e.rounds |-> RoundEntity(e.rounds[k])]])

\* The rounds a handler looks up by their recipient: every member receives in
\* one round, so the query's limit of one is never reached.
RoundsOf(rounds, recipient) == {k \in DOMAIN rounds : rounds[k].round.recipient = recipient}

\* The rounds with p among the defaulters, or the contributors, of those that
\* recipient is looked up by.
WithDefaulter(rounds, recipient, p) ==
    [k \in DOMAIN rounds |-> IF k \in RoundsOf(rounds, recipient)
                             THEN [rounds[k] EXCEPT !.defaulters = @ \cup {p}]
                             ELSE rounds[k]]

WithContributor(rounds, recipient, p) ==
    [k \in DOMAIN rounds |-> IF k \in RoundsOf(rounds, recipient)
                             THEN [rounds[k] EXCEPT !.actualContributors = @ \cup {p}]
                             ELSE rounds[k]]

handleParticipantDefaulted(x, e) ==
    save(x, e.rosca_id,
         [x.rosca[e.rosca_id] EXCEPT
            !.rounds = WithDefaulter(@, e.unpaid_recipient, e.defaulter)])

handleContributionMade(x, e) ==
    save(x, e.rosca_id,
         [x.rosca[e.rosca_id] EXCEPT !.rounds = WithContributor(@, e.recipient, e.contributor)])

\* Mutant: a deduction leaves no trace.
handleDepositDeducted_Ignored(x, e) == x

\* Does what handleContributionMade does: neither the amount nor whether it
\* was sufficient is looked at, and the deposit's entity is left as it is.
handleDepositDeducted(x, e) ==
    save(x, e.rosca_id,
         [x.rosca[e.rosca_id] EXCEPT !.rounds = WithContributor(@, e.recipient, e.contributor)])

\* Without the Rosca entity, or the eligibility that was created with it, the
\* handler returns.  Its branch for a block without a timestamp is not reached:
\* every block sets the time with an inherent before it executes calls.
handleJoinedRosca(x, e) ==
    LET rosca == x.rosca[e.rosca_id]
    IN  IF e.contributor \notin rosca.eligibleParticipants THEN x
        ELSE save(x, e.rosca_id,
                  [rosca EXCEPT !.joinedAt = @ \cup {e.contributor},
                                !.activeParticipants = @ \cup {e.contributor}])

handleLeftRosca(x, e) ==
    LET rosca == x.rosca[e.rosca_id]
    IN  IF e.contributor \notin rosca.eligibleParticipants THEN x
        ELSE save(x, e.rosca_id,
                  [rosca EXCEPT !.joinedAt = @ \ {e.contributor},
                                !.activeParticipants = @ \ {e.contributor}])

\* Mutant: the completion is not written.
handleRoscaComplete_Dropped(x, e) == x

handleRoscaComplete(x, e) ==
    LET rosca == x.rosca[e.rosca_id]
    IN  IF ~rosca.exists THEN x
        ELSE save(x, e.rosca_id, [rosca EXCEPT !.completed = TRUE])

\* A second deposit is added to the first.
handleSecurityDepositContribution(x, e) ==
    LET rosca == x.rosca[e.rosca_id]
    IN  IF e.depositor \notin x.accounts THEN x
        ELSE save(x, e.rosca_id,
                  [rosca EXCEPT
                     !.deposits[e.depositor] = (IF @ = None THEN 0 ELSE @) + e.amount,
                     !.totalSecurityDeposits = @ + e.amount])

\* Mutant: removes the deposit and leaves the total.
handleSecurityDepositClaimed_TotalKept(x, e) ==
    IF x.rosca[e.rosca_id].deposits[e.depositor] # e.amount THEN x
    ELSE [x EXCEPT !.rosca[e.rosca_id].deposits[e.depositor] = None]

\* A claim of another amount than the indexed one is logged and dropped.
handleSecurityDepositClaimed(x, e) ==
    LET rosca == x.rosca[e.rosca_id]
    IN  IF rosca.deposits[e.depositor] # e.amount THEN x
        ELSE save(x, e.rosca_id,
                  [rosca EXCEPT !.deposits[e.depositor] = None,
                                !.totalSecurityDeposits = @ - e.amount])

\* Mutant: the round number is not advanced.
handleNewRoundStarted_NumberKept(x, e) ==
    [x EXCEPT !.rosca[e.rosca_id].currentRecipient = e.new_eligible_recipient]

\* The cutoff of the event, a point in time, is added to the one stored.
handleNewRoundStarted(x, e) ==
    LET rosca == x.rosca[e.rosca_id]
    IN  IF ~rosca.exists THEN x
        ELSE save(x, e.rosca_id,
                  [rosca EXCEPT !.currentRecipient = e.new_eligible_recipient,
                                !.currentRoundNumber = @ + 1,
                                !.currentRoundPaymentCutoff = @ + e.payment_cutoff])

-----------------------------------------------------------------------------
(***************************************************************************)
(* The steps                                                               *)
(***************************************************************************)

\* A call (or a block) on the chain: its events join the feed.
ChainStep ==
    /\ Len(feed) < MaxLag
    /\ Next
    /\ feed' = feed \o events'
    /\ UNCHANGED index

\* The store takes the entities: the columns of the two fields that are of type
\* Int hold no more.
Storable(x) ==
    \A id \in RoscaIds :
        /\ x.rosca[id].totalSecurityDeposits <= MaxInt
        /\ \A p \in Accounts : x.rosca[id].deposits[p] # None => x.rosca[id].deposits[p] <= MaxInt

\* SubQuery hands the oldest event to the handler registered for its type.  When
\* the store refuses what the handler saved, the block fails and SubQuery stops,
\* to meet the same block again whenever it is started.
HandleEvent ==
    /\ feed # << >>
    /\ LET e == Head(feed)
       IN  \/ e.type = "RoscaCreated" /\ index' = handleRoscaCreated(index, e)
           \/ e.type = "RoscaStarted" /\ index' = handleRoscaStarted(index, e)
           \/ e.type = "ParticipantDefaulted" /\ index' = handleParticipantDefaulted(index, e)
           \/ e.type = "ContributionMade" /\ index' = handleContributionMade(index, e)
           \/ e.type = "DepositDeducted" /\ index' = handleDepositDeducted(index, e)
           \/ e.type = "JoinedRosca" /\ index' = handleJoinedRosca(index, e)
           \/ e.type = "LeftRosca" /\ index' = handleLeftRosca(index, e)
           \/ e.type = "RoscaComplete" /\ index' = handleRoscaComplete(index, e)
           \/ /\ e.type = "SecurityDepositContribution"
              /\ index' = handleSecurityDepositContribution(index, e)
           \/ e.type = "SecurityDepositClaimed" /\ index' = handleSecurityDepositClaimed(index, e)
           \/ e.type = "NewRoundStarted" /\ index' = handleNewRoundStarted(index, e)
    /\ Storable(index')
    /\ feed' = Tail(feed)
    /\ UNCHANGED vars

IndexNext == ChainStep \/ HandleEvent

IndexSpec == IndexInit /\ [][IndexNext]_<<vars, indexVars>>
=============================================================================
