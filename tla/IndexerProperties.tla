------------------------- MODULE IndexerProperties -------------------------
(***************************************************************************)
(* What the index promises of the chain, as properties of RoscaIndexer.    *)
(***************************************************************************)
EXTENDS RoscaIndexer, RoscaProperties

Synced == feed = << >>

Entity(id) == index.rosca[id]

-----------------------------------------------------------------------------
(***************************************************************************)
(* With no event waiting, the entities say what the chain says             *)
(***************************************************************************)

\* Through any order of joins, leaves, re-joins, starts and ends, the index
\* agrees with the chain on which phase a circle is in and on who its members
\* are, and its two records of the members agree with each other.
IndexAgreesOnMembers ==
    Synced => \A id \in RoscaIds :
        LET x == Entity(id)
            c == circle[id]
        IN  /\ x.exists <=> id < next_rosca_id
            /\ x.startedBy # None <=> Active(c) \/ Completed(c)
            /\ x.completed <=> Completed(c)
            /\ x.activeParticipants = Members(c)
            /\ x.joinedAt = Members(c)

\* The number of the round open in active circle c, counted from 1.
OpenRound(c) ==
    Len(c.active_order)
        - (c.final_pay_by - c.next_pay_by) \div c.active_roscas.contribution_frequency

\* However many rounds one call closes, the index's current round is the one
\* open on the chain: the same number and recipient, and the Round entity of
\* that number has the cutoff the chain will apply and names exactly the
\* contributions the chain has counted in it.
IndexAgreesOnRound ==
    Synced => \A id \in RoscaIds :
        LET x == Entity(id)
            c == circle[id]
            k == OpenRound(c)
        IN  Active(c) =>
              /\ x.currentRoundNumber = k
              /\ x.currentRecipient = c.eligible_claimant
              /\ x.rounds[k].round.recipient = c.eligible_claimant
              /\ x.rounds[k].round.payment_cutoff = c.next_pay_by
              /\ x.rounds[k].actualContributors = c.current_contributors
              /\ x.rounds[k].defaulters = {}

\* The handlers, given nothing but the events, keep the index in agreement with
\* the pallet's storage: phase, members, the open round and its contributions.
IndexAgrees == IndexAgreesOnMembers /\ IndexAgreesOnRound

\* Nobody falls between the two lists of a round that is over: everyone
\* expected to pay is a contributor or a defaulter, unless the recipient's own
\* contribution was counted towards the round.
ClosedRoundsAccountedFor ==
    Synced => \A id \in RoscaIds : \A k \in DOMAIN Entity(id).rounds :
        LET r == Entity(id).rounds[k]
        IN  /\ Completed(circle[id]) \/ k < OpenRound(circle[id])
            /\ r.round.recipient \notin r.actualContributors
            => r.actualContributors \cup r.defaulters = r.round.expected_contributors

\* The total shown is the sum of the deposits shown, and no member's deposit
\* is shown smaller than it is.  (Charges of a deposit are not indexed, so it may
\* be shown larger; an amount or a total beyond a signed 32-bit integer stops
\* the indexer before it is shown, and the index is then never synced again.)
IndexedDepositsSum ==
    \A id \in RoscaIds :
        LET x      == Entity(id)
            shown  == [p \in Accounts |-> IF x.deposits[p] = None THEN 0 ELSE x.deposits[p]]
        IN  /\ x.totalSecurityDeposits = SumFunction(shown)
            /\ Synced => \A p \in Accounts : shown[p] >= circle[id].security_deposit[p]

-----------------------------------------------------------------------------
(***************************************************************************)
(* Liveness                                                                *)
(***************************************************************************)

\* The next event is a deposit with which the amount of its depositor or the
\* total of its circle would exceed the schema's Int.
Overflown ==
    /\ feed # << >> /\ Head(feed).type = "SecurityDepositContribution"
    /\ ~Storable(handleSecurityDepositContribution(index, Head(feed)))

\* A circle that ends, by its last contribution, by a late one or by a manual
\* end, is eventually shown as completed, unless deposits beyond a 32-bit
\* integer stop the indexer before.
CompletionShown ==
    \A id \in RoscaIds : Completed(circle[id]) ~> Entity(id).completed \/ Overflown

=============================================================================
