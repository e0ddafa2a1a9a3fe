-------------------------- MODULE PagesProperties --------------------------
(***************************************************************************)
(* What the pages promise their users, as properties of RoscaPages.        *)
(***************************************************************************)
EXTENDS RoscaPages, IndexerProperties

\* Every event is indexed and u's page has just fetched.
Fresh(u) ==
    Synced /\ page[u] = [rosca |-> fetchRoscaDetails, isLoading |-> FALSE, error |-> FALSE]

\* No round of the circle shown has a defaulter, nor a recipient who paid
\* themselves: either makes the two lists the page compares differ in length
\* although the round is over.
RoundsRegular ==
    \A k \in DOMAIN fetchRoscaDetails.rounds :
        LET r == fetchRoscaDetails.rounds[k]
        IN  r.defaulters = {} /\ r.round.recipient \notin r.actualContributors

\* As long as every round was paid by those expected to, the round a fresh
\* page derives from the lengths of two lists is the round open on the chain.
ShownRoundIsOpen ==
    \A u \in Users :
        LET rosca == page[u].rosca
        IN  Fresh(u) /\ Active(circle[PageCircle]) /\ RoundsRegular =>
              /\ OpenRounds(rosca) # {}
              /\ currentRound(rosca) = OpenRound(circle[PageCircle])

\* u holds what the call behind a button takes.
Affordable(u, a) ==
    \A asset \in PaymentAssets :
        /\ a = "contribute" => balance[asset][u] >= page[u].rosca.contributionAmount
        /\ a = "addDeposit" => \A d \in DepositAmounts :
              /\ balance[asset][u] >= d
              /\ circle[PageCircle].security_deposit[u] + d <= MaxU32

\* What a fresh page offers, the chain accepts: the page's conditions, on data
\* two conversions away, imply the pallet's.  Joining and starting have a
\* deadline the page does not look at.
FreshOffersAccepted ==
    \A u \in Users : Fresh(u) /\ page[u].rosca.exists /\ RoundsRegular =>
        \A a \in Offered(u, page[u].rosca) :
            /\ a \in {"join", "start"} => now < circle[PageCircle].rosca_details.start_by_timestamp
            /\ Affordable(u, a)
            => Accepted(u, a)

\* An error is reported for a call that took effect only when that call was a
\* contribution so late that it ended the circle instead.
ErrorsReportedTruly ==
    \A u \in Users, a \in Buttons : call[u][a] = "unconfirmed" =>
        a = "contribute" /\ Completed(circle[PageCircle])

\* What the create form lets through and the call can carry, the pallet accepts
\* however long the wallet and the pool take, unless the start date has come by
\* then: in particular the creator's slot, which the pallet writes with an
\* unchecked index, exists.  The form itself also lets through amounts above a
\* u32, names above the limit, more invitations than the pallet takes, and
\* addresses that are none.
FormEntriesAccepted ==
    \A u \in Accounts, f \in FormEntries, t \in 0..now :
        /\ FormAccepts(u, f, t)
        /\ Encodable(f)
        /\ now < f.start_by_timestamp
        /\ Cardinality(f.invited) <= MaxInvitedParticipants
        /\ next_rosca_id \in RoscaIds
        => ENABLED create_rosca(u, f)

\* Every transaction in the pool is reported to the user who signed it, and
\* the button released, also when the fetch after it fails, unless the pool
\* drops it or the page is opened anew, which releases the button as well.
CallsSettle ==
    \A u \in Users, a \in Buttons :
        (call[u][a] = "pool") ~> (call[u][a] \in {"idle", "dropped"})

=============================================================================
