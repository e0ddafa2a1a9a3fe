----------------------------- MODULE RoscaPages -----------------------------
(***************************************************************************)
(* The details page of a circle in the web application, one open for each  *)
(* user, composed with the chain it sends calls to and the index it reads. *)
(* A press of a button goes through the wallet, the transaction pool, a    *)
(* block and its finalisation before the page hears of it; meanwhile the   *)
(* chain, the index and the other pages move on.                           *)
(*                                                                         *)
(* The wallet extension, the transaction pool and finality are external    *)
(* and modelled from how executeTx uses them.                              *)
(*                                                                         *)
(* Source: frontend/app/dashboard/rosca/[id]/page.tsx,                     *)
(* components/roscas/RoscaDetailHeader.tsx and CurrentRoundStatus.tsx,     *)
(* lib/hooks/useSubmitExtrinsic.ts, lib/data-fetchers.ts, and the form of  *)
(* components/roscas/CreateRoscaForm.tsx.                                  *)
(***************************************************************************)
EXTENDS RoscaIndexer

CONSTANTS
    Users,              \* accounts with a page open; the others use another client
    PageCircle,         \* the circle the pages show
    FormEntries,        \* what users fill into the create form
    StringLimit,        \* the longest name the pallet stores
    MillisPerSecond,
    MaxInFlight         \* bound: calls between press and report at one time

ASSUME PageAssumption ==
    /\ Users \subseteq Accounts
    /\ PageCircle \in RoscaIds
    /\ MillisPerSecond \in Nat \ {0}
    /\ MaxInFlight \in Nat

VARIABLES
    page,               \* page[u]: what u's page last fetched, and whether it shows a
                        \* spinner or an error instead
    call,               \* call[u][a]: how far u's last press of button a has got
    left                \* presses <<u, a>> of pages since left, with the call in the pool

pageVars == <<page, call, left>>
allVars  == <<vars, indexVars, pageVars>>

Buttons == {"join", "leave", "start", "contribute", "addDeposit"}

PagesInit ==
    /\ IndexInit
    /\ page = [u \in Users |-> [rosca |-> NoEntity, isLoading |-> TRUE, error |-> FALSE]]
    /\ call = [u \in Users |-> [a \in Buttons |-> "idle"]]
    /\ left = {}

-----------------------------------------------------------------------------
(***************************************************************************)
(* What a page shows and offers                                            *)
(***************************************************************************)

fetchRoscaDetails == index.rosca[PageCircle]

\* Mutant: a started circle is active, completed or not.
deriveStatus_StartedFirst(rosca) ==
    IF rosca.startedBy # None THEN "Active"
    ELSE IF rosca.completed THEN "Completed" ELSE "Pending"

deriveStatus(rosca) ==
    IF rosca.completed THEN "Completed"
    ELSE IF rosca.startedBy # None THEN "Active" ELSE "Pending"

\* Mutant: a round is complete when one contribution is missing.
isCompleted_OneMissing(r) ==
    /\ r.round.expected_contributors # {}
    /\ Cardinality(r.actualContributors) + 1 >= Cardinality(r.round.expected_contributors)

isCompleted(r) ==
    /\ r.round.expected_contributors # {}
    /\ Cardinality(r.actualContributors) = Cardinality(r.round.expected_contributors)

\* The rounds that are not completed; the first of them is the current one.
OpenRounds(rosca) == {k \in DOMAIN rosca.rounds : ~isCompleted(rosca.rounds[k])}

currentRound(rosca) == CHOOSE k \in OpenRounds(rosca) : \A j \in OpenRounds(rosca) : k <= j

\* `BigInt(Math.floor(Date.now()/1000)) < currentRound.paymentCutoff`: the
\* user's clock in seconds, the chain's timestamp in milliseconds.
BeforeCutoff(r) == now \div MillisPerSecond < r.round.payment_cutoff

isContributionDue(u, r) ==
    /\ r.round.recipient # u
    /\ u \notin r.actualContributors
    /\ u \in r.round.expected_contributors
    /\ BeforeCutoff(r)

hasJoined(u, rosca)    == u \in rosca.joinedAt
hasMetThreshold(rosca) == Cardinality(rosca.joinedAt) >= rosca.minParticipants
isParticipant(u, rosca) == u \in rosca.eligibleParticipants

\* The buttons a fetched circle puts on u's page.
Offered(u, rosca) ==
    LET pending == deriveStatus(rosca) = "Pending"
        active  == deriveStatus(rosca) = "Active"
    IN  {a \in Buttons :
          \/ a = "join" /\ pending /\ ~hasJoined(u, rosca) /\ isParticipant(u, rosca)
          \/ a = "start" /\ pending /\ hasJoined(u, rosca) /\ hasMetThreshold(rosca)
          \/ a = "addDeposit" /\ (pending \/ active) /\ hasJoined(u, rosca)
          \/ a = "leave" /\ pending /\ hasJoined(u, rosca) /\ isParticipant(u, rosca)
          \/ /\ a = "contribute" /\ active /\ OpenRounds(rosca) # {}
             /\ isContributionDue(u, rosca.rounds[currentRound(rosca)])}

-----------------------------------------------------------------------------
(***************************************************************************)
(* The create form                                                         *)
(***************************************************************************)

\* Mutant: the threshold is not compared with the number of invitations.
FormAccepts_AnyThreshold(u, f, t) ==
    /\ u \notin f.invited
    /\ f.minimum_participant_threshold > 1
    /\ f.contribution_amount > 0
    /\ f.start_by_timestamp > t

\* The validation of handleAddInvite and handleSubmit at time t; a day, the
\* unit of the form's date, is one timestamp of the model.
FormAccepts(u, f, t) ==
    /\ u \notin f.invited
    /\ f.minimum_participant_threshold > 1
    /\ f.minimum_participant_threshold <= Cardinality(f.invited) + 1
    /\ f.contribution_amount > 0
    /\ f.start_by_timestamp > t

\* The call can carry the entry: addresses that are addresses, an amount that is
\* a u32 and a name within the pallet's limit, none of which the form looks at.
\* What cannot be carried is reported as an error and goes no further.
Encodable(f) ==
    /\ f.invited \subseteq Accounts
    /\ f.contribution_amount <= MaxU32
    /\ f.name_length <= StringLimit

\* handleSubmit and the create hook: the call is executed some time after the
\* form was checked.  The creator's position is null, and the frequency is one
\* of the form's options.
SubmitForm(u, f) ==
    /\ \E t \in 0..now : FormAccepts(u, f, t)
    /\ Encodable(f)
    /\ create_rosca(u, f)
    /\ feed' = feed \o events'
    /\ UNCHANGED <<index, pageVars>>

-----------------------------------------------------------------------------
(***************************************************************************)
(* From a press to its report                                              *)
(***************************************************************************)

\* The effect that runs loadDetails: when the page is opened, or opened anew,
\* which starts from nothing, so that every button is released and nobody hears
\* of a call still in the pool; or when the wallet's account has changed and
\* changed back, with calls under way.  The fetch may fail.
Load(u) ==
    /\ \E details \in {fetchRoscaDetails, NoEntity} :
          page' = [page EXCEPT ![u] = [rosca |-> details, isLoading |-> FALSE,
                                       error |-> ~details.exists]]
    /\ \/ /\ call' = [call EXCEPT ![u] = [a \in Buttons |-> "idle"]]
          /\ left' = left \cup {<<u, a>> : a \in {b \in Buttons : call[u][b] = "pool"}}
       \/ UNCHANGED <<call, left>>
    /\ UNCHANGED <<vars, indexVars>>

SetStatus(u, a, status) == call' = [call EXCEPT ![u][a] = status] /\ UNCHANGED left

\* handleAction sets the button to loading, which disables it, and executeTx
\* asks the wallet for a signature.
Press(u, a) ==
    /\ Len(feed) < MaxLag
    /\ ~page[u].isLoading /\ ~page[u].error
    /\ a \in Offered(u, page[u].rosca)
    /\ call[u][a] = "idle"
    /\ Cardinality({x \in Users \X Buttons : call[x[1]][x[2]] # "idle"} \cup left) < MaxInFlight
    /\ SetStatus(u, a, "signing")
    /\ UNCHANGED <<vars, indexVars, page>>

\* The wallet signs and the node takes the transaction into its pool.
Sign(u, a) ==
    /\ call[u][a] = "signing"
    /\ SetStatus(u, a, "pool")
    /\ UNCHANGED <<vars, indexVars, page>>

\* The wallet, or the node, refuses: signAndSend rejects, the page shows an
\* error and releases the button.
Refuse(u, a) ==
    /\ call[u][a] = "signing"
    /\ SetStatus(u, a, "idle")
    /\ UNCHANGED <<vars, indexVars, page>>

\* The pool drops a transaction (or it is usurped, or becomes invalid).  The
\* callback looks at the finalised status only, so the promise never settles.
Drop(u, a) ==
    /\ call[u][a] = "pool"
    /\ SetStatus(u, a, "dropped")
    /\ UNCHANGED <<vars, indexVars, page>>

\* The call behind a button.
PageCall(u, a) ==
    \/ a = "join" /\ join_rosca(u, PageCircle, None)
    \/ a = "leave" /\ leave_rosca(u, PageCircle)
    \/ a = "start" /\ start_rosca(u, PageCircle)
    \/ a = "contribute" /\ contribute_to_rosca(u, PageCircle)
    \/ \E amount \in DepositAmounts :
          a = "addDeposit" /\ add_to_security_deposit(u, PageCircle, amount)

\* contribute_to_rosca returns Ok: its checks pass and so does what follows.
ContributionAccepted(u, id) ==
    LET c == circle[id]
    IN  /\ c.participants[u] # None
        /\ ~c.completed_roscas
        /\ c.active_roscas # None
        /\ c.eligible_claimant # u
        /\ u \notin c.current_contributors
        /\ Contribution(id, u).ok

\* The call behind a button returns Ok.
Accepted(u, a) ==
    IF a = "contribute" THEN ContributionAccepted(u, PageCircle) ELSE ENABLED PageCall(u, a)

\* Mutant: leaving is confirmed by the deposit's return.
ExpectedEvent_LeaveClaims(a) ==
    CASE a = "join" -> "JoinedRosca" [] a = "leave" -> "SecurityDepositClaimed"
      [] a = "start" -> "RoscaStarted" [] a = "contribute" -> "ContributionMade"
      [] a = "addDeposit" -> "SecurityDepositContribution"

\* The event the hook of a button looks for.
ExpectedEvent(a) ==
    CASE a = "join" -> "JoinedRosca" [] a = "leave" -> "LeftRosca"
      [] a = "start" -> "RoscaStarted" [] a = "contribute" -> "ContributionMade"
      [] a = "addDeposit" -> "SecurityDepositContribution"

\* A block executes the call: it takes effect, or fails with a dispatch error.
Execute(u, a) ==
    /\ call[u][a] = "pool"
    /\ \/ /\ PageCall(u, a)
          /\ feed' = feed \o events'
          /\ SetStatus(u, a, IF \E i \in DOMAIN events' : events'[i].type = ExpectedEvent(a)
                             THEN "executed" ELSE "unconfirmed")
       \/ /\ ~Accepted(u, a)
          /\ SetStatus(u, a, "failed")
          /\ UNCHANGED <<vars, feed>>
    /\ UNCHANGED <<index, page>>

\* The same for a call whose page was left; nobody is told, nor when the pool
\* drops it.
ExecuteLeft(u, a) ==
    /\ <<u, a>> \in left
    /\ \/ PageCall(u, a) /\ feed' = feed \o events'
       \/ UNCHANGED <<vars, feed>>
    /\ left' = left \ {<<u, a>>}
    /\ UNCHANGED <<index, page, call>>

\* Mutant: nothing is done when the event is missing.
Report_EventMissing(u, a) ==
    /\ call[u][a] \in {"executed", "failed"}
    /\ IF call[u][a] = "executed"
       THEN /\ SetStatus(u, a, "refreshing")
            /\ page' = [page EXCEPT ![u].isLoading = TRUE]
       ELSE /\ SetStatus(u, a, "idle")
            /\ page' = [page EXCEPT ![u].isLoading = FALSE]
    /\ UNCHANGED <<vars, indexVars>>

\* The block is finalised.  An error, or a missing event, is reported and the
\* button released; else success is reported and the page starts to refresh.
Report(u, a) ==
    /\ call[u][a] \in {"executed", "unconfirmed", "failed"}
    /\ IF call[u][a] = "executed"
       THEN /\ SetStatus(u, a, "refreshing")
            /\ page' = [page EXCEPT ![u].isLoading = TRUE]
       ELSE /\ SetStatus(u, a, "idle")
            /\ page' = [page EXCEPT ![u].isLoading = FALSE]
    /\ UNCHANGED <<vars, indexVars>>

\* "Force refresh data after successful action".  When the fetch fails, that is
\* reported and the page goes on with the data it has.
Refresh(u, a) ==
    /\ call[u][a] = "refreshing"
    /\ \/ page' = [page EXCEPT ![u] = [rosca |-> fetchRoscaDetails, isLoading |-> FALSE,
                                        error |-> @.error \/ ~fetchRoscaDetails.exists]]
       \/ page' = [page EXCEPT ![u].isLoading = FALSE]
    /\ SetStatus(u, a, "idle")
    /\ UNCHANGED <<vars, indexVars>>

\* Steps of the chain that no page asks for: a block passes, or someone calls
\* the pallet with another client.
Elsewhere ==
    /\ Len(feed) < MaxLag
    /\ \/ Tick
       \/ manually_end_rosca(PageCircle)
       \/ \E p \in Accounts \ Users, a \in Buttons : PageCall(p, a)
       \/ \E p \in Accounts, asset \in PaymentAssets :
             claim_security_deposit(p, PageCircle, asset)
    /\ feed' = feed \o events'
    /\ UNCHANGED <<index, pageVars>>

PagesNext ==
    \/ Elsewhere
    \/ HandleEvent /\ UNCHANGED pageVars
    \/ \E u \in Accounts, f \in FormEntries : SubmitForm(u, f)
    \/ \E u \in Users :
          \/ Load(u)
          \/ \E a \in Buttons :
                \/ Press(u, a) \/ Sign(u, a) \/ Refuse(u, a) \/ Drop(u, a)
                \/ Execute(u, a) \/ ExecuteLeft(u, a) \/ Report(u, a) \/ Refresh(u, a)

PagesSpec == PagesInit /\ [][PagesNext]_allVars

\* Weak fairness of Execute, which is enabled exactly while a call is in the
\* pool.
CallsExecuted(u, a) ==
    \/ []<>(call[u][a] # "pool")
    \/ []<><<Execute(u, a)>>_allVars

\* Blocks are produced and finalised, the indexer runs, and a fetch answers;
\* users and their wallets owe nothing.
FairPagesSpec ==
    /\ PagesSpec
    /\ WF_allVars(HandleEvent /\ UNCHANGED pageVars)
    /\ \A u \in Users, a \in Buttons :
          CallsExecuted(u, a) /\ WF_allVars(Report(u, a)) /\ WF_allVars(Refresh(u, a))

=============================================================================
