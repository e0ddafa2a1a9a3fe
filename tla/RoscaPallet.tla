---------------------------- MODULE RoscaPallet ----------------------------
(***************************************************************************)
(* The rosca pallet: its storage and its eight dispatchable calls.         *)
(*                                                                         *)
(* A call is executed alone and is transactional: when it returns an error *)
(* everything it wrote is dropped.  So each call is one action, enabled    *)
(* exactly when the call returns Ok, and a failing call is a stuttering    *)
(* step.  Blocks carry a timestamp that does not change between the calls  *)
(* of one block; Tick is the next block.                                   *)
(*                                                                         *)
(* Source: generic-template/pallets/rosca/src/lib.rs.                      *)
(***************************************************************************)
EXTENDS RoscaRounds

CONSTANTS
    MaxRoscas,                  \* bound: circles ever created
    MaxParticipants,            \* runtime configuration
    MaxInvitedParticipants,     \* runtime configuration
    Proposals,                  \* arguments create_rosca is called with
    JoinPositions,              \* position arguments of join_rosca
    DepositAmounts,             \* amounts of add_to_security_deposit
    OutsideTransfers,           \* <<asset, source, dest, amount>> sent outside the pallet
    Fundings,                   \* initial balances of the accounts, per asset
    MaxTime                     \* bound: last timestamp explored

RoscaIds == 0..(MaxRoscas - 1)

RoscaFunds == {rosca_account_id(id) : id \in RoscaIds}

Holders == Accounts \cup RoscaFunds

ProposalType ==
    [random_order : BOOLEAN, invited : SUBSET Accounts,
     minimum_participant_threshold : Nat, contribution_amount : 0..MaxU32,
     payment_asset : PaymentAssets, contribution_frequency : Moment,
     start_by_timestamp : Moment, position : Nat \cup {None}]

ASSUME BoundsAssumption ==
    /\ MaxRoscas \in Nat /\ MaxParticipants \in Nat /\ MaxInvitedParticipants \in Nat
    /\ MaxTime \in Moment
ASSUME InputsAssumption ==
    /\ Proposals \subseteq ProposalType
    /\ JoinPositions \subseteq Nat \cup {None}
    /\ DepositAmounts \subseteq 0..MaxU32
    /\ OutsideTransfers \subseteq PaymentAssets \X Holders \X Holders \X Nat
    /\ Fundings \subseteq [PaymentAssets -> [Accounts -> Nat]]
    /\ \A f \in Fundings, a \in PaymentAssets, p \in Accounts :
          f[a][p] = 0 \/ f[a][p] >= MinBalance
ASSUME RoscaFundsAssumption == Accounts \cap RoscaFunds = {}
ASSUME NoneAssumption == None \notin Nat \cup RoscaDetails

VARIABLES
    now,                \* timestamp of the current block
    next_rosca_id,
    circle,             \* circle[id]: the storage under a rosca id
    balance,            \* balance[asset][holder]: the asset ledger
    events              \* events deposited by the last call

vars == <<now, next_rosca_id, circle, balance, events>>

Init ==
    /\ now = 0
    /\ next_rosca_id = 0
    /\ circle = [id \in RoscaIds |-> NoCircle]
    /\ \E f \in Fundings :
          balance = [a \in PaymentAssets |->
                        [h \in Holders |-> IF h \in Accounts THEN f[a][h] ELSE 0]]
    /\ events = << >>

-----------------------------------------------------------------------------
(***************************************************************************)
(* Before the start                                                        *)
(***************************************************************************)

\* `position.unwrap_or(0)`.
PositionOr0(position) == IF position = None THEN 0 ELSE position

\* The invited accounts are sorted and deduplicated, so they are a set.  The
\* creator's slot is written with an unchecked index, so a position outside
\* the order (but below MaxParticipants) panics and the call has no effect.
create_rosca(signer, a) ==
    LET id       == next_rosca_id
        position == PositionOr0(a.position)
        number   == Cardinality(a.invited) + 1
        details  == [random_order |-> a.random_order,
                     number_of_participants |-> number,
                     minimum_participant_threshold |-> a.minimum_participant_threshold,
                     contribution_amount |-> a.contribution_amount,
                     payment_asset |-> a.payment_asset,
                     contribution_frequency |-> a.contribution_frequency,
                     start_by_timestamp |-> a.start_by_timestamp]
    IN  /\ id \in RoscaIds
        /\ Cardinality(a.invited) <= MaxInvitedParticipants
        /\ a.contribution_amount > 0
        /\ a.contribution_frequency > 0
        /\ MaxInvitedParticipants < MaxParticipants
        /\ signer \notin a.invited
        /\ a.minimum_participant_threshold <= number
        /\ position < MaxParticipants
        /\ now < a.start_by_timestamp
        /\ position < number
        /\ circle' = [circle EXCEPT ![id] = [@ EXCEPT
               !.invited = {signer} \cup a.invited,
               !.pending_order =
                   [i \in 1..number |-> IF i = position + 1 THEN signer ELSE None],
               !.participants[signer] = position,
               !.participants_count = 1,
               !.rosca_details = details]]
        /\ next_rosca_id' = next_rosca_id + 1
        /\ events' = <<[type |-> "RoscaCreated", rosca_id |-> id, details |-> details,
                        eligible_participants |-> {signer} \cup a.invited,
                        creator |-> signer]>>
        /\ UNCHANGED <<now, balance>>

\* Mutant: a position that is asked for may be taken already.
JoinSlots_Overwrites(order, position) ==
    LET empty == {i \in 1..Len(order) : order[i] = None}
    IN  IF position = None THEN {i \in empty : \A j \in empty : i <= j}
        ELSE {position + 1} \cap (1..Len(order))

\* The slots join_rosca may write: the one asked for when it exists and is
\* empty, else (no position given) the first empty one.
JoinSlots(order, position) ==
    LET empty == {i \in 1..Len(order) : order[i] = None}
    IN  IF position = None THEN {i \in empty : \A j \in empty : i <= j}
        ELSE {position + 1} \cap empty

\* What join_rosca writes.
Joined(c, signer, slot) ==
    [c EXCEPT !.pending_order[slot] = signer,
              !.participants[signer] = slot - 1,
              !.participants_count = @ + 1]

join_rosca(signer, id, position) ==
    LET c == circle[id]
    IN  /\ c.active_roscas = None
        /\ c.participants[signer] = None
        /\ signer \in c.invited
        /\ c.rosca_details # None
        /\ now < c.rosca_details.start_by_timestamp
        /\ \E slot \in JoinSlots(c.pending_order, position) :
              circle' = [circle EXCEPT ![id] = Joined(@, signer, slot)]
        /\ events' = <<[type |-> "JoinedRosca", rosca_id |-> id, contributor |-> signer]>>
        /\ UNCHANGED <<now, next_rosca_id, balance>>

\* What leave_rosca writes.
Left(c, signer) ==
    [c EXCEPT !.pending_order[c.participants[signer] + 1] = None,
              !.participants[signer] = None,
              !.participants_count = @ - 1,
              !.security_deposit[signer] = 0]

\* There is no deadline for leaving: members of a circle that was not started
\* in time leave it and take their deposit back.
leave_rosca(signer, id) ==
    LET c       == circle[id]
        asset   == c.rosca_details.payment_asset
        fund    == rosca_account_id(id)
        deposit == c.security_deposit[signer]
        claimed == [type |-> "SecurityDepositClaimed", rosca_id |-> id,
                    depositor |-> signer, amount |-> deposit]
        left    == [type |-> "LeftRosca", rosca_id |-> id, contributor |-> signer]
    IN  /\ c.active_roscas = None
        /\ c.participants[signer] # None
        /\ c.rosca_details # None
        /\ c.participants_count > 0
        /\ deposit > 0 => CanTransfer(balance, asset, fund, signer, deposit)
        /\ circle' = [circle EXCEPT ![id] = Left(@, signer)]
        /\ balance' = IF deposit > 0 THEN Transfer(balance, asset, fund, signer, deposit)
                      ELSE balance
        /\ events' = IF deposit > 0 THEN <<claimed, left>> ELSE <<left>>
        /\ UNCHANGED <<now, next_rosca_id>>

\* What start_rosca writes: order is the claim order before its rotation.
Started(c, order, cutoff, final) ==
    [c EXCEPT !.eligible_claimant = order[Len(order)],
              !.active_order = RotateRight(order),
              !.next_pay_by = cutoff,
              !.final_pay_by = final,
              !.active_roscas = c.rosca_details,
              !.rosca_details = None]

start_rosca(signer, id) ==
    LET c         == circle[id]
        details   == c.rosca_details
        frequency == details.contribution_frequency
        cutoff    == now + frequency
        final     == now + c.participants_count * frequency
    IN  /\ c.active_roscas = None
        /\ c.participants[signer] # None
        /\ details # None
        /\ now < details.start_by_timestamp
        /\ c.participants_count >= details.minimum_participant_threshold
        /\ \E order \in ClaimOrders(details, c.pending_order) :
              /\ RoundsFit(order, now, frequency)
              /\ cutoff <= MaxMoment /\ final <= MaxMoment
              /\ circle' = [circle EXCEPT ![id] = Started(@, order, cutoff, final)]
              /\ events' = <<[type |-> "RoscaStarted", rosca_id |-> id,
                              started_by |-> signer,
                              rounds |-> generate_rounds(order, now, frequency),
                              first_eligible_claimant |-> order[Len(order)],
                              first_payment_cutoff |-> cutoff]>>
        /\ UNCHANGED <<now, next_rosca_id, balance>>

-----------------------------------------------------------------------------
(***************************************************************************)
(* While the circle is active                                              *)
(***************************************************************************)

\* The end of a call that worked on a storage layer: commit it, or drop it
\* when the call has failed.
Commit(id, s) ==
    /\ s.ok
    /\ circle' = [circle EXCEPT ![id] = s.circle]
    /\ balance' = s.balance
    /\ events' = s.events
    /\ UNCHANGED <<now, next_rosca_id>>

\* Pay the current claimant and record the contribution.
CountContribution(id, s, signer) ==
    LET c     == s.circle
        rosca == c.active_roscas
    IN  [s EXCEPT !.balance = Transfer(@, rosca.payment_asset, signer, c.eligible_claimant,
                                       rosca.contribution_amount),
                  !.circle = [c EXCEPT !.current_contributors = @ \cup {signer},
                                       !.current_contribution_count = @ + 1],
                  !.events = Append(@, [type |-> "ContributionMade", rosca_id |-> id,
                                        contributor |-> signer,
                                        recipient |-> c.eligible_claimant,
                                        amount |-> rosca.contribution_amount])]

\* The part of contribute_to_rosca after its loop: the contribution, and the
\* end of the round when it was the last one missing.
PayContribution(id, s, signer) ==
    LET c       == s.circle
        rosca   == c.active_roscas
        cutoff  == c.next_pay_by + rosca.contribution_frequency
        counted == CountContribution(id, s, signer)
        next    == OpenNextRound(counted.circle, cutoff)
    IN  IF ~CanTransfer(s.balance, rosca.payment_asset, signer, c.eligible_claimant,
                        rosca.contribution_amount)
        THEN Failed(s)
        ELSE IF counted.circle.current_contribution_count # Len(c.active_order) - 1
        THEN counted
        ELSE IF cutoff > MaxMoment THEN Failed(s)
        ELSE IF cutoff > c.final_pay_by THEN Complete(id, counted)
        ELSE [counted EXCEPT !.circle = next,
                             !.events = Append(@, NewRoundStarted(id, next))]

\* What contribute_to_rosca does once its checks have passed.  When the loop
\* completes the circle the call returns Ok without a contribution.
Contribution(id, signer) ==
    LET caught == CatchUp(id, OpenLayer(circle[id], balance), now)
    IN  IF caught.ok /\ ~caught.circle.completed_roscas
        THEN PayContribution(id, caught, signer) ELSE caught

\* The claimant and the contributors are checked as they were before the loop
\* moves the circle to its current round.
contribute_to_rosca(signer, id) ==
    LET c == circle[id]
    IN  /\ c.participants[signer] # None
        /\ ~c.completed_roscas
        /\ c.active_roscas # None
        /\ c.eligible_claimant # None
        /\ c.eligible_claimant # signer
        /\ signer \notin c.current_contributors
        /\ c.final_pay_by # None
        /\ c.next_pay_by # None
        /\ Commit(id, Contribution(id, signer))

\* What manually_end_rosca does once its checks have passed.
ManualEnd(id) ==
    LET closed == CloseAllRounds(id, OpenLayer(circle[id], balance))
        beyond == circle[id].final_pay_by + circle[id].active_roscas.contribution_frequency
    IN  IF closed.ok /\ beyond <= MaxMoment /\ closed.circle.next_pay_by = beyond
        THEN Complete(id, closed) ELSE Failed(closed)

\* Any account may end a circle whose last cutoff has passed.
manually_end_rosca(id) ==
    /\ circle[id].active_roscas # None
    /\ circle[id].final_pay_by # None
    /\ now > circle[id].final_pay_by
    /\ circle[id].next_pay_by # None
    /\ Commit(id, ManualEnd(id))

\* The asset paid out is the caller's argument, not the circle's.
claim_security_deposit(signer, id, asset) ==
    LET c       == circle[id]
        fund    == rosca_account_id(id)
        deposit == c.security_deposit[signer]
    IN  /\ c.final_pay_by # None
        /\ now > c.final_pay_by
        /\ c.rosca_details # None \/ c.completed_roscas
        /\ deposit > 0
        /\ CanTransfer(balance, asset, fund, signer, deposit)
        /\ balance' = Transfer(balance, asset, fund, signer, deposit)
        /\ circle' = [circle EXCEPT ![id].security_deposit[signer] = 0]
        /\ events' = <<[type |-> "SecurityDepositClaimed", rosca_id |-> id,
                        depositor |-> signer, amount |-> deposit]>>
        /\ UNCHANGED <<now, next_rosca_id>>

\* checked_add on a deposit.  Mutant: unchecked.
DepositFits_Unchecked(deposit, amount) == TRUE
DepositFits(deposit, amount) == deposit + amount <= MaxU32

add_to_security_deposit(signer, id, amount) ==
    LET c     == circle[id]
        rosca == IF c.active_roscas # None THEN c.active_roscas ELSE c.rosca_details
        fund  == rosca_account_id(id)
    IN  /\ c.participants[signer] # None
        /\ ~c.completed_roscas
        /\ rosca # None
        /\ CanTransfer(balance, rosca.payment_asset, signer, fund, amount)
        /\ DepositFits(c.security_deposit[signer], amount)
        /\ balance' = Transfer(balance, rosca.payment_asset, signer, fund, amount)
        /\ circle' = [circle EXCEPT ![id].security_deposit[signer] = @ + amount]
        /\ events' = <<[type |-> "SecurityDepositContribution", rosca_id |-> id,
                        depositor |-> signer, amount |-> amount]>>
        /\ UNCHANGED <<now, next_rosca_id>>

-----------------------------------------------------------------------------
(***************************************************************************)
(* The rest of the chain                                                   *)
(***************************************************************************)

\* A transfer of pallet_assets signed by its source, which no fund can sign.
OutsideTransfer(t) ==
    /\ t[2] \in Accounts
    /\ CanTransfer(balance, t[1], t[2], t[3], t[4])
    /\ balance' = Transfer(balance, t[1], t[2], t[3], t[4])
    /\ events' = << >>
    /\ UNCHANGED <<now, next_rosca_id, circle>>

\* The timestamp inherent of the next block.
Tick ==
    /\ now < MaxTime
    /\ now' = now + 1
    /\ events' = << >>
    /\ UNCHANGED <<next_rosca_id, circle, balance>>

Next ==
    \/ \E p \in Accounts, a \in Proposals : create_rosca(p, a)
    \/ \E id \in RoscaIds :
          \/ \E p \in Accounts :
                \/ \E position \in JoinPositions : join_rosca(p, id, position)
                \/ leave_rosca(p, id)
                \/ start_rosca(p, id)
                \/ contribute_to_rosca(p, id)
                \/ \E asset \in PaymentAssets : claim_security_deposit(p, id, asset)
                \/ \E amount \in DepositAmounts : add_to_security_deposit(p, id, amount)
          \/ manually_end_rosca(id)
    \/ \E t \in OutsideTransfers : OutsideTransfer(t)
    \/ Tick

Spec == Init /\ [][Next]_vars

-----------------------------------------------------------------------------
\* Every variable keeps its type, whatever calls are made: positions, counts,
\* deposits and timestamps stay in the ranges of the storage declarations.
TypeOK ==
    /\ now \in Moment
    /\ next_rosca_id \in 0..MaxRoscas
    /\ circle \in [RoscaIds -> Circle]
    /\ balance \in [PaymentAssets -> [Holders -> Nat]]

=============================================================================
