---------------------------- MODULE RoscaRounds ----------------------------
(***************************************************************************)
(* The rounds of one circle (a ROSCA: rotating savings and credit          *)
(* association): its storage, the order in which its members receive the   *)
(* pot, and how a round is closed.  Everything here is a pure operator on  *)
(* the storage of one circle; RoscaPallet turns them into the dispatchable *)
(* calls.                                                                  *)
(*                                                                         *)
(* Source: generic-template/pallets/rosca/src/lib.rs and types.rs.         *)
(***************************************************************************)
EXTENDS ForeignAssets, Integers, Sequences, FiniteSets

CONSTANTS
    Accounts,           \* accounts that sign calls
    PaymentAssets,      \* the assets a circle can be paid in (USDT, USDC)
    None,               \* an absent Option value
    MaxU32,             \* largest deposit or default count (u32::MAX)
    MaxMoment,          \* largest timestamp (u64::MAX)
    SeedByte            \* first byte of the hash shuffle_participants draws with

ASSUME AccountsAssumption == IsFiniteSet(Accounts) /\ None \notin Accounts
ASSUME AssetsAssumption   == IsFiniteSet(PaymentAssets) /\ PaymentAssets # {}
ASSUME LimitsAssumption   == MaxU32 \in Nat \ {0} /\ MaxMoment \in Nat
ASSUME SeedAssumption     == SeedByte \in 0..255

Moment == 0..MaxMoment

-----------------------------------------------------------------------------
(***************************************************************************)
(* Storage                                                                 *)
(***************************************************************************)

RoscaDetails ==
    [random_order : BOOLEAN, number_of_participants : Nat,
     minimum_participant_threshold : Nat, contribution_amount : 1..MaxU32,
     payment_asset : PaymentAssets, contribution_frequency : Moment \ {0},
     start_by_timestamp : Moment]

\* Every storage item the pallet keeps under one rosca id.  Items whose
\* absence the code never tells from a default value have that value here
\* (security_deposit and default_count 0, empty orders).
Circle ==
    [rosca_details              : RoscaDetails \cup {None},
     active_roscas              : RoscaDetails \cup {None},
     completed_roscas           : BOOLEAN,
     invited                    : SUBSET Accounts,
     participants               : [Accounts -> Nat \cup {None}],
     participants_count         : Nat,
     security_deposit           : [Accounts -> 0..MaxU32],
     pending_order              : Seq(Accounts \cup {None}),
     active_order               : Seq(Accounts),
     next_pay_by                : Moment \cup {None},
     final_pay_by               : Moment \cup {None},
     eligible_claimant          : Accounts \cup {None},
     current_contributors       : SUBSET Accounts,
     current_contribution_count : Nat,
     default_count              : [Accounts -> 0..MaxU32]]

\* The storage under an id that create_rosca has not used yet.
NoCircle ==
    [rosca_details              |-> None,
     active_roscas              |-> None,
     completed_roscas           |-> FALSE,
     invited                    |-> {},
     participants               |-> [p \in Accounts |-> None],
     participants_count         |-> 0,
     security_deposit           |-> [p \in Accounts |-> 0],
     pending_order              |-> << >>,
     active_order               |-> << >>,
     next_pay_by                |-> None,
     final_pay_by               |-> None,
     eligible_claimant          |-> None,
     current_contributors       |-> {},
     current_contribution_count |-> 0,
     default_count              |-> [p \in Accounts |-> 0]]

\* The accounts a circle's RoscaParticipants map has an entry for.
Members(c) == {p \in Accounts : c.participants[p] # None}

\* Mutant: one account for all circles.
rosca_account_id_Shared(id) == <<"rosca", 0>>

\* The account that holds the security deposits of a circle.
rosca_account_id(id) == <<"rosca", id>>

-----------------------------------------------------------------------------
(***************************************************************************)
(* The order of claims                                                     *)
(***************************************************************************)

\* Mutant: rotates to the left.
RotateRight_Left(s) == [i \in 1..Len(s) |-> IF i = Len(s) THEN s[1] ELSE s[i+1]]

\* BoundedVec::try_rotate_right(1).
RotateRight(s) == [i \in 1..Len(s) |-> IF i = 1 THEN s[Len(s)] ELSE s[i-1]]

\* Slots of a pending order that are taken.
FilledSlots(order) == {i \in 1..Len(order) : order[i] # None}

\* `order.reverse()` and `filter_map`: the members, last slot first.  The
\* set has one element.
ReversedMembers(order) ==
    LET filled == FilledSlots(order)
        picks  == {s \in [1..Cardinality(filled) -> filled] :
                     \A i, j \in DOMAIN s : i < j => s[i] > s[j]}
    IN  {[k \in DOMAIN s |-> order[s[k]]] : s \in picks}

\* The indices shuffle_participants draws for n members: the i-th is the one
\* at offset SeedByte % (number of indices still available), in ascending
\* order.  The seed that the loop rehashes is a binding of the loop body, so
\* every iteration uses the same byte; and the block hash it starts from is
\* that of the block in progress, which the chain does not know yet.
ShuffledIndices(n) ==
    {d \in [1..n -> 1..n] :
        \A i \in 1..n :
            LET available == (1..n) \ {d[j] : j \in 1..(i-1)}
            IN  /\ d[i] \in available
                /\ Cardinality({x \in available : x < d[i]})
                       = SeedByte % Cardinality(available)}

shuffle_participants(order) ==
    {[k \in DOMAIN d |-> order[d[k]]] : d \in ShuffledIndices(Len(order))}

\* The claim orders start_rosca can install, before its rotation.
ClaimOrders(details, order) ==
    IF details.random_order
    THEN UNION {shuffle_participants(o) : o \in ReversedMembers(order)}
    ELSE ReversedMembers(order)

\* Mutant: recipients from the front of the order.
generate_rounds_Forward(order, start, frequency) ==
    LET n == Len(order)
    IN  [i \in 1..n |->
            [round_number          |-> i,
             payment_cutoff        |-> start + i * frequency,
             expected_contributors |-> {order[j] : j \in 1..n} \ {order[i]},
             recipient             |-> order[i]]]

\* The rounds announced at the start: recipients from the end of the order,
\* one cutoff per contribution_frequency.
generate_rounds(order, start, frequency) ==
    LET n == Len(order)
    IN  [i \in 1..n |->
            [round_number          |-> i,
             payment_cutoff        |-> start + i * frequency,
             expected_contributors |-> {order[j] : j \in 1..n} \ {order[n + 1 - i]},
             recipient             |-> order[n + 1 - i]]]

\* generate_rounds adds the frequency once more after its last round, and a
\* sum beyond the Moment type is an error of the call.
\* Mutant: checks the announced rounds only.
RoundsFit_AnnouncedOnly(order, start, frequency) ==
    start + Len(order) * frequency <= MaxMoment
RoundsFit(order, start, frequency) ==
    start + (Len(order) + 1) * frequency <= MaxMoment

-----------------------------------------------------------------------------
(***************************************************************************)
(* Closing a round                                                         *)
(*                                                                         *)
(* A call works on a storage layer that FRAME commits when the call        *)
(* returns Ok and drops when it returns an error.  The layer s of a call   *)
(* on one circle holds that circle, the ledger, the events deposited so    *)
(* far, and whether the call has failed.                                   *)
(***************************************************************************)

OpenLayer(c, bal) == [circle |-> c, balance |-> bal, events |-> << >>, ok |-> TRUE]

Failed(s) == [s EXCEPT !.ok = FALSE]

\* process_defaulters passes over the claimant and over who has contributed.
\* Mutant: passes over the claimant only.
Exempt_ClaimantOnly(c, p) == p = c.eligible_claimant
Exempt(c, p) == p = c.eligible_claimant \/ p \in c.current_contributors

\* What a missed contribution costs a deposit, and what is left of it.
DepositCharge(deposit, amount) == IF deposit < amount THEN deposit ELSE amount

\* Mutant: an insufficient deposit is paid out and not written back as 0.
RemainingDeposit_Kept(deposit, amount) ==
    IF deposit < amount THEN deposit ELSE deposit - amount
RemainingDeposit(deposit, amount) == IF deposit < amount THEN 0 ELSE deposit - amount

\* One iteration of process_defaulters, for participant p of circle id: who
\* has not contributed pays from the security deposit, and is a defaulter
\* when the deposit is smaller than the contribution.
ChargeParticipant(id, s, p) ==
    LET c        == s.circle
        rosca    == c.active_roscas
        deposit  == c.security_deposit[p]
        enough   == deposit >= rosca.contribution_amount
        charge   == DepositCharge(deposit, rosca.contribution_amount)
        deducted == [type |-> "DepositDeducted", rosca_id |-> id, contributor |-> p,
                     recipient |-> c.eligible_claimant, amount |-> charge,
                     sufficient |-> enough]
        missed   == [type |-> "ParticipantDefaulted", rosca_id |-> id,
                     unpaid_recipient |-> c.eligible_claimant, defaulter |-> p]
    IN  IF ~s.ok \/ Exempt(c, p) THEN s
        ELSE IF charge > 0 /\ ~CanTransfer(s.balance, rosca.payment_asset,
                                 rosca_account_id(id), c.eligible_claimant, charge)
        THEN Failed(s)
        ELSE [ok      |-> TRUE,
              balance |-> IF charge > 0
                          THEN Transfer(s.balance, rosca.payment_asset,
                                        rosca_account_id(id), c.eligible_claimant, charge)
                          ELSE s.balance,
              circle  |-> [c EXCEPT !.security_deposit[p] =
                                        RemainingDeposit(@, rosca.contribution_amount),
                                    !.default_count[p] =
                                        IF ~enough /\ @ < MaxU32 THEN @ + 1 ELSE @],
              events  |-> s.events \o (IF charge > 0 THEN <<deducted>> ELSE << >>)
                                   \o (IF enough THEN << >> ELSE <<missed>>)]

\* The loop of process_defaulters over the active order.
process_defaulters(id, s) ==
    LET order == s.circle.active_order
        after[i \in 0..Len(order)] ==
            IF i = 0 THEN s ELSE ChargeParticipant(id, after[i-1], order[i])
    IN  after[Len(order)]

\* Mutant: clears one key less than the limit.
ClearPrefix_OneLess(keys, limit) ==
    IF Cardinality(keys) < limit THEN {}
    ELSE CHOOSE rest \in SUBSET keys : Cardinality(rest) = Cardinality(keys) - limit + 1

\* StorageDoubleMap::clear_prefix with a limit: keys beyond it survive (which
\* ones depends on their hashes).
ClearPrefix(keys, limit) ==
    IF Cardinality(keys) <= limit THEN {}
    ELSE CHOOSE rest \in SUBSET keys : Cardinality(rest) = Cardinality(keys) - limit

\* The circle with the next member eligible and an empty round open until
\* cutoff.
OpenNextRound(c, cutoff) ==
    LET order == c.active_order
    IN  [c EXCEPT !.next_pay_by = cutoff,
                  !.eligible_claimant = order[Len(order)],
                  !.active_order = RotateRight(order),
                  !.current_contributors = ClearPrefix(@, Len(order) - 1),
                  !.current_contribution_count = 0]

NewRoundStarted(id, c) ==
    [type |-> "NewRoundStarted", rosca_id |-> id,
     new_eligible_recipient |-> c.eligible_claimant, payment_cutoff |-> c.next_pay_by]

advance_rosca_round(id, s) ==
    LET cutoff == s.circle.next_pay_by + s.circle.active_roscas.contribution_frequency
        next   == OpenNextRound(s.circle, cutoff)
    IN  IF ~s.ok \/ cutoff > MaxMoment THEN Failed(s)
        ELSE [s EXCEPT !.circle = next,
                       !.events = Append(@, NewRoundStarted(id, next))]

\* CompletedRoscas::insert, ActiveRoscas::remove and the RoscaComplete event.
Complete(id, s) ==
    [s EXCEPT !.circle = [@ EXCEPT !.completed_roscas = TRUE, !.active_roscas = None],
              !.events = Append(@, [type |-> "RoscaComplete", rosca_id |-> id])]

\* Mutant: completes with the final round still open.
check_and_complete_rosca_Early(id, s) ==
    IF s.ok /\ s.circle.next_pay_by >= s.circle.final_pay_by THEN Complete(id, s) ELSE s

check_and_complete_rosca(id, s) ==
    IF s.ok /\ s.circle.next_pay_by > s.circle.final_pay_by THEN Complete(id, s) ELSE s

\* What both loops below do for a round that is over: settle it, then move to
\* the next one.  Mutant: moves on before it settles.
CloseRound_AdvanceFirst(id, s) == process_defaulters(id, advance_rosca_round(id, s))
CloseRound(id, s) == advance_rosca_round(id, process_defaulters(id, s))

\* One test of the loop of contribute_to_rosca: a round whose cutoff has
\* passed at time t is closed.
CloseLateRound(id, s, t) ==
    IF s.ok /\ s.circle.active_roscas # None /\ t >= s.circle.next_pay_by
    THEN check_and_complete_rosca(id, CloseRound(id, s)) ELSE s

\* The whole loop.  A circle of n members has at most n rounds to close.
CatchUp(id, s, t) ==
    LET n == Len(s.circle.active_order)
        after[i \in 0..n] ==
            IF i = 0 THEN s ELSE CloseLateRound(id, after[i-1], t)
    IN  after[n]

\* The round open in c is one of the announced rounds.
\* Mutant: takes the final round for over.
RoundRemains_NotFinal(c) == c.next_pay_by < c.final_pay_by
RoundRemains(c) == c.next_pay_by <= c.final_pay_by

\* One test of the loop of manually_end_rosca.
CloseRemainingRound(id, s) ==
    IF s.ok /\ RoundRemains(s.circle) THEN CloseRound(id, s) ELSE s

\* The whole loop, up to the round after the final one.
CloseAllRounds(id, s) ==
    LET n == Len(s.circle.active_order)
        after[i \in 0..n] ==
            IF i = 0 THEN s ELSE CloseRemainingRound(id, after[i-1])
    IN  after[n]

=============================================================================
