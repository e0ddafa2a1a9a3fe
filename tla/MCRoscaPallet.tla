--------------------------- MODULE MCRoscaPallet ---------------------------
(***************************************************************************)
(* Instances of RoscaPallet for TLC: one circle, of three members with     *)
(* money or of four without, and two circles in two assets.                *)
(***************************************************************************)
EXTENDS RoscaProperties, RoscaRefinement, TLC

CONSTANTS a1, a2, a3, a4, usdt, usdc

Proposal(invited, threshold, amount, asset, frequency, start_by, random, position) ==
    [random_order |-> random, invited |-> invited,
     minimum_participant_threshold |-> threshold, contribution_amount |-> amount,
     payment_asset |-> asset, contribution_frequency |-> frequency,
     start_by_timestamp |-> start_by, position |-> position]

\* Every account holds `rich` of each asset, except a3, which holds `poor`.
Funding(rich, poor) ==
    {[a \in PaymentAssets |-> [p \in Accounts |-> IF p = a3 THEN poor ELSE rich]]}

\* Nobody holds the second asset.
OneAsset(fundings) ==
    {[f EXCEPT ![usdc] = [p \in Accounts |-> 0]] : f \in fundings}

RoundsAccounts == {a1, a2, a3, a4}

\* A circle of three, two of whom are enough to start it; a3 cannot pay every
\* round and a deposit, and a deposit of 3 is no multiple of a contribution of 2.
PayingProposals == {Proposal({a2, a3}, 2, 2, usdt, 1, 1, FALSE, None)}

\* Four members, any slot, fixed or shuffled order, and no money; the times of
\* a circle of four do not fit the Moment type.
OrderProposals ==
    {Proposal({a2, a3, other}, 0, 1, usdc, 2, 2, random, position) :
        other \in {a1, a4}, random \in BOOLEAN, position \in {None, 2}}

RoundsProposals == PayingProposals \cup OrderProposals
RoundsFundings  == OneAsset(Funding(6, 4))

\* a1 and a4 are interchangeable.
OuterSymmetry == Permutations({a1, a4})

\* An asset whose minimum balance is larger than a contribution.
DustAccounts  == {a1, a2, a3}
DustProposals == {Proposal({a2, a3}, 2, 1, usdt, 1, 2, FALSE, None)}
DustFundings  == Funding(4, 4)

\* Two circles of two, one in each asset, and money sent to them from outside.
TwoAccounts  == {a1, a2}
TwoProposals == {Proposal({a2}, 2, 2, usdt, 1, 1, FALSE, None),
                 Proposal({a1}, 1, 1, usdc, 1, 1, FALSE, None)}
TwoFundings  == Funding(2, 2)
TwoTransfers == {<<usdc, a1, rosca_account_id(0), 1>>}
=============================================================================
