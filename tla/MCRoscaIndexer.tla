--------------------------- MODULE MCRoscaIndexer ---------------------------
(***************************************************************************)
(* Instances of RoscaIndexer for TLC: one circle of up to three members and*)
(* an indexer that handles the events of a call one by one.                *)
(***************************************************************************)
EXTENDS IndexerProperties, TLC

CONSTANTS a1, a2, a3, usdt

Invitation(invited, threshold, amount) ==
    [random_order |-> FALSE, invited |-> invited,
     minimum_participant_threshold |-> threshold, contribution_amount |-> amount,
     payment_asset |-> usdt, contribution_frequency |-> 1,
     start_by_timestamp |-> 1, position |-> None]

Purse(amount) == {[a \in PaymentAssets |-> [p \in Accounts |-> amount]]}

\* Deposits of 1 and contributions of 2: a deposit alone never pays a round.
ThreeAccounts  == {a1, a2, a3}
ThreeProposals == {Invitation({a2, a3}, 2, 2)}
ThreeFundings  == Purse(3)

\* The two invited accounts are interchangeable.
InvitedSymmetry == Permutations({a2, a3})
=============================================================================
