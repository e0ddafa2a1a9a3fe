---------------------------- MODULE MCRoscaPages ----------------------------
(***************************************************************************)
(* Instances of RoscaPages for TLC: a circle of two; a2 uses the page, a1  *)
(* calls the pallet directly, and a3 stands for an address of no account.  *)
(***************************************************************************)
EXTENDS PagesProperties

CONSTANTS a1, a2, a3, usdt

NamedEntry(length, invited, threshold, amount, start_by) ==
    [name_length |-> length, random_order |-> FALSE, invited |-> invited,
     minimum_participant_threshold |-> threshold, contribution_amount |-> amount,
     payment_asset |-> usdt, contribution_frequency |-> 1,
     start_by_timestamp |-> start_by, position |-> None]

Entry(invited, threshold, amount, start_by) ==
    NamedEntry(StringLimit, invited, threshold, amount, start_by)

TwoAccounts == {a1, a2}
TwoFundings == {[a \in PaymentAssets |-> [p \in Accounts |-> 2]]}
Entries     == {Entry({a2}, 2, 1, 1), Entry({a2}, 3, 1, 1), Entry({a2}, 1, 1, 1),
                Entry({a1, a2}, 2, 1, 1), Entry({a2}, 2, 0, 1), Entry({a2}, 2, 1, 0),
                Entry({a2}, 2, MaxU32 + 1, 1), Entry({a3}, 2, 1, 1),
                NamedEntry(StringLimit + 1, {a2}, 2, 1, 1)}
=============================================================================
