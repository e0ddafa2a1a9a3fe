---------------------------- MODULE MCCrossChain ----------------------------
(* Instances of CrossChain for TLC.                                        *)
EXTENDS CrossChain

CONSTANTS alice

Crediting(u, o, pay, asset, n) == [kind |-> "deposit", origin |-> o, pay |-> pay,
                                   asset |-> asset, amount |-> n, to |-> u]
Depositing(o, pay, asset, n) == Crediting(alice, o, pay, asset, n)
Message(o, pay, kind) == [kind |-> kind, origin |-> o, pay |-> pay]
Transact(o, pay) == [kind |-> "transact", origin |-> o, pay |-> pay, call |-> "set_invulnerables"]

(* Amounts below the fee, below fee and minimum balance, and above what    *)
(* was issued at genesis, also for the account that holds the issue.       *)
MCInbound ==
    [relay   |-> {Depositing("Parent", "bought", RelayLocation, 1), Message("Parent", "none", "hrmp"),
                  Transact("Executive", "unpaid"), Transact("Defense", "unpaid")},
     hub     |-> {Depositing("AssetHub", pay, USDC_PATH, n) : pay \in {"bought", "unpaid"},
                                                              n \in {316, 70316, 1500000}}
                 \cup {Depositing("AssetHub", "bought", USDT_PATH, 1500000),
                       Crediting(Holder, "AssetHub", "bought", USDC_PATH, 1500000),
                       Depositing("AssetHub", "bought", "Other", 1500000)},
     sibling |-> {Depositing("Sibling", "bought", USDC_PATH, 1500000),
                  Depositing("Sibling", "unpaid", USDC_PATH, 1500000),
                  Message("Sibling", "none", "subscribe")}]

(* The last is more than the genesis issue and than any reserve.           *)
MCWithdrawals == {70000, 1000000, 2000000}
=============================================================================
