--------------------------- MODULE ForeignAssets ---------------------------
(***************************************************************************)
(* The asset ledger the rosca pallet moves money on: `T::ForeignCurrency`, *)
(* which the runtime binds to pallet_assets.  It is external code, so it   *)
(* is modelled from the one call the pallet makes of it,                   *)
(* `transfer(asset, source, dest, amount, Expendable)`.                    *)
(*                                                                         *)
(* A ledger is a function bal[asset][holder].  An account exists exactly   *)
(* when its balance is at least MinBalance, the asset's minimum balance:   *)
(* an Expendable transfer that leaves the source below it reaps the source *)
(* and the remainder is lost, and a transfer that would leave the          *)
(* destination below it is refused.                                        *)
(***************************************************************************)
EXTENDS Naturals

CONSTANT
    MinBalance      \* minimum balance of the payment assets (genesis state)

ASSUME MinBalanceAssumption == MinBalance \in Nat \ {0}

\* The checks of a transfer: can_withdraw on the source and can_deposit on
\* the destination.  A failure makes the whole dispatched call fail.
CanTransfer(bal, asset, source, dest, amount) ==
    /\ bal[asset][source] >= amount
    /\ bal[asset][dest] + amount >= MinBalance

\* What an account keeps when amount leaves it and it may be reaped.
AfterDebit(held, amount) ==
    IF held - amount < MinBalance THEN 0 ELSE held - amount

\* The ledger after a transfer that passes the checks.  A transfer to
\* oneself passes the same checks and then changes nothing.
Transfer(bal, asset, source, dest, amount) ==
    IF source = dest THEN bal
    ELSE [bal EXCEPT ![asset][source] = AfterDebit(@, amount),
                     ![asset][dest]   = @ + amount]

=============================================================================
