----------------------------- MODULE CrossChain -----------------------------
(***************************************************************************)
(* Messages between this chain and the relay chain, Asset Hub and another  *)
(* sibling (runtime/src/configs/xcm_config.rs): which messages the barrier *)
(* lets in, whose deposits of which assets are believed, how locations and *)
(* local asset ids are converted, what a message pays, and how assets and  *)
(* treasury payments leave.  The executor, the queues and Asset Hub are    *)
(* external.  The local ledger of the two assets is ForeignAssets.         *)
(***************************************************************************)
EXTENDS ForeignAssets, Integers, Sequences, Functions

CONSTANTS Users,          \* local accounts that receive and send assets
          Holder,         \* the account endowed with both assets at genesis
          GenesisIssue,   \* what it holds of each
          Inbound,        \* messages each source may send
          Withdrawals,    \* amounts users send back to Asset Hub
          MaxMessages,    \* bound: messages sent to this chain
          MaxOutbound,    \* bound: transfers and sends of the users
          MaxPayouts      \* bound: payouts attempted

VARIABLES inbound,        \* queued messages by source
          outbound,       \* messages on their way to Asset Hub
          reserve,        \* what Asset Hub holds for this chain, by location
          held,           \* held[asset id][account]
          trapped,        \* held back by the asset trap, by asset id
          lost,           \* fees taken and dust removed, by asset id
          short,          \* withdrawals Asset Hub could not serve, by location
          native,         \* native tokens minted for relay-chain deposits
          administered,   \* a call of the staking admin took effect
          spend,          \* state of a treasury spend and of its query
          paid,           \* times Asset Hub paid the spend
          received, sent, payouts

xcmVars == <<inbound, outbound, reserve, held, trapped, lost, short, native,
          administered, spend, paid, received, sent, payouts>>

Accounts == Users \cup {Holder}

Sources == {"relay", "hub", "sibling"}

(* Asset locations: the two supported paths, the relay chain's token and   *)
(* any other asset of Asset Hub.                                           *)
USDC_PATH == "USDC_PATH"
USDT_PATH == "USDT_PATH"
RelayLocation == "RelayLocation"

SupportedAssets(location) == location \in {USDC_PATH, USDT_PATH}

AssetIds == {1337, 1984}

convert(location) == IF location = USDC_PATH THEN 1337 ELSE 1984

convert_back(asset_id) == IF asset_id = 1337 THEN USDC_PATH ELSE USDT_PATH

(* Origins as the barrier sees them, after the descents a message starts   *)
(* with: "Executive" and "Defense" are bodies of the relay chain.          *)
ParentOrParentsExecutivePlurality(origin) == origin \in {"Parent", "Executive"}
AssetHubParachain(origin) == origin = "AssetHub"
ParentOrSiblings(origin) == origin \in {"Parent", "AssetHub", "Sibling"}

AssetHubAssets_AnySource(asset, source) == SupportedAssets(asset)

AssetHubAssets(asset, source) == source = "AssetHub" /\ SupportedAssets(asset)

NativeAsset(asset, source) == asset = RelayLocation /\ source = "Parent"

Reserves(asset, source) == NativeAsset(asset, source) \/ AssetHubAssets(asset, source)

AllowHrmpNotificationsFromRelayChain(m) == m.origin = "Parent" /\ m.kind = "hrmp"

AllowKnownQueryResponses(m) ==
    m.kind = "response" /\ m.origin = "AssetHub" /\ spend.query = "pending"

Barrier_NoResponses(m) ==
    \/ AllowHrmpNotificationsFromRelayChain(m)
    \/ m.pay = "bought"
    \/ m.pay = "unpaid" /\ (AssetHubParachain(m.origin) \/ ParentOrParentsExecutivePlurality(m.origin))
    \/ m.kind = "subscribe" /\ ParentOrSiblings(m.origin)

Barrier(m) ==
    \/ AllowKnownQueryResponses(m)
    \/ AllowHrmpNotificationsFromRelayChain(m)
    \/ m.pay = "bought"
    \/ m.pay = "unpaid" /\ (AssetHubParachain(m.origin) \/ ParentOrParentsExecutivePlurality(m.origin))
    \/ m.kind = "subscribe" /\ ParentOrSiblings(m.origin)

(* Five instructions at UnitWeightCost, a millisecond and 64 KiB each,     *)
(* priced by UsdcPerSecond and UsdtPerSecond: 1000 for a second and for    *)
(* a MiB.                                                                  *)
UnitWeight == [milliseconds |-> 1, kib |-> 64]

Fee == LET n == 5
       IN  n * UnitWeight.milliseconds + (1000 * n * UnitWeight.kib) \div 1024

SafeCallFilter(call) == FALSE

CollatorSelectionUpdateOrigin(origin) == origin = "Defense"

-----------------------------------------------------------------------------

(* testnet_genesis: the assets and their only holder.                      *)
XcmInit ==
    /\ inbound = [s \in Sources |-> <<>>] /\ outbound = <<>>
    /\ reserve = [l \in {USDC_PATH, USDT_PATH} |-> 0]
    /\ held = [a \in AssetIds |-> [u \in Accounts |-> IF u = Holder THEN GenesisIssue ELSE 0]]
    /\ trapped = [a \in AssetIds |-> 0] /\ lost = [a \in AssetIds |-> 0]
    /\ short = [l \in {USDC_PATH, USDT_PATH} |-> 0]
    /\ native = 0 /\ administered = FALSE
    /\ spend = [state |-> "pending", query |-> "none"] /\ paid = 0
    /\ received = 0 /\ sent = 0 /\ payouts = 0

(* Another chain sends a message.  A supported asset deposited by Asset    *)
(* Hub has been put into this chain's reserve there.                       *)
Arrive(s, m) ==
    /\ received < MaxMessages /\ received' = received + 1
    /\ m \in Inbound[s]
    /\ inbound' = [inbound EXCEPT ![s] = Append(@, m)]
    /\ reserve' = IF s = "hub" /\ m.kind = "deposit" /\ SupportedAssets(m.asset)
                  THEN [reserve EXCEPT ![m.asset] = @ + m.amount] ELSE reserve
    /\ UNCHANGED <<outbound, held, trapped, lost, short, native, administered, spend, paid,
                   sent, payouts>>

Trapped(asset, amount) == trapped' = [trapped EXCEPT ![asset] = @ + amount]

(* ReserveAssetDeposited, BuyExecution and DepositAsset of a believed      *)
(* deposit: what the fee or the account's minimum balance refuses is       *)
(* trapped.                                                                *)
DepositAsset(m) ==
    LET asset == convert(m.asset)
        fee == IF m.pay = "bought" THEN Fee ELSE 0
        rest == m.amount - fee
    IN  IF rest < 0
        THEN Trapped(asset, m.amount) /\ UNCHANGED <<held, lost>>
        ELSE /\ lost' = [lost EXCEPT ![asset] = @ + fee]
             /\ IF held[asset][m.to] + rest < MinBalance
                THEN Trapped(asset, rest) /\ UNCHANGED held
                ELSE held' = [held EXCEPT ![asset][m.to] = @ + rest] /\ UNCHANGED trapped

Deposit(m) ==
    IF m.asset = RelayLocation
    THEN native' = native + m.amount /\ UNCHANGED <<held, trapped, lost>>
    ELSE DepositAsset(m) /\ UNCHANGED native

Ignored == UNCHANGED <<held, trapped, lost, native, administered, spend>>

Execute(m) ==
    \/ /\ m.kind = "deposit"
       /\ IF Reserves(m.asset, m.origin) THEN Deposit(m)
          ELSE UNCHANGED <<held, trapped, lost, native>>
       /\ UNCHANGED <<administered, spend>>
    \/ /\ m.kind = "transact"
       /\ administered' = (administered \/ /\ SafeCallFilter(m.call)
                                           /\ CollatorSelectionUpdateOrigin(m.origin))
       /\ UNCHANGED <<held, trapped, lost, native, spend>>
    \/ /\ m.kind = "response"
       /\ spend' = [spend EXCEPT !.query = m.result]
       /\ UNCHANGED <<held, trapped, lost, native, administered>>
    \/ m.kind \in {"hrmp", "subscribe"} /\ Ignored

(* The message queue hands the first message of a source to the executor.  *)
Process(s) ==
    /\ inbound[s] # <<>>
    /\ LET m == Head(inbound[s])
       IN  IF Barrier(m) THEN Execute(m) ELSE Ignored
    /\ inbound' = [inbound EXCEPT ![s] = Tail(@)]
    /\ UNCHANGED <<outbound, reserve, short, paid, received, sent, payouts>>

(* pallet_xcm's reserve transfers: XcmReserveTransferFilter lets only the  *)
(* two supported assets leave; they are burnt here and withdrawn there.    *)
reserve_transfer_assets(u, asset, amount) ==
    /\ sent < MaxOutbound /\ sent' = sent + 1
    /\ SupportedAssets(convert_back(asset))
    /\ held[asset][u] >= amount
    /\ held' = [held EXCEPT ![asset][u] = AfterDebit(@, amount)]
    /\ lost' = [lost EXCEPT ![asset] = @ + held[asset][u] - amount
                                         - AfterDebit(held[asset][u], amount)]
    /\ outbound' = Append(outbound, [kind |-> "withdraw", asset |-> convert_back(asset),
                                     amount |-> amount])
    /\ UNCHANGED <<inbound, reserve, trapped, short, native, administered, spend, paid,
                   received, payouts>>

(* pallet_xcm::send: LocalOriginToLocation gives every signed origin a     *)
(* location, so SendXcmOrigin accepts it.                                  *)
send(u) ==
    /\ sent < MaxOutbound /\ sent' = sent + 1
    /\ outbound' = Append(outbound, [kind |-> "sent", by |-> u])
    /\ UNCHANGED <<inbound, reserve, held, trapped, lost, short, native, administered,
                   spend, paid, received, payouts>>

(* pallet_treasury::payout through TreasuryPaymaster.                      *)
payout ==
    /\ payouts < MaxPayouts /\ payouts' = payouts + 1
    /\ spend.state \in {"pending", "failed"}
    /\ spend' = [state |-> "attempted", query |-> "pending"]
    /\ outbound' = Append(outbound, [kind |-> "pay"])
    /\ UNCHANGED <<inbound, reserve, held, trapped, lost, short, native, administered,
                   paid, received, sent>>

check_status_PendingFails ==
    /\ spend.state = "attempted"
    /\ spend' = [state |-> IF spend.query = "success" THEN "processed" ELSE "failed",
                 query |-> "none"]
    /\ UNCHANGED <<inbound, outbound, reserve, held, trapped, lost, short, native,
                   administered, paid, received, sent, payouts>>

check_status ==
    /\ spend.state = "attempted" /\ spend.query \in {"success", "failure"}
    /\ spend' = [state |-> IF spend.query = "success" THEN "processed" ELSE "failed",
                 query |-> "none"]
    /\ UNCHANGED <<inbound, outbound, reserve, held, trapped, lost, short, native,
                   administered, paid, received, sent, payouts>>

Response(result) == [kind |-> "response", origin |-> "AssetHub", pay |-> "none",
                     result |-> result]

(* Asset Hub serves the next message: it releases reserve, makes a payment *)
(* and answers, or makes or fails a payment and the answer is not sent.    *)
HubProcess ==
    /\ outbound # <<>>
    /\ outbound' = Tail(outbound)
    /\ LET m == Head(outbound)
       IN  \/ /\ m.kind = "withdraw"
              /\ IF m.amount <= reserve[m.asset]
                 THEN reserve' = [reserve EXCEPT ![m.asset] = @ - m.amount] /\ UNCHANGED short
                 ELSE short' = [short EXCEPT ![m.asset] = @ + m.amount] /\ UNCHANGED reserve
              /\ UNCHANGED <<inbound, paid>>
           \/ /\ m.kind = "pay"
              /\ \E result \in {"success", "failure"}, answers \in BOOLEAN :
                    /\ paid' = IF result = "success" THEN paid + 1 ELSE paid
                    /\ inbound' = IF answers
                                  THEN [inbound EXCEPT !["hub"] = Append(@, Response(result))]
                                  ELSE inbound
              /\ UNCHANGED <<reserve, short>>
           \/ m.kind = "sent" /\ UNCHANGED <<inbound, reserve, short, paid>>
    /\ UNCHANGED <<held, trapped, lost, native, administered, spend, received, sent, payouts>>

(* Not among the steps: root, who owns the assets at genesis (chain_spec), *)
(* minting or burning them with calls of pallet_assets, and transfers      *)
(* between local accounts.                                                 *)
XcmNext ==
    \/ \E s \in Sources : Process(s) \/ \E m \in Inbound[s] : Arrive(s, m)
    \/ \E u \in Accounts, a \in AssetIds, n \in Withdrawals : reserve_transfer_assets(u, a, n)
    \/ \E u \in Users : send(u)
    \/ payout \/ check_status \/ HubProcess

XcmSpec == XcmInit /\ [][XcmNext]_xcmVars

(* The message queue is served in every block (ServiceWeight).             *)
XcmFairSpec == XcmSpec /\ \A s \in Sources : WF_xcmVars(Process(s))

-----------------------------------------------------------------------------

(* Amounts of the asset in a queue of messages of one kind.                *)
InTransit(queue, kind, location) ==
    SumFunction([i \in DOMAIN queue |->
        IF queue[i].kind = kind /\ queue[i].asset = location THEN queue[i].amount ELSE 0])

(* Every unit of the two assets is accounted for across both chains: what  *)
(* accounts hold here, what is trapped, taken as fee or dust, on its way   *)
(* in either direction or refused on the way back, equals what Asset Hub   *)
(* holds in reserve and what was issued at genesis, so that withdrawals    *)
(* are refused for no more than that issue and the reserve.  This is for   *)
(* as long as root, the assets' owner and issuer at genesis, neither mints *)
(* nor burns them, as pallet_assets lets it.                               *)
BackingAccounted ==
    \A location \in {USDC_PATH, USDT_PATH} :
        LET asset == convert(location)
        IN  SumFunctionOnSet(held[asset], Accounts) + trapped[asset] + lost[asset] + short[location]
              + InTransit(inbound["hub"], "deposit", location)
              + InTransit(outbound, "withdraw", location)
            = reserve[location] + GenesisIssue

(* A treasury spend is paid at most once, though payments may fail and be  *)
(* retried and answers may get lost.                                       *)
PaidOnce == paid <= 1

(* An answer of Asset Hub about a payment gets past the barrier: the query *)
(* it answers is eventually no longer pending.                             *)
AnswersArrive ==
    (\E i \in 1 .. Len(inbound["hub"]) : inbound["hub"][i].kind = "response")
        ~> (spend.query # "pending")
=============================================================================
