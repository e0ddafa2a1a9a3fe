------------------------------ MODULE MCProxies ------------------------------
(* Instances of Proxies for TLC.                                           *)
EXTENDS Proxies

CONSTANTS a, b, c, p

Def(d, t, n) == [delegate |-> d, type |-> t, delay |-> n]

MCDefinitions ==
    {Def(b, "Any", 1), Def(b, "NonTransfer", 0), Def(c, "CancelProxy", 0), Def(a, "Any", 0)}

MCAnnouncedCalls ==
    {Call("Balances", "transfer"),
     [pallet |-> "Proxy", method |-> "reject_announcement", delegate |-> b,
      call |-> Call("Balances", "transfer")]}
=============================================================================
