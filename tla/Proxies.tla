------------------------------- MODULE Proxies -------------------------------
(***************************************************************************)
(* Proxies of the runtime: which calls an account may make itself, which   *)
(* ones a proxy of each type may make for it, and what the proxies and     *)
(* announcements of an account keep reserved of its balance.  The proxy    *)
(* pallet is external; the filters, types and deposits are the runtime's.  *)
(***************************************************************************)
EXTENDS Integers, FiniteSets, Functions

CONSTANTS Accounts,         \* accounts with a key
          PureAccounts,     \* accounts without one, that create_pure makes
          Definitions,      \* delegates, types and delays proxies are added with
          AnnouncedCalls,   \* calls that get announced
          MaxProxies, MaxPending,
          Funds,            \* what an account can have reserved, in cents
          MaxTime           \* bound on the block number

VARIABLES proxies,          \* account -> its proxies
          announcements,    \* account -> calls it announced as a delegate, one
                            \* of a kind in a block
          reserved,         \* account -> deposit
          height

proxyVars == <<proxies, announcements, reserved, height>>
state == [proxies |-> proxies, announcements |-> announcements, reserved |-> reserved]

Holders == Accounts \cup PureAccounts

(* Deposits, in cents.                                                     *)
deposit(items, bytes) == items * 15 + bytes * 6

ProxyDeposit(defs) ==
    IF defs = {} THEN 0 ELSE deposit(1, 40) + Cardinality(defs) * deposit(0, 33)

AnnouncementDeposit(anns) ==
    IF anns = {} THEN 0 ELSE deposit(1, 48) + Cardinality(anns) * deposit(0, 66)

Call(pallet, method) == [pallet |-> pallet, method |-> method]

OtherCalls == {Call("Balances", "transfer"), Call("Assets", "transfer"),
               Call("CollatorSelection", "leave_intent")}

(* What an account can call of the proxy pallet.                           *)
ProxyCalls ==
    {[pallet |-> "Proxy", method |-> m, def |-> d] :
        m \in {"add_proxy", "remove_proxy"}, d \in Definitions}
    \cup {[pallet |-> "Proxy", method |-> m, real |-> a, call |-> c] :
            m \in {"announce", "remove_announcement"}, a \in Accounts, c \in AnnouncedCalls}
    \cup {[pallet |-> "Proxy", method |-> "reject_announcement", delegate |-> a, call |-> c] :
            a \in Accounts, c \in AnnouncedCalls}
    \cup {[pallet |-> "Proxy", method |-> m, pure |-> p] :
            m \in {"create_pure", "kill_pure", "remove_proxies"}, p \in PureAccounts}

Calls == OtherCalls \cup ProxyCalls

-----------------------------------------------------------------------------

NormalFilter_All(c) == TRUE

(* The calls no account can make.  Root can: sudo_as and dispatch_as make  *)
(* a call in an account's name without the filter; they are left out.      *)
NormalFilter(c) ==
    ~(c.pallet = "Proxy" /\ c.method \in {"create_pure", "kill_pure", "remove_proxies"})

filter_MultisigOnly(type, c) ==
    CASE type = "Any" -> TRUE
      [] type = "NonTransfer" -> c.pallet # "Balances"
      [] type = "CancelProxy" -> c.pallet = "Multisig"
      [] type = "Collator" -> c.pallet \in {"CollatorSelection", "Multisig"}

(* The calls a proxy of a type can make.                                   *)
filter(type, c) ==
    CASE type = "Any" -> TRUE
      [] type = "NonTransfer" -> c.pallet # "Balances"
      [] type = "CancelProxy" -> \/ c.pallet = "Proxy" /\ c.method = "reject_announcement"
                                 \/ c.pallet = "Multisig"
      [] type = "Collator" -> c.pallet \in {"CollatorSelection", "Multisig"}

(* InstanceFilter's default, which ProxyType does not replace.             *)
is_superset(type, other) == FALSE

(* The filter do_proxy puts on the call, besides the runtime's own: no     *)
(* proxy is added or removed by one that does not include it.              *)
MayProxy(def, c) ==
    /\ NormalFilter(c)
    /\ IF c.pallet = "Proxy" /\ c.method \in {"add_proxy", "remove_proxy"}
       THEN is_superset(def.type, c.def.type) ELSE filter(def.type, c)

-----------------------------------------------------------------------------

Reserved(st, a, by) ==
    [st.reserved EXCEPT ![a] = IF @ + by > 0 THEN @ + by ELSE 0]

SetProxies(st, a, defs) ==
    [st EXCEPT !.proxies[a] = defs,
               !.reserved = Reserved(st, a, ProxyDeposit(defs) - ProxyDeposit(st.proxies[a]))]

SetAnnouncements(st, a, anns) ==
    [st EXCEPT !.announcements[a] = anns,
               !.reserved = Reserved(st, a, AnnouncementDeposit(anns)
                                            - AnnouncementDeposit(st.announcements[a]))]

Announced(st, delegate, real, c) ==
    {ann \in st.announcements[delegate] : ann.real = real /\ ann.call = c}

(* What a call of an account leaves; the call fails if that is nothing     *)
(* new or more than the account can reserve.                               *)
After(st, who, c) ==
    IF c.pallet # "Proxy" THEN st ELSE
    CASE c.method = "add_proxy" ->
            IF c.def.delegate = who \/ Cardinality(st.proxies[who]) = MaxProxies THEN st
            ELSE SetProxies(st, who, st.proxies[who] \cup {c.def})
      [] c.method = "remove_proxy" -> SetProxies(st, who, st.proxies[who] \ {c.def})
      [] c.method = "announce" ->
            IF \/ \A d \in st.proxies[c.real] : d.delegate # who
               \/ Cardinality(st.announcements[who]) = MaxPending THEN st
            ELSE SetAnnouncements(st, who, st.announcements[who] \cup
                                           {[real |-> c.real, call |-> c.call, height |-> height]})
      [] c.method = "remove_announcement" ->
            SetAnnouncements(st, who, st.announcements[who] \ Announced(st, who, c.real, c.call))
      [] c.method = "reject_announcement" ->
            SetAnnouncements(st, c.delegate, st.announcements[c.delegate]
                                             \ Announced(st, c.delegate, who, c.call))
      [] c.method = "create_pure" ->
            IF st.proxies[c.pure] # {} THEN st
            ELSE LET defs == {[delegate |-> who, type |-> "Any", delay |-> 0]}
                 IN  [st EXCEPT !.proxies[c.pure] = defs,
                                !.reserved = Reserved(st, who, ProxyDeposit(defs))]
      [] c.method = "remove_proxies" -> SetProxies(st, who, {})
      [] c.method = "kill_pure" ->
            IF who # c.pure THEN st ELSE [st EXCEPT !.proxies[who] = {}]

Succeeds(st, who, c) ==
    \/ c.pallet # "Proxy"
    \/ After(st, who, c) # st /\ \A a \in Holders : After(st, who, c).reserved[a] <= Funds

Become(st) ==
    /\ proxies' = st.proxies /\ announcements' = st.announcements /\ reserved' = st.reserved
    /\ UNCHANGED height

ProxyInit ==
    /\ proxies = [a \in Holders |-> {}] /\ announcements = [a \in Holders |-> {}]
    /\ reserved = [a \in Holders |-> 0] /\ height = 0

Sign(who, c) == NormalFilter(c) /\ Succeeds(state, who, c) /\ Become(After(state, who, c))

CanProxy(delegate, real, type, c) ==
    \E def \in proxies[real] :
        /\ def.delegate = delegate /\ def.type = type /\ def.delay = 0
        /\ MayProxy(def, c) /\ Succeeds(state, real, c)

proxy(delegate, real, type, c) ==
    /\ CanProxy(delegate, real, type, c)
    /\ Become(After(state, real, c))

(* An announcement that has stood for the delay is used up, whether or not *)
(* its call then succeeds.                                                 *)
proxy_announced(delegate, def, real, c) ==
    LET ripe == {ann \in Announced(state, delegate, real, c) : height - ann.height >= def.delay}
        st == SetAnnouncements(state, delegate, announcements[delegate] \ ripe)
    IN  /\ def \in proxies[real] /\ def.delegate = delegate /\ ripe # {}
        /\ Become(IF MayProxy(def, c) /\ Succeeds(st, real, c) THEN After(st, real, c) ELSE st)

Tick == height < MaxTime /\ height' = height + 1 /\ UNCHANGED <<proxies, announcements, reserved>>

ProxyNext ==
    \/ \E who \in Accounts, c \in Calls : Sign(who, c)
    \/ \E delegate \in Accounts, real \in Holders, c \in Calls :
          \E type \in {"Any", "NonTransfer", "CancelProxy", "Collator"} :
             proxy(delegate, real, type, c)
    \/ \E def \in Definitions, real \in Holders, c \in AnnouncedCalls :
          proxy_announced(def.delegate, def, real, c)
    \/ Tick

ProxySpec == ProxyInit /\ [][ProxyNext]_proxyVars

-----------------------------------------------------------------------------

(* configs/mod.rs: "We filter anonymous proxy as they make "reserve"       *)
(* inconsistent".  With the filter, and as long as Root does not get round *)
(* it with sudo_as or dispatch_as, what an account has reserved is at all  *)
(* times the deposit of its own proxies and announcements, however they    *)
(* were added, used up, rejected or removed, by it or for it.              *)
ReservesConsistent ==
    \A a \in Holders :
        reserved[a] = ProxyDeposit(proxies[a]) + AnnouncementDeposit(announcements[a])

(* ProxyType::CancelProxy, "Allows to finish the proxy": while a call is   *)
(* announced for an account, each of its undelayed cancel proxies can      *)
(* reject it.                                                              *)
AnnouncementsCancellable ==
    \A d, e \in Accounts, real \in Accounts :
        \A ann \in announcements[d] :
            ann.real = real /\ [delegate |-> e, type |-> "CancelProxy", delay |-> 0] \in proxies[real]
                => CanProxy(e, real, "CancelProxy",
                            [pallet |-> "Proxy", method |-> "reject_announcement",
                             delegate |-> d, call |-> ann.call])
=============================================================================
