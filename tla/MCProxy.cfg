SPECIFICATION ProxySpec
CONSTANTS
    a = a
    b = b
    c = c
    p = p
    Accounts = {a, b, c}
    PureAccounts = {p}
    Definitions <- MCDefinitions
    AnnouncedCalls <- MCAnnouncedCalls
    MaxProxies = 2
    MaxPending = 1
    Funds = 1200
    MaxTime = 1
INVARIANTS
    ReservesConsistent
    AnnouncementsCancellable
