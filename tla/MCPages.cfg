CONSTANTS
    a1 = a1
    a2 = a2
    a3 = a3
    usdt = usdt
    None = None
    Accounts <- TwoAccounts
    PaymentAssets = {usdt}
    Fundings <- TwoFundings
    Proposals = {}
    MinBalance = 1
    MaxU32 = 1
    MaxMoment = 9
    SeedByte = 189
    MaxRoscas = 1
    MaxParticipants = 5
    MaxInvitedParticipants = 4
    JoinPositions = {None}
    DepositAmounts = {1}
    OutsideTransfers = {}
    MaxTime = 3
    MaxLag = 2
    MaxInt = 1
    StringLimit = 50
    Users = {a2}
    PageCircle = 0
    FormEntries <- Entries
    MillisPerSecond = 1000
    MaxInFlight = 1
SPECIFICATION FairPagesSpec
INVARIANTS
    ShownRoundIsOpen
    FreshOffersAccepted
    ErrorsReportedTruly
    FormEntriesAccepted
PROPERTIES
    CallsSettle
    CompletionShown
CHECK_DEADLOCK FALSE
