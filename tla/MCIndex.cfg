CONSTANTS
    a1 = a1
    a2 = a2
    a3 = a3
    usdt = usdt
    None = None
    Accounts <- ThreeAccounts
    PaymentAssets = {usdt}
    Fundings <- ThreeFundings
    Proposals <- ThreeProposals
    MinBalance = 1
    MaxU32 = 7
    MaxMoment = 9
    SeedByte = 189
    MaxRoscas = 1
    MaxParticipants = 5
    MaxInvitedParticipants = 4
    JoinPositions = {None}
    DepositAmounts = {1}
    OutsideTransfers = {}
    MaxTime = 4
    MaxLag = 1
    MaxInt = 3
SPECIFICATION IndexSpec
SYMMETRY InvitedSymmetry
INVARIANTS
    IndexAgrees
    ClosedRoundsAccountedFor
    IndexedDepositsSum
CHECK_DEADLOCK FALSE
