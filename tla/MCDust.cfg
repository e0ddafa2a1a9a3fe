CONSTANTS
    a1 = a1
    a2 = a2
    a3 = a3
    a4 = a4
    usdt = usdt
    usdc = usdc
    None = None
    Accounts <- DustAccounts
    PaymentAssets = {usdt}
    Fundings <- DustFundings
    Proposals <- DustProposals
    MinBalance = 2
    MaxU32 = 4
    MaxMoment = 9
    SeedByte = 189
    MaxRoscas = 1
    MaxParticipants = 5
    MaxInvitedParticipants = 4
    JoinPositions = {None, 1}
    DepositAmounts = {2, 3}
    OutsideTransfers = {}
    MaxTime = 5
SPECIFICATION Spec
INVARIANT FundCoversDeposits
CHECK_DEADLOCK FALSE
