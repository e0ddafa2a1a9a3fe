CONSTANTS
    a1 = a1
    a2 = a2
    a3 = a3
    a4 = a4
    usdt = usdt
    usdc = usdc
    None = None
    Accounts <- TwoAccounts
    PaymentAssets = {usdt, usdc}
    Fundings <- TwoFundings
    Proposals <- TwoProposals
    MinBalance = 1
    MaxU32 = 2
    MaxMoment = 9
    SeedByte = 189
    MaxRoscas = 2
    MaxParticipants = 5
    MaxInvitedParticipants = 4
    JoinPositions = {None}
    DepositAmounts = {1}
    OutsideTransfers <- TwoTransfers
    MaxTime = 3
SPECIFICATION Spec
INVARIANTS
    FundCoversDeposits
PROPERTIES
    FundPaysOnlyDeposits
CHECK_DEADLOCK FALSE
