CONSTANTS
    a1 = a1
    a2 = a2
    a3 = a3
    a4 = a4
    usdt = usdt
    usdc = usdc
    None = None
    Accounts <- RoundsAccounts
    PaymentAssets = {usdt, usdc}
    Fundings <- RoundsFundings
    Proposals <- RoundsProposals
    MinBalance = 1
    MaxU32 = 3
    MaxMoment = 9
    SeedByte = 189
    MaxRoscas = 1
    MaxParticipants = 5
    MaxInvitedParticipants = 4
    JoinPositions = {None, 1, 3}
    DepositAmounts = {2, 3}
    OutsideTransfers = {}
    MaxTime = 4
SPECIFICATION Spec
SYMMETRY OuterSymmetry
INVARIANTS
    TypeOK
    MembershipConsistent
    ScheduleSound
    ContributionsCounted
    FundCoversDeposits
    CatchUpReachesPresent
    CanAlwaysEnd
    AnnouncedRoundsMatch
PROPERTIES
    ImplementsSavingsCircles
    MissedRoundsCharged
    PotReachesRecipient
CHECK_DEADLOCK FALSE
