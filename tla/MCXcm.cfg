SPECIFICATION XcmFairSpec
CONSTANTS
    alice = alice
    MinBalance = 70000
    Users = {alice}
    Holder = root
    GenesisIssue = 1000000
    Inbound <- MCInbound
    Withdrawals <- MCWithdrawals
    MaxMessages = 2
    MaxOutbound = 2
    MaxPayouts = 2
CHECK_DEADLOCK FALSE
INVARIANTS
    BackingAccounted
    PaidOnce
PROPERTIES
    AnswersArrive
