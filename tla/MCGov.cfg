SPECIFICATION FairSpec
CONSTANTS
    MaxReferenda = 3
    MaxQueued = 1
    Plans <- AllPlans
    SudoCalls <- KillFirst
    Moments <- OneMoment
    MaxVotes = 3
CHECK_DEADLOCK FALSE
INVARIANTS
    SlotsAccounted
    ActsAuthorised
PROPERTIES
    ConfirmedThroughout
    ReferendaEnd
