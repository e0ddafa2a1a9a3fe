SPECIFICATION FairSpec
CONSTANTS
    UNINCLUDED_SEGMENT_CAPACITY = 3
    BLOCK_PROCESSING_VELOCITY = 1
    SLOT_DURATION = 6000
    RELAY_CHAIN_SLOT_DURATION_MILLIS = 6000
    MaxAge = 3
    MinimumPeriod = 3000
INVARIANTS
    NoPanic
PROPERTIES
    InclusionGoesOn
