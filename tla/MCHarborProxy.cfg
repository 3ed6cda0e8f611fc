\* Three registries, so that one REG_ID is left over for another, and two
\* restarts, so that an interrupted script is itself interrupted again.
CONSTANTS
    N = 3
    BackoffLimit = 2
SPECIFICATION FairSpec
INVARIANTS TypeOK LinkedToItsRegistry CompleteUnlessErred
PROPERTIES JobEnds
CHECK_DEADLOCK FALSE
