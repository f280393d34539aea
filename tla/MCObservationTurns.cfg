SPECIFICATION FairSpec
CONSTANTS
    Calls = {1, 2, 3, 4}
    Hash = {1, 2}
    HashOf <- TurnsHashOf
    Exclusive = TRUE
    PeerHeights = {}
    ANCESTOR_MERKLE_ROOT_LENGTH = 2
    MaxRestarts = 1
INVARIANTS
    AncestorsOnce
    FailsOnlyAfterTimeout
PROPERTIES
    CallEnds
