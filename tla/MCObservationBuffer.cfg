SPECIFICATION Spec
CONSTANTS
    Calls = {1, 2, 3}
    Hash = {1, 2}
    HashOf <- PairHashOf
    Exclusive = FALSE
    PeerHeights = {1, 3}
    ANCESTOR_MERKLE_ROOT_LENGTH = 2
    MaxRestarts = 1
INVARIANTS
    ChainUnforked
    AnsweredHasEdge
    CallAttended
PROPERTIES
    ImplementsSigner
