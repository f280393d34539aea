SPECIFICATION BackfillSpec
CONSTANTS
    Requests = {1, 2}
    Hash = {1, 2, 3}
    UtxoIds <- FamilyUtxoIds
    HashOf <- FamilyHashOf
    Inputs <- FamilyInputs
    Outputs <- FamilyOutputs
    Invalid = {}
    Unbalanced = {}
    PeerTransactions = {}
    PeerValid <- FamilyPeerValid
    Stored = {0}
    Unspent <- FamilyUnspent
    Concurrency = 1
    Snapshot <- FamilySnapshot
    History = {1}
    MaxRestarts = 1
INVARIANTS
    AncestryStored
    ParentsAccountedFor
    ValueKept
