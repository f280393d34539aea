SPECIFICATION Spec
CONSTANTS
    Requests = {1, 2, 3, 4, 5}
    Hash = {1, 2, 3, 4, 5}
    UtxoIds <- ChainUtxoIds
    HashOf <- ChainHashOf
    Inputs <- ChainInputs
    Outputs <- ChainOutputs
    Invalid = {5}
    Unbalanced = {4}
    PeerTransactions = {}
    PeerValid = {}
    Stored = {0}
    Unspent <- ChainUnspent
    Concurrency = 2
INVARIANTS
    AcceptedInputsSpent
PROPERTY
    LateSpendRejected
