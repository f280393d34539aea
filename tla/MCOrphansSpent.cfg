SPECIFICATION Spec
CONSTANTS
    Requests = {1, 2}
    Hash = {1, 2, 3, 4, 5}
    UtxoIds <- ChainUtxoIds
    HashOf <- DuelHashOf
    Inputs <- ChainInputs
    Outputs <- ChainOutputs
    Invalid = {}
    Unbalanced = {}
    PeerTransactions = {}
    PeerValid <- ChainPeerValid
    Stored = {0}
    Unspent <- ChainUnspent
    Concurrency = 3
INVARIANT AcceptedInputsSpent
