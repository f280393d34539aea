SPECIFICATION Spec
CONSTANTS
    Requests = {1, 2, 3, 4}
    Hash = {1, 2, 3, 4}
    UtxoIds <- ContentionUtxoIds
    HashOf <- ContentionHashOf
    Inputs <- ContentionInputs
    Outputs <- ContentionOutputs
    Invalid = {}
    Unbalanced = {}
    PeerTransactions = {4}
    PeerValid = {}
    Stored = {0}
    Unspent <- GenesisUnspent
    Concurrency = 3
INVARIANTS
    TypeOK
    OnePendingPerUtxo
    AcceptedDescending
    NoticeDelivered
    RejectionJustified
