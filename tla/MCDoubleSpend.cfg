SPECIFICATION Spec
CONSTANTS
    Requests = {1, 2}
    Hash = {1, 2, 3, 4}
    UtxoIds <- ContentionUtxoIds
    HashOf <- DuelHashOf
    Inputs <- ContentionInputs
    Outputs <- ContentionOutputs
    Invalid = {}
    Unbalanced = {}
    PeerTransactions = {}
    PeerValid = {}
    Stored = {0}
    Unspent <- GenesisUnspent
    Concurrency = 3
INVARIANT NoDoubleSpend
