SPECIFICATION NodeFairSpec
CONSTANTS
    Requests = {1, 2, 3}
    Hash = {1}
    UtxoIds <- CopiesUtxoIds
    HashOf <- CopiesHashOf
    Inputs <- CopiesInputs
    Outputs <- CopiesOutputs
    Invalid = {}
    Unbalanced = {}
    PeerTransactions = {}
    PeerValid = {}
    Stored = {0}
    Unspent <- CopiesUnspent
    Concurrency = 2
    TotalOutputAmount <- CopiesAmount
    MempoolBound = 2
    ProcessBound = 1
INVARIANTS
    EntriesMatchHeap
    OnePlace
    AnsweredOkOnce
PROPERTIES
    ReplayRefused
    SubmissionAnswered
