SPECIFICATION Spec
CONSTANTS
    Deposits = {"d1"}
    w1 = w1
    w2 = w2
    Withdrawals = {w1, w2}
    BtcAddress <- OwnAddress
    Cutoff = 1
    Skew = 1
    BlockSkew = 4
    MaxTime = 4
    MaxPayouts = 2
    Divisions = 3
    MaxWeight = 3
    MaxBalance = 13
    MaxOrder = 24
    CenterPrice <- CenterPrices
    DustLimit = 3
    UtxoAmounts = {0, 1, 2, 5}
    OutputAmounts = {0, 1, 3}
    MaxUtxos = 4
    MaxOutputs = 3
SYMMETRY WithdrawalSymmetry
INVARIANTS
    UnconfirmedNotRepaid
    BookWithinBalance
    OrderNeverOverdrawn
    FillPaidFor
    BuildCorrect
PROPERTY ReceiptEndsDeposit
CHECK_DEADLOCK FALSE
