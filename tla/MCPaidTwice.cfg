SPECIFICATION Spec
CONSTANTS
    Deposits = {"d1"}
    Withdrawals = {"w1", "w2"}
    BtcAddress <- OwnAddress
    Cutoff = 1
    Skew = 1
    BlockSkew = 0
    MaxTime = 4
    MaxPayouts = 2
    Divisions = 3
    MaxWeight = 3
    MaxBalance = 13
    MaxOrder = 24
    CenterPrice <- CenterPrices
    DustLimit = 3
    UtxoAmounts = {0, 1, 2, 5}
    OutputAmounts = {0, 1, 3}
    MaxUtxos = 4
    MaxOutputs = 3
INVARIANT WithdrawalPaidOnce
CHECK_DEADLOCK FALSE
