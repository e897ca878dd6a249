SPECIFICATION IsoFairSpec
CONSTANTS
    ClockMod = 6  SnMod = 3
    TimeoutA = 1  TimeoutBs = 1  TimeoutCr = 1
    WaitLimit = 1  BlockSize = 2  StMins = {1}  Reserved = 1
    Capacity = 4  Sizes = {1, 4, 5}  MaxMessages = 2  Slack = 0
INVARIANTS DeliveryIsTrue
PROPERTIES TransferKeepsTime
CHECK_DEADLOCK FALSE
