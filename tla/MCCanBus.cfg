SPECIFICATION CanFairSpec
CONSTANTS
    TxQueueLen = 1  RxQueueLen = 1  SeqMod = 8  Lag = 2
INVARIANTS TrafficIsTrue
PROPERTIES BusComesBack
