SPECIFICATION Spec
CONSTANTS
    P1 = 1  P2 = 1  P3 = 2  Idle = 2  Quiet = 0  Retries = 1
    UartEvents = 2  RingLen = 2
    Commands = {"managed", "stop", "five", "fast"}
INVARIANTS HandOver WireIsHeard
