SPECIFICATION FairSpec
CONSTANTS
    Sizes <- MCSizes  Sessions = 2  MaxSeq = 4  MaxFaults = 2
    Ecus = {"e1", "e2", "e3"}  Streams = 2  Most = 2  MaxRx = 2  Asked = {"e1"}
    Counts = {0, 2}  MaxUnsent = 1
    Phones = {"p1", "p2"}  Irks = {"p1"}  MaxRefusals = 1
INVARIANTS
  OwnersAreListed MessagesStayApart SessionsAreClean
PROPERTIES
  AirIsKept CollectionEnds SessionsComeUp RequestIsServed
CHECK_DEADLOCK FALSE
