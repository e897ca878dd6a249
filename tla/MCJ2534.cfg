SPECIFICATION Spec
CONSTANTS
    RxLen = 1  IsoFrames = {2}  JobKinds = {"while"}
    Duplex = {TRUE}  Users = 2
INVARIANTS AnswersAreTrue FlowControlIsOwn
PROPERTIES RepeatStops
