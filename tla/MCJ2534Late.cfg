SPECIFICATION Spec
CONSTANTS
    RxLen = 1  IsoFrames = {2}  JobKinds = {}
    Duplex = {TRUE}  Users = 2
PROPERTIES LateCompletionSparesNewData
