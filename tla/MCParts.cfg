SPECIFICATION PartsSpec
CONSTANTS
    Usb = "usb"  Ble = "ble"  Main = "main"  NoPort = "none"
    Grammars = {"elm", "slcan"}  Default = "elm"  NoGrammar = "no grammar"
    MaxClients <- MCMaxClients
    Manual = {"usb", "none"}  Modes = {}  Talkers = {}
    RxCap = 4  TxCap = 3  Chunk = 4  Word = 16
    Rates = {"r250", "r500"}  Usual = "r500"  CmdMax = 3  Burst = 2
    MaxHeard = 3  MaxFailures = 2
    Replies <- MCReplies  Limits = {100, 200}  Buses = {"can", "bytes"}  Samples = 2
    Commands = {"at", "data", "reset"}  Resets = {"reset"}  LineMax = 3  OutMax = 4
    Modules = {16, 17}  Obd = {0, 7}
INVARIANTS
  LinkIsOffered TimingIsHonest RepliesAreTold SpeedIsAsTold PortIsTrue
PROPERTIES
  LinesAreAnswered
CHECK_DEADLOCK FALSE
