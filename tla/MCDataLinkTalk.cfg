SPECIFICATION FairSpec
CONSTANTS
    Usb = Usb  Ble = Ble  Main = Main  NoPort = NoPort
    Grammars = {elm, slcan}  Default = elm  NoGrammar = NoGrammar
    MaxClients <- Once
    Manual = {}
    Modes = {slcan}
    Talkers <- UsbTalks
INVARIANTS LinkIsCurrent
PROPERTIES SwitchIsSafe
CHECK_DEADLOCK FALSE
