SPECIFICATION Spec
CONSTANTS
    Usb = Usb  Ble = Ble  Main = Main  NoPort = NoPort
    Grammars = {elm, slcan}  Default = elm  NoGrammar = NoGrammar
    MaxClients <- Once
    Manual = {}
    Modes = {}
    Talkers = {}
INVARIANT LinkIsHandedBack
CHECK_DEADLOCK FALSE
