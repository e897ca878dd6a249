SPECIFICATION Spec
CONSTANTS
    Usb = Usb  Ble = Ble  Main = Main  NoPort = NoPort
    Grammars = {elm, slcan}  Default = elm  NoGrammar = NoGrammar
    MaxClients <- UsbTwice
    Manual = {}
    Modes = {}
    Talkers <- BothTalk
INVARIANT AnswersStayWithTheirClient
CHECK_DEADLOCK FALSE
