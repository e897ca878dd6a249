----------------------------- MODULE MCDataLink -----------------------------
(* Two transports and two grammars.  Who holds the link and what runs on it *)
(* do not depend on what is said, and what is said goes wrong without the   *)
(* shell: each run leaves the other half out.                               *)
EXTENDS DataLink

UsbTwice   == [p \in {Usb, Ble} |-> IF p = Usb THEN 2 ELSE 1]
Once       == [p \in {Usb, Ble} |-> 1]
BothTalk   == {Usb, Ble}
UsbTalks   == {Usb}
=============================================================================
