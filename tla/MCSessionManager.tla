-------------------------- MODULE MCSessionManager --------------------------
(* Instances of SessionManager for TLC. *)
EXTENDS SessionManager, TLC

CONSTANTS d1, d2

OneDevice == {d1}
TwoDevices == {d1, d2}
UsbAndWifi == {"usb", "wifi"}
UsbOnly == {"usb"}
WifiOnly == {"wifi"}
BothTransports == {<<d1, "usb">>, <<d1, "wifi">>}
OneWifi == {<<d1, "wifi">>}
OtherUsb == {<<d2, "usb">>}
UsbInitial == <<d1, "usb">>
=============================================================================
