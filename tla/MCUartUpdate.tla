---------------------------- MODULE MCUartUpdate ----------------------------
(* Instances of UartUpdate for TLC: the devices that are updated. *)
EXTENDS UartUpdate

Device(area, version, rest) == [area |-> area, version |-> version, rest |-> rest]

Blanked == {Device(0, 0, None), Device(1, 2, None)}
=============================================================================
