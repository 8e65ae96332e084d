----------------------------- MODULE MCRadioOta -----------------------------
(* Instances of RadioOta for TLC: the devices that are updated. *)
EXTENDS RadioOta

Device(area, version, rest) == [area |-> area, version |-> version, rest |-> rest]

OldDevices == {Device(0, 0, None), Device(1, 0, 0)}
NewDevices == {Device(0, 2, None)}
=============================================================================
