---------------------------- MODULE MCDeviceLoop ----------------------------
(***************************************************************************)
(* Instances of DeviceLoop for TLC.                                        *)
(***************************************************************************)
EXTENDS DeviceLoop

Button   == {TRUE, FALSE}
NoButton == {FALSE}

NoSubscription == {{}}
AnySubscription == {{}, {"VBAT_NTF", "TEMP_NTF"}}
=============================================================================
