---------------------------- MODULE FirmwareSlot ----------------------------
(***************************************************************************)
(* What a firmware update promises, however the image arrives: whenever    *)
(* the device is started it runs a whole image, and the one it runs is     *)
(* replaced in one step, by the image that was offered.                    *)
(***************************************************************************)
CONSTANTS
  Versions,   \* of the images
  Offered     \* the version of the image the master has

VARIABLE running    \* the version a start of the device would run

Init == running \in Versions

Replace == running' = Offered

Next == Replace

Spec == Init /\ [][Next]_running
=============================================================================
