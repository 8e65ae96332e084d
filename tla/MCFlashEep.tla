---------------------------- MODULE MCFlashEep ----------------------------
(***************************************************************************)
(* Instances of FlashEep for TLC in which the objects of an id keep one    *)
(* size, as all settings but the device name do.                           *)
(***************************************************************************)
EXTENDS FlashEep

ASSUME SizesAssumption == OneSizePerId

Payloads(sizes, vals) == [size : sizes, val : vals]

\* Two ids in one byte of buf_id, one with two contents, and one that is also
\* deleted (size 0).
Settings == (1 :> Payloads({1}, {"a", "b"})) @@ (3 :> Payloads({0, 1}, {"a"}))

\* A sector that is neither the one a reader would find nor part of a repacking is never
\* looked at before it is erased, and no step depends on the last result: states that
\* differ only in these are one state.
Live(s) ==
  \/ CurrentSectors # {} /\ s = Max(CurrentSectors)
  \/ pc \in {"pack", "pack_id", "pack_mark", "pack_close"}

LiveFlash == <<[s \in Sectors |-> IF Live(s) THEN sector[s] ELSE Erased], pc, op, Locals>>
===========================================================================
