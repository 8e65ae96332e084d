-------------------------- MODULE MCFlashEepNames --------------------------
(***************************************************************************)
(* An instance of FlashEep with a name (EEP_ID_DEV_NAME, id 2) that is     *)
(* saved with the length it has, next to two settings of one size.         *)
(***************************************************************************)
EXTENDS FlashEep

Payloads(sizes, vals) == [size : sizes, val : vals]

Named ==
  (1 :> Payloads({1}, {"a"})) @@ (2 :> Payloads({1, 6}, {"a"})) @@ (3 :> Payloads({1}, {"a"}))
=============================================================================
