--------------------------- MODULE MCAdcSampling ---------------------------
(* Conversions for TLC: negative, and too high. *)
EXTENDS AdcSampling

LowOrHigh == {-1, 5}
=============================================================================
