-------------------------- MODULE MCRunningAverage --------------------------
(* Small ranges of samples for TLC, below and above 0. *)
EXTENDS RunningAverage

Below == -5
Above == 4
=============================================================================
