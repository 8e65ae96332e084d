---- MODULE MCSoftTimer ----
EXTENDS SoftTimer, TLC
ASSUME TimesAssumption == InTime
Symmetry == Permutations(Callbacks)
====
