--------------------------- MODULE RunningAverage ---------------------------
(***************************************************************************)
(* The running average that calk_temp (app_soc_temp.c) keeps of the        *)
(* temperature and check_battery_level (app_battery.c) of the voltage.     *)
(*                                                                         *)
(* The first samples are averaged; from the COUNT-th one on the average is *)
(* taken off the sum again before the next sample is added.  The divisions *)
(* round differently: `/' toward zero, `>>' down.                          *)
(*                                                                         *)
(* The names are others than those of AdcSampling, for one module of       *)
(* proofs extends both.                                                    *)
(***************************************************************************)
EXTENDS Integers

CONSTANTS
  COUNT,    \* 1 << TEMP_AVERAGE_COUNT_SHL, 1 << BAT_AVERAGE_COUNT_SHL
  Lo, Hi    \* range of the samples

ASSUME AverageAssumption ==
  /\ COUNT \in Nat /\ COUNT >= 2
  /\ Lo \in Int /\ Hi \in Int /\ Lo <= Hi

VARIABLES
  measured,  \* what the next sample would be
  summ,
  cnt,
  average    \* services.temp, services.battery_mv

averageVars == <<measured, summ, cnt, average>>

---------------------------------------------------------------------------
(* The two divisions *)

\* `/' of C
Quotient(a, n) == IF a >= 0 THEN a \div n ELSE -((-a) \div n)

\* `>>' of C by log2 n
Shift(a, n) == a \div n

---------------------------------------------------------------------------

\* The first sample is taken before anything reads the average.
AverageInit ==
  /\ measured \in Lo..Hi
  /\ summ = 0 /\ cnt = 0
  /\ average = measured

\* Fewer samples than COUNT
Collect ==
  /\ cnt + 1 < COUNT
  /\ summ' = summ + measured
  /\ cnt' = cnt + 1
  /\ average' = Quotient(summ + measured, cnt + 1)
  /\ UNCHANGED measured

\* Mutant: what is taken off the sum is the sample.
SlideSample ==
  /\ cnt + 1 >= COUNT
  /\ average' = Shift(summ + measured, COUNT)
  /\ summ' = summ
  /\ UNCHANGED <<measured, cnt>>

\* Mutant: the average is not taken off the sum.
SlideGrowing ==
  /\ cnt + 1 >= COUNT
  /\ average' = Shift(summ + measured, COUNT)
  /\ summ' = summ + measured
  /\ UNCHANGED <<measured, cnt>>

\* Mutant: cnt-- is missing.
SlideCounting ==
  /\ cnt + 1 >= COUNT
  /\ average' = Shift(summ + measured, COUNT)
  /\ summ' = summ + measured - average'
  /\ cnt' = cnt + 1
  /\ UNCHANGED measured

\* COUNT samples: cnt++ and cnt--
Slide ==
  /\ cnt + 1 >= COUNT
  /\ average' = Shift(summ + measured, COUNT)
  /\ summ' = summ + measured - average'
  /\ UNCHANGED <<measured, cnt>>

Sample == Collect \/ Slide

\* What is measured changes.
Change ==
  /\ measured' \in Lo..Hi
  /\ UNCHANGED <<summ, cnt, average>>

AverageNext == Sample \/ Change

AverageSpec == AverageInit /\ [][AverageNext]_averageVars

\* main_loop goes on measuring.
FairAverageSpec == AverageSpec /\ WF_averageVars(Sample)
---------------------------------------------------------------------------
(* Properties *)

\* There are fewer than COUNT samples in the sum between two calls (calk_temp,
\* check_battery_level).
TypeOK ==
  /\ measured \in Lo..Hi
  /\ summ \in Int
  /\ cnt \in 0..(COUNT - 1)
  /\ average \in Int

\* What rounding can have left in the sum.
Residue == IF cnt + 1 < COUNT THEN 0 ELSE COUNT - 1

\* The sum is that of cnt samples, but for what rounding left in it: it neither drifts
\* nor overflows, however long the device runs.
SumBounded == cnt * Lo <= summ /\ summ <= cnt * Hi + Residue

\* An average is never outside the range of the samples, at the change from one rounding
\* to the other neither.
AverageInRange == Lo <= average /\ average <= Hi

\* When what is measured stops changing the average becomes equal to it, whatever it was
\* before: rounding leaves no offset.
Converges == \A v \in Lo..Hi : <>[](measured = v) => <>[](average = v)
=============================================================================
