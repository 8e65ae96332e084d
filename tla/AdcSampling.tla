---------------------------- MODULE AdcSampling ----------------------------
(***************************************************************************)
(* Reading the converter (get_adc of app_battery.c): the hardware writes   *)
(* its conversions into a ring of 8 words all the time, and the program    *)
(* follows the write pointer, takes 8 samples in the order of their value  *)
(* and returns the sum of the four in the middle.                          *)
(*                                                                         *)
(* An interrupt may hold the program up between any two steps, for as many *)
(* conversions as it likes.  A deep sleep with retention may lose the      *)
(* channel that the converter was set to.                                  *)
(***************************************************************************)
EXTENDS Integers, SequencesExt

CONSTANTS
  Inputs,         \* channels: the battery, the temperature sensor
  ADC_BUF_COUNT,
  Good,           \* conversions of the voltage there is; below 0: BIT(13) is set
  Disturbed,      \* what a disturbed conversion gives
  MaxDisturbed,   \* of them in a call
  None

ASSUME AdcAssumption ==
  /\ ADC_BUF_COUNT \in Nat /\ ADC_BUF_COUNT >= 6
  /\ Good \subseteq Nat /\ Disturbed \subseteq Int /\ MaxDisturbed \in Nat
  /\ None \notin Inputs

VARIABLES
  channel,            \* the one the converter is set to
  adc_hw_initialized, \* the one the program takes it to be set to
  input,              \* p_ain
  at,                 \* where get_adc is
  buf,                \* adc_dat_buf
  wptr,               \* reg_dfifo2_wptr, in words
  rp,
  sample,             \* adc_sample, as far as it is filled
  result,             \* what the last call returned
  converted,          \* history: conversions in this call, up to ADC_BUF_COUNT
  disturbed           \* history: of them disturbed

vars == <<channel, adc_hw_initialized, input, at, buf, wptr, rp, sample, result,
          converted, disturbed>>

setup   == <<channel, adc_hw_initialized, input>>
ring    == <<buf, wptr, converted, disturbed>>

Words == 0..(ADC_BUF_COUNT - 1)

\* The converter is set up only for another channel than the last one.
get_adc(p_ain) ==
  /\ at = "off"
  /\ input' = p_ain /\ adc_hw_initialized' = p_ain
  /\ channel' = IF adc_hw_initialized = p_ain THEN channel ELSE p_ain
  /\ buf' = [w \in Words |-> 0] /\ wptr' = 0
  /\ converted' = 0 /\ disturbed' = 0
  /\ sample' = <<>> /\ result' = None
  /\ at' = "enabled"
  /\ UNCHANGED rp

\* Until dfifo_disable_dfifo2.
Convert ==
  /\ at # "off"
  /\ \E value \in Good \cup Disturbed :
       /\ value \in Disturbed => disturbed < MaxDisturbed
       /\ disturbed' = IF value \in Disturbed THEN disturbed + 1 ELSE disturbed
       /\ buf' = [buf EXCEPT ![wptr] = value]
  /\ wptr' = (wptr + 1) % ADC_BUF_COUNT
  /\ converted' = IF converted < ADC_BUF_COUNT THEN converted + 1 ELSE converted
  /\ UNCHANGED <<setup, at, rp, sample, result>>

\* Before the loop.
Follow ==
  /\ at = "enabled"
  /\ rp' = wptr /\ at' = "wait"
  /\ UNCHANGED <<setup, ring, sample, result>>

\* Mutant: it waits for the pointer to be past the word.
SeePast ==
  /\ at = "wait" /\ wptr > Len(sample)
  /\ at' = "seen"
  /\ UNCHANGED <<setup, ring, rp, sample, result>>

\* while(rp == reg_dfifo2_wptr);
See ==
  /\ at = "wait" /\ wptr # rp
  /\ at' = "seen"
  /\ UNCHANGED <<setup, ring, rp, sample, result>>

\* The pointer is read again.
Catch ==
  /\ at = "seen"
  /\ rp' = wptr /\ at' = "take"
  /\ UNCHANGED <<setup, ring, sample, result>>

\* A negative voltage counts as 0.
Voltage(word) == IF word < 0 THEN 0 ELSE word

\* Mutant: no sort.
Appended(samples, v) == Append(samples, v)

\* Behind the last sample that is not greater.
Inserted(samples, v) ==
  InsertAt(samples, SelectLastInSeq(samples, LAMBDA s : s <= v) + 1, v)

\* Word i is read in round i, whatever the pointer says.
Take ==
  /\ at = "take"
  /\ sample' = Inserted(sample, Voltage(buf[Len(sample)]))
  /\ at' = IF Len(sample') = ADC_BUF_COUNT THEN "full" ELSE "wait"
  /\ UNCHANGED <<setup, ring, rp, result>>

Return ==
  /\ at = "full"
  /\ result' = sample[3] + sample[4] + sample[5] + sample[6]
  /\ at' = "off"
  /\ UNCHANGED <<setup, ring, rp, sample>>

\* Mutant: the variable is kept like others.
WakeKept ==
  /\ at = "off"
  /\ channel' \in {channel, None}
  /\ UNCHANGED <<adc_hw_initialized, input, at, ring, rp, sample, result>>

\* A deep sleep with retention: the variable is _attribute_data_reload_.
Wake ==
  /\ at = "off"
  /\ channel' \in {channel, None}
  /\ adc_hw_initialized' = None
  /\ UNCHANGED <<input, at, ring, rp, sample, result>>

Init ==
  /\ channel \in Inputs \cup {None} /\ adc_hw_initialized = None /\ input = None
  /\ at = "off"
  /\ buf = [w \in Words |-> 0] /\ wptr = 0 /\ rp = 0
  /\ sample = <<>> /\ result = None
  /\ converted = 0 /\ disturbed = 0

Next ==
  \/ \E p_ain \in Inputs : get_adc(p_ain)
  \/ Convert \/ Follow \/ See \/ Catch \/ Take \/ Return \/ Wake

Spec == Init /\ [][Next]_vars

\* The converter goes on, and the loop looks at the pointer many times between two
\* conversions (20.5 us), so it finds it moved at some time.
FairSpec == Spec /\ WF_vars(Convert) /\ SF_vars(Follow \/ See \/ Catch \/ Take \/ Return)
---------------------------------------------------------------------------
(* Properties *)

\* What get_adc takes was converted in this call, from the channel asked for: the words
\* it has read were all written, however late it is and wherever the pointer stands, and
\* the converter is set to p_ain although it is not always set up (adc_hw_initialized, rp).
SamplesAreFresh == at # "off" => channel = input /\ Len(sample) <= converted

\* Disturbed conversions, MaxDisturbed of them in a call, do not show in what get_adc
\* returns: the sum of adc_sample[2] to [5] is that of four good voltages.
MiddleResists ==
  result # None => \E lo, hi \in Good : 4 * lo <= result /\ result <= 4 * hi

\* get_adc returns, although it waits for the converter without a limit and the pointer
\* may go all the way round behind its back.
Returns == at # "off" ~> at = "off"
=============================================================================
