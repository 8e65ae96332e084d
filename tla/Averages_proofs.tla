--------------------------- MODULE Averages_proofs ---------------------------
(***************************************************************************)
(* Proofs about the two parts of measuring: that get_adc (AdcSampling)     *)
(* reads what was converted in the call and that disturbances do not show  *)
(* in it, for every number of samples, all conversions and any delay of    *)
(* the program, and that the running average of what it returns            *)
(* (RunningAverage) stays in the range of the samples, for every number of *)
(* them and every range.                                                   *)
(***************************************************************************)
EXTENDS AdcSampling, RunningAverage, SequenceTheorems, FiniteSetTheorems, WellFoundedInduction,
        TLAPS

---------------------------------------------------------------------------
(* Taking the samples in order *)

\* A set of positions that is not empty and ends has a last one, and Max finds it.
LEMMA MaxPosition ==
  ASSUME NEW n \in Nat, NEW S, S \subseteq 1..n, S # {}
  PROVE  Max(S) \in S /\ \A y \in S : y <= Max(S)
<1> DEFINE T == {n - y : y \in S}
<1>1. T # {} /\ T \subseteq Nat
  <2>1. \A y \in S : n - y \in Nat
    OBVIOUS
  <2> QED BY <2>1
<1>2. PICK m \in T : \A t \in T : ~ (<<t, m>> \in OpToRel(<, Nat))
  BY <1>1, NatLessThanWellFounded, WFMin, Zenon
<1>3. \A t \in T : t \in Nat /\ m \in Nat /\ ~(t < m)
  BY <1>1, <1>2 DEF OpToRel
<1>4. PICK x \in S : m = n - x
  OBVIOUS
<1>5. \A y \in S : y <= x
  <2>1. \A y \in S : n - y \in T /\ y \in Int /\ x \in Int
    OBVIOUS
  <2> HIDE DEF T
  <2> QED BY <1>3, <1>4, <2>1
<1> QED BY <1>5 DEF Max

\* Where the insertion puts the new sample.
Place(s, v) == SelectLastInSeq(s, LAMBDA x : x <= v) + 1

Sorted(s) == \A i, j \in DOMAIN s : i < j => s[i] <= s[j]

LEMMA PlaceIs ==
  ASSUME NEW s \in Seq(Nat), NEW v \in Nat, Sorted(s)
  PROVE  /\ Place(s, v) \in 1..(Len(s) + 1)
         /\ \A i \in DOMAIN s : i < Place(s, v) => s[i] <= v
         /\ \A i \in DOMAIN s : i >= Place(s, v) => v <= s[i]
<1> DEFINE S == {i \in 1..Len(s) : s[i] <= v}
<1>1. Place(s, v) = (IF S # {} THEN Max(S) ELSE 0) + 1
  BY DEF Place, SelectLastInSeq
<1>2. CASE S = {}
  BY <1>1, <1>2
<1>3. CASE S # {}
  <2>1. Max(S) \in S /\ \A y \in S : y <= Max(S)
    <3>1. Len(s) \in Nat /\ S \subseteq 1..Len(s)
      OBVIOUS
    <3> HIDE DEF S
    <3> QED BY <1>3, <3>1, MaxPosition
  <2>2. PICK m \in S : m = Max(S) /\ \A y \in S : y <= m
    BY <2>1
  <2>3. Place(s, v) = m + 1
    BY <1>1, <1>3, <2>2
  <2>4. m \in 1..Len(s) /\ s[m] <= v /\ \A i \in DOMAIN s : s[i] \in Nat
    OBVIOUS
  <2>5. \A i \in DOMAIN s : i < m => s[i] <= s[m]
    BY <2>4 DEF Sorted
  <2>6. \A i \in DOMAIN s : i < m + 1 => s[i] <= v
    BY <2>4, <2>5
  <2>7. \A i \in DOMAIN s : i >= m + 1 => ~(i <= m)
    BY <2>4
  <2>8. \A i \in DOMAIN s : i >= m + 1 => ~(s[i] <= v)
    <3>1. \A i \in DOMAIN s : s[i] <= v => i \in S
      OBVIOUS
    <3> HIDE DEF S
    <3> QED BY <2>2, <2>7, <3>1
  <2>9. \A i \in DOMAIN s : i >= m + 1 => v <= s[i]
    BY <2>4, <2>8
  <2> QED BY <2>3, <2>4, <2>6, <2>9
<1> QED BY <1>2, <1>3

LEMMA Concatenated ==
  ASSUME NEW S, NEW c \in Seq(S), NEW b \in Seq(S), NEW k \in 1..(Len(c) + Len(b)), k > Len(c)
  PROVE  (c \o b)[k] = b[k - Len(c)]
OBVIOUS

LEMMA InsertedIs ==
  ASSUME NEW s \in Seq(Nat), NEW v \in Nat, Sorted(s)
  PROVE  /\ Inserted(s, v) \in Seq(Nat)
         /\ Len(Inserted(s, v)) = Len(s) + 1
         /\ \A k \in 1..(Len(s) + 1) :
              Inserted(s, v)[k] = IF k < Place(s, v) THEN s[k]
                                  ELSE IF k = Place(s, v) THEN v ELSE s[k - 1]
         /\ Sorted(Inserted(s, v))
<1> DEFINE p == Place(s, v)
           t == Inserted(s, v)
<1>1. p \in 1..(Len(s) + 1)
  BY PlaceIs
<1>2. t = SubSeq(s, 1, p - 1) \o <<v>> \o SubSeq(s, p, Len(s))
  BY DEF Inserted, InsertAt, Place
<1> DEFINE a == SubSeq(s, 1, p - 1)
           b == SubSeq(s, p, Len(s))
<1> HIDE DEF p, t
<1>a. a \in Seq(Nat) /\ Len(a) = p - 1 /\ \A k \in 1..(p - 1) : a[k] = s[k]
  BY <1>1
<1>b. /\ b \in Seq(Nat) /\ Len(b) = Len(s) - p + 1
      /\ \A k \in 1..(Len(s) - p + 1) : b[k] = s[p + k - 1]
  BY <1>1
<1> DEFINE c == a \o <<v>>
<1>c. t = c \o b
  BY <1>2
<1> HIDE DEF a, b
<1>d. c \in Seq(Nat) /\ Len(c) = p /\ \A k \in 1..p : c[k] = IF k < p THEN s[k] ELSE v
  BY <1>1, <1>a
<1> HIDE DEF c
<1>e. Len(s) \in Nat /\ p \in Nat
  BY <1>1
<1>f. Len(c \o b) = Len(c) + Len(b) /\ c \o b \in Seq(Nat)
  BY <1>b, <1>d
<1>3. t \in Seq(Nat) /\ Len(t) = Len(s) + 1
  BY <1>b, <1>c, <1>d, <1>e, <1>f
<1>4. \A k \in 1..(Len(s) + 1) :
        t[k] = IF k < p THEN s[k] ELSE IF k = p THEN v ELSE s[k - 1]
  <2> SUFFICES ASSUME NEW k \in 1..(Len(s) + 1)
               PROVE  t[k] = IF k < p THEN s[k] ELSE IF k = p THEN v ELSE s[k - 1]
    OBVIOUS
  <2>1. CASE k <= p
    BY <1>1, <1>b, <1>c, <1>d, <2>1
  <2>2. CASE k > p
    <3>1. k - p \in 1..(Len(s) - p + 1) /\ k \in 1..(Len(c) + Len(b)) /\ k > Len(c)
      BY <1>1, <1>b, <1>d, <1>e, <2>2
    <3>2. t[k] = b[k - Len(c)]
      BY <1>b, <1>c, <1>d, <3>1, Concatenated
    <3> QED BY <1>1, <1>b, <1>d, <1>e, <2>2, <3>1, <3>2
  <2> QED BY <1>1, <2>1, <2>2
<1>5. /\ \A i \in DOMAIN s : i < p => s[i] <= v
      /\ \A i \in DOMAIN s : i >= p => v <= s[i]
  BY PlaceIs DEF p
<1>6. Sorted(t)
  <2> SUFFICES ASSUME NEW i \in 1..(Len(s) + 1), NEW j \in 1..(Len(s) + 1), i < j
               PROVE  t[i] <= t[j]
    BY <1>3 DEF Sorted
  <2>1. CASE j < p
    BY <1>1, <1>4, <2>1 DEF Sorted
  <2>2. CASE j = p
    BY <1>1, <1>4, <1>5, <2>2
  <2>3. CASE j > p /\ i < p
    <3>1. t[i] = s[i] /\ t[j] = s[j - 1] /\ i \in 1..Len(s) /\ j - 1 \in 1..Len(s)
      BY <1>1, <1>4, <2>3
    <3> QED BY <1>1, <1>5, <2>3, <3>1
  <2>4. CASE j > p /\ i = p
    BY <1>1, <1>4, <1>5, <2>4
  <2>5. CASE i > p
    <3>1. t[i] = s[i - 1] /\ t[j] = s[j - 1] /\ i - 1 \in 1..Len(s) /\ j - 1 \in 1..Len(s)
      BY <1>1, <1>4, <2>5
    <3> QED BY <3>1 DEF Sorted
  <2> QED BY <1>1, <2>1, <2>2, <2>3, <2>4, <2>5
<1> QED BY <1>3, <1>4, <1>6 DEF p, t
---------------------------------------------------------------------------
(* Where the samples come from *)

TypesInv ==
  /\ at \in {"off", "enabled", "wait", "seen", "take", "full"}
  /\ buf \in [Words -> Int] /\ wptr \in Words /\ rp \in Words
  /\ sample \in Seq(Nat) /\ Sorted(sample)
  /\ converted \in 0..ADC_BUF_COUNT /\ disturbed \in 0..MaxDisturbed

\* The program knows the channel the converter is set to, or that it does not know it.
ChannelInv ==
  /\ adc_hw_initialized # None => channel = adc_hw_initialized
  /\ at # "off" => adc_hw_initialized = input /\ input \in Inputs

\* Until the pointer has been all the way round it counts the conversions, and the loop
\* is behind it.
PointerInv ==
  /\ at # "off" /\ converted < ADC_BUF_COUNT => wptr = converted
  /\ at = "enabled" => sample = <<>>
  /\ at = "wait" => /\ Len(sample) < ADC_BUF_COUNT /\ Len(sample) <= converted
                    /\ converted < ADC_BUF_COUNT => Len(sample) <= rp /\ rp <= converted
  /\ at = "seen" => Len(sample) < ADC_BUF_COUNT /\ Len(sample) < converted
  /\ at = "take" => /\ Len(sample) < ADC_BUF_COUNT /\ Len(sample) < converted
                    /\ converted < ADC_BUF_COUNT => Len(sample) < rp /\ rp <= converted
  /\ at = "full" => Len(sample) = ADC_BUF_COUNT /\ converted = ADC_BUF_COUNT

\* The words that the loop has still to take and that a disturbed conversion wrote.
Pending == {w \in Words : Len(sample) <= w /\ w < converted /\ buf[w] \notin Good}

\* With q disturbed ones among the samples, one of the first q + 1 is a good voltage, and
\* one of the last q + 1.
Between(s, q) ==
  q < Len(s) => /\ \E lo \in Good : lo <= s[q + 1]
                /\ \E hi \in Good : s[Len(s) - q] <= hi

GoodInv ==
  /\ at # "off" => \E q \in 0..disturbed :
                     q + Cardinality(Pending) <= disturbed /\ Between(sample, q)
  /\ MiddleResists

LEMMA Round ==
  ASSUME NEW w \in Words
  PROVE  /\ (w + 1) % ADC_BUF_COUNT \in Words
         /\ w + 1 < ADC_BUF_COUNT => (w + 1) % ADC_BUF_COUNT = w + 1
<1>1. ADC_BUF_COUNT \in Nat /\ ADC_BUF_COUNT > 0
  BY AdcAssumption
<1>2. \A n \in Nat : n > 0 => \A x \in Nat : x % n \in 0..(n - 1) /\ (x < n => x % n = x)
  OBVIOUS
<1> QED BY <1>1, <1>2 DEF Words

\* A negative voltage is taken for 0, a good one for what it is.
LEMMA VoltageIs ==
  ASSUME NEW x \in Int
  PROVE  Voltage(x) \in Nat /\ (x \in Good => Voltage(x) = x)
BY AdcAssumption DEF Voltage

LEMMA SampleTaken ==
  ASSUME TypesInv, PointerInv, Take
  PROVE  LET v == Voltage(buf[Len(sample)]) IN
           /\ Len(sample) \in Words /\ v \in Nat
           /\ sample' \in Seq(Nat) /\ Sorted(sample')
           /\ Len(sample') = Len(sample) + 1
           /\ Place(sample, v) \in 1..(Len(sample) + 1)
           /\ \A k \in 1..(Len(sample) + 1) :
                sample'[k] = IF k < Place(sample, v) THEN sample[k]
                             ELSE IF k = Place(sample, v) THEN v ELSE sample[k - 1]
<1> DEFINE v == Voltage(buf[Len(sample)])
<1>1. sample \in Seq(Nat) /\ Sorted(sample) /\ Len(sample) \in Words
  BY AdcAssumption DEF TypesInv, PointerInv, Take, Words
<1>2. buf[Len(sample)] \in Int
  BY <1>1 DEF TypesInv
<1>3. v \in Nat
  BY <1>2, VoltageIs
<1>4. sample' = Inserted(sample, v)
  BY DEF Take
<1> HIDE DEF v
<1>5. /\ Inserted(sample, v) \in Seq(Nat)
      /\ Len(Inserted(sample, v)) = Len(sample) + 1
      /\ \A k \in 1..(Len(sample) + 1) :
           Inserted(sample, v)[k] = IF k < Place(sample, v) THEN sample[k]
                                    ELSE IF k = Place(sample, v) THEN v ELSE sample[k - 1]
      /\ Sorted(Inserted(sample, v))
      /\ Place(sample, v) \in 1..(Len(sample) + 1)
  BY <1>1, <1>3, InsertedIs, PlaceIs
<1> QED BY <1>1, <1>3, <1>4, <1>5 DEF v

LEMMA TypesInvNext ==
  ASSUME TypesInv, PointerInv, [Next]_vars
  PROVE  TypesInv'
<1> USE AdcAssumption DEF TypesInv, setup, ring
<1>1. ASSUME NEW p_ain \in Inputs, get_adc(p_ain)
      PROVE  TypesInv'
  <2>1. buf' \in [Words -> Int] /\ wptr' \in Words
    BY <1>1 DEF get_adc, Words
  <2>2. sample' = <<>> /\ Sorted(sample')
    BY <1>1 DEF get_adc, Sorted
  <2> QED BY <1>1, <2>1, <2>2 DEF get_adc
<1>2. CASE Convert
  <2>1. PICK value \in Good \cup Disturbed :
          /\ value \in Disturbed => disturbed < MaxDisturbed
          /\ disturbed' = IF value \in Disturbed THEN disturbed + 1 ELSE disturbed
          /\ buf' = [buf EXCEPT ![wptr] = value]
    BY <1>2 DEF Convert
  <2>2. /\ wptr' \in Words /\ UNCHANGED <<at, rp, sample>>
        /\ converted' = IF converted < ADC_BUF_COUNT THEN converted + 1 ELSE converted
    BY <1>2, Round DEF Convert
  <2>3. value \in Int
    OBVIOUS
  <2> QED BY <2>1, <2>2, <2>3
<1>3. CASE Take
  BY <1>3, SampleTaken DEF Take
<1>4. CASE Follow \/ See \/ Catch \/ Return \/ Wake
  BY <1>4 DEF Follow, See, Catch, Return, Wake
<1>5. CASE UNCHANGED vars
  BY <1>5 DEF vars
<1> QED BY <1>1, <1>2, <1>3, <1>4, <1>5 DEF Next

LEMMA ChannelInvNext ==
  ASSUME ChannelInv, [Next]_vars
  PROVE  ChannelInv'
<1> USE AdcAssumption DEF ChannelInv, setup, ring
<1>1. ASSUME NEW p_ain \in Inputs, get_adc(p_ain)
      PROVE  ChannelInv'
  BY <1>1 DEF get_adc
<1>2. CASE Wake
  BY <1>2 DEF Wake
<1>3. CASE Convert \/ Follow \/ See \/ Catch \/ Take \/ Return
  BY <1>3 DEF Convert, Follow, See, Catch, Take, Return
<1>4. CASE UNCHANGED vars
  BY <1>4 DEF vars
<1> QED BY <1>1, <1>2, <1>3, <1>4 DEF Next

LEMMA PointerInvNext ==
  ASSUME TypesInv, PointerInv, [Next]_vars
  PROVE  PointerInv'
<1> USE AdcAssumption DEF PointerInv, setup, ring
<1>1. ASSUME NEW p_ain \in Inputs, get_adc(p_ain)
      PROVE  PointerInv'
  BY <1>1 DEF get_adc
<1>2. CASE Convert
  <2>1. /\ UNCHANGED <<at, rp, sample>>
        /\ converted' = IF converted < ADC_BUF_COUNT THEN converted + 1 ELSE converted
        /\ wptr' = (wptr + 1) % ADC_BUF_COUNT /\ at # "off"
    BY <1>2 DEF Convert, setup
  <2>2. converted' < ADC_BUF_COUNT => wptr' = converted'
    BY <2>1, Round DEF TypesInv
  <2>3. converted \in 0..ADC_BUF_COUNT /\ Len(sample) \in Nat
    BY DEF TypesInv
  <2>4. converted < converted' \/ (converted = ADC_BUF_COUNT /\ converted' = converted)
    BY <2>1, <2>3
  <2>5. converted \in Nat /\ converted' \in Nat /\ rp \in Nat /\ UNCHANGED Len(sample)
    BY <2>1, <2>3 DEF TypesInv, Words
  <2> HIDE AdcAssumption
  <2> QED BY <2>1, <2>2, <2>3, <2>4, <2>5, AdcAssumption
<1>3. CASE Follow \/ See \/ Catch
  <2>1. /\ converted \in 0..ADC_BUF_COUNT /\ wptr \in Words /\ Len(sample) \in Nat
        /\ wptr \in Nat /\ rp \in Nat
    BY DEF TypesInv, Words
  <2>2. CASE Follow
    BY <2>1, <2>2 DEF Follow
  <2>3. CASE See
    <3>1. Len(sample) < converted
      BY <2>1, <2>3 DEF See
    <3> QED BY <2>3, <3>1 DEF See
  <2>4. CASE Catch
    BY <2>1, <2>4 DEF Catch
  <2> QED BY <1>3, <2>2, <2>3, <2>4
<1>4. CASE Take
  <2>1. Len(sample') = Len(sample) + 1 /\ Len(sample) \in Nat
    BY <1>4, SampleTaken DEF Words, TypesInv
  <2>2. converted \in 0..ADC_BUF_COUNT /\ rp \in Nat
    BY DEF TypesInv, Words
  <2>3. /\ UNCHANGED <<wptr, rp, converted>> /\ at = "take"
        /\ at' = IF Len(sample') = ADC_BUF_COUNT THEN "full" ELSE "wait"
    BY <1>4 DEF Take
  <2> QED BY <2>1, <2>2, <2>3
<1>5. CASE Return \/ Wake
  BY <1>5 DEF Return, Wake
<1>6. CASE UNCHANGED vars
  BY <1>6 DEF vars
<1> QED BY <1>1, <1>2, <1>3, <1>4, <1>5, <1>6 DEF Next
---------------------------------------------------------------------------
(* The samples in the middle *)

\* Sample v is inserted at place p of the n samples in s, which gives t.
Insertion(n, s, t, v, p) ==
  /\ n \in Nat /\ p \in 1..(n + 1) /\ v \in Nat
  /\ s \in [1..n -> Nat] /\ t \in [1..(n + 1) -> Nat]
  /\ \A i, j \in 1..(n + 1) : i <= j => t[i] <= t[j]
  /\ \A k \in 1..(n + 1) : t[k] = IF k < p THEN s[k] ELSE IF k = p THEN v ELSE s[k - 1]

\* Inserting a sample moves up what is behind it: what was at a place is still not above
\* the next place, and not below this one.
LEMMA Moved ==
  ASSUME NEW n, NEW s, NEW t, NEW v, NEW p, Insertion(n, s, t, v, p)
  PROVE  /\ \A j \in 1..n : t[j] <= s[j] /\ s[j] <= t[j + 1]
         /\ \A j \in 1..(n + 1) : j < p => t[j] = s[j] /\ j \in 1..n
         /\ \A j \in 1..(n + 1) : j > p => t[j] = s[j - 1] /\ j - 1 \in 1..n
         /\ \A j \in 1..(n + 1) : j >= p => v <= t[j]
         /\ \A j \in 1..(n + 1) : j <= p => t[j] <= v
<1> USE DEF Insertion
<1>1. t[p] = v /\ p \in 1..(n + 1)
  OBVIOUS
<1>2. \A j \in 1..(n + 1) : j < p => t[j] = s[j] /\ j \in 1..n
  OBVIOUS
<1>3. \A j \in 1..(n + 1) : j > p => t[j] = s[j - 1] /\ j - 1 \in 1..n
  OBVIOUS
<1>4. \A j \in 1..(n + 1) : j >= p => v <= t[j]
  BY <1>1
<1>5. \A j \in 1..(n + 1) : j <= p => t[j] <= v
  BY <1>1
<1>6. ASSUME NEW j \in 1..n
      PROVE  t[j] <= s[j] /\ s[j] <= t[j + 1]
  <2>1. j \in 1..(n + 1) /\ j + 1 \in 1..(n + 1) /\ j <= j + 1 /\ j + 1 - 1 = j
    OBVIOUS
  <2>2. t[j] <= t[j + 1] /\ t[j] \in Nat /\ t[j + 1] \in Nat /\ s[j] \in Nat
    BY <2>1
  <2>3. s[j] = t[j] \/ s[j] = t[j + 1]
    <3>1. CASE j < p
      BY <2>1, <3>1
    <3>2. CASE j >= p
      <4>1. j + 1 > p
        BY <3>2
      <4>2. t[j + 1] = s[j + 1 - 1]
        BY <1>3, <2>1, <4>1
      <4> QED BY <2>1, <4>2
    <3> QED BY <3>1, <3>2
  <2> QED BY <2>2, <2>3
<1> QED BY <1>2, <1>3, <1>4, <1>5, <1>6

\* So a sample more leaves a place between good voltages, and with one more disturbed
\* sample to reckon with the place next to it.
LEMMA StillAbove ==
  ASSUME NEW n, NEW s, NEW t, NEW v, NEW p, Insertion(n, s, t, v, p),
         NEW j \in 1..(n + 1), j \in 1..n => \E lo \in Good : lo <= s[j]
  PROVE  /\ v \in Good => \E lo \in Good : lo <= t[j]
         /\ j \in 1..n => \E lo \in Good : lo <= t[j + 1]
<1>1. /\ \A k \in 1..n : t[k] <= s[k] /\ s[k] <= t[k + 1]
      /\ \A k \in 1..(n + 1) : k < p => t[k] = s[k] /\ k \in 1..n
      /\ \A k \in 1..(n + 1) : k >= p => v <= t[k]
  BY Moved
<1> USE DEF Insertion
<1>2. Good \subseteq Nat
  BY AdcAssumption
<1>3. CASE j < p
  <2>1. t[j] = s[j] /\ j \in 1..n
    BY <1>1, <1>3
  <2>2. PICK lo \in Good : lo <= s[j]
    BY <2>1
  <2>3. lo \in Nat /\ s[j] \in Nat /\ t[j + 1] \in Nat /\ s[j] <= t[j + 1]
    BY <1>1, <1>2, <2>1
  <2>4. lo <= t[j] /\ lo <= t[j + 1]
    BY <2>1, <2>2, <2>3
  <2> QED BY <2>4
<1>4. CASE j >= p
  <2>1. v <= t[j]
    BY <1>1, <1>4
  <2>2. j \in 1..n => \E lo \in Good : lo <= t[j + 1]
    <3>1. SUFFICES ASSUME j \in 1..n PROVE \E lo \in Good : lo <= t[j + 1]
      OBVIOUS
    <3>2. PICK lo \in Good : lo <= s[j]
      BY <3>1
    <3>3. lo \in Nat /\ s[j] \in Nat /\ t[j + 1] \in Nat /\ s[j] <= t[j + 1]
      BY <1>1, <1>2, <3>1
    <3>4. lo <= t[j + 1]
      BY <3>2, <3>3
    <3> QED BY <3>4
  <2> QED BY <2>1, <2>2
<1> QED BY <1>3, <1>4

LEMMA StillBelow ==
  ASSUME NEW n, NEW s, NEW t, NEW v, NEW p, Insertion(n, s, t, v, p),
         NEW j \in 0..n, j \in 1..n => \E hi \in Good : s[j] <= hi
  PROVE  /\ v \in Good => \E hi \in Good : t[j + 1] <= hi
         /\ j \in 1..n => \E hi \in Good : t[j] <= hi
<1>1. /\ \A k \in 1..n : t[k] <= s[k] /\ s[k] <= t[k + 1]
      /\ \A k \in 1..(n + 1) : k > p => t[k] = s[k - 1] /\ k - 1 \in 1..n
      /\ \A k \in 1..(n + 1) : k <= p => t[k] <= v
  BY Moved
<1> USE DEF Insertion
<1>2. Good \subseteq Nat /\ j + 1 \in 1..(n + 1) /\ j + 1 - 1 = j
  BY AdcAssumption
<1>3. CASE j + 1 > p
  <2>1. t[j + 1] = s[j] /\ j \in 1..n
    BY <1>1, <1>2, <1>3
  <2>2. PICK hi \in Good : s[j] <= hi
    BY <2>1
  <2>3. hi \in Nat /\ s[j] \in Nat /\ t[j] \in Nat /\ t[j] <= s[j]
    BY <1>1, <1>2, <2>1
  <2>4. t[j + 1] <= hi /\ t[j] <= hi
    BY <2>1, <2>2, <2>3
  <2> QED BY <2>4
<1>4. CASE j + 1 <= p
  <2>1. t[j + 1] <= v
    BY <1>1, <1>2, <1>4
  <2>2. j \in 1..n => \E hi \in Good : t[j] <= hi
    <3>1. SUFFICES ASSUME j \in 1..n PROVE \E hi \in Good : t[j] <= hi
      OBVIOUS
    <3>2. PICK hi \in Good : s[j] <= hi
      BY <3>1
    <3>3. hi \in Nat /\ s[j] \in Nat /\ t[j] \in Nat /\ t[j] <= s[j]
      BY <1>1, <1>2, <3>1
    <3>4. t[j] <= hi
      BY <3>2, <3>3
    <3> QED BY <3>4
  <2> QED BY <2>1, <2>2
<1> QED BY <1>2, <1>3, <1>4

LEMMA BetweenInserted ==
  ASSUME NEW s \in Seq(Nat), NEW t \in Seq(Nat), Sorted(t),
         NEW v \in Nat, NEW p \in 1..(Len(s) + 1), Len(t) = Len(s) + 1,
         \A k \in 1..(Len(s) + 1) :
           t[k] = IF k < p THEN s[k] ELSE IF k = p THEN v ELSE s[k - 1],
         NEW q \in Nat, Between(s, q)
  PROVE  /\ v \in Good => Between(t, q)
         /\ Between(t, q + 1)
<1> DEFINE n == Len(s)
<1>1. /\ n \in Nat /\ p \in 1..(n + 1) /\ Len(t) = n + 1
      /\ s \in [1..n -> Nat] /\ t \in [1..(n + 1) -> Nat]
  BY LenProperties
<1>2. \A i, j \in 1..(n + 1) : i <= j => t[i] <= t[j]
  <2> SUFFICES ASSUME NEW i \in 1..(n + 1), NEW j \in 1..(n + 1), i <= j
               PROVE  t[i] <= t[j]
    OBVIOUS
  <2>1. CASE i = j
    <3>1. t[i] \in Nat
      BY <1>1
    <3> QED BY <2>1, <3>1
  <2>2. CASE i < j
    BY <1>1, <2>2 DEF Sorted
  <2> QED BY <1>1, <2>1, <2>2
<1>3. \A k \in 1..(n + 1) : t[k] = IF k < p THEN s[k] ELSE IF k = p THEN v ELSE s[k - 1]
  OBVIOUS
<1>I. Insertion(n, s, t, v, p)
  BY <1>1, <1>2, <1>3, Zenon DEF Insertion
<1>4. q < n => (\E lo \in Good : lo <= s[q + 1]) /\ (\E hi \in Good : s[n - q] <= hi)
  BY DEF Between
<1> HIDE DEF n
<1>5. CASE q < n
  <2>1. /\ q + 1 \in 1..(n + 1) /\ q + 1 \in 1..n /\ n - q \in 0..n /\ n - q \in 1..n
        /\ n - q + 1 = n + 1 - q /\ n + 1 - (q + 1) = n - q
    BY <1>1, <1>5
  <2>2. /\ v \in Good => \E lo \in Good : lo <= t[q + 1]
        /\ \E lo \in Good : lo <= t[q + 1 + 1]
    BY <1>I, <1>4, <1>5, <2>1, StillAbove
  <2>3. /\ v \in Good => \E hi \in Good : t[n - q + 1] <= hi
        /\ \E hi \in Good : t[n - q] <= hi
    <3>1. n - q \in 1..n => \E hi \in Good : s[n - q] <= hi
      BY <1>4, <1>5
    <3>2. PICK k \in 0..n : k = n - q
      BY <2>1
    <3>3. k \in 1..n => \E hi \in Good : s[k] <= hi
      BY <3>1, <3>2
    <3>4. /\ v \in Good => \E hi \in Good : t[k + 1] <= hi
          /\ k \in 1..n => \E hi \in Good : t[k] <= hi
      BY <1>I, <3>3, StillBelow
    <3> QED BY <2>1, <3>2, <3>4
  <2>4. q < n + 1 /\ q + 1 < n + 1
    BY <1>1, <1>5
  <2>5. v \in Good => \E hi \in Good : t[n + 1 - q] <= hi
    BY <2>1, <2>3
  <2>6. \E hi \in Good : t[n + 1 - (q + 1)] <= hi
    BY <2>1, <2>3
  <2>9. Len(t) - q = n + 1 - q /\ Len(t) - (q + 1) = n + 1 - (q + 1)
    BY <1>1
  <2>7. v \in Good => Between(t, q)
    BY <2>2, <2>5, <2>9, Zenon DEF Between
  <2>8. Between(t, q + 1)
    BY <2>2, <2>6, <2>9, Zenon DEF Between
  <2> QED BY <2>7, <2>8
<1>6. CASE q = n
  <2>1. q + 1 \in 1..(n + 1) /\ q + 1 \notin 1..n /\ 0 \in 0..n /\ 0 \notin 1..n
    BY <1>1, <1>6
  <2>2. v \in Good => \E lo \in Good : lo <= t[q + 1]
    BY <1>I, <2>1, StillAbove
  <2>3. v \in Good => \E hi \in Good : t[0 + 1] <= hi
    BY <1>I, <2>1, StillBelow
  <2>4. n + 1 - q = 0 + 1 /\ ~(q + 1 < n + 1)
    BY <1>1, <1>6
  <2>5. v \in Good => \E hi \in Good : t[n + 1 - q] <= hi
    BY <2>3, <2>4
  <2>6. v \in Good => Between(t, q)
    BY <1>1, <2>2, <2>5 DEF Between
  <2>7. Between(t, q + 1)
    BY <1>1, <2>4 DEF Between
  <2> QED BY <2>6, <2>7
<1>7. CASE q > n
  <2>1. ~(q < n + 1) /\ ~(q + 1 < n + 1)
    BY <1>1, <1>7
  <2> QED BY <1>1, <2>1 DEF Between
<1> QED BY <1>1, <1>5, <1>6, <1>7

LEMMA PendingFinite ==
  IsFiniteSet(Pending) /\ Cardinality(Pending) \in Nat
<1>1. ADC_BUF_COUNT \in Nat
  BY AdcAssumption
<1>2. IsFiniteSet(Words)
  BY <1>1, FS_Interval DEF Words
<1>3. Pending \subseteq Words
  BY DEF Pending
<1>4. IsFiniteSet(Pending)
  BY <1>2, <1>3, FS_Subset
<1> QED BY <1>4, FS_CardinalityType

LEMMA ConvertGood ==
  ASSUME TypesInv, PointerInv, GoodInv, Convert
  PROVE  GoodInv'
<1>1. PICK value \in Good \cup Disturbed :
        /\ value \in Disturbed => disturbed < MaxDisturbed
        /\ disturbed' = IF value \in Disturbed THEN disturbed + 1 ELSE disturbed
        /\ buf' = [buf EXCEPT ![wptr] = value]
  BY DEF Convert
<1>2. /\ UNCHANGED <<at, rp, sample, result>> /\ at # "off"
      /\ converted' = IF converted < ADC_BUF_COUNT THEN converted + 1 ELSE converted
  BY DEF Convert
<1>3. /\ buf \in [Words -> Int] /\ wptr \in Words /\ converted \in Nat /\ disturbed \in Nat
      /\ ADC_BUF_COUNT \in Nat /\ converted <= ADC_BUF_COUNT
  BY AdcAssumption DEF TypesInv
<1>4. \A w \in Words : w # wptr => buf'[w] = buf[w]
  BY <1>1, <1>3
<1>5. buf'[wptr] = value
  BY <1>1, <1>3
<1>6. \A w \in Words : w # wptr /\ w < converted' => w < converted
  <2>1. converted < ADC_BUF_COUNT => wptr = converted
    BY <1>2 DEF PointerInv
  <2>2. \A w \in Words : w \in Nat
    BY DEF Words
  <2> QED BY <1>2, <1>3, <2>1, <2>2
<1>7. Pending' \subseteq Pending \cup {wptr} /\ (value \in Good => Pending' \subseteq Pending)
  <2>1. Pending' = {w \in Words : Len(sample) <= w /\ w < converted' /\ buf'[w] \notin Good}
    BY <1>2 DEF Pending, Words
  <2>2. \A w \in Pending' : w # wptr => w \in Pending
    BY <1>4, <1>6, <2>1 DEF Pending
  <2>3. value \in Good => wptr \notin Pending'
    BY <1>5, <2>1
  <2> QED BY <2>2, <2>3
<1>8. PICK q \in 0..disturbed : q + Cardinality(Pending) <= disturbed /\ Between(sample, q)
  BY <1>2 DEF GoodInv
<1>9. IsFiniteSet(Pending) /\ Cardinality(Pending) \in Nat
  BY PendingFinite
<1>10. q + Cardinality(Pending') <= disturbed' /\ q \in 0..disturbed'
  <2>1. CASE value \in Good
    <3>1. Cardinality(Pending') <= Cardinality(Pending) /\ Cardinality(Pending') \in Nat
      BY <1>7, <1>9, <2>1, FS_Subset, FS_CardinalityType
    <3> QED BY <1>1, <1>3, <1>8, <1>9, <3>1
  <2>2. CASE value \notin Good
    <3>1. disturbed' = disturbed + 1
      BY <1>1, <2>2
    <3>2. /\ IsFiniteSet(Pending \cup {wptr})
          /\ Cardinality(Pending \cup {wptr}) <= Cardinality(Pending) + 1
          /\ Cardinality(Pending \cup {wptr}) \in Nat
      <4>1. /\ IsFiniteSet(Pending \cup {wptr})
            /\ \/ Cardinality(Pending \cup {wptr}) = Cardinality(Pending)
               \/ Cardinality(Pending \cup {wptr}) = Cardinality(Pending) + 1
        BY <1>9, FS_AddElement
      <4> QED BY <1>9, <4>1
    <3>3. /\ Cardinality(Pending') <= Cardinality(Pending \cup {wptr})
          /\ Cardinality(Pending') \in Nat
      BY <1>7, <3>2, FS_Subset, FS_CardinalityType
    <3> QED BY <1>3, <1>8, <1>9, <3>1, <3>2, <3>3
  <2> QED BY <2>1, <2>2
<1>11. Between(sample, q)' /\ MiddleResists'
  BY <1>2, <1>8 DEF GoodInv, MiddleResists, Between
<1>12. Between(sample', q)
  BY <1>2, <1>8
<1> QED BY <1>10, <1>11, <1>12 DEF GoodInv

LEMMA TakeGood ==
  ASSUME TypesInv, PointerInv, GoodInv, Take
  PROVE  GoodInv'
<1> DEFINE w0 == Len(sample)
           v  == Voltage(buf[w0])
<1>1. /\ UNCHANGED <<buf, converted, disturbed, result>> /\ at = "take" /\ at' # "off"
  BY DEF Take, ring
<1>2. /\ w0 \in Words /\ v \in Nat
      /\ sample' \in Seq(Nat) /\ Sorted(sample') /\ Len(sample') = w0 + 1
      /\ Place(sample, v) \in 1..(w0 + 1)
      /\ \A k \in 1..(w0 + 1) :
           sample'[k] = IF k < Place(sample, v) THEN sample[k]
                        ELSE IF k = Place(sample, v) THEN v ELSE sample[k - 1]
  BY SampleTaken
<1>3. sample \in Seq(Nat) /\ buf[w0] \in Int /\ disturbed \in Nat
  BY <1>2 DEF TypesInv
<1>4. buf[w0] \in Good => v \in Good
  BY <1>3, VoltageIs
<1>5. PICK q \in 0..disturbed : q + Cardinality(Pending) <= disturbed /\ Between(sample, q)
  BY <1>1 DEF GoodInv
<1>6. (v \in Good => Between(sample', q)) /\ Between(sample', q + 1)
  <2> HIDE DEF v
  <2>1. PICK p \in 1..(Len(sample) + 1) :
          \A k \in 1..(Len(sample) + 1) :
            sample'[k] = IF k < p THEN sample[k] ELSE IF k = p THEN v ELSE sample[k - 1]
    BY <1>2
  <2>2. Len(sample') = Len(sample) + 1 /\ q \in Nat
    BY <1>2
  <2> QED BY <1>2, <1>3, <1>5, <2>1, <2>2, BetweenInserted
<1>7. IsFiniteSet(Pending) /\ Cardinality(Pending) \in Nat
  BY PendingFinite
<1>8. Pending' = Pending \ {w0}
  <2>1. Pending' = {w \in Words : w0 + 1 <= w /\ w < converted /\ buf[w] \notin Good}
    BY <1>1, <1>2 DEF Pending, Words
  <2>2. \A w \in Words : w \in Nat
    BY DEF Words
  <2>3. \A w \in Words : w0 + 1 <= w <=> w0 <= w /\ w # w0
    BY <1>2, <2>2
  <2> QED BY <2>1, <2>3 DEF Pending
<1>9. w0 < converted
  BY <1>1 DEF PointerInv
<1>10. \E r \in 0..disturbed : r + Cardinality(Pending') <= disturbed /\ Between(sample', r)
  <2>1. CASE buf[w0] \in Good
    <3>1. w0 \notin Pending
      BY <2>1 DEF Pending
    <3>2. Pending' = Pending
      BY <1>8, <3>1
    <3> QED BY <1>4, <1>5, <1>6, <2>1, <3>2
  <2>2. CASE buf[w0] \notin Good
    <3>1. w0 \in Pending
      <4>1. w0 <= w0
        BY <1>3
      <4> QED BY <1>2, <1>9, <2>2, <4>1 DEF Pending
    <3>2. Cardinality(Pending') = Cardinality(Pending) - 1 /\ IsFiniteSet(Pending')
      BY <1>7, <1>8, <3>1, FS_RemoveElement
    <3>3. Cardinality(Pending') \in Nat
      BY <3>2, FS_CardinalityType
    <3>4. q + 1 \in 0..disturbed /\ q + 1 + Cardinality(Pending') <= disturbed
      BY <1>3, <1>5, <1>7, <3>2, <3>3
    <3> QED BY <1>6, <3>4
  <2> QED BY <2>1, <2>2
<1>11. MiddleResists'
  BY <1>1 DEF GoodInv, MiddleResists
<1> QED BY <1>1, <1>10, <1>11 DEF GoodInv

LEMMA ReturnGood ==
  ASSUME TypesInv, PointerInv, GoodInv, MaxDisturbed <= 2,
         MaxDisturbed + 6 <= ADC_BUF_COUNT, Return
  PROVE  GoodInv'
<1>1. /\ at = "full" /\ at' = "off"
      /\ result' = sample[3] + sample[4] + sample[5] + sample[6]
  BY DEF Return
<1>2. PICK q \in 0..disturbed : q + Cardinality(Pending) <= disturbed /\ Between(sample, q)
  BY <1>1 DEF GoodInv
<1> DEFINE N == Len(sample)
<1>3. /\ sample \in Seq(Nat) /\ Sorted(sample) /\ N = ADC_BUF_COUNT /\ N \in Nat
      /\ q \in 0..2 /\ N >= q + 6 /\ N >= 6
  <2>1. sample \in Seq(Nat) /\ Sorted(sample) /\ disturbed \in 0..MaxDisturbed
    BY DEF TypesInv
  <2>2. N = ADC_BUF_COUNT
    BY <1>1 DEF PointerInv
  <2>3. MaxDisturbed \in Nat /\ ADC_BUF_COUNT \in Nat
    BY AdcAssumption
  <2> QED BY <1>2, <2>1, <2>2, <2>3
<1>a. N \in Nat /\ N >= q + 6 /\ N >= 6 /\ q \in 0..2 /\ \A i \in 1..N : sample[i] \in Nat
  BY <1>3
<1>4. PICK lo \in Good : lo <= sample[q + 1]
  BY <1>2, <1>3 DEF Between
<1>5. PICK hi \in Good : sample[N - q] <= hi
  BY <1>2, <1>3 DEF Between
<1>6. \A i, j \in 1..N : i <= j => sample[i] <= sample[j]
  <2>1. \A i \in 1..N : sample[i] \in Nat
    BY <1>3
  <2>2. \A i, j \in 1..N : i < j => sample[i] <= sample[j]
    <3>1. DOMAIN sample = 1..N
      BY <1>3
    <3>2. \A i, j \in DOMAIN sample : i < j => sample[i] <= sample[j]
      BY <1>3 DEF Sorted
    <3> QED BY <3>1, <3>2
  <2>3. \A i, j \in 1..N : i <= j => i = j \/ i < j
    OBVIOUS
  <2> QED BY <2>1, <2>2, <2>3
<1>7. /\ q + 1 \in 1..N /\ N - q \in 1..N /\ q + 1 <= 3 /\ 6 <= N - q
      /\ 3 \in 1..N /\ 4 \in 1..N /\ 5 \in 1..N /\ 6 \in 1..N
  <2> HIDE DEF N
  <2> QED BY <1>a
<1>8. /\ lo \in Nat /\ hi \in Nat /\ sample[q + 1] \in Nat /\ sample[N - q] \in Nat
      /\ sample[3] \in Nat /\ sample[4] \in Nat /\ sample[5] \in Nat /\ sample[6] \in Nat
  <2>1. Good \subseteq Nat
    BY AdcAssumption
  <2> HIDE DEF N
  <2> QED BY <1>a, <1>7, <2>1
<1>9. /\ sample[q + 1] <= sample[3] /\ sample[3] <= sample[4] /\ sample[4] <= sample[5]
      /\ sample[5] <= sample[6] /\ sample[6] <= sample[N - q]
  BY <1>6, <1>7
<1>10. 4 * lo <= result' /\ result' <= 4 * hi
  <2> HIDE DEF N
  <2>1. /\ lo <= sample[3] /\ lo <= sample[4] /\ lo <= sample[5] /\ lo <= sample[6]
        /\ sample[3] <= hi /\ sample[4] <= hi /\ sample[5] <= hi /\ sample[6] <= hi
    BY <1>4, <1>5, <1>8, <1>9
  <2> QED BY <1>1, <1>8, <2>1
<1>11. MiddleResists'
  BY <1>10 DEF MiddleResists
<1> QED BY <1>1, <1>11 DEF GoodInv

LEMMA GoodInvNext ==
  ASSUME TypesInv, PointerInv, GoodInv, MaxDisturbed <= 2,
         MaxDisturbed + 6 <= ADC_BUF_COUNT, [Next]_vars
  PROVE  GoodInv'
<1>1. ASSUME NEW p_ain \in Inputs, get_adc(p_ain)
      PROVE  GoodInv'
  <2>1. sample' = <<>> /\ disturbed' = 0 /\ converted' = 0 /\ result' = None
    BY <1>1 DEF get_adc
  <2>2. Pending' = {}
    BY <2>1 DEF Pending, Words
  <2>3. Cardinality(Pending') = 0
    BY <2>2, FS_EmptySet
  <2>4. Between(sample', 0)
    BY <2>1 DEF Between
  <2>5. MiddleResists'
    BY <2>1 DEF MiddleResists
  <2> QED BY <2>1, <2>3, <2>4, <2>5 DEF GoodInv
<1>2. ASSUME UNCHANGED <<buf, converted, disturbed, sample, result>>,
             at' # "off" => at # "off"
      PROVE  GoodInv'
  <2>1. Pending' = Pending
    BY <1>2 DEF Pending, Words
  <2>2. MiddleResists'
    BY <1>2 DEF GoodInv, MiddleResists
  <2> QED BY <1>2, <2>1, <2>2 DEF GoodInv
<1>3. CASE Follow \/ See \/ Catch \/ Wake \/ UNCHANGED vars
  <2>1. UNCHANGED <<buf, converted, disturbed, sample, result>> /\ (at' # "off" => at # "off")
    BY <1>3 DEF Follow, See, Catch, Wake, vars, ring
  <2> QED BY <1>2, <2>1
<1> QED BY <1>1, <1>3, ConvertGood, TakeGood, ReturnGood DEF Next
---------------------------------------------------------------------------
(* Theorems *)

\* What get_adc is doing and where it stands, the channel, and the pointer: the inductive
\* invariant of the sampling.
THEOREM SamplingInvariant == Spec => [](TypesInv /\ ChannelInv /\ PointerInv)
<1>1. Init => TypesInv /\ ChannelInv /\ PointerInv
  <2> USE AdcAssumption DEF Init
  <2>1. Init => TypesInv
    BY DEF TypesInv, Words, Sorted
  <2>2. Init => ChannelInv
    BY DEF ChannelInv
  <2>3. Init => PointerInv
    BY DEF PointerInv
  <2> QED BY <2>1, <2>2, <2>3
<1>2. TypesInv /\ ChannelInv /\ PointerInv /\ [Next]_vars
        => (TypesInv /\ ChannelInv /\ PointerInv)'
  BY TypesInvNext, ChannelInvNext, PointerInvNext
<1> QED BY <1>1, <1>2, PTL DEF Spec

\* The samples that get_adc sorts and sums were converted in this call and from the
\* channel it was asked for, for every number of samples, every delay between two of its
\* steps and every retention sleep before it.
THEOREM SamplesFresh == Spec => []SamplesAreFresh
<1>1. TypesInv /\ ChannelInv /\ PointerInv => SamplesAreFresh
  <2> SUFFICES ASSUME TypesInv, ChannelInv, PointerInv, at # "off"
               PROVE  channel = input /\ Len(sample) <= converted
    BY DEF SamplesAreFresh
  <2>1. channel = input
    BY AdcAssumption DEF ChannelInv
  <2>2. converted \in Nat /\ Len(sample) \in Nat
    BY DEF TypesInv
  <2>3. Len(sample) <= converted
    <3>1. CASE at = "enabled"
      BY <2>2, <3>1 DEF PointerInv
    <3>2. CASE at = "wait"
      BY <3>2 DEF PointerInv
    <3>3. CASE at \in {"seen", "take"}
      BY <2>2, <3>3 DEF PointerInv
    <3>4. CASE at = "full"
      BY <2>2, <3>4 DEF PointerInv
    <3> QED BY <3>1, <3>2, <3>3, <3>4 DEF TypesInv
  <2> QED BY <2>1, <2>3
<1> QED BY <1>1, SamplingInvariant, PTL

\* Up to two disturbed conversions in a call do not show in what get_adc returns, if it
\* takes six samples more than there are of them: the two lowest and the two highest
\* words that it sorts out take them up, wherever in the call they came.
THEOREM MiddleKept ==
  ASSUME MaxDisturbed <= 2, MaxDisturbed + 6 <= ADC_BUF_COUNT
  PROVE  Spec => []MiddleResists
<1>1. Init => GoodInv
  BY DEF Init, GoodInv, MiddleResists
<1>2. TypesInv /\ PointerInv /\ GoodInv /\ [Next]_vars => GoodInv'
  BY GoodInvNext
<1>3. GoodInv => MiddleResists
  BY DEF GoodInv
<1> QED BY <1>1, <1>2, <1>3, SamplingInvariant, PTL DEF Spec

---------------------------------------------------------------------------
(* The running average *)

\* Rounding down keeps a quotient within the bounds of n samples.
LEMMA DivBounds ==
  ASSUME NEW a \in Int, NEW n \in Nat, n >= 1, NEW lo \in Int, NEW hi \in Int,
         n * lo <= a, a <= n * hi + n - 1
  PROVE  a \div n \in Int /\ lo <= a \div n /\ a \div n <= hi
<1> DEFINE q == a \div n
           r == a % n
<1>1. q \in Int /\ r \in 0..(n - 1) /\ a = n * q + r
  OBVIOUS
<1>2. n * lo < n * (q + 1)
  BY <1>1
<1>3. n * q < n * (hi + 1)
  BY <1>1
<1> HIDE DEF q, r
<1>4. ASSUME NEW x \in Int, NEW y \in Int, n * x < n * y
      PROVE  x < y
  <2>1. SUFFICES ASSUME y <= x PROVE FALSE
    BY <1>4
  <2>2. n * (x - y) >= 0
    BY <2>1
  <2>3. n * (x - y) = n * x - n * y
    OBVIOUS
  <2> QED BY <1>4, <2>2, <2>3
<1>5. lo < q + 1
  BY <1>1, <1>2, <1>4
<1>6. q < hi + 1
  BY <1>1, <1>3, <1>4
<1> QED BY <1>1, <1>5, <1>6 DEF q

\* So does rounding toward zero.
LEMMA QuotientBounds ==
  ASSUME NEW a \in Int, NEW n \in Nat, n >= 1, NEW lo \in Int, NEW hi \in Int,
         n * lo <= a, a <= n * hi
  PROVE  Quotient(a, n) \in Int /\ lo <= Quotient(a, n) /\ Quotient(a, n) <= hi
<1>1. CASE a >= 0
  <2>1. a <= n * hi + n - 1
    OBVIOUS
  <2>2. a \div n \in Int /\ lo <= a \div n /\ a \div n <= hi
    BY <2>1, DivBounds
  <2> QED BY <1>1, <2>2 DEF Quotient
<1>2. CASE a < 0
  <2> DEFINE b == -a
             l == -hi
             h == -lo
  <2>1. b \in Int /\ l \in Int /\ h \in Int
    OBVIOUS
  <2>2. n * l <= b /\ b <= n * h + n - 1
    <3>1. n * l = -(n * hi) /\ n * h = -(n * lo)
      OBVIOUS
    <3> QED BY <3>1
  <2> HIDE DEF b, l, h
  <2>3. b \div n \in Int /\ l <= b \div n /\ b \div n <= h
    BY <2>1, <2>2, DivBounds
  <2>4. Quotient(a, n) = -(b \div n)
    BY <1>2 DEF Quotient, b
  <2> QED BY <2>3, <2>4 DEF l, h
<1> QED BY <1>1, <1>2

\* The invariant is inductive: the bounds of the sum give those of the average, and the
\* average taken off the sum keeps the sum within its bounds.
AverageInv == TypeOK /\ SumBounded /\ AverageInRange

LEMMA AverageInitInv == AverageInit => AverageInv
BY AverageAssumption DEF AverageInit, AverageInv, TypeOK, SumBounded, AverageInRange, Residue

LEMMA CollectInv ==
  ASSUME AverageInv, Collect
  PROVE  AverageInv'
<1> USE AverageAssumption
<1>1. /\ measured \in Int /\ Lo <= measured /\ measured <= Hi /\ summ \in Int
      /\ cnt \in Nat /\ cnt + 1 < COUNT
      /\ cnt * Lo <= summ /\ summ <= cnt * Hi
  BY DEF AverageInv, TypeOK, SumBounded, Collect, Residue
<1>2. /\ summ' = summ + measured /\ cnt' = cnt + 1 /\ measured' = measured
      /\ average' = Quotient(summ + measured, cnt + 1)
  BY DEF Collect
<1>3. (cnt + 1) * Lo <= summ + measured /\ summ + measured <= (cnt + 1) * Hi
  <2>1. (cnt + 1) * Lo = cnt * Lo + Lo /\ (cnt + 1) * Hi = cnt * Hi + Hi
    BY <1>1
  <2> QED BY <1>1, <2>1
<1>4. average' \in Int /\ Lo <= average' /\ average' <= Hi
  <2>1. summ + measured \in Int /\ cnt + 1 \in Nat /\ cnt + 1 >= 1
    BY <1>1
  <2> QED BY <1>2, <1>3, <2>1, QuotientBounds
<1>5. TypeOK'
  BY <1>1, <1>2, <1>4 DEF TypeOK, AverageInv
<1>6. SumBounded'
  BY <1>1, <1>2, <1>3 DEF SumBounded, Residue
<1> QED BY <1>4, <1>5, <1>6 DEF AverageInv, AverageInRange

LEMMA SlideInv ==
  ASSUME AverageInv, Slide
  PROVE  AverageInv'
<1> USE AverageAssumption
<1>1. /\ measured \in Int /\ Lo <= measured /\ measured <= Hi /\ summ \in Int
      /\ cnt = COUNT - 1
      /\ cnt * Lo <= summ /\ summ <= cnt * Hi + COUNT - 1
  BY DEF AverageInv, TypeOK, SumBounded, Slide, Residue
<1>x. PICK x \in Int : x = summ + measured
  BY <1>1
<1> DEFINE q == x \div COUNT
           r == x % COUNT
<1>2. /\ summ' = x - q /\ cnt' = cnt /\ measured' = measured /\ average' = q
  <2>1. average' = (summ + measured) \div COUNT
    BY DEF Slide, Shift
  <2>3. summ' = summ + measured - average'
    BY DEF Slide
  <2>2. cnt' = cnt /\ measured' = measured
    BY DEF Slide
  <2> QED BY <1>1, <1>x, <2>1, <2>2, <2>3
<1>3. x \in Int /\ COUNT * Lo <= x /\ x <= COUNT * Hi + COUNT - 1
  <2>1. /\ COUNT * Lo = (COUNT - 1) * Lo + Lo
        /\ COUNT * Hi = (COUNT - 1) * Hi + Hi
    OBVIOUS
  <2> QED BY <1>1, <1>x, <2>1
<1>4. q \in Int /\ Lo <= q /\ q <= Hi
  <2>1. COUNT \in Nat /\ COUNT >= 1 /\ Lo \in Int /\ Hi \in Int
    OBVIOUS
  <2> HIDE AverageAssumption
  <2> QED BY <1>3, <2>1, DivBounds
<1>5. r \in 0..(COUNT - 1) /\ x = COUNT * q + r
  BY <1>3
<1> HIDE DEF q, r
<1>6. x - q = (COUNT - 1) * q + r
  <2>1. COUNT * q = (COUNT - 1) * q + q
    BY <1>4
  <2> QED BY <1>3, <1>4, <1>5, <2>1
<1>7. (COUNT - 1) * Lo <= (COUNT - 1) * q /\ (COUNT - 1) * q <= (COUNT - 1) * Hi
  <2>1. /\ (COUNT - 1) * q - (COUNT - 1) * Lo = (COUNT - 1) * (q - Lo)
        /\ (COUNT - 1) * Hi - (COUNT - 1) * q = (COUNT - 1) * (Hi - q)
    BY <1>4
  <2>2. (COUNT - 1) * (q - Lo) >= 0 /\ (COUNT - 1) * (Hi - q) >= 0
    BY <1>4
  <2>3. /\ (COUNT - 1) * Lo \in Int /\ (COUNT - 1) * q \in Int
        /\ (COUNT - 1) * Hi \in Int
    BY <1>4
  <2> QED BY <2>1, <2>2, <2>3
<1>8. TypeOK'
  BY <1>1, <1>2, <1>3, <1>4 DEF TypeOK, AverageInv
<1>9. SumBounded'
  <2>1. /\ (COUNT - 1) * Lo \in Int /\ (COUNT - 1) * q \in Int
        /\ (COUNT - 1) * Hi \in Int
    BY <1>4
  <2>2. /\ (COUNT - 1) * Lo <= x - q
        /\ x - q <= (COUNT - 1) * Hi + COUNT - 1
    BY <1>5, <1>6, <1>7, <2>1
  <2> QED BY <1>1, <1>2, <2>2 DEF SumBounded, Residue
<1> QED BY <1>2, <1>4, <1>8, <1>9 DEF AverageInv, AverageInRange

LEMMA AverageStepInv == AverageInv /\ [AverageNext]_averageVars => AverageInv'
<1> SUFFICES ASSUME AverageInv, [AverageNext]_averageVars PROVE AverageInv'
  OBVIOUS
<1>1. CASE Collect
  BY <1>1, CollectInv
<1>2. CASE Slide
  BY <1>2, SlideInv
<1>3. CASE Change
  BY <1>3 DEF Change, AverageInv, TypeOK, SumBounded, AverageInRange, Residue
<1>4. CASE UNCHANGED averageVars
  BY <1>4 DEF averageVars, AverageInv, TypeOK, SumBounded, AverageInRange, Residue
<1> QED BY <1>1, <1>2, <1>3, <1>4 DEF AverageNext, Sample

\* What calk_temp and check_battery_level keep has its range: in particular the count of
\* the samples never passes COUNT - 1.
THEOREM AverageTypesKept == AverageSpec => []TypeOK
<1>1. AverageInv => TypeOK
  BY DEF AverageInv
<1> QED BY <1>1, AverageInitInv, AverageStepInv, PTL DEF AverageSpec

\* The average of calk_temp and check_battery_level is never outside the range of what
\* was measured, over any number of samples.
THEOREM AverageSafe == AverageSpec => []AverageInRange
<1>1. AverageInv => AverageInRange
  BY DEF AverageInv
<1> QED BY <1>1, AverageInitInv, AverageStepInv, PTL DEF AverageSpec

\* The sum they keep never drifts: it needs no more bits than COUNT samples do.
THEOREM SumSafe == AverageSpec => []SumBounded
<1>1. AverageInv => SumBounded
  BY DEF AverageInv
<1> QED BY <1>1, AverageInitInv, AverageStepInv, PTL DEF AverageSpec
=============================================================================
