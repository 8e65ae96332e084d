-------------------------- MODULE DeviceLoop_proofs --------------------------
(***************************************************************************)
(* Proofs about DeviceLoop, for every width of the clock, every time and   *)
(* interval, and every set of measured values.                             *)
(***************************************************************************)
EXTENDS DeviceLoop, TLAPS

---------------------------------------------------------------------------
(* Clock arithmetic *)

\* The numbers of LoopAssumption, one by one.
LEMMA Numbers ==
  /\ Wrap \in Nat /\ HOLD \in Nat /\ WINDOW \in Nat /\ MaxSleep \in Nat /\ Stall \in Nat
  /\ MaxPresses \in Nat
  /\ Stall < MaxSleep /\ MaxSleep < HOLD /\ WINDOW > 0 /\ HOLD + WINDOW < Wrap
  /\ 0 \in Clock
BY LoopAssumption DEF Clock

\* The difference of two clock values is the distance from the one to the other, in the
\* direction of the clock.
LEMMA DiffIs ==
  ASSUME NEW a \in Clock, NEW b \in Clock
  PROVE  Diff(a, b) = IF b <= a THEN a - b ELSE a - b + Wrap
BY LoopAssumption DEF Diff, Clock

\* A sum that is not longer than the clock wraps once at most.
LEMMA AddIs ==
  ASSUME NEW a \in Clock, NEW d \in 0..(Wrap - 1)
  PROVE  Add(a, d) = IF a + d < Wrap THEN a + d ELSE a + d - Wrap
<1>1. a + d < Wrap => (a + d) % Wrap = a + d
  BY LoopAssumption DEF Clock
<1>2. ASSUME a + d >= Wrap PROVE (a + d) % Wrap = a + d - Wrap
  <2>1. PICK s \in 0..(Wrap - 1) : s = a + d - Wrap
    BY <1>2, LoopAssumption DEF Clock
  <2>2. (s + Wrap) % Wrap = s
    BY LoopAssumption
  <2>3. a + d = s + Wrap
    BY <2>1, LoopAssumption DEF Clock
  <2> QED BY <2>1, <2>2, <2>3
<1> QED BY <1>1, <1>2, LoopAssumption DEF Add, Clock

\* While the clock goes on, the distance from an earlier value grows,
LEMMA DiffGrows ==
  ASSUME NEW a \in Clock, NEW b \in Clock, Diff(a, b) + 1 < Wrap
  PROVE  Add(a, 1) \in Clock /\ Diff(Add(a, 1), b) = Diff(a, b) + 1
<1>1. 1 \in 0..(Wrap - 1)
  BY Numbers
<1>2. Add(a, 1) \in Clock /\ Add(a, 1) = IF a + 1 < Wrap THEN a + 1 ELSE a + 1 - Wrap
  BY <1>1, AddIs, Numbers DEF Clock
<1>3. Diff(a, b) = IF b <= a THEN a - b ELSE a - b + Wrap
  BY DiffIs
<1>4. Diff(Add(a, 1), b) = IF b <= Add(a, 1) THEN Add(a, 1) - b ELSE Add(a, 1) - b + Wrap
  BY <1>2, DiffIs
<1> QED BY <1>2, <1>3, <1>4, Numbers DEF Clock

\* and the distance to a later one shrinks.
LEMMA DiffShrinks ==
  ASSUME NEW a \in Clock, NEW b \in Clock, a # b
  PROVE  Diff(b, a) > 0 /\ Diff(b, Add(a, 1)) = Diff(b, a) - 1
<1>1. 1 \in 0..(Wrap - 1)
  BY Numbers
<1>2. Add(a, 1) \in Clock /\ Add(a, 1) = IF a + 1 < Wrap THEN a + 1 ELSE a + 1 - Wrap
  BY <1>1, AddIs, Numbers DEF Clock
<1>3. Diff(b, a) = IF a <= b THEN b - a ELSE b - a + Wrap
  BY DiffIs
<1>4. Diff(b, Add(a, 1)) = IF Add(a, 1) <= b THEN b - Add(a, 1) ELSE b - Add(a, 1) + Wrap
  BY <1>2, DiffIs
<1> QED BY <1>2, <1>3, <1>4, Numbers DEF Clock

---------------------------------------------------------------------------
(* What the loop works with *)

\* An advertising of the loop, and a measurement.
Advs   == [adv_event : BOOLEAN, interval : {"connect", "event", "work"},
           data : Beacons, limited : BOOLEAN]
Values == [mv : Volts, temp : Temps]

\* Types of TypeOK: the clocks and the pc,
ClockTypes ==
  /\ pc \in {"boot", "top", "sdk_conn", "notify", "measure", "sdk_adv", "key"}
  /\ now \in Clock /\ tt \in Clock /\ measureTick \in Clock /\ timerWakeUpTick \in Clock
  /\ wakeup \in {None} \cup Clock
  /\ measureInterval \in Intervals
  /\ held \in 0..Wrap /\ since \in 0..(2 * Wrap)

\* the flags,
FlagTypes ==
  /\ woken \in BOOLEAN /\ button \in BOOLEAN /\ startMeasure \in BOOLEAN
  /\ keyPressed \in BOOLEAN /\ erased \in BOOLEAN
  /\ flg_update \subseteq {"VBAT_ADV", "VBAT_NTF", "TEMP_ADV", "TEMP_NTF"}
  /\ ccc \subseteq {"VBAT_NTF", "TEMP_NTF"} /\ owed \subseteq {"VBAT_NTF", "TEMP_NTF"}
  /\ bleConnected \subseteq {"enable", "reset"}

\* the presses,
PressTypes ==
  /\ keyCounter \in 0..MaxPresses
  /\ pc # "boot" /\ button /\ ~keyPressed => keyCounter < MaxPresses

\* and what is measured, advertised and notified, which there is from the start on.
ValueTypes ==
  /\ notified \in [mv : Volts \cup {0}, temp : Temps \cup {0}]
  /\ pc = "boot" => adv = NoAdv
  /\ pc # "boot" => adv \in Advs /\ services \in Values

LoopInv == ClockTypes /\ FlagTypes /\ PressTypes /\ ValueTypes

\* A tick ahead of the clock by less than a round, made other than 0, is a clock value.
LEMMA WakeupTick ==
  ASSUME NEW a \in Clock
  PROVE  NonZero(Add(a, HOLD)) \in Clock \ {0}
<1>1. Add(a, HOLD) \in Clock
  BY AddIs, Numbers DEF Clock
<1> QED BY <1>1, Numbers DEF NonZero, Clock

LEMMA ClockTypesNext ==
  ASSUME ClockTypes, [Next]_vars
  PROVE  ClockTypes'
<1> USE Numbers DEF ClockTypes, Goto, measuring, key, client, history
<1>1. CASE UNCHANGED vars
  BY <1>1 DEF vars
<1>2. ASSUME Restart, measureInterval' = measureInterval
      PROVE  ClockTypes'
  BY <1>2 DEF Restart, None
<1>3. CASE TerminateReset \/ LowBattery \/ KeyReset \/ PowerLoss
  BY <1>2, <1>3 DEF TerminateReset, LowBattery, KeyReset, PowerLoss
<1>4. CASE Boot
  BY <1>4 DEF Boot, InitNormal, Clock
<1>5. CASE Top
  BY <1>5 DEF Top
<1>6. CASE Tick
  <2>1. now' \in Clock
    BY <1>6, AddIs DEF Tick, Clock
  <2> QED BY <1>6, <2>1 DEF Tick
<1>7. CASE StackReturns \/ RetentionWake \/ Connect \/ AskReset \/ Subscribe \/ SetInterval
  BY <1>7 DEF StackReturns, RetentionWake, Connect, AskReset, Subscribe, SetInterval
<1>8. CASE Terminate \/ AdvTimeout
  BY <1>8 DEF Terminate, AdvTimeout
<1>9. CASE Notify \/ MeasureNothing \/ MeasureBattery \/ MeasureTemp
  BY <1>9 DEF Notify, MeasureNothing, MeasureBattery, MeasureTemp, AfterMeasure
<1>10. CASE KeyDown
  <2>1. timerWakeUpTick' \in Clock
    BY <1>10, WakeupTick DEF KeyDown
  <2> QED BY <1>10, <2>1 DEF KeyDown
<1>11. CASE KeyHeld \/ KeyUp \/ KeyOff
  BY <1>11 DEF KeyHeld, KeyUp, KeyOff, None
<1>12. CASE Press \/ Release
  BY <1>12 DEF Press, Release
<1> QED
  BY <1>1, <1>3, <1>4, <1>5, <1>6, <1>7, <1>8, <1>9, <1>10, <1>11, <1>12
  DEF Next, Pass, Stack

LEMMA FlagTypesNext ==
  ASSUME FlagTypes, [Next]_vars
  PROVE  FlagTypes'
<1> USE DEF FlagTypes, Goto, measuring, key, client, history
<1>1. CASE UNCHANGED vars
  BY <1>1 DEF vars
<1>2. ASSUME Restart, button' = button, erased' \in BOOLEAN
      PROVE  FlagTypes'
  BY <1>2 DEF Restart
<1>3. CASE TerminateReset \/ LowBattery \/ KeyReset \/ PowerLoss
  BY <1>2, <1>3 DEF TerminateReset, LowBattery, KeyReset, PowerLoss
<1>4. CASE Boot
  BY <1>4 DEF Boot, InitNormal
<1>5. CASE Top
  BY <1>5 DEF Top
<1>6. CASE Tick \/ StackReturns \/ RetentionWake
  BY <1>6 DEF Tick, StackReturns, RetentionWake, InStack
<1>7. CASE Connect \/ AskReset \/ SetInterval
  BY <1>7 DEF Connect, AskReset, SetInterval, ForgetClient
<1>8. CASE Subscribe
  BY <1>8, LoopAssumption DEF Subscribe
<1>9. CASE Terminate \/ AdvTimeout
  BY <1>9 DEF Terminate, AdvTimeout, ForgetClient
<1>10. CASE Notify \/ MeasureNothing \/ MeasureBattery \/ MeasureTemp
  BY <1>10 DEF Notify, MeasureNothing, MeasureBattery, MeasureTemp, AfterMeasure, Owe
<1>11. CASE KeyDown \/ KeyUp
  BY <1>11 DEF KeyDown, KeyUp
<1>12. CASE KeyHeld \/ KeyOff
  BY <1>12 DEF KeyHeld, KeyOff
<1>13. CASE Press \/ Release
  BY <1>13 DEF Press, Release
<1> QED
  BY <1>1, <1>3, <1>4, <1>5, <1>6, <1>7, <1>8, <1>9, <1>10, <1>11, <1>12, <1>13
  DEF Next, Pass, Stack

LEMMA PressTypesNext ==
  ASSUME PressTypes, FlagTypes, [Next]_vars
  PROVE  PressTypes'
<1> USE DEF PressTypes, Goto, measuring, key, client, history
<1>1. CASE UNCHANGED vars
  BY <1>1 DEF vars
<1>2. ASSUME Restart
      PROVE  PressTypes'
  BY <1>2, Numbers DEF Restart
<1>3. CASE TerminateReset \/ LowBattery \/ KeyReset \/ PowerLoss
  BY <1>2, <1>3 DEF TerminateReset, LowBattery, KeyReset, PowerLoss
<1>4. CASE Boot
  BY <1>4 DEF Boot, InitNormal
<1>5. CASE Top
  BY <1>5 DEF Top
<1>6. CASE Tick \/ StackReturns \/ RetentionWake
  BY <1>6 DEF Tick, StackReturns, RetentionWake, InStack
<1>7. CASE Connect \/ AskReset \/ SetInterval \/ Subscribe
  BY <1>7 DEF Connect, AskReset, SetInterval, Subscribe, InStack
<1>8. CASE Terminate \/ AdvTimeout
  <2>1. UNCHANGED <<pc, button, key>>
    BY <1>8 DEF Terminate, AdvTimeout
  <2> QED BY <2>1
<1>9. CASE Notify \/ MeasureNothing \/ MeasureBattery \/ MeasureTemp
  BY <1>9 DEF Notify, MeasureNothing, MeasureBattery, MeasureTemp, AfterMeasure
<1>10. CASE KeyDown
  BY <1>10, Numbers DEF KeyDown
<1>11. CASE KeyHeld \/ KeyUp \/ KeyOff
  BY <1>11 DEF KeyHeld, KeyUp, KeyOff
<1>12. CASE Press \/ Release
  BY <1>12, Numbers DEF Press, Release
<1> QED
  BY <1>1, <1>3, <1>4, <1>5, <1>6, <1>7, <1>8, <1>9, <1>10, <1>11, <1>12
  DEF Next, Pass, Stack

LEMMA ValueTypesNext ==
  ASSUME ValueTypes, FlagTypes, PressTypes, [Next]_vars
  PROVE  ValueTypes'
<1> USE Numbers DEF ValueTypes, Goto, measuring, key, client, history
<1>1. CASE UNCHANGED vars
  BY <1>1 DEF vars
<1>2. ASSUME Restart
      PROVE  ValueTypes'
  BY <1>2 DEF Restart, NoValues
<1>3. CASE TerminateReset \/ LowBattery \/ KeyReset \/ PowerLoss
  BY <1>2, <1>3 DEF TerminateReset, LowBattery, KeyReset, PowerLoss
<1>4. ASSUME NEW isEvent \in BOOLEAN, NEW limited \in BOOLEAN,
             NEW interval \in {"connect", "event", "work"}, NEW beacon \in Beacons,
             StartAdv(isEvent, interval, beacon, limited)
      PROVE  adv' \in Advs
  BY <1>4 DEF StartAdv, Advs
<1>5. ASSUME NEW s \in Values
      PROVE  DataBeacon(s) \in Beacons
  BY DEF DataBeacon, Values, Beacons
<1>6. CASE Boot
  BY <1>5, <1>6 DEF Boot, InitNormal, Advs, Values
<1>7. CASE Top
  BY <1>7 DEF Top
<1>8. CASE Tick \/ StackReturns \/ RetentionWake
  BY <1>8 DEF Tick, StackReturns, RetentionWake, InStack
<1>9. CASE Connect \/ AskReset \/ SetInterval \/ Subscribe
  BY <1>9 DEF Connect, AskReset, SetInterval, Subscribe, ForgetClient, NoValues
<1>10. CASE Terminate
  <2>1. adv.limited \in BOOLEAN /\ services \in Values
    BY <1>10 DEF Terminate, InStack, Advs
  <2>2. adv' \in Advs
    BY <1>4, <1>5, <1>10, <2>1 DEF Terminate, app_set_work_adv
  <2> QED BY <1>10, <2>1, <2>2 DEF Terminate, InStack, ForgetClient, NoValues
<1>11. CASE AdvTimeout
  <2>1. services \in Values
    BY <1>11 DEF AdvTimeout, InStack
  <2>2. adv' \in Advs
    BY <1>4, <1>5, <1>11, <2>1 DEF AdvTimeout, app_set_work_adv, app_set_connect_adv
  <2> QED BY <1>11, <2>1, <2>2 DEF AdvTimeout, InStack
<1>12. CASE Notify
  BY <1>12 DEF Notify, Values
<1>13. CASE MeasureNothing
  BY <1>13 DEF MeasureNothing, AfterMeasure
<1>14. CASE MeasureBattery
  <2>1. services' \in Values
    BY <1>14 DEF MeasureBattery, Values
  <2> QED BY <1>14, <2>1 DEF MeasureBattery, AfterMeasure
<1>15. CASE MeasureTemp
  <2>1. services' \in Values
    BY <1>15 DEF MeasureTemp, Values
  <2>2. [adv EXCEPT !.data = DataBeacon(services')] \in Advs
    BY <1>5, <1>15, <2>1 DEF MeasureTemp, Advs
  <2>3. adv' \in Advs
    BY <1>15, <2>2 DEF MeasureTemp
  <2> QED BY <1>15, <2>1, <2>3 DEF MeasureTemp, AfterMeasure
<1>16. ASSUME NEW count \in 0..MaxPresses, AdvEvent(count), pc = "key"
       PROVE  adv' \in Advs
  <2>1. EventBeacon(count) \in Beacons
    BY DEF EventBeacon, Beacons, FlagTypes
  <2> QED BY <1>4, <1>16, <2>1 DEF AdvEvent, app_set_event_adv
<1>17. CASE KeyDown
  <2>1. keyCounter' \in 0..MaxPresses
    BY <1>17, Numbers DEF KeyDown, FlagTypes, PressTypes
  <2>2. adv' \in Advs
    BY <1>16, <1>17, <2>1 DEF KeyDown
  <2> QED BY <1>17, <2>2 DEF KeyDown
<1>18. CASE KeyUp
  <2>1. adv' \in Advs
    BY <1>16, <1>18 DEF KeyUp, PressTypes
  <2> QED BY <1>18, <2>1 DEF KeyUp
<1>19. CASE KeyHeld \/ KeyOff
  BY <1>19 DEF KeyHeld, KeyOff
<1>20. CASE Press \/ Release
  BY <1>20 DEF Press, Release
<1> QED
  BY <1>1, <1>3, <1>6, <1>7, <1>8, <1>9, <1>10, <1>11, <1>12, <1>13, <1>14, <1>15,
     <1>17, <1>18, <1>19, <1>20
  DEF Next, Pass, Stack

---------------------------------------------------------------------------
(* How long the loop is in the stack *)

\* The time from the top of the pass.
InPass == Diff(now, tt)

\* It is bounded by the sleep, and behind the call of the stack by the longest sleep from
\* which the stack returns; a pass that begins later than that follows a deep sleep.
PassInv ==
  /\ InPass <= MaxSleep
  /\ pc \in {"notify", "measure", "key"} => InPass <= Stall
  /\ pc = "top" => woken \/ InPass <= Stall
  /\ pc = "boot" => ~woken /\ tt = 0 /\ timerWakeUpTick = 0 /\ ~keyPressed

LEMMA PassInvNext ==
  ASSUME ClockTypes, PassInv, [Next]_vars
  PROVE  PassInv'
<1> USE Numbers DEF PassInv, Goto, measuring, key, client, history
<1>1. InPass \in Nat /\ InPass < Wrap
  BY DiffIs DEF InPass, ClockTypes, Clock
<1>2. UNCHANGED <<now, tt>> => InPass' = InPass
  BY DEF InPass
<1>3. ASSUME NEW c \in Clock, now' = c, tt' = c
      PROVE  InPass' = 0
  BY <1>3, DiffIs DEF InPass, Clock
<1>4. CASE UNCHANGED vars
  BY <1>2, <1>4 DEF vars
<1>5. ASSUME Restart
      PROVE  PassInv'
  BY <1>3, <1>5 DEF Restart
<1>6. CASE TerminateReset \/ LowBattery \/ KeyReset \/ PowerLoss
  BY <1>5, <1>6 DEF TerminateReset, LowBattery, KeyReset, PowerLoss
<1>7. CASE Boot
  <2>1. PICK d \in 0..Stall : now' = d
    BY <1>7 DEF Boot, InitNormal
  <2>2. tt' = 0 /\ pc' = "top" /\ woken' = woken
    BY <1>7 DEF Boot, InitNormal
  <2>3. InPass' = d
    BY <2>1, <2>2, DiffIs DEF InPass, Clock
  <2> QED BY <2>2, <2>3
<1>8. CASE Top
  <2>1. InPass' = 0
    BY <1>3, <1>8 DEF Top, ClockTypes
  <2> QED BY <1>8, <2>1 DEF Top
<1>9. CASE Tick
  <2>1. InPass' = InPass + 1
    BY <1>1, <1>9, DiffGrows DEF Tick, InPass, ClockTypes
  <2> QED BY <1>1, <1>9, <2>1 DEF Tick, InPass, InStack
<1>10. CASE StackReturns \/ RetentionWake
  BY <1>2, <1>10 DEF StackReturns, RetentionWake, InPass
<1>11. CASE Connect \/ AskReset \/ SetInterval \/ Subscribe
  BY <1>2, <1>11 DEF Connect, AskReset, SetInterval, Subscribe
<1>12. CASE Terminate \/ AdvTimeout
  <2>1. UNCHANGED <<now, pc, woken, tt, key>>
    BY <1>12 DEF Terminate, AdvTimeout
  <2> QED BY <1>2, <2>1
<1>13. CASE Notify \/ MeasureNothing \/ MeasureBattery \/ MeasureTemp
  BY <1>2, <1>13 DEF Notify, MeasureNothing, MeasureBattery, MeasureTemp, AfterMeasure
<1>14. CASE KeyDown \/ KeyHeld \/ KeyUp \/ KeyOff
  BY <1>2, <1>14 DEF KeyDown, KeyHeld, KeyUp, KeyOff
<1>15. CASE Press \/ Release
  <2>1. UNCHANGED <<now, pc, woken, tt, key>>
    BY <1>15 DEF Press, Release
  <2> QED BY <1>2, <2>1
<1> QED
  BY <1>4, <1>6, <1>7, <1>8, <1>9, <1>10, <1>11, <1>12, <1>13, <1>14, <1>15
  DEF Next, Pass, Stack

---------------------------------------------------------------------------
(* The factory reset *)

\* The settings were erased in this hold of the button, and the restart took it over.
ResetInv ==
  erased => /\ button /\ timerWakeUpTick = 0
            /\ pc # "boot" => keyPressed

LEMMA ResetInvNext ==
  ASSUME ResetInv, [Next]_vars
  PROVE  ResetInv'
<1> USE DEF ResetInv, Goto, measuring, key, client, history
<1>1. CASE UNCHANGED vars
  BY <1>1 DEF vars
<1>2. ASSUME Restart, button' = button, erased' = erased \/ button
      PROVE  ResetInv'
  BY <1>2 DEF Restart
<1>3. CASE TerminateReset \/ LowBattery \/ KeyReset \/ PowerLoss
  BY <1>2, <1>3 DEF TerminateReset, LowBattery, KeyReset, PowerLoss
<1>4. CASE Boot
  BY <1>4 DEF Boot, InitNormal
<1>5. CASE Top
  BY <1>5 DEF Top
<1>6. CASE Tick \/ StackReturns \/ RetentionWake
  BY <1>6 DEF Tick, StackReturns, RetentionWake, InStack
<1>7. CASE Connect \/ AskReset \/ SetInterval \/ Subscribe
  BY <1>7 DEF Connect, AskReset, SetInterval, Subscribe
<1>8. CASE Terminate \/ AdvTimeout
  BY <1>8 DEF Terminate, AdvTimeout
<1>9. CASE Notify \/ MeasureNothing \/ MeasureBattery \/ MeasureTemp
  BY <1>9 DEF Notify, MeasureNothing, MeasureBattery, MeasureTemp, AfterMeasure
<1>10. CASE KeyDown \/ KeyHeld \/ KeyUp \/ KeyOff
  BY <1>10 DEF KeyDown, KeyHeld, KeyUp, KeyOff
<1>11. CASE Press \/ Release
  BY <1>11 DEF Press, Release
<1> QED
  BY <1>1, <1>3, <1>4, <1>5, <1>6, <1>7, <1>8, <1>9, <1>10, <1>11
  DEF Next, Pass, Stack
\* What is left until the reset.
Remaining == Diff(timerWakeUpTick, now)

\* While the loop sees the button pressed, the time it was held and the time that is left
\* are together the time of a reset, and the stack is asked to wake up at its end.
HoldInv ==
  keyPressed /\ timerWakeUpTick # 0 =>
    /\ wakeup = timerWakeUpTick
    /\ held + Remaining \in (HOLD - Stall)..(HOLD + 1)

LEMMA HoldInvNext ==
  ASSUME ClockTypes, PassInv, HoldInv, [Next]_vars
  PROVE  HoldInv'
<1> USE Numbers DEF HoldInv, Goto, measuring, key, client, history
<1>1. UNCHANGED <<now, timerWakeUpTick, keyPressed, wakeup, held>> => HoldInv'
  BY DEF Remaining
<1>2. CASE UNCHANGED vars
  BY <1>1, <1>2 DEF vars
<1>3. CASE TerminateReset \/ LowBattery \/ KeyReset \/ PowerLoss
  BY <1>3 DEF TerminateReset, LowBattery, KeyReset, PowerLoss, Restart
<1>4. CASE Boot
  BY <1>4 DEF Boot, InitNormal, PassInv
<1>5. CASE Tick
  <2> SUFFICES ASSUME keyPressed, timerWakeUpTick # 0
               PROVE  HoldInv'
    BY <1>5 DEF Tick
  <2>1. now # timerWakeUpTick
    BY <1>5 DEF Tick
  <2>2. Remaining > 0 /\ Remaining' = Remaining - 1
    BY <1>5, <2>1, DiffShrinks DEF Tick, Remaining, ClockTypes
  <2>3. Remaining \in Nat
    BY DiffIs DEF Remaining, ClockTypes, Clock
  <2>4. held' = held + 1
    BY <1>5, <2>2, <2>3 DEF Tick, ClockTypes
  <2>5. UNCHANGED <<timerWakeUpTick, wakeup>>
    BY <1>5 DEF Tick
  <2> QED BY <2>2, <2>3, <2>4, <2>5 DEF ClockTypes
<1>6. CASE StackReturns \/ RetentionWake
  BY <1>1, <1>6 DEF StackReturns, RetentionWake
<1>7. CASE Connect \/ AskReset \/ SetInterval \/ Subscribe
  BY <1>1, <1>7 DEF Connect, AskReset, SetInterval, Subscribe
<1>8. CASE Terminate \/ AdvTimeout
  BY <1>1, <1>8 DEF Terminate, AdvTimeout
<1>9. CASE Top \/ Notify \/ MeasureNothing \/ MeasureBattery \/ MeasureTemp
  BY <1>1, <1>9 DEF Top, Notify, MeasureNothing, MeasureBattery, MeasureTemp
<1>10. CASE KeyDown
  <2>1. InPass <= Stall /\ InPass \in Nat
    BY <1>10, DiffIs DEF KeyDown, PassInv, InPass, ClockTypes, Clock
  <2>2. InPass = IF tt <= now THEN now - tt ELSE now - tt + Wrap
    BY DiffIs DEF InPass, ClockTypes
  <2>3. PICK due \in Clock : due = Add(tt, HOLD)
    BY AddIs DEF ClockTypes, Clock
  <2>4. due = IF tt + HOLD < Wrap THEN tt + HOLD ELSE tt + HOLD - Wrap
    BY <2>3, AddIs DEF ClockTypes, Clock
  <2>5. timerWakeUpTick' = IF due = 0 THEN 1 ELSE due
    BY <1>10, <2>3 DEF KeyDown, NonZero
  <2>6. timerWakeUpTick' \in Clock /\ now' = now /\ now \in Clock /\ tt \in Clock
    BY <1>10, <2>5 DEF KeyDown, ClockTypes, Clock
  <2>7. Remaining' = IF now <= timerWakeUpTick' THEN timerWakeUpTick' - now
                     ELSE timerWakeUpTick' - now + Wrap
    BY <2>6, DiffIs DEF Remaining
  <2>8. Remaining' = HOLD - InPass \/ Remaining' = HOLD - InPass + 1
    BY <2>1, <2>2, <2>4, <2>5, <2>6, <2>7 DEF Clock
  <2>9. held' = 0 /\ wakeup' = timerWakeUpTick'
    BY <1>10 DEF KeyDown
  <2> QED BY <2>1, <2>8, <2>9
<1>11. CASE KeyUp
  BY <1>11 DEF KeyUp
<1>12. CASE KeyHeld \/ KeyOff
  BY <1>1, <1>12 DEF KeyHeld, KeyOff
<1>13. CASE Press \/ Release
  BY <1>1, <1>13 DEF Press, Release
<1> QED
  BY <1>2, <1>3, <1>4, <1>5, <1>6, <1>7, <1>8, <1>9, <1>10, <1>11, <1>12, <1>13
  DEF Next, Pass, Stack

---------------------------------------------------------------------------
(* What is advertised and notified *)

\* What is on the air, unless a connection holds it back.
BeaconInv ==
  pc # "boot" /\ ~Connected =>
    IF adv.adv_event
    THEN adv.data = [opened |-> keyPressed, counter |-> keyCounter]
    ELSE /\ adv.data.temp = services.temp
         /\ adv.data.mv = services.mv \/ "VBAT_ADV" \in flg_update

LEMMA BeaconInvNext ==
  ASSUME FlagTypes, ValueTypes, PressTypes, BeaconInv, [Next]_vars
  PROVE  BeaconInv'
<1> USE DEF BeaconInv, Goto, measuring, key, client, history
<1>1. (pc' # "boot" => pc # "boot")
      /\ UNCHANGED <<bleConnected, adv, services, flg_update, keyPressed, keyCounter>>
      => BeaconInv'
  BY DEF Connected
<1>2. CASE UNCHANGED vars
  BY <1>1, <1>2 DEF vars
<1>3. CASE TerminateReset \/ LowBattery \/ KeyReset \/ PowerLoss
  BY <1>3 DEF TerminateReset, LowBattery, KeyReset, PowerLoss, Restart
<1>4. CASE Boot
  BY <1>4 DEF Boot, InitNormal, DataBeacon
<1>5. CASE Top
  BY <1>1, <1>5 DEF Top
<1>6. CASE Tick \/ StackReturns \/ RetentionWake
  BY <1>1, <1>6 DEF Tick, StackReturns, RetentionWake, InStack
<1>7. CASE SetInterval \/ Subscribe
  BY <1>1, <1>7 DEF SetInterval, Subscribe
<1>8. CASE Connect \/ AskReset
  BY <1>8 DEF Connect, AskReset, Connected
<1>9. CASE Terminate
  BY <1>9 DEF Terminate, app_set_work_adv, StartAdv, DataBeacon
<1>10. CASE AdvTimeout
  BY <1>10 DEF AdvTimeout, app_set_work_adv, app_set_connect_adv, StartAdv, DataBeacon
<1>11. CASE Notify
  <2>1. "VBAT_ADV" \in flg_update => "VBAT_ADV" \in flg_update'
    BY <1>11 DEF Notify, FlagTypes
  <2>2. UNCHANGED <<bleConnected, adv, services, keyPressed, keyCounter>> /\ pc # "boot"
    BY <1>11 DEF Notify
  <2> QED BY <2>1, <2>2 DEF Connected
<1>12. CASE MeasureNothing
  BY <1>1, <1>12 DEF MeasureNothing, AfterMeasure
<1>13. CASE MeasureBattery
  <2>1. services'.temp = services.temp /\ "VBAT_ADV" \in flg_update'
    BY <1>13 DEF MeasureBattery, ValueTypes, Values
  <2>2. UNCHANGED <<bleConnected, adv, keyPressed, keyCounter>> /\ pc # "boot"
    BY <1>13 DEF MeasureBattery
  <2> QED BY <2>1, <2>2 DEF Connected
<1>14. CASE MeasureTemp
  <2>1. adv' = IF Connected \/ adv.adv_event THEN adv
               ELSE [adv EXCEPT !.data = DataBeacon(services')]
    BY <1>14 DEF MeasureTemp
  <2>2. adv \in Advs
    BY <1>14 DEF MeasureTemp, ValueTypes
  <2>3. UNCHANGED <<bleConnected, keyPressed, keyCounter>> /\ pc # "boot"
    BY <1>14 DEF MeasureTemp
  <2> QED BY <2>1, <2>2, <2>3 DEF Connected, DataBeacon, Advs
<1>15. CASE KeyDown
  <2>1. UNCHANGED bleConnected /\ keyPressed' = TRUE /\ keyPressed = FALSE
    BY <1>15 DEF KeyDown, FlagTypes
  <2>2. CASE Connected
    BY <2>1, <2>2 DEF Connected
  <2>3. CASE ~Connected
    <3>1. StartAdv(TRUE, "event", EventBeacon(keyCounter'), TRUE)
      BY <1>15, <2>3 DEF KeyDown, AdvEvent, app_set_event_adv
    <3>2. adv'.adv_event = TRUE /\ adv'.data = EventBeacon(keyCounter')
      BY <3>1 DEF StartAdv
    <3> QED BY <2>1, <3>2 DEF EventBeacon
  <2> QED BY <2>2, <2>3
<1>16. CASE KeyUp
  <2>1. UNCHANGED bleConnected /\ UNCHANGED keyCounter /\ keyPressed' = FALSE /\ keyPressed = TRUE
    BY <1>16 DEF KeyUp, FlagTypes
  <2>2. CASE Connected
    BY <2>1, <2>2 DEF Connected
  <2>3. CASE ~Connected
    <3>1. StartAdv(TRUE, "event", EventBeacon(keyCounter), TRUE)
      BY <1>16, <2>3 DEF KeyUp, AdvEvent, app_set_event_adv
    <3>2. adv'.adv_event = TRUE /\ adv'.data = EventBeacon(keyCounter)
      BY <3>1 DEF StartAdv
    <3> QED BY <2>1, <3>2 DEF EventBeacon
  <2> QED BY <2>2, <2>3
<1>17. CASE KeyHeld \/ KeyOff
  BY <1>1, <1>17 DEF KeyHeld, KeyOff
<1>18. CASE Press \/ Release
  BY <1>1, <1>18 DEF Press, Release
<1> QED
  BY <1>2, <1>3, <1>4, <1>5, <1>6, <1>7, <1>8, <1>9, <1>10, <1>11, <1>12, <1>13, <1>14,
     <1>15, <1>16, <1>17, <1>18
  DEF Next, Pass, Stack

\* A value that the client is owed and that is not marked as new is the one that it was
\* notified of, and at the measurement behind it nothing is left to notify.
NotifyInv ==
  /\ Connected =>
       /\ "VBAT_NTF" \in owed \ flg_update => notified.mv = services.mv
       /\ "TEMP_NTF" \in owed \ flg_update => notified.temp = services.temp
  /\ pc = "measure" /\ Connected => ccc \cap flg_update = {}
  /\ pc = "boot" => ~Connected

LEMMA NotifyInvNext ==
  ASSUME FlagTypes, ValueTypes, NotifyInv, [Next]_vars
  PROVE  NotifyInv'
<1> USE DEF NotifyInv, Goto, measuring, key, client, history
<1>1. pc' \notin {"measure", "boot"} /\ UNCHANGED <<services, flg_update, notified, owed>>
      /\ (Connected' => Connected)
      => NotifyInv'
  OBVIOUS
<1>2. CASE UNCHANGED vars
  BY <1>2 DEF vars, Connected
<1>3. CASE TerminateReset \/ LowBattery \/ KeyReset \/ PowerLoss
  BY <1>3 DEF TerminateReset, LowBattery, KeyReset, PowerLoss, Restart, Connected
<1>4. CASE Boot
  <2>1. pc' = "top" /\ UNCHANGED bleConnected /\ pc = "boot"
    BY <1>4 DEF Boot, InitNormal
  <2> QED BY <2>1 DEF Connected
<1>5. CASE Top
  BY <1>5 DEF Top, Connected
<1>6. CASE Tick \/ StackReturns \/ RetentionWake
  BY <1>1, <1>6 DEF Tick, StackReturns, RetentionWake, InStack, Connected
<1>7. CASE AskReset \/ SetInterval \/ Subscribe
  BY <1>1, <1>7 DEF AskReset, SetInterval, Subscribe, InStack, Connected
<1>8. CASE AdvTimeout
  <2>1. InStack /\ UNCHANGED <<pc, services, flg_update, notified, owed, bleConnected>>
    BY <1>8 DEF AdvTimeout
  <2> QED BY <1>1, <2>1 DEF InStack, Connected
<1>9. CASE Connect \/ Terminate
  <2>1. InStack /\ pc' = pc /\ owed' = {}
    BY <1>9 DEF Connect, Terminate, ForgetClient
  <2> QED BY <2>1 DEF InStack
<1>10. CASE Notify
  <2>1. PICK refused \in Refusals(ccc \cap flg_update) :
          /\ notified' = [mv |-> IF "VBAT_NTF" \in (ccc \cap flg_update) \ refused
                                 THEN services.mv ELSE notified.mv,
                          temp |-> IF "TEMP_NTF" \in (ccc \cap flg_update) \ refused
                                   THEN services.temp ELSE notified.temp]
          /\ owed' = owed \ refused
    BY <1>10 DEF Notify
  <2>2. flg_update' = flg_update \ (ccc \cap flg_update)
        /\ pc' = "measure" /\ UNCHANGED <<ccc, services, bleConnected>>
    BY <1>10 DEF Notify
  <2> QED BY <2>1, <2>2 DEF Connected
<1>11. CASE MeasureNothing
  <2>1. pc' \notin {"measure", "boot"}
        /\ UNCHANGED <<services, flg_update, notified, owed, bleConnected>>
    BY <1>11 DEF MeasureNothing, AfterMeasure
  <2> QED BY <1>1, <2>1 DEF Connected
<1>12. CASE MeasureBattery \/ MeasureTemp
  <2>1. pc' \notin {"measure", "boot"} /\ UNCHANGED <<notified, bleConnected>>
    BY <1>12 DEF MeasureBattery, MeasureTemp, AfterMeasure
  <2>2. services \in Values
    BY <1>12 DEF MeasureBattery, MeasureTemp, ValueTypes
  <2>3. CASE MeasureBattery
    <3>1. services'.temp = services.temp /\ "VBAT_NTF" \in flg_update'
          /\ ("TEMP_NTF" \in flg_update' <=> "TEMP_NTF" \in flg_update)
          /\ ("TEMP_NTF" \in owed' <=> "TEMP_NTF" \in owed)
      BY <2>2, <2>3 DEF MeasureBattery, Owe, Values
    <3> QED BY <2>1, <3>1 DEF Connected
  <2>4. CASE MeasureTemp
    <3>1. services'.mv = services.mv /\ "TEMP_NTF" \in flg_update'
          /\ ("VBAT_NTF" \in flg_update' <=> "VBAT_NTF" \in flg_update)
          /\ ("VBAT_NTF" \in owed' <=> "VBAT_NTF" \in owed)
      BY <2>2, <2>4 DEF MeasureTemp, Owe, Values
    <3> QED BY <2>1, <3>1 DEF Connected
  <2> QED BY <1>12, <2>3, <2>4
<1>13. CASE KeyDown \/ KeyHeld \/ KeyUp \/ KeyOff
  BY <1>1, <1>13 DEF KeyDown, KeyHeld, KeyUp, KeyOff, Connected
<1>14. CASE Press \/ Release
  BY <1>14 DEF Press, Release, Connected
<1> QED
  BY <1>2, <1>3, <1>4, <1>5, <1>6, <1>7, <1>8, <1>9, <1>10, <1>11, <1>12, <1>13, <1>14
  DEF Next, Pass, Stack

---------------------------------------------------------------------------
(* The time between measurements *)

\* From the last measurement to the top of the pass.
Elapsed == Diff(tt, measureTick)

\* With i the longest interval: a measurement that was not due leaves less than the
\* interval, and one that is due waits for the stack of this pass, and of the next one
\* when the stack woke up from deep sleep.
TimeAt(i) ==
  /\ ~startMeasure /\ pc # "boot" =>
       /\ Elapsed < i \/ Elapsed = 0
       /\ since <= Elapsed + InPass
  /\ startMeasure =>
       /\ pc \in {"top", "sdk_conn", "notify", "measure"}
       /\ pc = "top" => woken
       /\ since < i + Stall + MaxSleep \/ since <= Stall + MaxSleep
       /\ pc = "sdk_conn" /\ ~woken =>
            since < i + Stall + InPass \/ since <= Stall + InPass
  /\ pc = "boot" => since = 0 /\ measureTick = 0 /\ ~startMeasure

Longest(i) == \A j \in Intervals : j <= i

TimeInv == IntervalsFit => \A i \in Intervals : Longest(i) => TimeAt(i)

\* The difference that `Due' looks at does not wrap.
LEMMA SinceLast ==
  ASSUME IntervalsFit,
         NEW i \in Intervals, ClockTypes, PassInv, Elapsed < i \/ Elapsed = 0
  PROVE  Diff(now, measureTick) = Elapsed + InPass
<1>1. i \in Nat /\ i + MaxSleep < Wrap
  BY LoopAssumption DEF IntervalsFit
<1>2. now \in Clock /\ tt \in Clock /\ measureTick \in Clock
  BY DEF ClockTypes
<1>3. Elapsed = IF measureTick <= tt THEN tt - measureTick ELSE tt - measureTick + Wrap
  BY <1>2, DiffIs DEF Elapsed
<1>4. InPass = IF tt <= now THEN now - tt ELSE now - tt + Wrap
  BY <1>2, DiffIs DEF InPass
<1>5. Diff(now, measureTick) =
        IF measureTick <= now THEN now - measureTick ELSE now - measureTick + Wrap
  BY <1>2, DiffIs
<1>6. InPass <= MaxSleep
  BY DEF PassInv
<1> QED BY <1>1, <1>2, <1>3, <1>4, <1>5, <1>6, Numbers DEF Clock

LEMMA TimeAtNext ==
  ASSUME IntervalsFit, NEW i \in Intervals, Longest(i),
         ClockTypes, FlagTypes, PassInv, TimeAt(i), [Next]_vars
  PROVE  TimeAt(i)'
<1> USE Numbers DEF TimeAt, Goto, measuring, key, client, history
<1>1. i \in Nat
  BY LoopAssumption
<1>2. InPass \in Nat /\ Elapsed \in Nat /\ since \in Nat /\ InPass <= MaxSleep
  <2>1. InPass \in Nat
    BY DiffIs DEF InPass, ClockTypes, Clock
  <2>2. Elapsed \in Nat
    BY DiffIs DEF Elapsed, ClockTypes, Clock
  <2> QED BY <2>1, <2>2 DEF ClockTypes, PassInv
<1>3. ASSUME NEW c \in Clock
      PROVE  Diff(c, c) = 0
  BY DiffIs DEF Clock
<1>4. ASSUME UNCHANGED <<now, pc, woken, tt, measureTick, startMeasure, since>>
      PROVE  TimeAt(i)'
  BY <1>4 DEF Elapsed, InPass
<1>5. CASE UNCHANGED vars
  BY <1>4, <1>5 DEF vars
<1>6. CASE TerminateReset \/ LowBattery \/ KeyReset \/ PowerLoss
  BY <1>6 DEF TerminateReset, LowBattery, KeyReset, PowerLoss, Restart
<1>7. CASE Boot
  <2>1. PICK d \in 0..Stall : now' = d /\ since' = d
    BY <1>7 DEF Boot, InitNormal
  <2>2. tt' = 0 /\ measureTick' = 0 /\ pc' = "top" /\ ~startMeasure'
    BY <1>7 DEF Boot, InitNormal, PassInv
  <2>3. InPass' = d
    BY <2>1, <2>2, DiffIs DEF InPass, Clock
  <2>4. Elapsed' = 0
    BY <1>3, <2>2 DEF Elapsed
  <2> QED BY <2>1, <2>2, <2>3, <2>4
<1>8. CASE Top
  <2>1. tt' = now /\ now' = now /\ now \in Clock /\ pc = "top" /\ UNCHANGED <<woken, since>>
        /\ pc' \in {"sdk_conn", "measure"}
    BY <1>8 DEF Top, ClockTypes
  <2>2. InPass' = 0
    BY <1>3, <2>1 DEF InPass
  <2>3. CASE startMeasure
    <3>1. startMeasure' /\ woken
      BY <1>8, <2>1, <2>3 DEF Top
    <3> QED BY <2>1, <2>3, <3>1
  <2>4. CASE ~startMeasure /\ Due
    <3>1. startMeasure' /\ Elapsed' = 0
      BY <1>3, <1>8, <2>1, <2>4 DEF Top, Elapsed
    <3>2. since < i + InPass \/ since <= InPass
      BY <1>1, <1>2, <2>1, <2>4
    <3>3. woken \/ InPass <= Stall
      BY <2>1 DEF PassInv
    <3> QED BY <1>1, <1>2, <2>1, <2>2, <3>1, <3>2, <3>3
  <2>5. CASE ~startMeasure /\ ~Due
    <3>1. ~startMeasure' /\ measureTick' = measureTick
      BY <1>8, <2>5 DEF Top
    <3>2. Elapsed' = Diff(now, measureTick)
      BY <2>1, <3>1 DEF Elapsed
    <3>3. Diff(now, measureTick) = Elapsed + InPass
      BY <2>1, <2>5, SinceLast
    <3>4. measureInterval \in Nat /\ measureInterval <= i
      BY LoopAssumption DEF ClockTypes, Longest
    <3>5. Elapsed' < i
      BY <1>1, <1>2, <2>5, <3>2, <3>3, <3>4 DEF Due
    <3> QED BY <1>2, <2>1, <2>2, <2>5, <3>1, <3>2, <3>3, <3>5
  <2> QED BY <2>3, <2>4, <2>5
<1>9. CASE Tick
  <2>1. InPass' = InPass + 1 /\ InPass + 1 <= MaxSleep
    BY <1>2, <1>9, DiffGrows DEF Tick, InPass, ClockTypes
  <2>2. Elapsed' = Elapsed /\ ~woken /\ InStack
        /\ UNCHANGED <<pc, woken, measureTick, startMeasure>>
    BY <1>9 DEF Tick, Elapsed
  <2>3. since' \in Nat /\ since' <= since + 1
    BY <1>2, <1>9 DEF Tick
  <2>4. CASE startMeasure
    BY <1>1, <1>2, <2>1, <2>2, <2>3, <2>4 DEF InStack
  <2>5. CASE ~startMeasure
    BY <1>1, <1>2, <2>1, <2>2, <2>3, <2>5 DEF InStack
  <2> QED BY <2>4, <2>5
<1>10. CASE StackReturns \/ RetentionWake
  <2>1. UNCHANGED <<now, tt, measureTick, startMeasure, since>> /\ InStack
    BY <1>10 DEF StackReturns, RetentionWake
  <2>2. UNCHANGED <<InPass, Elapsed>>
    BY <2>1 DEF InPass, Elapsed
  <2>3. \/ pc = "sdk_conn" /\ pc' = "notify"
        \/ pc = "sdk_adv" /\ pc' = "key"
        \/ pc' = "top" /\ woken'
    BY <1>10, <2>1 DEF StackReturns, RetentionWake, InStack
  <2> QED BY <2>1, <2>2, <2>3 DEF InStack
<1>11. CASE Connect \/ AskReset \/ SetInterval \/ Subscribe
  BY <1>4, <1>11 DEF Connect, AskReset, SetInterval, Subscribe
<1>12. CASE Terminate \/ AdvTimeout
  BY <1>4, <1>12 DEF Terminate, AdvTimeout
<1>13. CASE Notify \/ MeasureNothing
  <2>1. UNCHANGED <<now, tt, measureTick, startMeasure, since>>
    BY <1>13 DEF Notify, MeasureNothing
  <2>2. UNCHANGED <<InPass, Elapsed>>
    BY <2>1 DEF InPass, Elapsed
  <2>3. \/ pc' = "measure"
        \/ ~startMeasure /\ pc' \in {"key", "sdk_adv"}
    <3>1. Notify => pc' = "measure"
      BY DEF Notify
    <3>2. MeasureNothing => ~startMeasure /\ pc' \in {"key", "sdk_adv"}
      BY DEF MeasureNothing, AfterMeasure
    <3> QED BY <1>13, <3>1, <3>2
  <2>4. pc # "boot"
    BY <1>13 DEF Notify, MeasureNothing
  <2> QED BY <2>1, <2>2, <2>3, <2>4
<1>14. CASE MeasureBattery \/ MeasureTemp
  <2>1. ~startMeasure' /\ measureTick' = tt /\ tt' = tt /\ now' = now /\ since' = 0
        /\ pc' \in {"key", "sdk_adv"}
    BY <1>14 DEF MeasureBattery, MeasureTemp, AfterMeasure
  <2>2. Elapsed' = 0 /\ InPass' = InPass
    BY <1>3, <2>1 DEF Elapsed, InPass, ClockTypes
  <2> QED BY <1>2, <2>1, <2>2
<1>15. CASE KeyDown \/ KeyHeld \/ KeyUp \/ KeyOff
  <2>1. UNCHANGED <<now, tt, measureTick, startMeasure, since>> /\ pc = "key" /\ pc' = "top"
    BY <1>15 DEF KeyDown, KeyHeld, KeyUp, KeyOff
  <2>2. UNCHANGED <<InPass, Elapsed>>
    BY <2>1 DEF InPass, Elapsed
  <2> QED BY <2>1, <2>2
<1>16. CASE Press \/ Release
  BY <1>4, <1>16 DEF Press, Release
<1> QED
  BY <1>5, <1>6, <1>7, <1>8, <1>9, <1>10, <1>11, <1>12, <1>13, <1>14, <1>15, <1>16
  DEF Next, Pass, Stack

---------------------------------------------------------------------------
(* The properties *)

DeviceInv ==
  LoopInv /\ PassInv /\ ResetInv /\ HoldInv /\ BeaconInv /\ NotifyInv /\ TimeInv

LEMMA DeviceInvInit ==
  ASSUME Init
  PROVE  DeviceInv
<1> USE Numbers DEF Init
<1>1. ClockTypes
  BY DEF ClockTypes, None
<1>2. FlagTypes
  BY LoopAssumption DEF FlagTypes
<1>3. PressTypes /\ ValueTypes
  BY DEF PressTypes, ValueTypes, NoValues
<1>4. Diff(0, 0) = 0
  BY DiffIs
<1>5. PassInv
  BY <1>4 DEF PassInv, InPass
<1>6. ResetInv /\ HoldInv /\ BeaconInv /\ NotifyInv
  BY DEF ResetInv, HoldInv, BeaconInv, NotifyInv, Connected
<1>7. TimeInv
  BY DEF TimeInv, TimeAt
<1> QED BY <1>1, <1>2, <1>3, <1>5, <1>6, <1>7 DEF DeviceInv, LoopInv

LEMMA DeviceInvNext ==
  ASSUME DeviceInv, [Next]_vars
  PROVE  DeviceInv'
<1> USE DEF DeviceInv, LoopInv
<1>1. LoopInv'
  BY ClockTypesNext, FlagTypesNext, PressTypesNext, ValueTypesNext
<1>2. PassInv' /\ ResetInv' /\ HoldInv' /\ BeaconInv' /\ NotifyInv'
  BY PassInvNext, ResetInvNext, HoldInvNext, BeaconInvNext, NotifyInvNext
<1>3. TimeInv'
  <2>1. ASSUME IntervalsFit, NEW i \in Intervals, Longest(i)
        PROVE  TimeAt(i)'
    BY <2>1, TimeAtNext DEF TimeInv
  <2> QED BY <2>1 DEF TimeInv, Longest
<1> QED BY <1>1, <1>2, <1>3

\* The inductive invariant: the clock values and where a pass of main_loop stands in time,
\* what a hold of the button has come to, what is on the air and what the client has been
\* told, and how long ago the last measurement was.
THEOREM DeviceInvariant == Spec => []DeviceInv
BY DeviceInvInit, DeviceInvNext, PTL DEF Spec

\* The clock values of main_loop stay 32-bit values, and the flags and the advertising
\* are those that the code has.
THEOREM TypesKept == Spec => []TypeOK
<1>1. DeviceInv => TypeOK
  BY DEF DeviceInv, LoopInv, ClockTypes, FlagTypes, PressTypes, ValueTypes, TypeOK, Advs
<1> QED BY <1>1, DeviceInvariant, PTL

\* What set_bthome_data put on the air is what was measured last, but for a battery
\* voltage that the next measurement advertises.
THEOREM BeaconsAreCurrent == Spec => []BeaconCurrent
<1>1. DeviceInv => BeaconCurrent
  BY DEF DeviceInv, BeaconInv, BeaconCurrent
<1> QED BY <1>1, DeviceInvariant, PTL

\* What set_bthome_event put on the air is the button as main_loop saw it last.
THEOREM EventsShowKey == Spec => []EventShowsKey
<1>1. DeviceInv => EventShowsKey
  BY DEF DeviceInv, BeaconInv, EventShowsKey
<1> QED BY <1>1, DeviceInvariant, PTL

\* Behind the notifications of a pass, a client that has subscribed to a value was notified
\* of the newest one measured since it connected, unless the stack refused that one.
THEOREM ClientIsNotified == Spec => []NotifiedNewest
<1>1. DeviceInv => NotifiedNewest
  BY DEF DeviceInv, LoopInv, FlagTypes, NotifyInv, NotifiedNewest
<1> QED BY <1>1, DeviceInvariant, PTL

\* Measurements follow each other within the longest interval and two sleeps, wherever the
\* clock wraps in between, for the intervals that are shorter than its round by a sleep.
THEOREM MeasuresInTime ==
  ASSUME IntervalsFit
  PROVE  Spec => []MeasuredInTime
<1>1. ASSUME DeviceInv, NEW i \in Intervals, \A j \in Intervals : j <= i
      PROVE  since < i + 2 * MaxSleep
  <2>1. TimeAt(i)
    BY <1>1 DEF DeviceInv, TimeInv, Longest
  <2>2. i \in Nat /\ since \in Nat
    BY <1>1, LoopAssumption DEF DeviceInv, LoopInv, ClockTypes
  <2>3. InPass \in Nat /\ Elapsed \in Nat /\ InPass <= MaxSleep
    BY <1>1, DiffIs, Numbers
    DEF DeviceInv, LoopInv, ClockTypes, PassInv, InPass, Elapsed, Clock
  <2> QED BY <2>1, <2>2, <2>3, Numbers DEF TimeAt
<1>2. DeviceInv => MeasuredInTime
  BY <1>1 DEF MeasuredInTime
<1> QED BY <1>2, DeviceInvariant, PTL

\* The button is not held past the time of the reset.
THEOREM HoldEndsInReset == Spec => []HoldResets
<1>1. ASSUME DeviceInv
      PROVE  HoldResets
  <2>1. Remaining \in Nat
    BY <1>1, DiffIs, Numbers DEF DeviceInv, LoopInv, ClockTypes, Remaining, Clock
  <2> QED BY <1>1, <2>1, Numbers DEF DeviceInv, HoldInv, LoopInv, ClockTypes, HoldResets
<1> QED BY <1>1, DeviceInvariant, PTL

\* main_loop erases the settings only when the button was held for the time.
THEOREM ResetNeedsHold == Spec => ResetOnlyAfterHold
<1>1. ASSUME DeviceInv, KeyReset
      PROVE  held >= HOLD - Stall
  <2>1. timerWakeUpTick # 0 /\ keyPressed /\ Diff(now, timerWakeUpTick) < WINDOW
    BY <1>1 DEF KeyReset, ResetDue
  <2>2. now \in Clock /\ timerWakeUpTick \in Clock /\ held \in Nat
    BY <1>1, Numbers DEF DeviceInv, LoopInv, ClockTypes
  <2>3. held + Remaining \in (HOLD - Stall)..(HOLD + 1)
    BY <1>1, <2>1 DEF DeviceInv, HoldInv
  <2>4. Remaining = IF now <= timerWakeUpTick THEN timerWakeUpTick - now
                    ELSE timerWakeUpTick - now + Wrap
    BY <2>2, DiffIs DEF Remaining
  <2>5. Diff(now, timerWakeUpTick) =
          IF timerWakeUpTick <= now THEN now - timerWakeUpTick
          ELSE now - timerWakeUpTick + Wrap
    BY <2>2, DiffIs
  <2> QED BY <2>1, <2>2, <2>3, <2>4, <2>5, Numbers DEF Clock
<1>2. DeviceInv /\ [Next]_vars => [KeyReset => held >= HOLD - Stall]_vars
  BY <1>1
<1> QED BY <1>2, DeviceInvariant, PTL DEF Spec, ResetOnlyAfterHold

\* One hold of the button erases the settings at most once, also when the button is still
\* held after the restart.
THEOREM HoldErasesOnce == Spec => OneResetPerHold
<1>1. DeviceInv /\ [Next]_vars => [KeyReset => ~erased]_vars
  BY DEF DeviceInv, ResetInv, KeyReset, ResetDue
<1> QED BY <1>1, DeviceInvariant, PTL DEF Spec, OneResetPerHold
=============================================================================
