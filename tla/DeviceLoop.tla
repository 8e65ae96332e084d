----------------------------- MODULE DeviceLoop -----------------------------
(***************************************************************************)
(* The main loop of the device (app_main.c) with the events of the BLE     *)
(* stack (app_ble.c): measuring, what is advertised and notified, the      *)
(* button and the factory reset it makes when it is held.                  *)
(*                                                                         *)
(* A pass of main_loop is cut where it calls blc_sdk_main_loop: only there *)
(* do events of the stack arrive, and only there does time pass, since the *)
(* stack sleeps in it.  A short sleep (suspend) ends where it began; from  *)
(* a long one (deep sleep with retention) the chip comes back through main *)
(* to the top of main_loop, with the RAM as it was.                        *)
(*                                                                         *)
(* Clock values are modulo Wrap, as the 32-bit ticks are.  What a restart  *)
(* does is in Restart and Boot; the settings are those of DeviceConfig.    *)
(***************************************************************************)
EXTENDS Integers

CONSTANTS
  Wrap,         \* ticks until the clock is 0 again, 2^32
  HOLD,         \* how long the button is held for a factory reset, 15 s
  WINDOW,       \* BLT_TIMER_SAFE_MARGIN_POST, 4 s
  MaxSleep,     \* longest stay in the stack, an advertising interval
  Stall,        \* longest one that is not a deep sleep
  Intervals,    \* measuring intervals that can be configured
  Volts,        \* averages of the battery that allow to work
  Temps,        \* averages of the temperature
  Subscriptions, \* what a client subscribes to, sets of VBAT_NTF and TEMP_NTF
  MaxPresses,   \* bound of the counter of presses, for TLC
  Hands         \* states the button can be in

\* The stack returns in place from less than the retention threshold, 95 ms; it sleeps
\* up to an advertising interval.
ASSUME LoopAssumption ==
  /\ {Wrap, HOLD, WINDOW, MaxSleep, Stall, MaxPresses} \subseteq Nat
  /\ Intervals \subseteq Nat
  /\ Subscriptions \subseteq SUBSET {"VBAT_NTF", "TEMP_NTF"}
  /\ Hands \subseteq BOOLEAN
  /\ Stall < MaxSleep /\ MaxSleep < HOLD
  /\ WINDOW > 0 /\ HOLD + WINDOW < Wrap

VARIABLES
  now,              \* clock_time
  button,           \* the level of GPIO_KEY: is it pressed
  pc,               \* where in main_loop
  woken,            \* the stack woke up from deep sleep and has not returned since
  tt,               \* the clock at the top of main_loop
  measureTick,
  measureInterval,
  startMeasure,
  flg_update,       \* services.flg_update
  services,         \* battery_mv and temp
  ccc,              \* what a client has subscribed to, as its flag in flg_update
  notified,         \* the values last notified in this connection
  owed,             \* history: what was measured in this connection, but for what the
                    \* stack refused to notify
  bleConnected,     \* flags of the connection
  adv,              \* adv_buf and the advertising parameters
  timerWakeUpTick,  \* when the reset is due
  wakeup,           \* bls_pm_setAppWakeupLowPower, None: disabled
  keyPressed,       \* the button as main_loop saw it last
  keyCounter,
  since,            \* history: time since the last measurement or the start
  held,             \* history: for how long the button was seen pressed, since the start
  erased            \* history: this hold of the button has reset the device

measuring == <<measureTick, startMeasure, flg_update, services, notified, owed>>
key       == <<timerWakeUpTick, wakeup, keyPressed, keyCounter>>
client    == <<measureInterval, ccc>>
history   == <<since, held, erased>>
vars == <<now, button, pc, woken, tt, measuring, client, bleConnected, adv, key, history>>

None == -1

---------------------------------------------------------------------------
(* Helpers *)

\* The difference of two clock values, as a u32.
Diff(a, b) == (a - b) % Wrap

\* Mutant: the sum does not wrap.
AddWide(a, d) == a + d

Add(a, d) == (a + d) % Wrap

Connected == bleConnected # {}

Goto(label) == pc' = label

\* set_bthome_data and set_bthome_event; an event tells the opposite of what the loop
\* saw last, since main_loop makes it before it remembers what it sees now.
DataBeacon(s)      == [mv |-> s.mv, temp |-> s.temp]
EventBeacon(count) == [opened |-> ~keyPressed, counter |-> count]

\* app_start_adv; `limited': the stack has a duration of the advertising to watch.
StartAdv(isEvent, interval, beacon, limited) ==
  adv' = [adv_event |-> isEvent, interval |-> interval, data |-> beacon,
          limited |-> limited]

\* A duration of 0 is not passed to the stack: one that was set before stays.
app_set_work_adv(limited) ==
  StartAdv(FALSE, "work", DataBeacon(services), limited)

\* Mutant: without a duration.
app_set_connect_adv_forever == StartAdv(FALSE, "connect", DataBeacon(services), FALSE)

app_set_connect_adv == StartAdv(FALSE, "connect", DataBeacon(services), TRUE)

\* After a press the counter is already the new one.
app_set_event_adv(count) == StartAdv(TRUE, "event", EventBeacon(count), TRUE)

---------------------------------------------------------------------------
(* Start and restart *)

NoAdv     == [adv_event |-> FALSE, interval |-> "off", data |-> None, limited |-> FALSE]
NoValues  == [mv |-> 0, temp |-> 0]

Init ==
  /\ pc = "boot" /\ woken = FALSE /\ now = 0 /\ tt = 0
  /\ button \in Hands
  /\ measureTick = 0 /\ startMeasure = FALSE
  /\ measureInterval \in Intervals
  /\ flg_update = {} /\ services = NoValues /\ notified = NoValues /\ owed = {}
  /\ ccc = {} /\ bleConnected = {}
  /\ adv = NoAdv
  /\ timerWakeUpTick = 0 /\ wakeup = None /\ keyPressed = FALSE /\ keyCounter = 0
  /\ since = 0 /\ held = 0 /\ erased = FALSE

\* start_reboot, go_sleep or loss of power: RAM starts afresh, and the clock too.
Restart ==
  /\ Goto("boot") /\ woken' = FALSE /\ now' = 0 /\ tt' = 0
  /\ measureTick' = 0 /\ startMeasure' = FALSE
  /\ flg_update' = {} /\ services' = NoValues /\ notified' = NoValues /\ owed' = {}
  /\ ccc' = {} /\ bleConnected' = {}
  /\ adv' = NoAdv
  /\ timerWakeUpTick' = 0 /\ wakeup' = None /\ keyPressed' = FALSE /\ keyCounter' = 0
  /\ since' = 0 /\ held' = 0

\* The RAM that user_init_normal sets up once the battery was found good.
InitNormal ==
  /\ pc = "boot"
  /\ \E mv \in Volts, temp \in Temps, d \in 0..Stall :
       LET measured == [mv |-> mv, temp |-> temp] IN
         /\ services' = measured
         /\ adv' = [adv_event |-> FALSE, interval |-> "connect",
                    data |-> DataBeacon(measured), limited |-> TRUE]
         /\ now' = d
         /\ since' = d
  /\ flg_update' = {"VBAT_ADV", "VBAT_NTF", "TEMP_ADV", "TEMP_NTF"}
  /\ measureInterval' \in Intervals
  /\ Goto("top")
  /\ UNCHANGED <<button, woken, tt, measureTick, startMeasure, notified, owed, ccc,
                 bleConnected, timerWakeUpTick, wakeup, keyCounter, held, erased>>

\* Mutant: the button is taken to be released at the start.
BootKeyUp == InitNormal /\ keyPressed' = FALSE

\* user_init_normal; with a low battery the device sleeps on instead.  A button that is
\* held is no press.
Boot == InitNormal /\ keyPressed' = button

---------------------------------------------------------------------------
(* The top of main_loop: is a measurement due? *)

\* Mutant: the end of the interval is compared, not the difference.
DueByEnd == now >= Add(measureTick, measureInterval)

Due == Diff(now, measureTick) >= measureInterval

Top ==
  /\ pc = "top"
  /\ tt' = now
  /\ measureTick' = IF Due THEN now ELSE measureTick
  /\ startMeasure' = (Due \/ startMeasure)
  /\ Goto(IF Connected THEN "sdk_conn" ELSE "measure")
  /\ UNCHANGED <<now, button, woken, flg_update, services, notified, owed, client,
                 bleConnected, adv, key, history>>

---------------------------------------------------------------------------
(* blc_sdk_main_loop *)

InStack == pc \in {"sdk_conn", "sdk_adv"}

\* The stack sleeps no longer than MaxSleep, not past the wakeup the loop asked for,
\* not while the level of the button differs from the one the loop saw, and not twice
\* before it returns: woken up, it serves the radio and lets the loop go on.
Tick ==
  /\ InStack
  /\ ~woken
  /\ button = keyPressed
  /\ wakeup # now
  /\ Diff(now, tt) < MaxSleep
  /\ now' = Add(now, 1)
  /\ since' = IF since < 2 * Wrap THEN since + 1 ELSE since
  /\ held' = IF keyPressed /\ held < Wrap THEN held + 1 ELSE held
  /\ UNCHANGED <<button, pc, woken, tt, measuring, client, bleConnected, adv, key, erased>>

StackReturns ==
  /\ InStack
  /\ Diff(now, tt) <= Stall
  /\ Goto(IF pc = "sdk_conn" THEN "notify" ELSE "key")
  /\ woken' = FALSE
  /\ UNCHANGED <<now, button, tt, measuring, client, bleConnected, adv, key, history>>

\* From deep sleep through main and user_init_deepRetn; what main_loop does behind the
\* call does not happen in this pass.
RetentionWake ==
  /\ InStack
  /\ now # tt
  /\ Goto("top")
  /\ woken' = TRUE
  /\ UNCHANGED <<now, button, tt, measuring, client, bleConnected, adv, key, history>>

\* Another client knows nothing of what this one was notified of.
ForgetClient == notified' = NoValues /\ owed' = {}

\* BLT_EV_FLAG_CONNECT; the events that set further bits of bleConnected, which nothing
\* reads, are left out.
Connect ==
  /\ InStack
  /\ ~Connected
  /\ bleConnected' = {"enable"}
  /\ ForgetClient
  /\ UNCHANGED <<now, button, pc, woken, tt, measureTick, startMeasure, flg_update, services,
                 client, adv, key, history>>

\* A command that ends in a restart when the client disconnects.
AskReset ==
  /\ InStack
  /\ Connected
  /\ bleConnected' = bleConnected \cup {"reset"}
  /\ UNCHANGED <<now, button, pc, woken, tt, measuring, client, adv, key, history>>

\* The client writes a configuration descriptor, or a command changes the interval.
Subscribe ==
  /\ InStack
  /\ Connected
  /\ ccc' \in Subscriptions
  /\ UNCHANGED <<now, button, pc, woken, tt, measuring, measureInterval, bleConnected, adv, key,
                 history>>

SetInterval ==
  /\ InStack
  /\ Connected
  /\ measureInterval' \in Intervals
  /\ UNCHANGED <<now, button, pc, woken, tt, measuring, ccc, bleConnected, adv, key, history>>

\* Mutant: advertising goes on with what it was before the connection.
TerminateSilent ==
  /\ InStack
  /\ Connected /\ "reset" \notin bleConnected
  /\ bleConnected' = {}
  /\ ForgetClient
  /\ UNCHANGED <<now, button, pc, woken, tt, measureTick, startMeasure, flg_update, services,
                 client, adv, key, history>>

\* BLT_EV_FLAG_TERMINATE; flg_update stays, and what the client has subscribed to.
Terminate ==
  /\ InStack
  /\ Connected /\ "reset" \notin bleConnected
  /\ bleConnected' = {}
  /\ ForgetClient
  /\ app_set_work_adv(adv.limited)
  /\ UNCHANGED <<now, button, pc, woken, tt, measureTick, startMeasure, flg_update, services,
                 client, key, history>>

TerminateReset ==
  /\ InStack
  /\ "reset" \in bleConnected
  /\ Restart
  /\ UNCHANGED <<button, measureInterval, erased>>

\* BLT_EV_FLAG_ADV_DURATION_TIMEOUT
AdvTimeout ==
  /\ InStack
  /\ ~Connected /\ adv.limited
  /\ IF adv.adv_event THEN app_set_connect_adv ELSE app_set_work_adv(FALSE)
  /\ UNCHANGED <<now, button, pc, woken, tt, measuring, client, bleConnected, key, history>>

Stack ==
  \/ Tick \/ StackReturns \/ RetentionWake
  \/ Connect \/ AskReset \/ Subscribe \/ SetInterval
  \/ Terminate \/ TerminateReset \/ AdvTimeout

---------------------------------------------------------------------------
(* main_loop behind blc_sdk_main_loop: notifications and measurements *)

\* What the stack refuses to notify: it may have no room, and it refuses everything when
\* the connection has just ended.
Refusals(sent) == IF Connected THEN SUBSET sent ELSE {sent}

\* Both notifications, of the values of the last measurement.  The flag of a value is
\* cleared whatever blc_gatt_pushHandleValueNotify returns.
Notify ==
  LET sent == ccc \cap flg_update IN
    /\ pc = "notify"
    /\ flg_update' = flg_update \ sent
    /\ \E refused \in Refusals(sent) :
         LET taken == sent \ refused IN
           /\ notified' = [mv   |-> IF "VBAT_NTF" \in taken THEN services.mv ELSE notified.mv,
                           temp |-> IF "TEMP_NTF" \in taken THEN services.temp
                                    ELSE notified.temp]
           /\ owed' = owed \ refused
    /\ Goto("measure")
    /\ UNCHANGED <<now, button, woken, tt, measureTick, startMeasure, services, client,
                   bleConnected, adv, key, history>>

AfterMeasure == Goto(IF Connected THEN "key" ELSE "sdk_adv")

MeasureNothing ==
  /\ pc = "measure"
  /\ ~startMeasure
  /\ AfterMeasure
  /\ UNCHANGED <<now, button, woken, tt, measuring, client, bleConnected, adv, key, history>>

\* The client is owed what was measured, if clients subscribe to it at all.
Owe(value) ==
  owed' = IF Connected THEN owed \cup ({value} \cap UNION Subscriptions) ELSE owed

\* One pass measures the battery, the next one the temperature: VBAT_ADV tells which.
MeasureBattery ==
  /\ pc = "measure"
  /\ startMeasure /\ "VBAT_ADV" \notin flg_update
  /\ \E mv \in Volts : services' = [services EXCEPT !.mv = mv]
  /\ flg_update' = flg_update \cup {"VBAT_ADV", "VBAT_NTF"}
  /\ Owe("VBAT_NTF")
  /\ startMeasure' = FALSE /\ measureTick' = tt /\ since' = 0
  /\ AfterMeasure
  /\ UNCHANGED <<now, button, woken, tt, notified, client, bleConnected, adv, key, held, erased>>

\* go_sleep
LowBattery ==
  /\ pc = "measure"
  /\ startMeasure /\ "VBAT_ADV" \notin flg_update
  /\ Restart
  /\ UNCHANGED <<button, measureInterval, erased>>

\* Mutant: the values are taken to be notified, too.
MeasureTempAll ==
  /\ pc = "measure"
  /\ startMeasure /\ "VBAT_ADV" \in flg_update
  /\ \E temp \in Temps : services' = [services EXCEPT !.temp = temp]
  /\ flg_update' = {}
  /\ Owe("TEMP_NTF")
  /\ adv' = IF Connected \/ adv.adv_event THEN adv
            ELSE [adv EXCEPT !.data = DataBeacon(services')]
  /\ startMeasure' = FALSE /\ measureTick' = tt /\ since' = 0
  /\ AfterMeasure
  /\ UNCHANGED <<now, button, woken, tt, notified, client, bleConnected, key, held, erased>>

\* calk_temp, and what was measured is advertised unless an event is.
MeasureTemp ==
  /\ pc = "measure"
  /\ startMeasure /\ "VBAT_ADV" \in flg_update
  /\ \E temp \in Temps : services' = [services EXCEPT !.temp = temp]
  /\ flg_update' = (flg_update \cup {"TEMP_NTF"}) \ {"VBAT_ADV", "TEMP_ADV"}
  /\ Owe("TEMP_NTF")
  /\ adv' = IF Connected \/ adv.adv_event THEN adv
            ELSE [adv EXCEPT !.data = DataBeacon(services')]
  /\ startMeasure' = FALSE /\ measureTick' = tt /\ since' = 0
  /\ AfterMeasure
  /\ UNCHANGED <<now, button, woken, tt, notified, client, bleConnected, key, held, erased>>

---------------------------------------------------------------------------
(* The end of main_loop: the button *)

\* `| 1': a tick that is not 0.
NonZero(tick) == IF tick = 0 THEN 1 ELSE tick

\* Mutant: it is due up to WINDOW before its time.
ResetDueEarly == timerWakeUpTick # 0 /\ Diff(timerWakeUpTick, now) < WINDOW

\* The code lets a wakeup be early by BLT_TIMER_SAFE_MARGIN_PRE, 128 us; a tick of the
\* model is longer than that.
ResetDue == timerWakeUpTick # 0 /\ Diff(now, timerWakeUpTick) < WINDOW

AdvEvent(count) == IF Connected THEN UNCHANGED adv ELSE app_set_event_adv(count)

\* Mutant: the stack is not asked to wake up.
KeyDownNoWakeup ==
  /\ pc = "key" /\ button /\ ~keyPressed
  /\ timerWakeUpTick' = NonZero(Add(tt, HOLD))
  /\ keyCounter' = keyCounter + 1
  /\ AdvEvent(keyCounter')
  /\ keyPressed' = TRUE /\ held' = 0
  /\ Goto("top")
  /\ UNCHANGED <<now, button, woken, tt, measuring, client, bleConnected, wakeup, since, erased>>

KeyDown ==
  /\ pc = "key" /\ button /\ ~keyPressed
  /\ timerWakeUpTick' = NonZero(Add(tt, HOLD))
  /\ wakeup' = timerWakeUpTick'
  /\ keyCounter' = keyCounter + 1
  /\ AdvEvent(keyCounter')
  /\ keyPressed' = TRUE /\ held' = 0
  /\ Goto("top")
  /\ UNCHANGED <<now, button, woken, tt, measuring, client, bleConnected, since, erased>>

KeyHeld ==
  /\ pc = "key" /\ button /\ keyPressed
  /\ ~ResetDue
  /\ Goto("top")
  /\ UNCHANGED <<now, button, woken, tt, measuring, client, bleConnected, adv, key, history>>

\* flash_erase_all_cfg, start_reboot
KeyReset ==
  /\ pc = "key" /\ button /\ keyPressed
  /\ ResetDue
  /\ erased' = TRUE
  /\ Restart
  /\ UNCHANGED <<button, measureInterval>>

\* Mutant: a release is not advertised.
KeyUpNoEvent ==
  /\ pc = "key" /\ ~button /\ keyPressed
  /\ timerWakeUpTick' = 0 /\ wakeup' = None
  /\ keyPressed' = FALSE /\ held' = 0
  /\ Goto("top")
  /\ UNCHANGED <<now, button, woken, tt, measuring, client, bleConnected, adv, keyCounter, since,
                 erased>>

KeyUp ==
  /\ pc = "key" /\ ~button /\ keyPressed
  /\ AdvEvent(keyCounter)
  /\ timerWakeUpTick' = 0 /\ wakeup' = None
  /\ keyPressed' = FALSE /\ held' = 0
  /\ Goto("top")
  /\ UNCHANGED <<now, button, woken, tt, measuring, client, bleConnected, keyCounter, since,
                 erased>>

KeyOff ==
  /\ pc = "key" /\ ~button /\ ~keyPressed
  /\ Goto("top")
  /\ UNCHANGED <<now, button, woken, tt, measuring, client, bleConnected, adv, key, history>>

Pass ==
  \/ Top \/ Notify
  \/ MeasureNothing \/ MeasureBattery \/ LowBattery \/ MeasureTemp
  \/ KeyDown \/ KeyHeld \/ KeyReset \/ KeyUp \/ KeyOff

---------------------------------------------------------------------------
(* The world outside, and the specification *)

Press ==
  /\ ~button /\ TRUE \in Hands /\ keyCounter < MaxPresses
  /\ button' = TRUE
  /\ UNCHANGED <<now, pc, woken, tt, measuring, client, bleConnected, adv, key, history>>

Release ==
  /\ button /\ FALSE \in Hands
  /\ button' = FALSE
  /\ erased' = FALSE
  /\ UNCHANGED <<now, pc, woken, tt, measuring, client, bleConnected, adv, key, since, held>>

PowerLoss ==
  /\ pc # "boot"
  /\ Restart
  /\ UNCHANGED <<button, measureInterval, erased>>

Next == Boot \/ Pass \/ Stack \/ Press \/ Release \/ PowerLoss

Spec == Init /\ [][Next]_vars

\* The processor goes on, the stack sleeps for a while only, and it ends an advertising
\* whose duration was limited.
Fairness ==
  /\ WF_vars(Boot) /\ WF_vars(Pass)
  /\ SF_vars(StackReturns)
  /\ SF_vars(AdvTimeout)

FairSpec == Spec /\ Fairness
---------------------------------------------------------------------------
(* Properties *)

Clock   == 0..(Wrap - 1)
Beacons == [mv : Volts, temp : Temps] \cup [opened : BOOLEAN, counter : 0..MaxPresses]

\* Clock values stay 32-bit values, and the flags and the advertising are those the code
\* has (main_loop, app_start_adv).
TypeOK ==
  /\ pc \in {"boot", "top", "sdk_conn", "notify", "measure", "sdk_adv", "key"}
  /\ {now, tt, measureTick, timerWakeUpTick} \subseteq Clock
  /\ wakeup \in {None} \cup Clock
  /\ {woken, button, startMeasure, keyPressed, erased} \subseteq BOOLEAN
  /\ measureInterval \in Intervals
  /\ flg_update \subseteq {"VBAT_ADV", "VBAT_NTF", "TEMP_ADV", "TEMP_NTF"}
  /\ {ccc, owed} \subseteq SUBSET {"VBAT_NTF", "TEMP_NTF"}
  /\ bleConnected \subseteq {"enable", "reset"}
  /\ keyCounter \in 0..MaxPresses
  /\ adv = NoAdv \/ /\ adv.interval \in {"connect", "event", "work"}
                    /\ adv.data \in Beacons
  /\ held \in 0..Wrap /\ since \in 0..(2 * Wrap)

\* Advertised values: when the device advertises what it measured, it is what was
\* measured last, but for a battery voltage that the next measurement is going to
\* advertise.  Measurements made in a connection or during an event are not lost.
BeaconCurrent ==
  pc = "top" /\ ~Connected /\ ~adv.adv_event =>
    /\ adv.data.temp = services.temp
    /\ adv.data.mv = services.mv \/ "VBAT_ADV" \in flg_update

\* An event on the air shows the button as the loop saw it last, and its counter.
EventShowsKey ==
  pc = "top" /\ ~Connected /\ adv.adv_event =>
    adv.data = [opened |-> keyPressed, counter |-> keyCounter]

\* Behind the notifications of a pass, a client that has subscribed to a value was notified
\* of the newest one that was measured since it connected, but for one that the stack
\* refused: main_loop never tries again.
NotifiedNewest ==
  pc = "measure" /\ Connected =>
    /\ "VBAT_NTF" \in ccc \cap owed => notified.mv = services.mv
    /\ "TEMP_NTF" \in ccc \cap owed => notified.temp = services.temp

\* No difference of clock values that main_loop takes to see whether a measurement is due
\* comes near to the wrap: (measuredIntervals + 1) * advInterval is at most 429496, in the
\* units of 0.625 ms of dev_cfg.  test_dev_cfg does not see to it.
IntervalsFit == \A i \in Intervals : i + MaxSleep < Wrap

\* The time between measurements stays within the longest interval and two sleeps (the
\* second one when a connection keeps the loop in the stack once a measurement is due),
\* across the wraps of the clock, in connections, events and after a change of the interval;
\* for IntervalsFit.
MeasuredInTime ==
  \A i \in Intervals : (\A j \in Intervals : j <= i) => since < i + 2 * MaxSleep

\* The settings are erased only when the button was held for HOLD, less the time the
\* loop was in the stack when it was pressed.
ResetOnlyAfterHold == [][KeyReset => held >= HOLD - Stall]_vars

\* Who holds the button is not kept waiting: there is no way past the window in which
\* the reset is due.
HoldResets == timerWakeUpTick # 0 /\ keyPressed => held <= HOLD + 1

\* One hold resets the device at most once, also when it lasts through the restart.
OneResetPerHold == [][KeyReset => ~erased]_vars

\* The fast advertising that a start or an event begins ends, with a connection at the
\* latest, when the button is not pressed again and again (MaxPresses): an event leads
\* through the connectable advertising to the working one.
FastAdvEnds == []<>(pc = "boot" \/ Connected \/ adv.interval = "work")
=============================================================================
