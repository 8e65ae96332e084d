----------------------------- MODULE SoftTimer -----------------------------
(***************************************************************************)
(* The software timers of the SDK (blt_soft_timer.c): a table ordered by   *)
(* the time of the next call, run by a pass of the main loop, and one      *)
(* wakeup from sleep for the first of them.                                *)
(*                                                                         *)
(* Ticks are those of the 32-bit system timer and wrap.  A pass is made    *)
(* when the stack wakes the device, MaxGap ticks after the last one at the *)
(* latest, and when the wakeup does; a callback may end its timer, keep    *)
(* the interval or set another one.                                        *)
(***************************************************************************)
EXTENDS Integers, SequencesExt

CONSTANTS
  Callbacks,
  Intervals,
  MAX_TIMER_NUM,
  Wrap,            \* ticks of the system timer, 2^32; a quarter of them is BIT(30)
  PRE,             \* BLT_TIMER_SAFE_MARGIN_PRE
  POST,            \* BLT_TIMER_SAFE_MARGIN_POST, 4 s
  PROCESS_WINDOW,  \* 3 s
  DELETE_WINDOW,   \* 5 s
  MaxGap,          \* ticks between two passes
  Stall,           \* ticks that a pass may come after the wakeup
  Off              \* no wakeup

ASSUME SoftTimerAssumption ==
  /\ {MAX_TIMER_NUM, Wrap, MaxGap} \subseteq Nat \ {0} /\ Wrap % 4 = 0
  /\ {PRE, POST, PROCESS_WINDOW, DELETE_WINDOW} \subseteq 0..(Wrap \div 4)
  /\ Intervals \subseteq 1..(Wrap \div 4) /\ Off \notin 0..(Wrap - 1)

VARIABLES
  now,       \* clock_time()
  gap,       \* ticks since the last pass
  timer,     \* blt_timer.timer, the first currentNum of them
  wakeup,    \* of bls_pm_setAppWakeupLowPower
  at,        \* where the loop of blt_soft_timer_process is, 0: it does not run
  change     \* change_flg

vars == <<now, gap, timer, wakeup, at, change>>

Ticks  == 0..(Wrap - 1)
Events == [cb : Callbacks, t : Ticks, interval : Intervals]

---------------------------------------------------------------------------
(* Times *)

Minus(t, u) == (t - u) % Wrap
Plus(t, d)  == (t + d) % Wrap

\* TIME_COMPARE_BIG
Big(t1, t2) == Minus(t1, t2) < Wrap \div 4

\* blt_is_timer_expired
Expired(t) == Minus(now + PRE, t) < POST

Late(t) == IF Minus(now, t) < Wrap \div 2 THEN Minus(now, t) ELSE 0

---------------------------------------------------------------------------
(* The table *)

Swapped(events, j) == [events EXCEPT ![j] = events[j + 1], ![j + 1] = events[j]]

Bubble(events, j) ==
  IF Big(events[j].t, events[j + 1].t) THEN Swapped(events, j) ELSE events

\* The loop over j, of round i
Round(events, i) == FoldLeft(Bubble, events, [j \in 1..(Len(events) - i) |-> j])

\* Mutant: one round of the sort is missing.
SortLess(events) == FoldLeft(Round, events, [i \in 1..(Len(events) - 2) |-> i + 1])

\* blt_soft_timer_sort
Sort(events) == FoldLeft(Round, events, [i \in 1..(Len(events) - 1) |-> i])

\* The wakeup for the first timer, when it is not late and not too far away.
WakeupWithin(events, window) ==
  IF events # <<>> /\ Minus(events[1].t, now) < window THEN events[1].t ELSE Off

\* Mutant: the timer behind the last one.
AddOver(cb, interval) ==
  /\ at = 0
  /\ Len(timer) <= MAX_TIMER_NUM
  /\ timer' = Sort(Append(timer, [cb |-> cb, t |-> Plus(now, interval), interval |-> interval]))
  /\ wakeup' = timer'[1].t
  /\ UNCHANGED <<now, gap, at, change>>

\* blt_soft_timer_add
Add(cb, interval) ==
  /\ at = 0
  /\ Len(timer) < MAX_TIMER_NUM
  /\ timer' = Sort(Append(timer, [cb |-> cb, t |-> Plus(now, interval), interval |-> interval]))
  /\ wakeup' = timer'[1].t
  /\ UNCHANGED <<now, gap, at, change>>

\* The timer that blt_soft_timer_delete finds: the first one of the callback.
HasTimer(cb) == \E k \in DOMAIN timer : timer[k].cb = cb
TimerOf(cb)  == SelectInSeq(timer, LAMBDA event : event.cb = cb)

\* Mutant: the wakeup stays.
DeleteSilent(cb) ==
  /\ at = 0
  /\ HasTimer(cb) /\ timer' = RemoveAt(timer, TimerOf(cb))
  /\ UNCHANGED <<now, gap, wakeup, at, change>>

\* blt_soft_timer_delete
Delete(cb) ==
  /\ at = 0
  /\ HasTimer(cb)
  /\ timer' = RemoveAt(timer, TimerOf(cb))
  /\ wakeup' = IF TimerOf(cb) = 1 THEN WakeupWithin(timer', DELETE_WINDOW) ELSE wakeup
  /\ UNCHANGED <<now, gap, at, change>>

---------------------------------------------------------------------------
(* blt_soft_timer_process *)

\* Mutant: the last timer is looked at.
LastExpired == timer # <<>> /\ Expired(timer[Len(timer)].t)

FirstExpired == timer # <<>> /\ Expired(timer[1].t)

\* A pass finds nothing to do; with an empty table it takes the wakeup back.
ProcessNothing ==
  /\ at = 0 /\ ~FirstExpired
  /\ wakeup' = IF timer = <<>> THEN Off ELSE wakeup
  /\ gap' = 0
  /\ UNCHANGED <<now, timer, at, change>>

ProcessBegin ==
  /\ at = 0 /\ FirstExpired
  /\ at' = 1 /\ change' = FALSE
  /\ gap' = 0
  /\ UNCHANGED <<now, timer, wakeup>>

Due == at \in DOMAIN timer /\ Expired(timer[at].t)

Pass ==
  /\ at \in DOMAIN timer /\ ~Due
  /\ at' = at + 1
  /\ UNCHANGED <<now, gap, timer, wakeup, change>>

\* The callback returns less than 0: the next timer moves to where the loop is, and the
\* loop goes on behind it.
CallEnds ==
  /\ Due
  /\ timer' = RemoveAt(timer, at)
  /\ at' = at + 1
  /\ UNCHANGED <<now, gap, wakeup, change>>

\* It returns a new interval, or 0 to keep the one it has.
CallAgain ==
  /\ Due
  /\ \E d \in Intervals :
       timer' = [timer EXCEPT ![at].t = Plus(now, d), ![at].interval = d]
  /\ at' = at + 1 /\ change' = TRUE
  /\ UNCHANGED <<now, gap, wakeup>>

ProcessEnd ==
  /\ at > Len(timer)
  /\ timer' = IF change THEN Sort(timer) ELSE timer
  /\ wakeup' = WakeupWithin(timer', PROCESS_WINDOW)
  /\ at' = 0
  /\ UNCHANGED <<now, gap, change>>

\* The device sleeps, until the wakeup or something of the stack.
Tick ==
  /\ at = 0
  /\ gap < MaxGap /\ (wakeup # Off => Minus(now, wakeup) # Stall)
  /\ now' = Plus(now, 1) /\ gap' = gap + 1
  /\ UNCHANGED <<timer, wakeup, at, change>>

---------------------------------------------------------------------------
Init ==
  /\ now = 0 /\ gap = 0
  /\ timer = <<>> /\ wakeup = Off
  /\ at = 0 /\ change = FALSE

Next ==
  \/ \E cb \in Callbacks : Delete(cb) \/ \E d \in Intervals : Add(cb, d)
  \/ ProcessNothing \/ ProcessBegin \/ Pass \/ CallEnds \/ CallAgain \/ ProcessEnd
  \/ Tick

Spec == Init /\ [][Next]_vars
---------------------------------------------------------------------------
(* Properties *)

\* The table has at most MAX_TIMER_NUM timers and the loop ends behind the last of them;
\* the wakeup is a time of the timer (blt_soft_timer_add, blt_soft_timer_process).
TypeOK ==
  /\ now \in Ticks /\ gap \in 0..MaxGap
  /\ timer \in Seq(Events) /\ Len(timer) <= MAX_TIMER_NUM
  /\ wakeup \in Ticks \cup {Off}
  /\ at \in 0..(MAX_TIMER_NUM + 1) /\ change \in BOOLEAN

\* A condition on the user of the timers, which blt_soft_timer.c does not see to.  The loop
\* can skip a timer in one pass after another, but only behind another one that ends: with
\* MAX_TIMER_NUM timers it is called within as many passes as there are gaps in the 4 s, if
\* the passes are 1.33 s apart at most.  feature_soft_timer/app.c, the one program with
\* timers, advertises every 30 to 35 ms and asks for connections with a pass each second;
\* with sleeps of several seconds and no wakeup, timers do get lost.  And all timers of the
\* table lie within a quarter of the wrap, so that their differences order them.
InTime ==
  /\ (MAX_TIMER_NUM \div 2 + 1) * MaxGap <= POST
  /\ \A d \in Intervals : PRE < d /\ d + POST - PRE <= Wrap \div 4
  /\ PROCESS_WINDOW <= DELETE_WINDOW

\* Between two passes the timers are in the order of their times, whatever was added,
\* deleted, called or skipped and wherever the tick wraps: blt_soft_timer_process looks
\* at the first one only to know whether there is something to do.
InTurn == at = 0 => \A i, j \in DOMAIN timer : i < j => Big(timer[j].t, timer[i].t)

\* Between two passes a wakeup that is set is the one of the first timer: none is left
\* behind by a timer that was deleted or ended, and none is later than the first one.  No
\* wakeup is set only when there is no timer, when the first one is late, or when its
\* interval is not below the 3 s of blt_soft_timer_process.
Armed ==
  at = 0 =>
    IF wakeup # Off THEN timer # <<>> /\ wakeup = timer[1].t
    ELSE timer = <<>> \/ Late(timer[1].t) > 0 \/ timer[1].interval >= PROCESS_WINDOW

\* A timer whose time has come counts as expired until it is called: although the loop
\* skips the one behind a timer that ends, and then sets no wakeup for it, none gets so late
\* that blt_is_timer_expired takes it for one to come.  For InTime.
NeverLost == \A k \in DOMAIN timer : Late(timer[k].t) > 0 => Expired(timer[k].t)
=============================================================================
