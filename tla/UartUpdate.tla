----------------------------- MODULE UartUpdate -----------------------------
(***************************************************************************)
(* The firmware update by wire (vendor/2_4g_feature/uart_fw_update): the   *)
(* dialogue of RadioOta over a UART, where a device hears the other one at *)
(* any time.  A frame is put into a queue by the interrupt, as a pointer   *)
(* to one of three buffers, and a timer of timer_event.c puts a timeout    *)
(* into the same queue: what comes late or twice is handled all the same.  *)
(***************************************************************************)
EXTENDS UpdateFlash

CONSTANTS
  FW_UPDATE_RETRY_MAX,
  MSG_QUEUE_LEN,
  PHY_RX_BUF_NUM,
  MaxLost,        \* bound: frames lost or damaged since the master began
  MaxRaces,       \* bound: timeouts while an answer is on its way, since then
  AfterMisread    \* bound: whether a master begins again once bytes were misread

ASSUME UartAssumption ==
  /\ {FW_UPDATE_RETRY_MAX, MaxLost, MaxRaces} \subseteq Nat
  /\ {MSG_QUEUE_LEN, PHY_RX_BUF_NUM} \subseteq Nat \ {0} /\ AfterMisread \in BOOLEAN

VARIABLES
  master,     \* MasterCtrl, with TxFrame
  slave,      \* SlaveCtrl, with TxFrame
  air,        \* the frame each device is sending; it waits until that is out
  queue,      \* MsgQueue of each device, with what the messages point to
  timers,     \* the devices whose FW_UPDATE_rspWaitTimer runs, in the order of their start
  lost,       \* history: frames lost since the master began
  races,      \* history: timeouts that raced with an answer since then
  upset,      \* history: a time limit has ended a state
  misread     \* history: bytes have been handled that are not those of a frame

vars == <<flash, locked, master, slave, air, queue, timers, lost, races, upset, misread>>

memory  == <<flash, locked>>
link    == <<air, queue, timers>>
history == <<lost, races, upset>>

Devices  == {"master", "slave"}
Other(d) == IF d = "master" THEN "slave" ELSE "master"

MasterWaits ==
  master.state \in {"FW_VER_WAIT", "START_RSP_WAIT", "DATA_ACK_WAIT", "END_RSP_WAIT"}

SlaveWaits == slave.state \in {"FW_VERSION_READY", "START_READY", "DATA_READY", "END_READY"}

\* Only what comes to a device that is updating, or about to, is ever handled.
Listening(d) == IF d = "master" THEN MasterWaits ELSE SlaveWaits \/ slave.state = "INIT"

---------------------------------------------------------------------------
(* Frames, messages and the queue *)

Frame(kind, num, data) == [kind |-> kind, num |-> num, data |-> data]
Command(kind, value)   == Frame(kind, value, Blank)
Ack(num)               == Frame("ACK", num, Blank)
NoFrame                == Frame("NONE", 0, Blank)

\* What stands in a buffer after a frame with a wrong check sum.
Damaged                == Frame("DAMAGED", 0, Blank)

Kinds == {"VERSION_REQ", "VERSION_RSP", "START_REQ", "START_RSP", "DATA", "ACK",
          "END_REQ", "END_RSP", "NONE"}

\* What such bytes may be taken for: any type and number, with the data of a block of the
\* image or others.  (Their length is taken to be right.)
Parts     == {Garbled} \cup {Content(Offered, k) : k \in Positions}
Unchecked == [kind : Kinds, num : 0..(Blocks + 1) \cup Versions, data : Parts]

\* after: how many frames have come since
Message(type, frame) == [type |-> type, frame |-> frame, after |-> 0]

\* FW_UPDATE_MsgQueuePush; a full queue drops the message.
Pushed(messages, message) ==
  IF Len(messages) < MSG_QUEUE_LEN THEN Append(messages, message) ELSE messages

\* The buffers are used in turn: a frame overwrites the one that came PHY_RX_BUF_NUM
\* before it, also when that one still waits in the queue.
Overwritten(messages, frame) ==
  [i \in DOMAIN messages |->
     LET m == messages[i] IN
       IF m.type # "DATA" THEN m
       ELSE IF m.after = PHY_RX_BUF_NUM - 1 THEN Message("DATA", frame)
       ELSE [m EXCEPT !.after = @ + 1]]

\* FW_UPDATE_PHY_RxIrqHandler and FW_UPDATE_RxIrq, with a frame whose check sum is right
\* or is not.
Arrived(d, type, frame) ==
  [queue EXCEPT ![d] = Pushed(Overwritten(@, frame), Message(type, frame))]

Sending(d)  == air[d].kind # "NONE"
Received(d) == ~Sending(d) /\ queue[d] # <<>>
Msg(d)      == Head(queue[d])
Popped(d)   == [queue EXCEPT ![d] = Tail(@)]
Emptied(d)  == [queue EXCEPT ![d] = <<>>]

\* The check sum is tested when a frame arrives, not when its message is handled: by then
\* the buffer may hold a damaged frame, or the DMA be writing the next one into it.
Intact(d) ==
  Msg(d).type = "DATA" =>
    Msg(d).frame # Damaged /\ ~(Msg(d).after = PHY_RX_BUF_NUM - 1 /\ Sending(Other(d)))

\* RxFrame
Seen(d)  == IF Intact(d) THEN {Msg(d).frame} ELSE Unchecked
Read(d)  == misread' = (misread \/ ~Intact(d))
Taken(d) == queue' = Popped(d) /\ Read(d)

\* ev_unon_timer and ev_on_timer
Without(d)   == SelectSeq(timers, LAMBDA e : e # d)
Restarted(d) == Append(Without(d), d)

\* FW_UPDATE_PHY_SendData, and the timer for the answer.
Send(d, frame) ==
  /\ air' = [air EXCEPT ![d] = frame]
  /\ timers' = Restarted(d)

Wait(d) ==
  /\ timers' = Restarted(d)
  /\ UNCHANGED air

StopTimer(d) ==
  /\ timers' = Without(d)
  /\ UNCHANGED air

---------------------------------------------------------------------------
(* The wire and the timer *)

Out(d) ==
  /\ Sending(d)
  /\ air' = [air EXCEPT ![d] = NoFrame]

Deliver(d) ==
  /\ Out(d)
  /\ queue' = IF Listening(Other(d)) THEN Arrived(Other(d), "DATA", air[d]) ELSE queue
  /\ UNCHANGED <<memory, master, slave, timers, history, misread>>

Damage(d) ==
  /\ Out(d)
  /\ Listening(Other(d))
  /\ lost < MaxLost /\ lost' = lost + 1
  /\ queue' = Arrived(Other(d), "INVALID", Damaged)
  /\ UNCHANGED <<memory, master, slave, timers, races, upset, misread>>

\* Nothing of the frame arrives.
Lose(d) ==
  /\ Out(d)
  /\ Listening(Other(d))
  /\ lost < MaxLost /\ lost' = lost + 1
  /\ UNCHANGED <<memory, master, slave, queue, timers, races, upset, misread>>

\* Something that the other device has still to say, or has said.
UnderWay(d) ==
  \/ queue[d] # <<>> \/ Sending(Other(d))
  \/ queue[Other(d)] # <<>> /\ (IF d = "master" THEN SlaveWaits ELSE MasterWaits)

\* Both last a second, and the one that was started first ends first; a slave that waits
\* for its first frame does so for 5 s.
Due(d) ==
  /\ \E i \in DOMAIN timers : timers[i] = d
  /\ Head(timers) = d \/ slave.state = "FW_VERSION_READY"

\* FW_UPDATE_rspWaitTimerCb, from ev_process_timer.  An answer takes milliseconds and the
\* timer a second: they race when the other device was busy before.
TimerExpires(d) ==
  /\ Due(d) /\ ~Sending(d)
  /\ UnderWay(d) => races < MaxRaces
  /\ races' = IF UnderWay(d) THEN races + 1 ELSE races
  /\ timers' = Without(d)
  /\ queue' = IF Listening(d) THEN [queue EXCEPT ![d] = Pushed(@, Message("TIMEOUT", NoFrame))]
              ELSE queue
  /\ UNCHANGED <<memory, master, slave, air, lost, upset, misread>>

Wire == \E d \in Devices : Deliver(d) \/ Damage(d) \/ Lose(d) \/ TimerExpires(d)

\* An erase, a restart and a time limit take far longer than what is under way.
Quiet ==
  /\ \A d \in Devices : ~Sending(d)
  /\ ~(MasterWaits /\ Received("master")) /\ ~(SlaveWaits /\ Received("slave"))

---------------------------------------------------------------------------
(* The master: FW_UPDATE_MasterInit and FW_UPDATE_MasterStart *)

MasterOff == [state |-> "off", retry |-> 0, num |-> 0, finish |-> FALSE, tx |-> NoFrame]

\* In END and ERROR the rest is not read any more.
MasterAt(state) == [MasterOff EXCEPT !.state = state]

MasterBegin ==
  /\ master.state = "off" /\ Quiet /\ (misread => AfterMisread)
  /\ master' = [MasterOff EXCEPT !.state = "FW_VER_WAIT", !.tx = Command("VERSION_REQ", 0)]
  /\ Send("master", master'.tx)
  /\ lost' = 0 /\ races' = 0 /\ upset' = FALSE
  /\ UNCHANGED <<memory, slave, queue, misread>>

\* clock_time_exceed(state_tick, FW_UPDATE_DURATION)
MasterExpires ==
  /\ MasterWaits /\ ~Sending("master")
  /\ master' = MasterAt("ERROR")
  /\ upset' = TRUE
  /\ queue' = Emptied("master")
  /\ UNCHANGED <<memory, slave, air, timers, lost, races, misread>>

\* The answer the master waits for.
Answers(frame) ==
  \/ master.state = "FW_VER_WAIT"    /\ frame.kind = "VERSION_RSP"
  \/ master.state = "START_RSP_WAIT" /\ frame.kind = "START_RSP"
  \/ master.state = "DATA_ACK_WAIT"  /\ frame.kind = "ACK" /\ frame.num = master.num
  \/ master.state = "END_RSP_WAIT"   /\ frame.kind = "END_RSP"

Answered(frame) == Msg("master").type = "DATA" /\ Answers(frame)

\* Mutant: another version is enough.
Another(frame) == frame.num # Offered

\* The version of the slave.
Older(frame) == frame.num < Offered

Proceed(state, frame) ==
  /\ master' = [master EXCEPT !.state = state, !.retry = 0, !.tx = frame]
  /\ Send("master", frame)

\* FW_UPDATE_BuildDataFrame
SendBlock ==
  LET k == master.num + 1
      frame == Frame("DATA", k, Content(Offered, k)) IN
    /\ master' = [master EXCEPT !.state = "DATA_ACK_WAIT", !.retry = 0, !.num = k,
                                !.finish = (k = Blocks), !.tx = frame]
    /\ Send("master", frame)

MasterGives(state) ==
  /\ master' = MasterAt(state)
  /\ StopTimer("master")

MasterAnswered(frame) ==
  /\ Answered(frame)
  /\ CASE master.state = "FW_VER_WAIT" ->
            IF Older(frame)
            THEN Proceed("START_RSP_WAIT", Command("START_REQ", Blocks))
            ELSE MasterGives("ERROR")
       [] master.state = "START_RSP_WAIT" -> SendBlock
       [] master.state = "DATA_ACK_WAIT" ->
            IF master.finish THEN Proceed("END_RSP_WAIT", Command("END_REQ", Blocks))
                             ELSE SendBlock
       [] master.state = "END_RSP_WAIT" -> MasterGives("END")
  /\ Taken("master")
  /\ UNCHANGED <<memory, slave, history>>

\* A timeout, and whatever else is not the answer, counts as a retry.
MasterRetries(frame) ==
  /\ ~Answered(frame)
  /\ IF master.retry = FW_UPDATE_RETRY_MAX
     THEN MasterGives("ERROR")
     ELSE master' = [master EXCEPT !.retry = @ + 1] /\ Send("master", master.tx)
  /\ Taken("master")
  /\ UNCHANGED <<memory, slave, history>>

MasterHears ==
  /\ MasterWaits /\ Received("master")
  /\ \E frame \in Seen("master") : MasterAnswered(frame) \/ MasterRetries(frame)

MasterEnds ==
  /\ master.state \in {"END", "ERROR"} /\ Quiet
  /\ master' = MasterOff
  /\ StopTimer("master")
  /\ queue' = Emptied("master")
  /\ UNCHANGED <<memory, slave, history, misread>>

MasterWorks == MasterHears \/ MasterEnds

---------------------------------------------------------------------------
(* The slave: start, FW_UPDATE_SlaveInit and FW_UPDATE_SlaveStart *)

NoBlocks == <<>>

SlaveOff == [state |-> "boot", retry |-> 0, num |-> 0, max |-> 0, area |-> 0, pos |-> 0,
             crc |-> NoBlocks, tx |-> NoFrame]

SlaveRestart ==
  /\ slave' = SlaveOff
  /\ air' = [air EXCEPT !.slave = NoFrame]
  /\ timers' = Without("slave")
  /\ queue' = Emptied("slave")

SlaveBoot ==
  /\ slave.state = "boot" /\ Quiet
  /\ slave' = [slave EXCEPT !.state = "off"]
  /\ locked' \in flash_lock
  /\ UNCHANGED <<flash, master, link, history, misread>>

\* FW_UPDATE_Trig: the flash is unlocked and the UART opened before the area is erased.
SlaveBegin ==
  /\ slave.state = "off" /\ Quiet
  /\ locked' \in flash_unlock
  /\ slave' = [SlaveOff EXCEPT !.state = "INIT", !.area = Target, !.pos = 1]
  /\ UNCHANGED <<flash, master, link, history, misread>>

\* FW_UPDATE_FlashErase, also in the state ERROR.
SlaveErases ==
  /\ slave.state \in {"INIT", "ERROR"} /\ slave.pos <= ErasedBlocks /\ Quiet
  /\ flash' = Erased(slave.area, slave.pos)
  /\ slave' = [slave EXCEPT !.pos = @ + 1]
  /\ UNCHANGED <<locked, master, link, history, misread>>

\* The state IDLE: what came first is taken from the queue and not looked at.
SlaveListens ==
  /\ slave.state = "INIT" /\ slave.pos > ErasedBlocks /\ Quiet
  /\ slave' = [slave EXCEPT !.state = "FW_VERSION_READY"]
  /\ Wait("slave")
  /\ queue' = IF queue.slave = <<>> THEN queue ELSE Popped("slave")
  /\ UNCHANGED <<memory, master, history, misread>>

Failed == [SlaveOff EXCEPT !.state = "ERROR", !.area = slave.area, !.pos = 1]

SlaveExpires ==
  /\ SlaveWaits /\ ~Sending("slave")
  /\ slave' = Failed
  /\ upset' = TRUE
  /\ queue' = Emptied("slave")
  /\ UNCHANGED <<memory, master, air, timers, lost, races, misread>>

SlaveHas(kind, frame) == Msg("slave").type = "DATA" /\ frame.kind = kind

\* Mutant: a START_REQ that comes again is no repeat.
RepeatedData(frame) ==
  \/ slave.state = "START_READY" /\ SlaveHas("VERSION_REQ", frame)
  \/ slave.state \in {"DATA_READY", "END_READY"} /\ SlaveHas("DATA", frame)
       /\ frame.num = slave.num

Repeated(frame) ==
  \/ slave.state = "START_READY" /\ SlaveHas("VERSION_REQ", frame)
  \/ slave.state = "DATA_READY"  /\ SlaveHas("START_REQ", frame)
  \/ slave.state \in {"DATA_READY", "END_READY"} /\ SlaveHas("DATA", frame)
       /\ frame.num = slave.num

\* Mutant: any block is taken for the next one.
AnyBlock(frame) == slave.state = "DATA_READY" /\ SlaveHas("DATA", frame)

NextBlock(frame) ==
  slave.state = "DATA_READY" /\ SlaveHas("DATA", frame) /\ frame.num = slave.num + 1

Led(frame) ==
  \/ slave.state = "FW_VERSION_READY" /\ SlaveHas("VERSION_REQ", frame)
  \/ slave.state = "START_READY" /\ SlaveHas("START_REQ", frame)
  \/ NextBlock(frame)
  \/ slave.state = "END_READY" /\ SlaveHas("END_REQ", frame)

SlaveGreets(frame) ==
  /\ slave.state = "FW_VERSION_READY" /\ SlaveHas("VERSION_REQ", frame)
  /\ slave' = [slave EXCEPT !.state = "START_READY", !.retry = 0,
                            !.tx = Command("VERSION_RSP", Running)]
  /\ Send("slave", slave'.tx)
  /\ Taken("slave")
  /\ UNCHANGED <<memory, master, history>>

SlaveStarts(frame) ==
  /\ slave.state = "START_READY" /\ SlaveHas("START_REQ", frame)
  /\ slave' = [slave EXCEPT !.state = "DATA_READY", !.retry = 0, !.max = frame.num,
                            !.tx = Command("START_RSP", 0)]
  /\ Send("slave", slave'.tx)
  /\ Taken("slave")
  /\ UNCHANGED <<memory, master, history>>

\* The same frame again is answered with the same answer.
SlaveRepeats(frame) ==
  /\ Repeated(frame)
  /\ slave' = [slave EXCEPT !.retry = 0]
  /\ Send("slave", slave.tx)
  /\ Taken("slave")
  /\ UNCHANGED <<memory, master, history>>

\* A block goes to the flash, the first one without its mark; one more than the image has
\* goes behind it.
SlaveStores(frame) ==
  /\ NextBlock(frame)
  /\ LET k == slave.num + 1 IN
       /\ flash' = IF k \in Positions THEN Written(slave.area, k, frame.data) ELSE flash
       /\ slave' = [slave EXCEPT !.num = k, !.retry = 0, !.crc = Append(@, frame.data),
                                 !.tx = Ack(k),
                                 !.state = IF k = slave.max THEN "END_READY" ELSE @]
       /\ Send("slave", Ack(k))
  /\ Taken("slave")
  /\ UNCHANGED <<locked, master, history>>

\* FW_UPDATE_CMD_ID_END_REQ names the size.
SlaveConcludes(frame) ==
  /\ slave.state = "END_READY" /\ SlaveHas("END_REQ", frame)
  /\ IF frame.num # slave.num
     THEN slave' = Failed /\ StopTimer("slave")
     ELSE /\ slave' = [SlaveOff EXCEPT !.state = "END", !.area = slave.area, !.crc = slave.crc]
          /\ air' = [air EXCEPT !.slave = Command("END_RSP", 0)]
          /\ timers' = Without("slave")
  /\ queue' = Emptied("slave") /\ Read("slave")
  /\ UNCHANGED <<memory, master, history>>

\* Anything else counts as a retry; nothing is sent.
SlaveRetries(frame) ==
  /\ ~Repeated(frame) /\ ~Led(frame)
  /\ IF slave.retry = FW_UPDATE_RETRY_MAX
     THEN slave' = Failed /\ StopTimer("slave")
     ELSE slave' = [slave EXCEPT !.retry = @ + 1] /\ Wait("slave")
  /\ Taken("slave")
  /\ UNCHANGED <<memory, master, history>>

SlaveHandles(frame) ==
  \/ SlaveGreets(frame) \/ SlaveStarts(frame) \/ SlaveRepeats(frame) \/ SlaveStores(frame)
  \/ SlaveConcludes(frame) \/ SlaveRetries(frame)

SlaveHears ==
  /\ SlaveWaits /\ Received("slave")
  /\ \E frame \in Seen("slave") : SlaveHandles(frame)

\* Mutant: the old image loses its mark first.
SlaveMarksLast ==
  /\ slave.state = "END" /\ Quiet
  /\ IF CrcMatches(slave.area, slave.crc)
     THEN flash' = Unmarked(1 - slave.area) /\ slave' = [slave EXCEPT !.state = "MARKED", !.crc = NoBlocks]
     ELSE slave' = Failed /\ UNCHANGED flash
  /\ UNCHANGED <<locked, master, link, history, misread>>

\* The state END: the flash is read back, then the new image gets its mark.
SlaveMarks ==
  /\ slave.state = "END" /\ Quiet
  /\ IF CrcMatches(slave.area, slave.crc)
     THEN flash' = Marked(slave.area) /\ slave' = [slave EXCEPT !.state = "MARKED", !.crc = NoBlocks]
     ELSE slave' = Failed /\ UNCHANGED flash
  /\ UNCHANGED <<locked, master, link, history, misread>>

SlaveSwitches ==
  /\ slave.state = "MARKED" /\ Quiet
  /\ flash' = Unmarked(1 - slave.area)
  /\ locked' \in flash_lock
  /\ SlaveRestart
  /\ UNCHANGED <<master, history, misread>>

SlaveGivesUp ==
  /\ slave.state = "ERROR" /\ slave.pos > ErasedBlocks /\ Quiet
  /\ locked' \in flash_lock
  /\ SlaveRestart
  /\ UNCHANGED <<flash, master, history, misread>>

SlaveWorks ==
  \/ SlaveBoot \/ SlaveErases \/ SlaveListens \/ SlaveHears
  \/ SlaveMarks \/ SlaveSwitches \/ SlaveGivesUp

---------------------------------------------------------------------------
Init ==
  /\ FlashInit
  /\ master = MasterOff /\ slave = SlaveOff
  /\ air = [d \in Devices |-> NoFrame]
  /\ queue = [d \in Devices |-> <<>>]
  /\ timers = <<>>
  /\ lost = 0 /\ races = 0 /\ upset = FALSE /\ misread = FALSE

Next ==
  \/ MasterBegin \/ MasterWorks \/ MasterExpires
  \/ SlaveBegin \/ SlaveWorks \/ SlaveExpires
  \/ Wire

Spec == Init /\ [][Next]_vars

\* Both devices run their loops, what is sent gets out and timers expire.
Fairness ==
  /\ SF_vars(MasterWorks) /\ SF_vars(SlaveWorks)
  /\ \A d \in Devices : WF_vars(Deliver(d) \/ Lose(d)) /\ SF_vars(TimerExpires(d))

FairSpec == Spec /\ Fairness
---------------------------------------------------------------------------
(* Properties *)

\* Whatever is lost, comes late, comes twice, or is overwritten by another frame while its
\* message waits, the blocks the slave has taken are the first ones of the image, in order
\* (BlockNum, PktCRC); but not once it has handled a buffer with a damaged frame, or a part
\* of one: then only the CRC at the end is left (ImplementsSlot).
ReceivedInOrder ==
  ~misread /\ slave.state # "END" => slave.crc = SubSeq(Image(Offered), 1, slave.num)

\* Whatever happens on the wire, and whatever is handled that no check sum was tested of,
\* the device starts a whole image, the one it had or the one offered.
Slot == INSTANCE FirmwareSlot WITH running <- Running
ImplementsSlot == Slot!Spec

\* A device gets no older firmware than it has: here a repeated VERSION_RSP is whole.  Only
\* a VERSION_RSP that is read from a buffer with a damaged frame may name another version.
OnlyForward == [][misread' \/ Running' >= Running]_vars

\* An update that is begun with nothing of an earlier attempt under way, and with enough
\* erased sectors in a flash that could be unlocked, ends with the new image although a
\* frame is lost, unless a time limit ends it or a timer races with an
\* answer: from then on each frame may be answered twice, and answers that nobody waits
\* for use up the retries.
Fits == \A k \in Positions : k > ErasedBlocks => flash[Target].blocks[k] = Blank
Calm == ~upset /\ lost <= 1 /\ races = 0

Fresh ==
  /\ master.state = "START_RSP_WAIT" /\ slave.state = "START_READY" /\ slave.retry = 0
  /\ \A d \in Devices : queue[d] = <<>> /\ air[d].kind \in {"START_REQ", "NONE"}
  /\ Calm /\ ~locked /\ Fits

UpdateCompletes == Fresh ~> (Running = Offered \/ ~Calm)
=============================================================================
