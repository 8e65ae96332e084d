------------------------------ MODULE RadioOta ------------------------------
(***************************************************************************)
(* The firmware update by 2.4G radio (vendor/2_4g_feature/ota): a master   *)
(* sends its image to a slave in frames that the slave answers one by one, *)
(* with retries and time limits, and the slave makes the image the one to  *)
(* be started.                                                             *)
(*                                                                         *)
(* A radio sends a frame and then listens for MAC_RX_WAIT, or listens for  *)
(* a second or longer; either ends with one message to the handler: the    *)
(* frame, one whose check sum is wrong, or a timeout.  A frame reaches a   *)
(* radio that is listening and may get lost; the power of the slave may    *)
(* fail at any time, in the middle of a write.                             *)
(***************************************************************************)
EXTENDS UpdateFlash

CONSTANTS
  OTA_RETRY_MAX,
  MSG_QUEUE_LEN,
  MaxLost,        \* bound: frames lost or damaged since the master began
  Tolerated,      \* so many of them do not keep an update from completing
  MaxPowerLosses  \* bound

ASSUME RadioAssumption ==
  /\ {OTA_RETRY_MAX, MaxLost, Tolerated, MaxPowerLosses} \subseteq Nat
  /\ MSG_QUEUE_LEN \in Nat \ {0}

VARIABLES
  master,     \* MasterCtrl, with TxFrame and Len
  slave,      \* SlaveCtrl, with TxFrame and Len
  air,        \* the frame each device is sending
  radio,      \* for how long each device listens
  queue,      \* MsgQueue of each device
  lost,       \* history: frames lost since the master began
  upset,      \* history: a time limit has ended a state, or the power has failed
  powerLosses

vars == <<flash, locked, master, slave, air, radio, queue, lost, upset, powerLosses>>

memory  == <<flash, locked>>
link    == <<air, radio, queue>>
history == <<lost, upset, powerLosses>>

Devices == {"master", "slave"}
Other(d) == IF d = "master" THEN "slave" ELSE "master"

---------------------------------------------------------------------------
(* Frames *)

\* The bytes of a frame: its type and what the type needs.
LengthOf ==
  [VERSION_REQ |-> 2, VERSION_RSP |-> 4, START_REQ |-> 4, START_RSP |-> 2,
   DATA |-> 51, ACK |-> 3, END_REQ |-> 6, END_RSP |-> 2, NONE |-> 0]

Frame(kind, num, data) == [kind |-> kind, num |-> num, data |-> data, len |-> LengthOf[kind]]

\* OTA_BuildCmdFrame and OTA_BuildAckFrame
Command(kind, value) == Frame(kind, value, Blank)
Ack(num)             == Frame("ACK", num, Blank)
NoFrame              == Frame("NONE", 0, Blank)

\* Of the version the master reads what arrived: RxFrame was 0 before.
VersionIn(frame) == IF frame.len < LengthOf.VERSION_RSP THEN 0 ELSE frame.num

\* The content the slave puts into its flash.
DataIn(frame) == IF frame.len < LengthOf.DATA THEN Garbled ELSE frame.data

Message(type, frame) == [type |-> type, frame |-> frame]

\* OTA_MsgQueuePush; a full queue drops the message.
Pushed(d, message) ==
  [queue EXCEPT ![d] = IF Len(@) < MSG_QUEUE_LEN THEN Append(@, message) ELSE @]

Received(d) == Len(queue[d]) > 0
Msg(d)      == Head(queue[d])
Popped(d)   == [queue EXCEPT ![d] = Tail(@)]
Emptied(d)  == [queue EXCEPT ![d] = <<>>]

---------------------------------------------------------------------------
(* The radio: MAC_SendData, MAC_RecvData and the interrupts *)

MAC_SendData(d, frame, len) ==
  /\ air' = [air EXCEPT ![d] = [frame EXCEPT !.len = len]]
  /\ radio' = [radio EXCEPT ![d] = "off"]

MAC_RecvData(d) ==
  /\ radio' = [radio EXCEPT ![d] = "long"]
  /\ UNCHANGED air

RadioOff(d) ==
  /\ air' = [air EXCEPT ![d] = NoFrame]
  /\ radio' = [radio EXCEPT ![d] = "off"]

Sending(d) == air[d].kind # "NONE"

\* A device that has sent listens for the answer.
AirEnds(d) ==
  /\ Sending(d)
  /\ air' = [air EXCEPT ![d] = NoFrame]

\* MAC_RxIrqHandler of the one that was listening.
Deliver(d) ==
  /\ AirEnds(d)
  /\ radio[Other(d)] # "off"
  /\ radio' = [radio EXCEPT ![d] = "short", ![Other(d)] = "off"]
  /\ queue' = Pushed(Other(d), Message("DATA", air[d]))
  /\ UNCHANGED <<memory, master, slave, history>>

Damage(d) ==
  /\ AirEnds(d)
  /\ radio[Other(d)] # "off"
  /\ lost < MaxLost /\ lost' = lost + 1
  /\ radio' = [radio EXCEPT ![d] = "short", ![Other(d)] = "off"]
  /\ queue' = Pushed(Other(d), Message("INVALID", NoFrame))
  /\ UNCHANGED <<memory, master, slave, upset, powerLosses>>

Lose(d) ==
  /\ AirEnds(d)
  /\ radio[Other(d)] # "off" => lost < MaxLost
  /\ lost' = IF radio[Other(d)] = "off" THEN lost ELSE lost + 1
  /\ radio' = [radio EXCEPT ![d] = "short"]
  /\ UNCHANGED <<memory, master, slave, queue, upset, powerLosses>>

MasterWaits ==
  master.state \in {"FW_VER_WAIT", "START_RSP_WAIT", "DATA_ACK_WAIT", "END_RSP_WAIT"}

SlaveWaits == slave.state \in {"FW_VERSION_READY", "START_READY", "DATA_READY", "END_READY"}

\* MAC_RxTimeOutHandler.  A slave only sends at once after it has received, so a master
\* has its answer long before its 50 ms are over; the 50 ms of a slave may end while the
\* master sends.  The slave listens for a second or more when it does not answer: as long
\* as a master sends again every 50 ms, that time does not end.
RxTimeout(d) ==
  /\ \/ radio[d] = "short" /\ (d = "master" => ~Sending("slave"))
     \/ radio[d] = "long" /\ ~MasterWaits
  /\ radio' = [radio EXCEPT ![d] = "off"]
  /\ queue' = Pushed(d, Message("TIMEOUT", NoFrame))
  /\ UNCHANGED <<memory, master, slave, air, history>>

\* A pass of a main loop takes microseconds, a frame a third of a millisecond, and the
\* shortest wait, an erase of a sector and a restart tens of milliseconds: a message is
\* handled before the radio has the next one, and a frame has ended before any of those.
Prompt == ~(MasterWaits /\ Received("master")) /\ ~(SlaveWaits /\ Received("slave"))
Quiet  == Prompt /\ \A d \in Devices : ~Sending(d)

Radio == Prompt /\ \E d \in Devices : Deliver(d) \/ Damage(d) \/ Lose(d) \/ RxTimeout(d)

---------------------------------------------------------------------------
(* The master: OTA_MasterInit and OTA_MasterStart *)

MasterOff == [state |-> "off", retry |-> 0, num |-> 0, finish |-> FALSE,
              tx |-> NoFrame, len |-> 0]

\* In END and ERROR the rest is not read any more.
MasterAt(state) == [MasterOff EXCEPT !.state = state]

\* OTA_Trig, OTA_MasterInit, and the pass in the state IDLE.
MasterBegin ==
  /\ Quiet
  /\ master.state = "off"
  /\ master' = [MasterOff EXCEPT !.state = "FW_VER_WAIT",
                                 !.tx = Command("VERSION_REQ", 0),
                                 !.len = LengthOf.VERSION_REQ]
  /\ MAC_SendData("master", master'.tx, master'.len)
  /\ lost' = 0 /\ upset' = FALSE
  /\ UNCHANGED <<memory, slave, queue, powerLosses>>

\* clock_time_exceed(state_tick, OTA_DURATION): also a message that came is dropped.
MasterExpires ==
  /\ MasterWaits
  /\ master' = MasterAt("ERROR")
  /\ upset' = TRUE
  /\ queue' = Emptied("master")
  /\ UNCHANGED <<memory, slave, air, radio, lost, powerLosses>>

\* The answer the master waits for.
Answers(frame) ==
  \/ master.state = "FW_VER_WAIT"    /\ frame.kind = "VERSION_RSP"
  \/ master.state = "START_RSP_WAIT" /\ frame.kind = "START_RSP"
  \/ master.state = "DATA_ACK_WAIT"  /\ frame.kind = "ACK" /\ frame.num = master.num
  \/ master.state = "END_RSP_WAIT"   /\ frame.kind = "END_RSP"

Answered ==
  /\ MasterWaits /\ Received("master")
  /\ Msg("master").type = "DATA" /\ Answers(Msg("master").frame)

\* The next state, with a frame to send.
Proceed(state, frame) ==
  /\ master' = [master EXCEPT !.state = state, !.retry = 0,
                              !.tx = frame, !.len = frame.len]
  /\ MAC_SendData("master", frame, frame.len)

\* OTA_BuildDataFrame numbers the blocks from 1 and notices the last one.
SendBlock ==
  LET k == master.num + 1
      frame == Frame("DATA", k, Content(Offered, k)) IN
    /\ master' = [master EXCEPT !.state = "DATA_ACK_WAIT", !.retry = 0, !.num = k,
                                !.finish = (k = Blocks), !.tx = frame, !.len = frame.len]
    /\ MAC_SendData("master", frame, frame.len)

MasterGives(state) ==
  /\ master' = MasterAt(state)
  /\ UNCHANGED <<air, radio>>

MasterAnswered ==
  /\ Answered
  /\ CASE master.state = "FW_VER_WAIT" ->
            IF VersionIn(Msg("master").frame) < Offered
            THEN Proceed("START_RSP_WAIT", Command("START_REQ", Blocks))
            ELSE MasterGives("ERROR")
       [] master.state = "START_RSP_WAIT" -> SendBlock
       [] master.state = "DATA_ACK_WAIT" ->
            IF master.finish THEN Proceed("END_RSP_WAIT", Command("END_REQ", Blocks))
                             ELSE SendBlock
       [] master.state = "END_RSP_WAIT" -> MasterGives("END")
  /\ queue' = Popped("master")
  /\ UNCHANGED <<memory, slave, history>>

\* Mutant: OTA_BuildDataFrame is called again for a retry.
MasterRetriesNext ==
  /\ MasterWaits /\ Received("master") /\ ~Answered
  /\ IF master.state = "DATA_ACK_WAIT" /\ ~master.finish THEN SendBlock
     ELSE master' = MasterAt("ERROR") /\ UNCHANGED <<air, radio>>
  /\ queue' = Popped("master")
  /\ UNCHANGED <<memory, slave, history>>

\* What is not the answer counts as a retry, and the frame is sent again: with the length
\* of what was received.
MasterRetries ==
  /\ MasterWaits /\ Received("master") /\ ~Answered
  /\ IF master.retry = OTA_RETRY_MAX
     THEN master' = MasterAt("ERROR") /\ UNCHANGED <<air, radio>>
     ELSE /\ master' = [master EXCEPT !.retry = @ + 1,
                          !.len = IF Msg("master").type = "DATA"
                                  THEN Msg("master").frame.len ELSE @]
          /\ MAC_SendData("master", master.tx, master'.len)
  /\ queue' = Popped("master")
  /\ UNCHANGED <<memory, slave, history>>

\* The states END and ERROR: the device sleeps and starts afresh.
MasterEnds ==
  /\ Quiet
  /\ master.state \in {"END", "ERROR"}
  /\ master' = MasterOff
  /\ RadioOff("master")
  /\ queue' = Emptied("master")
  /\ UNCHANGED <<memory, slave, history>>

MasterWorks == MasterAnswered \/ MasterRetries \/ MasterEnds

---------------------------------------------------------------------------
(* The slave: start, OTA_SlaveInit and OTA_SlaveStart *)

NoBlocks == <<>>

SlaveOff == [state |-> "boot", retry |-> 0, num |-> 0, max |-> 0, area |-> 0, pos |-> 0,
             crc |-> NoBlocks, tx |-> NoFrame, len |-> 0]

\* The device restarts: what is left is in the flash.
SlaveRestart ==
  /\ slave' = SlaveOff
  /\ RadioOff("slave")
  /\ queue' = Emptied("slave")

\* user_init_normal: the protection is set up.
SlaveBoot ==
  /\ Quiet
  /\ slave.state = "boot"
  /\ slave' = [slave EXCEPT !.state = "off"]
  /\ locked' \in flash_lock
  /\ UNCHANGED <<flash, master, link, history>>

\* OTA_Trig: the flash is unlocked, and OTA_SlaveInit begins to erase the area that does
\* not run.
SlaveBegin ==
  /\ Quiet
  /\ slave.state = "off"
  /\ locked' \in flash_unlock
  /\ slave' = [SlaveOff EXCEPT !.state = "INIT", !.area = Target, !.pos = 1]
  /\ UNCHANGED <<flash, master, link, history>>

\* OTA_FlashErase, also in the state ERROR.
SlaveErases ==
  /\ Quiet
  /\ slave.state \in {"INIT", "ERROR"}
  /\ slave.pos <= ErasedBlocks
  /\ flash' = Erased(slave.area, slave.pos)
  /\ slave' = [slave EXCEPT !.pos = @ + 1]
  /\ UNCHANGED <<locked, master, link, history>>

\* The state IDLE: listens for 5 s.
SlaveListens ==
  /\ slave.state = "INIT" /\ slave.pos > ErasedBlocks
  /\ slave' = [slave EXCEPT !.state = "FW_VERSION_READY"]
  /\ MAC_RecvData("slave")
  /\ UNCHANGED <<memory, master, queue, history>>

Failed == [SlaveOff EXCEPT !.state = "ERROR", !.area = slave.area, !.pos = 1]

\* Mutant: one state has no limit.
SlaveExpiresLater ==
  /\ SlaveWaits /\ slave.state # "START_READY"
  /\ slave' = Failed
  /\ upset' = TRUE
  /\ queue' = Emptied("slave")
  /\ UNCHANGED <<memory, master, air, radio, lost, powerLosses>>

SlaveExpires ==
  /\ SlaveWaits
  /\ slave' = Failed
  /\ upset' = TRUE
  /\ queue' = Emptied("slave")
  /\ UNCHANGED <<memory, master, air, radio, lost, powerLosses>>

SlaveHas(kind) ==
  /\ Received("slave")
  /\ Msg("slave").type = "DATA" /\ Msg("slave").frame.kind = kind

\* Mutant: a START_REQ that comes again is no repeat.
RepeatedData ==
  \/ slave.state = "START_READY" /\ SlaveHas("VERSION_REQ")
  \/ slave.state \in {"DATA_READY", "END_READY"} /\ SlaveHas("DATA")
       /\ Msg("slave").frame.num = slave.num

\* Repeats of what was answered last, and requests that lead on.
Repeated ==
  \/ slave.state = "START_READY" /\ SlaveHas("VERSION_REQ")
  \/ slave.state = "DATA_READY"  /\ SlaveHas("START_REQ")
  \/ slave.state \in {"DATA_READY", "END_READY"} /\ SlaveHas("DATA")
       /\ Msg("slave").frame.num = slave.num

\* Mutant: any block is taken for the next one.
AnyBlock == slave.state = "DATA_READY" /\ SlaveHas("DATA")

NextBlock ==
  slave.state = "DATA_READY" /\ SlaveHas("DATA") /\ Msg("slave").frame.num = slave.num + 1

Led ==
  \/ slave.state = "FW_VERSION_READY" /\ SlaveHas("VERSION_REQ")
  \/ slave.state = "START_READY" /\ SlaveHas("START_REQ")
  \/ NextBlock
  \/ slave.state = "END_READY" /\ SlaveHas("END_REQ")

\* The version and the start.
SlaveGreets ==
  /\ \/ slave.state = "FW_VERSION_READY" /\ SlaveHas("VERSION_REQ")
     \/ slave.state = "START_READY" /\ SlaveHas("START_REQ")
  /\ LET first == slave.state = "FW_VERSION_READY"
         frame == IF first THEN Command("VERSION_RSP", Running) ELSE Command("START_RSP", 0) IN
       /\ slave' = [slave EXCEPT !.state = IF first THEN "START_READY" ELSE "DATA_READY",
                                 !.max = IF first THEN @ ELSE Msg("slave").frame.num,
                                 !.retry = 0, !.tx = frame, !.len = frame.len]
       /\ MAC_SendData("slave", frame, frame.len)
  /\ queue' = Popped("slave")
  /\ UNCHANGED <<memory, master, history>>

\* The same frame again is answered with the same answer, cut or padded to the length of
\* what came in.
SlaveRepeats ==
  /\ Repeated
  /\ slave' = [slave EXCEPT !.retry = 0, !.len = Msg("slave").frame.len]
  /\ MAC_SendData("slave", slave.tx, slave'.len)
  /\ queue' = Popped("slave")
  /\ UNCHANGED <<memory, master, history>>

\* A block goes to the flash; the first one without its mark.
SlaveStores ==
  /\ NextBlock
  /\ LET frame == Msg("slave").frame
         k == slave.num + 1 IN
       /\ flash' = Written(slave.area, k, DataIn(frame))
       /\ slave' = [slave EXCEPT !.num = k, !.retry = 0, !.len = frame.len,
                                 !.crc = Append(@, DataIn(frame)), !.tx = Ack(k),
                                 !.state = IF k = slave.max THEN "END_READY" ELSE @]
       /\ MAC_SendData("slave", Ack(k), LengthOf.ACK)
  /\ queue' = Popped("slave")
  /\ UNCHANGED <<locked, master, history>>

\* OTA_CMD_ID_END_REQ names the size.
SlaveConcludes ==
  /\ slave.state = "END_READY" /\ SlaveHas("END_REQ")
  /\ IF Msg("slave").frame.num # slave.num
     THEN slave' = Failed /\ UNCHANGED <<air, radio>>
     ELSE /\ slave' = [SlaveOff EXCEPT !.state = "END", !.area = slave.area, !.crc = slave.crc]
          /\ MAC_SendData("slave", Command("END_RSP", 0), LengthOf.END_RSP)
  /\ queue' = Popped("slave")
  /\ UNCHANGED <<memory, master, history>>

\* Anything else counts as a retry, and the slave listens again.
SlaveRetries ==
  /\ SlaveWaits /\ Received("slave") /\ ~Repeated /\ ~Led
  /\ IF slave.retry = OTA_RETRY_MAX
     THEN slave' = Failed /\ UNCHANGED <<air, radio>>
     ELSE /\ slave' = [slave EXCEPT !.retry = @ + 1,
                         !.len = IF Msg("slave").type = "DATA"
                                 THEN Msg("slave").frame.len ELSE @]
          /\ MAC_RecvData("slave")
  /\ queue' = Popped("slave")
  /\ UNCHANGED <<memory, master, history>>

\* Mutant: the mark is set without a look at the CRC.
SlaveMarksAny ==
  /\ Quiet
  /\ slave.state = "END"
  /\ flash' = Marked(slave.area) /\ slave' = [slave EXCEPT !.state = "MARKED", !.crc = NoBlocks]
  /\ UNCHANGED <<locked, master, link, history>>

\* The state END: the flash is read back, then the new image gets its mark.
SlaveMarks ==
  /\ Quiet
  /\ slave.state = "END"
  /\ IF CrcMatches(slave.area, slave.crc)
     THEN flash' = Marked(slave.area) /\ slave' = [slave EXCEPT !.state = "MARKED", !.crc = NoBlocks]
     ELSE slave' = Failed /\ UNCHANGED flash
  /\ UNCHANGED <<locked, master, link, history>>

\* The old image loses its mark, the flash is locked and the device restarts.
SlaveSwitches ==
  /\ Quiet
  /\ slave.state = "MARKED"
  /\ flash' = Unmarked(1 - slave.area)
  /\ locked' \in flash_lock
  /\ SlaveRestart
  /\ UNCHANGED <<master, history>>

\* The end of the state ERROR.
SlaveGivesUp ==
  /\ Quiet
  /\ slave.state = "ERROR" /\ slave.pos > ErasedBlocks
  /\ locked' \in flash_lock
  /\ SlaveRestart
  /\ UNCHANGED <<flash, master, history>>

SlaveWorks ==
  \/ SlaveBoot \/ SlaveErases \/ SlaveListens
  \/ SlaveGreets \/ SlaveRepeats \/ SlaveStores \/ SlaveConcludes \/ SlaveRetries
  \/ SlaveMarks \/ SlaveSwitches \/ SlaveGivesUp

\* What may be half done when the power fails.
Interrupted ==
  \/ UNCHANGED flash
  \/ NextBlock /\ flash' = Torn(slave.area, slave.num + 1)
  \/ /\ slave.state \in {"INIT", "ERROR"} /\ slave.pos <= ErasedBlocks
     /\ flash' = Torn(slave.area, slave.pos)

PowerLoss ==
  /\ powerLosses < MaxPowerLosses /\ powerLosses' = powerLosses + 1
  /\ slave.state # "boot"
  /\ Interrupted
  /\ SlaveRestart
  /\ upset' = TRUE
  /\ UNCHANGED <<locked, master, lost>>

---------------------------------------------------------------------------
Init ==
  /\ FlashInit
  /\ master = MasterOff /\ slave = SlaveOff
  /\ air = [d \in Devices |-> NoFrame]
  /\ radio = [d \in Devices |-> "off"]
  /\ queue = [d \in Devices |-> <<>>]
  /\ lost = 0 /\ upset = FALSE /\ powerLosses = 0

Next ==
  \/ MasterBegin \/ MasterWorks \/ MasterExpires
  \/ SlaveBegin \/ SlaveWorks \/ SlaveExpires
  \/ Radio \/ PowerLoss

Spec == Init /\ [][Next]_vars

\* Both devices run their loops, a frame ends and so does listening.  The time limits
\* are not relied on.
Fairness ==
  /\ SF_vars(MasterWorks) /\ SF_vars(SlaveWorks)
  /\ \A d \in Devices : WF_vars(Prompt /\ (Deliver(d) \/ Lose(d))) /\ SF_vars(Prompt /\ RxTimeout(d))

FairSpec == Spec /\ Fairness
---------------------------------------------------------------------------
(* Properties *)

\* The slave has the blocks in order, once each and whole, whatever was lost or came
\* twice: that is what its CRC is taken over (SlaveCtrl.PktCRC, BlockNum).
ReceivedInOrder == slave.state # "END" => slave.crc = SubSeq(Image(Offered), 1, slave.num)

\* The master is at most one block ahead of the slave that answers it: a block is not sent
\* before the one before it is in the flash (BlockNum of both).
StopAndWait ==
  master.state = "DATA_ACK_WAIT" /\ slave.state \in {"DATA_READY", "END_READY"} =>
    slave.num \in {master.num - 1, master.num}

\* Whatever gets lost and whenever the power fails, the device starts a whole image, the
\* one it had or the one offered (the order of the marks, the CRC, the first block that
\* is written without its mark).
Slot == INSTANCE FirmwareSlot WITH running <- Running
ImplementsSlot == Slot!Spec

\* An update that the slave has begun to take ends with the new image, if the flash could
\* be unlocked, the erased sectors are enough for what was there, and not more frames are
\* lost than the retries are for; unless a time limit ends it or the power fails.
Fits == \A k \in Positions : k > ErasedBlocks => flash[Target].blocks[k] = Blank
Calm == ~upset /\ lost <= Tolerated

UpdateCompletes ==
  (master.state = "START_RSP_WAIT" /\ Calm /\ ~locked /\ Fits)
    ~> (Running = Offered \/ ~Calm)

\* Neither device stays in an update for ever.  The retries alone end a master whose slave
\* does not answer, or answers anything else: the time limit is not needed (RetryTimes).
\* The slave needs its time limit, and every state has it: a master that begins again and
\* again resets RetryTimes every time.
BothStop ==
  /\ []<>(master.state = "off")
  /\ WF_vars(SlaveExpires) => []<>(slave.state = "off")

\* A device gets no older firmware than it has (line 200: "compare the received version
\* with that of OTA_bin").
OnlyForward == [][Running' >= Running]_vars
=============================================================================
