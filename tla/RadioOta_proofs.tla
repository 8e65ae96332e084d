---------------------------- MODULE RadioOta_proofs ----------------------------
(***************************************************************************)
(* Proofs about RadioOta, for images of any size, any number of retries,   *)
(* losses and power failures, and every device it may be used on.          *)
(***************************************************************************)
EXTENDS RadioOta, UpdateFlash_proofs, SequenceTheorems
---------------------------------------------------------------------------
(* The invariant *)

MasterStates == {"off", "FW_VER_WAIT", "START_RSP_WAIT", "DATA_ACK_WAIT", "END_RSP_WAIT",
                 "END", "ERROR"}
SlaveStates == {"boot", "off", "INIT", "FW_VERSION_READY", "START_READY", "DATA_READY",
                "END_READY", "END", "MARKED", "ERROR"}

Kinds    == DOMAIN LengthOf
Frames   == [kind : Kinds, num : Int, data : Contents, len : Nat]
Messages == [type : {"DATA", "INVALID", "TIMEOUT"}, frame : Frames]

MasterType == [state : MasterStates, retry : Nat, num : 0..Blocks, finish : BOOLEAN,
               tx : Frames, len : Nat]
SlaveType == [state : SlaveStates, retry : Nat, num : 0..Blocks, max : Int, area : Areas,
              pos : 0..(ErasedBlocks + 1), crc : Seq(Contents), tx : Frames, len : Nat]

LinkTypes ==
  /\ air \in [Devices -> Frames]
  /\ radio \in [Devices -> {"off", "short", "long"}]
  /\ queue \in [Devices -> Seq(Messages)]

TypesInv == FlashTypes /\ master \in MasterType /\ slave \in SlaveType /\ LinkTypes

\* The frames that wait in a queue.
Heard(d) == {queue[d][i].frame : i \in {j \in DOMAIN queue[d] : queue[d][j].type = "DATA"}}

\* The two take turns: who waits has one message to handle at most, and while the master
\* has one, or the slave has a frame, the other one has none and the air is silent.
TurnInv ==
  /\ MasterWaits => Len(queue.master) <= 1
  /\ SlaveWaits  => Len(queue.slave) <= 1
  /\ MasterWaits /\ Received("master") =>
       ~(SlaveWaits /\ Received("slave")) /\ ~Sending("master") /\ ~Sending("slave")
  /\ ~(Sending("master") /\ Sending("slave"))
  /\ SlaveWaits /\ Heard("slave") # {} => ~Sending("master")
  /\ SlaveWaits /\ Received("slave") => ~Sending("slave")
  /\ \A d \in Devices : Sending(d) => radio[d] = "off"
  /\ radio.master # "long"
  /\ master.state = "off" => ~Sending("master") /\ radio.master = "off" /\ ~Received("master")
  /\ slave.state \in {"boot", "off", "INIT"} =>
       ~Sending("slave") /\ radio.slave = "off" /\ ~Received("slave")

\* A block comes whole and is what its number says.
WholeFrame(frame) ==
  frame.kind = "DATA" =>
    /\ frame.num \in Positions /\ frame.len = LengthOf.DATA
    /\ frame.data = Content(Offered, frame.num)

Matches(frame) == frame.kind = master.tx.kind /\ frame.num = master.tx.num

\* What the master says is what it is about, and so is what the slave has still to hear.
MasterSays ==
  /\ master.state = "FW_VER_WAIT"    => master.tx.kind = "VERSION_REQ" /\ master.num = 0
  /\ master.state = "START_RSP_WAIT" => master.tx.kind = "START_REQ" /\ master.num = 0
  /\ master.state = "DATA_ACK_WAIT"  => /\ master.num \in Positions
                                        /\ master.finish = (master.num = Blocks)
                                        /\ master.len = LengthOf.DATA
                                        /\ master.tx = Frame("DATA", master.num,
                                                             Content(Offered, master.num))
  /\ master.state = "END_RSP_WAIT"   => master.tx.kind = "END_REQ"

RequestInv ==
  /\ MasterSays
  /\ Sending("master") => WholeFrame(air.master) /\ (MasterWaits => Matches(air.master))
  /\ \A frame \in Heard("slave") :
       WholeFrame(frame) /\ (MasterWaits /\ SlaveWaits => Matches(frame))

\* What the slave says is the answer.
AnswerInv ==
  MasterWaits => /\ Sending("slave") => Answers(air.slave)
                 /\ \A frame \in Heard("master") : Answers(frame)

Taking == slave.state \in {"DATA_READY", "END_READY"}

\* What the slave has said last, and what it has taken.
ReplyInv ==
  /\ slave.state = "START_READY" => slave.tx.kind = "VERSION_RSP"
  /\ Taking => IF slave.num = 0 THEN slave.tx.kind = "START_RSP"
               ELSE slave.tx.kind = "ACK" /\ slave.tx.num = slave.num
  /\ ~Taking => slave.num = 0
  /\ IF slave.state = "END"
     THEN \E n \in 0..Blocks : slave.crc = SubSeq(Image(Offered), 1, n)
     ELSE slave.crc = SubSeq(Image(Offered), 1, slave.num)

Answering == Sending("slave") \/ Heard("master") # {}

\* The two are at the same place, or one apart.
StepInv ==
  /\ master.state = "FW_VER_WAIT" /\ Answering => ~Taking
  /\ master.state = "START_RSP_WAIT" /\ Taking => slave.num = 0
  /\ master.state = "DATA_ACK_WAIT" /\ Taking =>
       /\ slave.num \in {master.num - 1, master.num}
       /\ Answering => slave.num = master.num

\* The area of an update is the one that does not run, without a mark once its first block
\* is erased; then both may be marked.
FirmInv ==
  /\ Whole(Started)
  /\ SlaveWaits \/ slave.state \in {"INIT", "END", "ERROR"} => Started = 1 - slave.area
  /\ SlaveWaits \/ slave.state = "END" \/ (slave.state = "INIT" /\ slave.pos > 1) =>
       (~locked => flash[slave.area].mark = "blank")
  /\ slave.state \in {"INIT", "ERROR"} => slave.pos > 0
  /\ slave.state = "MARKED" => BothMarked(slave.area, Offered)

OtaInv == TypesInv /\ TurnInv /\ RequestInv /\ AnswerInv /\ ReplyInv /\ StepInv /\ FirmInv
---------------------------------------------------------------------------
(* Frames and queues *)

LEMMA KindsAre ==
  /\ Kinds = {"VERSION_REQ", "VERSION_RSP", "START_REQ", "START_RSP", "DATA", "ACK",
              "END_REQ", "END_RSP", "NONE"}
  /\ \A kind \in Kinds : LengthOf[kind] \in Nat
BY DEF Kinds, LengthOf

LEMMA FrameTypes ==
  ASSUME NEW kind \in Kinds, NEW num \in Int, NEW data \in Contents
  PROVE  Frame(kind, num, data) \in Frames
BY KindsAre DEF Frame, Frames

LEMMA CommandTypes ==
  /\ \A kind \in Kinds, num \in Int : Command(kind, num) \in Frames
  /\ \A num \in Int : Ack(num) \in Frames
  /\ NoFrame \in Frames
<1>1. Blank \in Contents
  BY DEF Blank, Contents
<1>2. \A kind \in Kinds, num \in Int : Frame(kind, num, Blank) \in Frames
  BY <1>1, FrameTypes
<1> QED BY <1>2, KindsAre DEF Command, Ack, NoFrame

LEMMA Silent ==
  ASSUME NEW d \in Devices, queue \in [Devices -> Seq(Messages)], ~Received(d)
  PROVE  Heard(d) = {}
<1>1. queue[d] \in Seq(Messages) /\ Len(queue[d]) = 0
  BY DEF Received
<1> QED BY <1>1 DEF Heard

LEMMA QueuePushed ==
  ASSUME NEW d \in Devices, queue \in [Devices -> Seq(Messages)],
         NEW m \in Messages, queue' = Pushed(d, m)
  PROVE  /\ queue' \in [Devices -> Seq(Messages)]
         /\ \A e \in Devices \ {d} : queue'[e] = queue[e] /\ Heard(e)' = Heard(e)
         /\ Len(queue'[d]) <= Len(queue[d]) + 1
         /\ \A frame \in Heard(d)' : frame \in Heard(d) \/ (m.type = "DATA" /\ frame = m.frame)
<1>1. CASE Len(queue[d]) < MSG_QUEUE_LEN
  <2>1. queue' = [queue EXCEPT ![d] = Append(queue[d], m)]
    BY <1>1 DEF Pushed
  <2>2. queue[d] \in Seq(Messages) /\ Len(queue[d]) \in Nat
    OBVIOUS
  <2>3. queue'[d] = Append(queue[d], m) /\ \A e \in Devices \ {d} : queue'[e] = queue[e]
    BY <2>1
  <2>4. queue' \in [Devices -> Seq(Messages)]
    BY <2>1, <2>2
  <2>5. \A frame \in Heard(d)' : frame \in Heard(d) \/ (m.type = "DATA" /\ frame = m.frame)
    <3>1. SUFFICES ASSUME NEW i \in DOMAIN queue'[d], queue'[d][i].type = "DATA",
                          queue'[d][i].frame \notin Heard(d)
                   PROVE  m.type = "DATA" /\ queue'[d][i].frame = m.frame
      BY DEF Heard
    <3>2. i \in 1..(Len(queue[d]) + 1)
      BY <2>2, <2>3, <3>1
    <3>3. CASE i <= Len(queue[d])
      BY <2>2, <2>3, <3>1, <3>2, <3>3 DEF Heard
    <3>4. CASE i = Len(queue[d]) + 1
      BY <2>2, <2>3, <3>1, <3>4
    <3> QED BY <2>2, <3>2, <3>3, <3>4
  <2> QED BY <2>2, <2>3, <2>4, <2>5 DEF Heard
<1>2. CASE ~(Len(queue[d]) < MSG_QUEUE_LEN)
  <2>1. queue' = queue
    BY <1>2 DEF Pushed
  <2>2. Len(queue[d]) \in Nat
    OBVIOUS
  <2> QED BY <2>1, <2>2 DEF Heard
<1> QED BY <1>1, <1>2

LEMMA QueuePopped ==
  ASSUME NEW d \in Devices, queue \in [Devices -> Seq(Messages)], Received(d)
  PROVE  /\ Msg(d) \in Messages
         /\ Msg(d).type = "DATA" => Msg(d).frame \in Heard(d)
         /\ queue' = Popped(d) =>
              /\ queue' \in [Devices -> Seq(Messages)]
              /\ \A e \in Devices \ {d} : queue'[e] = queue[e] /\ Heard(e)' = Heard(e)
              /\ Len(queue'[d]) = Len(queue[d]) - 1
              /\ Heard(d)' \subseteq Heard(d)
              /\ Len(queue[d]) <= 1 => ~Received(d)' /\ Heard(d)' = {}
<1>1. queue[d] \in Seq(Messages) /\ Len(queue[d]) \in Nat /\ Len(queue[d]) > 0
  BY DEF Received
<1>2. Head(queue[d]) = queue[d][1] /\ 1 \in DOMAIN queue[d]
  BY <1>1
<1>3. Msg(d) \in Messages /\ (Msg(d).type = "DATA" => Msg(d).frame \in Heard(d))
  BY <1>1, <1>2 DEF Msg, Heard
<1>4. ASSUME queue' = Popped(d)
      PROVE  /\ queue' \in [Devices -> Seq(Messages)]
             /\ \A e \in Devices \ {d} : queue'[e] = queue[e] /\ Heard(e)' = Heard(e)
             /\ Len(queue'[d]) = Len(queue[d]) - 1
             /\ Heard(d)' \subseteq Heard(d)
             /\ Len(queue[d]) <= 1 => ~Received(d)' /\ Heard(d)' = {}
  <2>1. /\ queue'[d] = Tail(queue[d]) /\ \A e \in Devices \ {d} : queue'[e] = queue[e]
        /\ Tail(queue[d]) \in Seq(Messages) /\ Len(Tail(queue[d])) = Len(queue[d]) - 1
    BY <1>1, <1>4 DEF Popped
  <2>2. queue' \in [Devices -> Seq(Messages)]
    BY <1>1, <1>4, <2>1 DEF Popped
  <2>3. Heard(d)' \subseteq Heard(d)
    <3>1. SUFFICES ASSUME NEW i \in DOMAIN queue'[d], queue'[d][i].type = "DATA"
                   PROVE  queue'[d][i].frame \in Heard(d)
      BY DEF Heard
    <3>2. i + 1 \in DOMAIN queue[d] /\ queue'[d][i] = queue[d][i + 1]
      BY <1>1, <2>1, <3>1
    <3> QED BY <3>1, <3>2 DEF Heard
  <2>4. Len(queue[d]) <= 1 => ~Received(d)'
    BY <1>1, <2>1 DEF Received
  <2>5. ~Received(d)' => Heard(d)' = {}
    <3>1. SUFFICES ASSUME ~Received(d)' PROVE Heard(d)' = {}
      OBVIOUS
    <3>2. queue'[d] \in Seq(Messages) /\ Len(queue'[d]) = 0
      BY <2>2, <3>1, <1>1, <2>1 DEF Received
    <3> QED BY <3>2 DEF Heard
  <2> QED BY <2>1, <2>2, <2>3, <2>4, <2>5 DEF Heard
<1> QED BY <1>3, <1>4

LEMMA QueueEmptied ==
  ASSUME NEW d \in Devices, queue \in [Devices -> Seq(Messages)], queue' = Emptied(d)
  PROVE  /\ queue' \in [Devices -> Seq(Messages)]
         /\ \A e \in Devices \ {d} : queue'[e] = queue[e] /\ Heard(e)' = Heard(e)
         /\ ~Received(d)' /\ Heard(d)' = {} /\ Len(queue'[d]) = 0
<1>1. /\ queue'[d] = <<>> /\ \A e \in Devices \ {d} : queue'[e] = queue[e]
      /\ queue' \in [Devices -> Seq(Messages)]
  BY DEF Emptied
<1> QED BY <1>1 DEF Heard, Received
---------------------------------------------------------------------------
(* What the steps do to the link *)

LEMMA DevicesAre ==
  /\ Other("master") = "slave" /\ Other("slave") = "master"
  /\ "master" \in Devices /\ "slave" \in Devices
  /\ \A d \in Devices : Other(d) \in Devices /\ Other(d) # d /\ Devices \ {d} = {Other(d)}
BY DEF Other, Devices

LEMMA Sent ==
  ASSUME LinkTypes, NEW d \in Devices, NEW frame \in Frames, NEW len \in Nat,
         MAC_SendData(d, frame, len)
  PROVE  /\ air' \in [Devices -> Frames] /\ radio' \in [Devices -> {"off", "short", "long"}]
         /\ air'[d].kind = frame.kind /\ air'[d].num = frame.num /\ air'[d].data = frame.data
         /\ air'[d].len = len /\ radio'[d] = "off"
         /\ air'[Other(d)] = air[Other(d)] /\ radio'[Other(d)] = radio[Other(d)]
<1>1. [frame EXCEPT !.len = len] \in Frames
  BY DEF Frames
<1>2. /\ [frame EXCEPT !.len = len].kind = frame.kind
      /\ [frame EXCEPT !.len = len].num = frame.num
      /\ [frame EXCEPT !.len = len].data = frame.data
      /\ [frame EXCEPT !.len = len].len = len
  BY DEF Frames
<1> QED BY <1>1, <1>2, DevicesAre DEF MAC_SendData, LinkTypes

LEMMA SwitchedOff ==
  ASSUME LinkTypes, NEW d \in Devices, RadioOff(d)
  PROVE  /\ air' \in [Devices -> Frames] /\ radio' \in [Devices -> {"off", "short", "long"}]
         /\ ~Sending(d)' /\ radio'[d] = "off"
         /\ air'[Other(d)] = air[Other(d)] /\ radio'[Other(d)] = radio[Other(d)]
<1>1. NoFrame \in Frames /\ NoFrame.kind = "NONE"
  BY CommandTypes DEF NoFrame, Frame
<1> QED BY <1>1, DevicesAre DEF RadioOff, LinkTypes, Sending

\* A frame ends, heard or not.
LEMMA FrameEnds ==
  ASSUME LinkTypes, NEW d \in Devices, Deliver(d) \/ Damage(d) \/ Lose(d)
  PROVE  /\ LinkTypes' /\ UNCHANGED <<flash, locked, master, slave>>
         /\ Sending(d) /\ ~Sending(d)' /\ air'[Other(d)] = air[Other(d)]
         /\ radio'[d] = "short" /\ radio'[Other(d)] \in {radio[Other(d)], "off"}
         /\ queue'[d] = queue[d] /\ Heard(d)' = Heard(d)
         /\ Heard(Other(d))' \subseteq Heard(Other(d)) \cup {air[d]}
         /\ Len(queue'[Other(d)]) <= Len(queue[Other(d)]) + 1
         /\ radio[Other(d)] = "off" => queue' = queue /\ Heard(Other(d))' = Heard(Other(d))
<1> DEFINE e == Other(d)
<1>1. e \in Devices /\ e # d /\ d \in Devices \ {e} /\ Other(d) = e
  BY DevicesAre
<1>2. NoFrame \in Frames /\ NoFrame.kind = "NONE"
  BY CommandTypes DEF NoFrame, Frame
<1>3. air' = [air EXCEPT ![d] = NoFrame] /\ Sending(d)
  BY DEF Deliver, Damage, Lose, AirEnds
<1>4. /\ air' \in [Devices -> Frames] /\ air'[e] = air[e] /\ air'[d] = NoFrame
  BY <1>1, <1>2, <1>3 DEF LinkTypes
<1>5. ~Sending(d)'
  BY <1>2, <1>4 DEF Sending
<1>6. UNCHANGED <<flash, locked, master, slave>>
  BY DEF Deliver, Damage, Lose, memory
<1> HIDE DEF e
<1>7. ASSUME NEW m \in Messages, queue' = Pushed(e, m), radio[e] # "off",
             m.type = "DATA" => m.frame = air[d],
             radio' = [radio EXCEPT ![d] = "short", ![e] = "off"]
      PROVE  /\ LinkTypes' /\ radio'[d] = "short" /\ radio'[e] = "off"
             /\ queue'[d] = queue[d] /\ Heard(d)' = Heard(d)
             /\ Heard(e)' \subseteq Heard(e) \cup {air[d]}
             /\ Len(queue'[e]) <= Len(queue[e]) + 1
  <2>1. /\ queue' \in [Devices -> Seq(Messages)]
        /\ queue'[d] = queue[d] /\ Heard(d)' = Heard(d)
        /\ Len(queue'[e]) <= Len(queue[e]) + 1
        /\ \A frame \in Heard(e)' : frame \in Heard(e) \/ (m.type = "DATA" /\ frame = m.frame)
    BY <1>1, <1>7, QueuePushed DEF LinkTypes
  <2>2. /\ radio' \in [Devices -> {"off", "short", "long"}]
        /\ radio'[d] = "short" /\ radio'[e] = "off"
    BY <1>1, <1>7 DEF LinkTypes
  <2> QED BY <1>4, <1>7, <2>1, <2>2 DEF LinkTypes
<1>8. CASE Deliver(d)
  <2>1. Message("DATA", air[d]) \in Messages
    BY DEF LinkTypes, Message, Messages
  <2>2. /\ queue' = Pushed(e, Message("DATA", air[d])) /\ radio[e] # "off"
        /\ radio' = [radio EXCEPT ![d] = "short", ![e] = "off"]
    BY <1>8 DEF Deliver, e
  <2>3. Message("DATA", air[d]).frame = air[d]
    BY DEF Message
  <2> QED BY <1>1, <1>3, <1>4, <1>5, <1>6, <1>7, <2>1, <2>2, <2>3
<1>9. CASE Damage(d)
  <2>1. Message("INVALID", NoFrame) \in Messages
    BY <1>2 DEF Message, Messages
  <2>2. /\ queue' = Pushed(e, Message("INVALID", NoFrame)) /\ radio[e] # "off"
        /\ radio' = [radio EXCEPT ![d] = "short", ![e] = "off"]
    BY <1>9 DEF Damage, e
  <2>3. Message("INVALID", NoFrame).type # "DATA"
    BY DEF Message
  <2> QED BY <1>1, <1>3, <1>4, <1>5, <1>6, <1>7, <2>1, <2>2, <2>3
<1>10. CASE Lose(d)
  <2>1. queue' = queue /\ radio' = [radio EXCEPT ![d] = "short"]
    BY <1>10 DEF Lose
  <2>2. Heard(d)' = Heard(d) /\ Heard(e)' = Heard(e)
    BY <2>1 DEF Heard
  <2>3. /\ radio' \in [Devices -> {"off", "short", "long"}]
        /\ radio'[d] = "short" /\ radio'[e] = radio[e]
    BY <1>1, <2>1 DEF LinkTypes
  <2>4. LinkTypes' /\ Len(queue'[e]) <= Len(queue[e]) + 1
    <3>1. Len(queue[e]) \in Nat
      BY <1>1 DEF LinkTypes
    <3> QED BY <1>4, <2>1, <2>3, <3>1 DEF LinkTypes
  <2> QED BY <1>1, <1>3, <1>4, <1>5, <1>6, <2>1, <2>2, <2>3, <2>4
<1> QED BY <1>8, <1>9, <1>10

\* Listening ends.
LEMMA ListeningEnds ==
  ASSUME LinkTypes, NEW d \in Devices, RxTimeout(d)
  PROVE  /\ LinkTypes' /\ UNCHANGED <<flash, locked, master, slave, air>>
         /\ radio[d] # "off" /\ radio'[d] = "off" /\ radio'[Other(d)] = radio[Other(d)]
         /\ queue'[Other(d)] = queue[Other(d)]
         /\ \A e \in Devices : Heard(e)' \subseteq Heard(e)
         /\ Len(queue'[d]) <= Len(queue[d]) + 1
         /\ d = "master" => radio[d] = "long" \/ ~Sending("slave")
<1>1. Message("TIMEOUT", NoFrame) \in Messages /\ Message("TIMEOUT", NoFrame).type # "DATA"
  BY CommandTypes DEF Message, Messages
<1>2. queue' = Pushed(d, Message("TIMEOUT", NoFrame)) /\ radio' = [radio EXCEPT ![d] = "off"]
  BY DEF RxTimeout
<1>3. /\ queue' \in [Devices -> Seq(Messages)]
      /\ \A e \in Devices \ {d} : queue'[e] = queue[e] /\ Heard(e)' = Heard(e)
      /\ Len(queue'[d]) <= Len(queue[d]) + 1
      /\ Heard(d)' \subseteq Heard(d)
  BY <1>1, <1>2, QueuePushed DEF LinkTypes
<1>4. /\ radio' \in [Devices -> {"off", "short", "long"}]
      /\ radio'[d] = "off" /\ radio'[Other(d)] = radio[Other(d)]
  BY <1>2, DevicesAre DEF LinkTypes
<1>5. /\ UNCHANGED <<flash, locked, master, slave, air>> /\ radio[d] # "off"
      /\ d = "master" => radio[d] = "long" \/ ~Sending("slave")
  BY DEF RxTimeout, memory
<1>6. LinkTypes'
  BY <1>3, <1>4, <1>5 DEF LinkTypes
<1>7. Other(d) \in Devices \ {d}
  BY DevicesAre
<1>8. queue'[Other(d)] = queue[Other(d)]
  BY <1>3, <1>7
<1>9. \A e \in Devices : Heard(e)' \subseteq Heard(e)
  BY <1>3
<1> QED BY <1>3, <1>4, <1>5, <1>6, <1>8, <1>9
---------------------------------------------------------------------------
(* What the master does *)

\* It sends what it has to say.
MasterSpeaks ==
  /\ master' \in MasterType /\ MasterWaits' /\ MasterSays'
  /\ air' \in [Devices -> Frames] /\ radio' \in [Devices -> {"off", "short", "long"}]
  /\ Sending("master")' /\ WholeFrame(air.master)' /\ Matches(air.master)'
  /\ radio'.master = "off" /\ air'.slave = air.slave /\ radio'.slave = radio.slave

\* The update is over for it.
MasterStops ==
  /\ master' \in MasterType /\ master'.state \in {"END", "ERROR"}
  /\ UNCHANGED <<air, radio>>

\* From which state to which.
MasterSteps ==
  \/ master.state = "FW_VER_WAIT" /\ master'.state = "START_RSP_WAIT"
  \/ master.state = "START_RSP_WAIT" /\ master'.state = "DATA_ACK_WAIT" /\ master'.num = 1
  \/ /\ master.state = "DATA_ACK_WAIT" /\ master'.state = "DATA_ACK_WAIT"
     /\ master'.num = master.num + 1
  \/ master.state = "DATA_ACK_WAIT" /\ master'.state = "END_RSP_WAIT"

\* A frame in the air is as whole as what it was made from.
LEMMA Spoken ==
  ASSUME LinkTypes, master' \in MasterType, MasterWaits', MasterSays',
         NEW len \in Nat, MAC_SendData("master", master'.tx, len),
         master'.state = "DATA_ACK_WAIT" => len = LengthOf.DATA
  PROVE  MasterSpeaks
<1>1. master'.tx \in Frames
  BY DEF MasterType
<1>2. /\ air' \in [Devices -> Frames] /\ radio' \in [Devices -> {"off", "short", "long"}]
      /\ air'.master.kind = master'.tx.kind /\ air'.master.num = master'.tx.num
      /\ air'.master.data = master'.tx.data /\ air'.master.len = len
      /\ radio'.master = "off" /\ air'.slave = air.slave /\ radio'.slave = radio.slave
  BY <1>1, Sent, DevicesAre
<1>3. Matches(air.master)'
  BY <1>2 DEF Matches
<1>4. Sending("master")' /\ WholeFrame(air.master)'
  <2>1. CASE master'.state = "DATA_ACK_WAIT"
    <3>1. /\ master'.tx = Frame("DATA", master'.num, Content(Offered, master'.num))
          /\ master'.num \in Positions
      BY <2>1 DEF MasterSays
    <3>2. /\ master'.tx.kind = "DATA" /\ master'.tx.num = master'.num
          /\ master'.tx.data = Content(Offered, master'.num)
      BY <3>1 DEF Frame
    <3> QED BY <1>2, <2>1, <3>1, <3>2 DEF Sending, WholeFrame
  <2>2. CASE master'.state # "DATA_ACK_WAIT"
    <3>1. master'.tx.kind \in {"VERSION_REQ", "START_REQ", "END_REQ"}
      BY <2>2 DEF MasterSays, MasterWaits
    <3> QED BY <1>2, <3>1 DEF Sending, WholeFrame
  <2> QED BY <2>1, <2>2
<1> QED BY <1>2, <1>3, <1>4 DEF MasterSpeaks

LEMMA MasterBeginIs ==
  ASSUME TypesInv, MasterBegin
  PROVE  /\ MasterSpeaks /\ Quiet /\ master.state = "off" /\ master'.state = "FW_VER_WAIT"
         /\ UNCHANGED <<flash, locked, slave, queue>>
<1>1. Command("VERSION_REQ", 0) \in Frames /\ LengthOf.VERSION_REQ \in Nat
  BY CommandTypes, KindsAre
<1>2. /\ master' = [state |-> "FW_VER_WAIT", retry |-> 0, num |-> 0, finish |-> FALSE,
                    tx |-> Command("VERSION_REQ", 0), len |-> LengthOf.VERSION_REQ]
      /\ MAC_SendData("master", master'.tx, master'.len)
      /\ UNCHANGED <<flash, locked, slave, queue>> /\ Quiet /\ master.state = "off"
  BY DEF MasterBegin, MasterOff, memory
<1>3. master' \in MasterType
  BY <1>1, <1>2, FlashAssumption DEF MasterType, MasterStates
<1>4. MasterWaits' /\ MasterSays'
  BY <1>2 DEF MasterWaits, MasterSays, Command, Frame
<1>5. MasterSpeaks
  BY <1>1, <1>2, <1>3, <1>4, Spoken DEF TypesInv
<1> QED BY <1>2, <1>5

LEMMA MasterAtIs ==
  ASSUME NEW state \in {"END", "ERROR", "off"}
  PROVE  /\ MasterAt(state) \in MasterType /\ MasterAt(state).state = state
         /\ MasterOff \in MasterType /\ MasterOff.state = "off"
<1>1. NoFrame \in Frames
  BY CommandTypes
<1>2. MasterOff \in MasterType
  BY <1>1, FlashAssumption DEF MasterOff, MasterType, MasterStates
<1>3. state \in MasterStates
  BY DEF MasterStates
<1>4. MasterAt(state) \in MasterType /\ MasterAt(state).state = state
  BY <1>2, <1>3 DEF MasterAt, MasterType
<1> QED BY <1>2, <1>4 DEF MasterOff

\* The next frame is made, with its own length.
LEMMA ProceedIs ==
  ASSUME TypesInv, MasterSays, NEW state, NEW kind, NEW num \in Int, Proceed(state, Command(kind, num)),
         \/ state = "START_RSP_WAIT" /\ kind = "START_REQ" /\ master.num = 0
         \/ state = "END_RSP_WAIT" /\ kind = "END_REQ"
  PROVE  MasterSpeaks /\ master'.state = state
<1>1. kind \in Kinds
  BY KindsAre
<1>2. Command(kind, num) \in Frames /\ Command(kind, num).kind = kind
  BY <1>1, CommandTypes DEF Command, Frame
<1> DEFINE f == Command(kind, num)
<1>3. f.len \in Nat
  BY <1>2 DEF Frames
<1> HIDE DEF f
<1>4. /\ master' = [master EXCEPT !.state = state, !.retry = 0, !.tx = f, !.len = f.len]
      /\ MAC_SendData("master", f, f.len)
  BY DEF Proceed, f
<1>5. master' \in MasterType /\ master'.state = state /\ master'.tx = f /\ master'.num = master.num
  <2>1. f \in Frames /\ state \in MasterStates
    BY <1>2 DEF f, MasterStates
  <2> QED BY <1>3, <1>4, <2>1 DEF TypesInv, MasterType
<1>6. MasterWaits' /\ MasterSays'
  BY <1>2, <1>5 DEF f, MasterWaits, MasterSays
<1> QED BY <1>3, <1>4, <1>5, <1>6, Spoken DEF TypesInv

LEMMA SendBlockIs ==
  ASSUME TypesInv, MasterSays, SendBlock, master.num + 1 \in Positions
  PROVE  MasterSpeaks /\ master'.state = "DATA_ACK_WAIT" /\ master'.num = master.num + 1
<1> DEFINE k == master.num + 1
           f == Frame("DATA", k, Content(Offered, k))
<1>1. f \in Frames /\ f.len = LengthOf.DATA /\ LengthOf.DATA \in Nat
  <2>1. Content(Offered, k) \in Contents /\ k \in Int
    BY FlashAssumption DEF Content, Contents, Positions
  <2> HIDE DEF k
  <2> QED BY <2>1, FrameTypes, KindsAre DEF Frame
<1>2. k \in 0..Blocks /\ k \in Positions
  BY FlashAssumption DEF Positions
<1>3. /\ master' = [master EXCEPT !.state = "DATA_ACK_WAIT", !.retry = 0, !.num = k,
                                  !.finish = (k = Blocks), !.tx = f, !.len = f.len]
      /\ MAC_SendData("master", f, f.len)
  BY DEF SendBlock
<1>4. /\ master'.state = "DATA_ACK_WAIT" /\ master'.num = k /\ master'.finish = (k = Blocks)
      /\ master'.tx = f /\ master'.len = f.len /\ master' \in MasterType
  <2> HIDE DEF k, f
  <2> QED BY <1>1, <1>2, <1>3 DEF TypesInv, MasterType, MasterStates
<1>5. MasterWaits' /\ MasterSays'
  <2> HIDE DEF k
  <2> QED BY <1>1, <1>2, <1>4 DEF MasterWaits, MasterSays
<1>6. MasterSpeaks
  <2> HIDE DEF k, f
  <2> QED BY <1>1, <1>3, <1>4, <1>5, Spoken DEF TypesInv
<1> QED BY <1>4, <1>6

LEMMA MasterAnsweredIs ==
  ASSUME TypesInv, MasterSays, MasterAnswered
  PROVE  /\ UNCHANGED <<flash, locked, slave>> /\ queue' = Popped("master")
         /\ MasterWaits /\ Received("master") /\ Msg("master").type = "DATA"
         /\ MasterStops \/ (MasterSpeaks /\ MasterSteps)
<1>1. /\ UNCHANGED <<flash, locked, slave>> /\ queue' = Popped("master")
      /\ MasterWaits /\ Received("master") /\ Msg("master").type = "DATA"
  BY DEF MasterAnswered, Answered, memory
<1>2. ASSUME NEW state \in {"END", "ERROR"}, MasterGives(state)
      PROVE  MasterStops
  BY <1>2, MasterAtIs DEF MasterGives, MasterStops
<1>3. Blocks \in Int /\ Blocks \in Nat /\ Blocks > 0 /\ master.num \in 0..Blocks
  BY FlashAssumption DEF TypesInv, MasterType
<1>4. CASE master.state = "FW_VER_WAIT"
  <2>1. \/ Proceed("START_RSP_WAIT", Command("START_REQ", Blocks))
        \/ MasterGives("ERROR")
    BY <1>4 DEF MasterAnswered
  <2>2. master.num = 0
    BY <1>4 DEF MasterSays
  <2>3. ASSUME Proceed("START_RSP_WAIT", Command("START_REQ", Blocks))
        PROVE  MasterSpeaks /\ master'.state = "START_RSP_WAIT"
    BY <1>3, <2>2, <2>3, ProceedIs
  <2> QED BY <1>1, <1>2, <1>4, <2>1, <2>3 DEF MasterSteps
<1>5. CASE master.state = "START_RSP_WAIT"
  <2>1. SendBlock
    BY <1>5 DEF MasterAnswered
  <2>2. master.num = 0 /\ master.num + 1 \in Positions
    BY <1>3, <1>5 DEF MasterSays, Positions
  <2>3. MasterSpeaks /\ master'.state = "DATA_ACK_WAIT" /\ master'.num = 1
    BY <2>1, <2>2, SendBlockIs
  <2> QED BY <1>1, <1>5, <2>3 DEF MasterSteps
<1>6. CASE master.state = "DATA_ACK_WAIT"
  <2>1. IF master.finish THEN Proceed("END_RSP_WAIT", Command("END_REQ", Blocks)) ELSE SendBlock
    BY <1>6 DEF MasterAnswered
  <2>2. CASE master.finish
    <3>1. Proceed("END_RSP_WAIT", Command("END_REQ", Blocks))
      BY <2>1, <2>2
    <3>2. MasterSpeaks /\ master'.state = "END_RSP_WAIT"
      BY <1>3, <3>1, ProceedIs
    <3> QED BY <1>1, <1>6, <3>2 DEF MasterSteps
  <2>3. CASE ~master.finish
    <3>1. master.num \in Positions /\ master.num # Blocks
      BY <1>6, <2>3 DEF MasterSays
    <3>2. master.num + 1 \in Positions
      BY <1>3, <3>1 DEF Positions
    <3>3. MasterSpeaks /\ master'.state = "DATA_ACK_WAIT" /\ master'.num = master.num + 1
      BY <2>1, <2>3, <3>2, SendBlockIs
    <3> QED BY <1>1, <1>6, <3>3 DEF MasterSteps
  <2> QED BY <2>2, <2>3
<1>7. CASE master.state = "END_RSP_WAIT"
  <2>1. MasterGives("END")
    BY <1>7 DEF MasterAnswered
  <2> QED BY <1>1, <1>2, <2>1
<1> QED BY <1>1, <1>4, <1>5, <1>6, <1>7 DEF MasterWaits

\* What is not the answer has no length: it is a timeout or a damaged frame.
LEMMA MasterRetriesIs ==
  ASSUME TypesInv, MasterSays, AnswerInv, MasterRetries
  PROVE  /\ UNCHANGED <<flash, locked, slave>> /\ queue' = Popped("master")
         /\ MasterWaits /\ Received("master")
         /\ MasterStops \/ (MasterSpeaks /\ master'.state = master.state /\ master'.num = master.num)
<1>1. /\ UNCHANGED <<flash, locked, slave>> /\ queue' = Popped("master")
      /\ MasterWaits /\ Received("master") /\ ~Answered
  BY DEF MasterRetries, memory
<1>2. Msg("master").type # "DATA"
  <2>1. Msg("master").type = "DATA" => Msg("master").frame \in Heard("master")
    BY <1>1, QueuePopped, DevicesAre DEF TypesInv, LinkTypes
  <2>2. \A frame \in Heard("master") : Answers(frame)
    BY <1>1 DEF AnswerInv
  <2> QED BY <1>1, <2>1, <2>2 DEF Answered
<1>3. CASE master.retry = OTA_RETRY_MAX
  <2>1. master' = MasterAt("ERROR") /\ UNCHANGED <<air, radio>>
    BY <1>3 DEF MasterRetries
  <2> QED BY <1>1, <2>1, MasterAtIs DEF MasterStops
<1>4. CASE master.retry # OTA_RETRY_MAX
  <2>1. /\ master' = [master EXCEPT !.retry = @ + 1, !.len = master.len]
        /\ MAC_SendData("master", master.tx, master'.len)
    BY <1>2, <1>4 DEF MasterRetries
  <2>a. master \in MasterType /\ master.retry + 1 \in Nat /\ master.len \in Nat
    BY DEF TypesInv, MasterType
  <2>b. master' = [master EXCEPT !.retry = master.retry + 1, !.len = master.len]
    BY <2>1
  <2>2. /\ master' \in MasterType /\ master'.state = master.state /\ master'.num = master.num
        /\ master'.tx = master.tx /\ master'.finish = master.finish /\ master'.len = master.len
    BY <2>a, <2>b DEF MasterType
  <2>3. MasterWaits' /\ MasterSays'
    BY <1>1, <2>2 DEF MasterWaits, MasterSays
  <2>4. master'.state = "DATA_ACK_WAIT" => master'.len = LengthOf.DATA
    BY <2>3 DEF MasterSays
  <2>5. MasterSpeaks
    BY <2>1, <2>a, <2>2, <2>3, <2>4, Spoken DEF TypesInv
  <2> QED BY <1>1, <2>2, <2>5
<1> QED BY <1>3, <1>4
---------------------------------------------------------------------------
(* What the slave does *)

\* It sends an answer.
SlaveSpeaks(frame) ==
  /\ air' \in [Devices -> Frames] /\ radio' \in [Devices -> {"off", "short", "long"}]
  /\ air'.slave.kind = frame.kind /\ air'.slave.num = frame.num
  /\ radio'.slave = "off" /\ air'.master = air.master /\ radio'.master = radio.master

\* It is as after a start.
SlaveStill ==
  /\ air' \in [Devices -> Frames] /\ radio' \in [Devices -> {"off", "short", "long"}]
  /\ ~Sending("slave")' /\ radio'.slave = "off"
  /\ air'.master = air.master /\ radio'.master = radio.master
  /\ queue' = Emptied("slave")

LEMMA SlaveStates0 ==
  ASSUME NEW state \in SlaveStates, NEW area \in Areas, NEW pos \in 0..(ErasedBlocks + 1),
         NEW crc \in Seq(Contents)
  PROVE  /\ [SlaveOff EXCEPT !.state = state, !.area = area, !.pos = pos] \in SlaveType
         /\ [SlaveOff EXCEPT !.state = state, !.area = area, !.crc = crc] \in SlaveType
         /\ SlaveOff \in SlaveType
         /\ 1 \in 0..(ErasedBlocks + 1)
<1>1. NoFrame \in Frames /\ <<>> \in Seq(Contents)
  BY CommandTypes
<1>2. 0 \in 0..Blocks /\ 0 \in 0..(ErasedBlocks + 1) /\ 0 \in Areas /\ 1 \in 0..(ErasedBlocks + 1)
  BY FlashAssumption DEF Areas
<1>3. SlaveOff \in SlaveType
  BY <1>1, <1>2 DEF SlaveOff, SlaveType, SlaveStates, NoBlocks
<1>4. [SlaveOff EXCEPT !.state = state, !.area = area, !.pos = pos] \in SlaveType
  BY <1>3 DEF SlaveType
<1>5. [SlaveOff EXCEPT !.state = state, !.area = area, !.crc = crc] \in SlaveType
  BY <1>3 DEF SlaveType
<1> QED BY <1>2, <1>3, <1>4, <1>5

LEMMA FailedIs ==
  ASSUME TypesInv
  PROVE  /\ Failed \in SlaveType /\ Failed.state = "ERROR" /\ Failed.area = slave.area
         /\ Failed.pos = 1 /\ Failed.num = 0 /\ Failed.crc = <<>>
<1>1. slave.area \in Areas /\ "ERROR" \in SlaveStates /\ <<>> \in Seq(Contents)
  BY DEF TypesInv, SlaveType, SlaveStates
<1>2. Failed \in SlaveType
  <2>1. 1 \in 0..(ErasedBlocks + 1)
    BY FlashAssumption
  <2> QED BY <1>1, <2>1, SlaveStates0 DEF Failed
<1> QED BY <1>2 DEF Failed, SlaveOff, NoBlocks

LEMMA SlaveSpoke ==
  ASSUME LinkTypes, NEW frame \in Frames, NEW len \in Nat, MAC_SendData("slave", frame, len)
  PROVE  SlaveSpeaks(frame)
BY Sent, DevicesAre DEF SlaveSpeaks

\* What the slave has heard.
LEMMA SlaveHeard ==
  ASSUME TypesInv, Received("slave")
  PROVE  /\ Msg("slave").frame \in Frames
         /\ Msg("slave").type = "DATA" => Msg("slave").frame \in Heard("slave")
<1>1. /\ Msg("slave") \in Messages
      /\ Msg("slave").type = "DATA" => Msg("slave").frame \in Heard("slave")
  BY QueuePopped, DevicesAre DEF TypesInv, LinkTypes
<1> QED BY <1>1 DEF Messages

LEMMA SlaveGreetsIs ==
  ASSUME TypesInv, FirmInv, SlaveGreets
  PROVE  /\ UNCHANGED <<flash, locked, master>> /\ queue' = Popped("slave")
         /\ Received("slave") /\ Msg("slave").type = "DATA" /\ SlaveSpeaks(slave'.tx)
         /\ slave' \in SlaveType
         /\ slave'.num = slave.num /\ slave'.crc = slave.crc /\ slave'.area = slave.area
         /\ \/ /\ slave.state = "FW_VERSION_READY" /\ slave'.state = "START_READY"
               /\ Msg("slave").frame.kind = "VERSION_REQ" /\ slave'.tx.kind = "VERSION_RSP"
            \/ /\ slave.state = "START_READY" /\ slave'.state = "DATA_READY"
               /\ Msg("slave").frame.kind = "START_REQ" /\ slave'.tx.kind = "START_RSP"
<1>1. /\ UNCHANGED <<flash, locked, master>> /\ queue' = Popped("slave")
      /\ Received("slave") /\ Msg("slave").type = "DATA"
      /\ \/ slave.state = "FW_VERSION_READY" /\ Msg("slave").frame.kind = "VERSION_REQ"
         \/ slave.state = "START_READY" /\ Msg("slave").frame.kind = "START_REQ"
  BY DEF SlaveGreets, SlaveHas, memory
<1>2. Msg("slave").frame.num \in Int
  BY <1>1, SlaveHeard DEF Frames
<1>3. PICK frame, m :
        /\ frame = IF slave.state = "FW_VERSION_READY" THEN Command("VERSION_RSP", Running)
                   ELSE Command("START_RSP", 0)
        /\ m = IF slave.state = "FW_VERSION_READY" THEN slave.max ELSE Msg("slave").frame.num
        /\ slave' = [slave EXCEPT !.state = IF slave.state = "FW_VERSION_READY"
                                            THEN "START_READY" ELSE "DATA_READY",
                                  !.max = m, !.retry = 0, !.tx = frame, !.len = frame.len]
        /\ MAC_SendData("slave", frame, frame.len)
  BY DEF SlaveGreets
<1>4. Running \in Int
  <2>1. Whole(Started)
    BY DEF FirmInv
  <2>2. Running \in Versions /\ Versions \subseteq Nat
    BY <2>1, RunningWhole, FlashAssumption
  <2> QED BY <2>2
<1>5. frame \in Frames /\ frame.len \in Nat
  <2>1. frame \in Frames
    BY <1>3, <1>4, CommandTypes, KindsAre
  <2> QED BY <2>1 DEF Frames
<1>6. m \in Int
  BY <1>2, <1>3 DEF TypesInv, SlaveType
<1>7. /\ slave' \in SlaveType /\ slave'.tx = frame
      /\ slave'.num = slave.num /\ slave'.crc = slave.crc /\ slave'.area = slave.area
      /\ slave'.state = IF slave.state = "FW_VERSION_READY" THEN "START_READY" ELSE "DATA_READY"
  BY <1>3, <1>5, <1>6 DEF TypesInv, SlaveType, SlaveStates
<1>8. SlaveSpeaks(slave'.tx)
  BY <1>3, <1>5, <1>7, SlaveSpoke DEF TypesInv
<1>9. frame.kind = IF slave.state = "FW_VERSION_READY" THEN "VERSION_RSP" ELSE "START_RSP"
  BY <1>3 DEF Command, Frame
<1> QED BY <1>1, <1>7, <1>8, <1>9

LEMMA SlaveRepeatsIs ==
  ASSUME TypesInv, SlaveRepeats
  PROVE  /\ UNCHANGED <<flash, locked, master>> /\ queue' = Popped("slave")
         /\ Received("slave") /\ Msg("slave").type = "DATA" /\ SlaveSpeaks(slave'.tx)
         /\ slave' \in SlaveType /\ slave'.state = slave.state /\ slave'.tx = slave.tx
         /\ slave'.num = slave.num /\ slave'.crc = slave.crc /\ slave'.area = slave.area
         /\ \/ slave.state = "START_READY" /\ Msg("slave").frame.kind = "VERSION_REQ"
            \/ slave.state = "DATA_READY"  /\ Msg("slave").frame.kind = "START_REQ"
            \/ /\ Taking /\ Msg("slave").frame.kind = "DATA"
               /\ Msg("slave").frame.num = slave.num
<1>1. /\ UNCHANGED <<flash, locked, master>> /\ queue' = Popped("slave")
      /\ Received("slave") /\ Msg("slave").type = "DATA"
      /\ \/ slave.state = "START_READY" /\ Msg("slave").frame.kind = "VERSION_REQ"
         \/ slave.state = "DATA_READY"  /\ Msg("slave").frame.kind = "START_REQ"
         \/ /\ Taking /\ Msg("slave").frame.kind = "DATA"
            /\ Msg("slave").frame.num = slave.num
  BY DEF SlaveRepeats, Repeated, SlaveHas, memory, Taking
<1>2. Msg("slave").frame.len \in Nat
  BY <1>1, SlaveHeard DEF Frames
<1>3. PICK len : len = Msg("slave").frame.len
  OBVIOUS
<1>4. /\ slave' = [slave EXCEPT !.retry = 0, !.len = len]
      /\ MAC_SendData("slave", slave.tx, slave'.len)
  BY <1>3 DEF SlaveRepeats
<1>5. /\ slave' \in SlaveType /\ slave'.state = slave.state /\ slave'.tx = slave.tx
      /\ slave'.num = slave.num /\ slave'.crc = slave.crc /\ slave'.area = slave.area
      /\ slave'.len = len /\ slave.tx \in Frames
  BY <1>2, <1>3, <1>4 DEF TypesInv, SlaveType
<1>6. SlaveSpeaks(slave'.tx)
  BY <1>2, <1>3, <1>4, <1>5, SlaveSpoke DEF TypesInv
<1> QED BY <1>1, <1>5, <1>6

LEMMA SlaveStoresIs ==
  ASSUME TypesInv, RequestInv, SlaveStores
  PROVE  /\ UNCHANGED <<locked, master>> /\ queue' = Popped("slave")
         /\ Received("slave") /\ Msg("slave").type = "DATA" /\ SlaveSpeaks(slave'.tx)
         /\ slave.state = "DATA_READY" /\ Msg("slave").frame.kind = "DATA"
         /\ Msg("slave").frame.num = slave.num + 1 /\ slave.num + 1 \in Positions
         /\ slave' \in SlaveType /\ slave'.num = slave.num + 1
         /\ slave'.crc = Append(slave.crc, Content(Offered, slave.num + 1))
         /\ slave'.area = slave.area /\ slave'.state \in {"DATA_READY", "END_READY"}
         /\ slave'.tx = Ack(slave.num + 1)
         /\ flash' = Written(slave.area, slave.num + 1, Content(Offered, slave.num + 1))
<1> DEFINE k == slave.num + 1
           c == Content(Offered, k)
<1>1. /\ UNCHANGED <<locked, master>> /\ queue' = Popped("slave")
      /\ Received("slave") /\ Msg("slave").type = "DATA"
      /\ slave.state = "DATA_READY" /\ Msg("slave").frame.kind = "DATA"
      /\ Msg("slave").frame.num = k
  BY DEF SlaveStores, NextBlock, SlaveHas
<1>2. WholeFrame(Msg("slave").frame) /\ Msg("slave").frame.len \in Nat
  BY <1>1, SlaveHeard DEF RequestInv, Frames
<1>3. k \in Positions /\ DataIn(Msg("slave").frame) = c
  <2>1. /\ Msg("slave").frame.num \in Positions /\ Msg("slave").frame.len = LengthOf.DATA
        /\ Msg("slave").frame.data = Content(Offered, Msg("slave").frame.num)
    BY <1>1, <1>2 DEF WholeFrame
  <2>2. DataIn(Msg("slave").frame) = Msg("slave").frame.data
    BY <1>2, <2>1, KindsAre DEF DataIn
  <2> QED BY <1>1, <2>1, <2>2
<1>4. PICK len, s : /\ len = Msg("slave").frame.len
                    /\ s = IF k = slave.max THEN "END_READY" ELSE slave.state
  OBVIOUS
<1>5. /\ flash' = Written(slave.area, k, c)
      /\ slave' = [slave EXCEPT !.num = k, !.retry = 0, !.len = len,
                                !.crc = Append(slave.crc, c), !.tx = Ack(k), !.state = s]
      /\ MAC_SendData("slave", Ack(k), LengthOf.ACK)
  BY <1>3, <1>4 DEF SlaveStores
<1>6. /\ k \in 0..Blocks /\ k \in Int /\ c \in Contents
      /\ s \in {"DATA_READY", "END_READY"} /\ len \in Nat
  <2>1. k \in 0..Blocks /\ k \in Int
    BY <1>3, FlashAssumption DEF Positions
  <2>2. c \in Contents
    <3> HIDE DEF k
    <3> QED BY <2>1, FlashAssumption DEF Content, Contents
  <2>3. s \in {"DATA_READY", "END_READY"}
    BY <1>1, <1>4
  <2> HIDE DEF k, c
  <2> QED BY <1>2, <1>4, <2>1, <2>2, <2>3
<1> HIDE DEF k, c
<1>7. Ack(k) \in Frames /\ LengthOf.ACK \in Nat
  BY <1>6, CommandTypes, KindsAre
<1>8. Append(slave.crc, c) \in Seq(Contents)
  BY <1>6 DEF TypesInv, SlaveType
<1>9. /\ slave' \in SlaveType /\ slave'.num = k /\ slave'.crc = Append(slave.crc, c)
      /\ slave'.area = slave.area /\ slave'.state = s /\ slave'.tx = Ack(k)
  BY <1>5, <1>6, <1>7, <1>8 DEF TypesInv, SlaveType, SlaveStates
<1>10. SlaveSpeaks(slave'.tx)
  BY <1>5, <1>7, <1>9, SlaveSpoke DEF TypesInv
<1> QED BY <1>1, <1>3, <1>5, <1>6, <1>9, <1>10 DEF k, c

LEMMA SlaveConcludesIs ==
  ASSUME TypesInv, SlaveConcludes
  PROVE  /\ UNCHANGED <<flash, locked, master>> /\ queue' = Popped("slave")
         /\ Received("slave") /\ Msg("slave").type = "DATA"
         /\ slave.state = "END_READY" /\ Msg("slave").frame.kind = "END_REQ"
         /\ slave' \in SlaveType /\ slave'.area = slave.area /\ slave'.num = 0
         /\ \/ slave' = Failed /\ UNCHANGED <<air, radio>>
            \/ /\ slave'.state = "END" /\ slave'.crc = slave.crc
               /\ SlaveSpeaks(Command("END_RSP", 0))
<1>1. /\ UNCHANGED <<flash, locked, master>> /\ queue' = Popped("slave")
      /\ Received("slave") /\ Msg("slave").type = "DATA"
      /\ slave.state = "END_READY" /\ Msg("slave").frame.kind = "END_REQ"
  BY DEF SlaveConcludes, SlaveHas, memory
<1>2. CASE Msg("slave").frame.num # slave.num
  BY <1>1, <1>2, FailedIs DEF SlaveConcludes
<1>3. CASE Msg("slave").frame.num = slave.num
  <2>1. /\ slave' = [SlaveOff EXCEPT !.state = "END", !.area = slave.area, !.crc = slave.crc]
        /\ MAC_SendData("slave", Command("END_RSP", 0), LengthOf.END_RSP)
    BY <1>3 DEF SlaveConcludes
  <2>2. /\ "END" \in SlaveStates /\ slave.area \in Areas /\ slave.crc \in Seq(Contents)
        /\ 1 \in 0..(ErasedBlocks + 1)
    BY FlashAssumption DEF TypesInv, SlaveType, SlaveStates
  <2>3. slave' \in SlaveType
    BY <2>1, <2>2, SlaveStates0
  <2>4. slave'.state = "END" /\ slave'.crc = slave.crc /\ slave'.area = slave.area /\ slave'.num = 0
    BY <2>1 DEF SlaveOff
  <2>5. Command("END_RSP", 0) \in Frames /\ LengthOf.END_RSP \in Nat
    BY CommandTypes, KindsAre
  <2>6. SlaveSpeaks(Command("END_RSP", 0))
    BY <2>1, <2>5, SlaveSpoke DEF TypesInv
  <2> QED BY <1>1, <2>3, <2>4, <2>6
<1> QED BY <1>2, <1>3

LEMMA SlaveRetriesIs ==
  ASSUME TypesInv, TurnInv, SlaveRetries
  PROVE  /\ UNCHANGED <<flash, locked, master>> /\ queue' = Popped("slave")
         /\ Received("slave") /\ SlaveWaits
         /\ slave' \in SlaveType /\ slave'.area = slave.area
         /\ \/ slave' = Failed /\ UNCHANGED <<air, radio>>
            \/ /\ slave'.state = slave.state /\ slave'.num = slave.num
               /\ slave'.crc = slave.crc /\ slave'.tx = slave.tx
               /\ air' = air /\ radio' = [radio EXCEPT !["slave"] = "long"]
<1>1. /\ UNCHANGED <<flash, locked, master>> /\ queue' = Popped("slave")
      /\ Received("slave") /\ SlaveWaits
  BY DEF SlaveRetries, memory
<1>2. CASE slave.retry = OTA_RETRY_MAX
  <2>1. slave' = Failed /\ UNCHANGED <<air, radio>>
    BY <1>2 DEF SlaveRetries
  <2> QED BY <1>1, <2>1, FailedIs
<1>3. CASE slave.retry # OTA_RETRY_MAX
  <2>1. PICK len : len = IF Msg("slave").type = "DATA" THEN Msg("slave").frame.len ELSE slave.len
    OBVIOUS
  <2>2. len \in Nat
    BY <1>1, <2>1, SlaveHeard DEF Frames, TypesInv, SlaveType
  <2>3. slave' = [slave EXCEPT !.retry = @ + 1, !.len = len] /\ MAC_RecvData("slave")
    BY <1>3, <2>1 DEF SlaveRetries
  <2>4. slave \in SlaveType /\ slave.retry + 1 \in Nat
    BY DEF TypesInv, SlaveType
  <2>5. slave' = [slave EXCEPT !.retry = slave.retry + 1, !.len = len]
    BY <2>3
  <2>6. /\ slave' \in SlaveType /\ slave'.area = slave.area
        /\ slave'.state = slave.state /\ slave'.num = slave.num
        /\ slave'.crc = slave.crc /\ slave'.tx = slave.tx
    BY <2>2, <2>4, <2>5 DEF SlaveType
  <2> QED BY <1>1, <2>3, <2>6 DEF MAC_RecvData
<1> QED BY <1>2, <1>3

LEMMA SlaveExpiresIs ==
  ASSUME TypesInv, SlaveExpires
  PROVE  /\ UNCHANGED <<flash, locked, master, air, radio>> /\ queue' = Emptied("slave")
         /\ SlaveWaits /\ slave' = Failed /\ slave' \in SlaveType
BY FailedIs DEF SlaveExpires, memory

LEMMA SlaveListensIs ==
  ASSUME TypesInv, SlaveListens
  PROVE  /\ UNCHANGED <<flash, locked, master, queue>> /\ slave' \in SlaveType
         /\ slave.state = "INIT" /\ slave'.state = "FW_VERSION_READY" /\ slave.pos > ErasedBlocks
         /\ slave'.num = slave.num /\ slave'.crc = slave.crc /\ slave'.area = slave.area
         /\ air' = air /\ radio' = [radio EXCEPT !["slave"] = "long"]
BY DEF SlaveListens, MAC_RecvData, memory, TypesInv, SlaveType, SlaveStates

\* A restart, by itself or by a power failure.
LEMMA SlaveRestartIs ==
  ASSUME TypesInv, SlaveRestart
  PROVE  /\ slave' \in SlaveType /\ slave'.state = "boot" /\ slave'.num = 0 /\ slave'.crc = <<>>
         /\ SlaveStill
<1>1. slave' = SlaveOff /\ RadioOff("slave") /\ queue' = Emptied("slave")
  BY DEF SlaveRestart
<1>2. /\ air' \in [Devices -> Frames] /\ radio' \in [Devices -> {"off", "short", "long"}]
      /\ ~Sending("slave")' /\ radio'.slave = "off"
      /\ air'.master = air.master /\ radio'.master = radio.master
  BY <1>1, SwitchedOff, DevicesAre DEF TypesInv
<1>3. SlaveOff \in SlaveType
  <2>1. /\ "off" \in SlaveStates /\ 0 \in Areas /\ 0 \in 0..(ErasedBlocks + 1)
        /\ <<>> \in Seq(Contents)
    BY FlashAssumption DEF SlaveStates, Areas
  <2> QED BY <2>1, SlaveStates0
<1> QED BY <1>1, <1>2, <1>3 DEF SlaveStill, SlaveOff, NoBlocks

\* What the slave does with the image in its flash while the air is silent.
LEMMA SlaveBeginIs ==
  ASSUME TypesInv, SlaveBegin
  PROVE  /\ UNCHANGED <<flash, master, air, radio, queue>> /\ slave' \in SlaveType
         /\ slave.state = "off" /\ slave'.state = "INIT"
         /\ slave'.num = 0 /\ slave'.crc = <<>> /\ slave'.area = Target /\ slave'.pos = 1
         /\ locked' \in {FALSE, locked}
<1>1. Target \in Areas /\ "INIT" \in SlaveStates /\ <<>> \in Seq(Contents)
      /\ 1 \in 0..(ErasedBlocks + 1)
  BY FlashAssumption, AreasAre DEF Target, SlaveStates
<1>2. /\ slave' = [SlaveOff EXCEPT !.state = "INIT", !.area = Target, !.pos = 1]
      /\ UNCHANGED <<flash, master, air, radio, queue>> /\ slave.state = "off"
      /\ locked' \in {FALSE, locked}
  BY DEF SlaveBegin, link, flash_unlock
<1>3. slave' \in SlaveType
  BY <1>1, <1>2, SlaveStates0
<1> QED BY <1>2, <1>3 DEF SlaveOff, NoBlocks

LEMMA SlaveErasesIs ==
  ASSUME TypesInv, FirmInv, SlaveErases
  PROVE  /\ UNCHANGED <<locked, master, air, radio, queue>> /\ slave' \in SlaveType
         /\ slave.state \in {"INIT", "ERROR"} /\ slave'.state = slave.state
         /\ slave'.num = slave.num /\ slave'.crc = slave.crc /\ slave'.area = slave.area
         /\ slave'.pos = slave.pos + 1 /\ slave.pos \in Positions /\ slave.pos \in Nat
         /\ flash' = Erased(slave.area, slave.pos)
<1>1. /\ UNCHANGED <<locked, master, air, radio, queue>>
      /\ slave.state \in {"INIT", "ERROR"} /\ slave.pos <= ErasedBlocks
      /\ flash' = Erased(slave.area, slave.pos)
      /\ slave' = [slave EXCEPT !.pos = slave.pos + 1]
  BY DEF SlaveErases, link
<1>2. slave.pos \in 0..(ErasedBlocks + 1) /\ slave.pos > 0
  BY <1>1 DEF FirmInv, TypesInv, SlaveType
<1>3. slave.pos \in Positions /\ slave.pos \in Nat /\ slave.pos + 1 \in 0..(ErasedBlocks + 1)
  BY <1>1, <1>2, FlashAssumption DEF Positions
<1>4. /\ slave' \in SlaveType /\ slave'.state = slave.state
      /\ slave'.num = slave.num /\ slave'.crc = slave.crc /\ slave'.area = slave.area
      /\ slave'.pos = slave.pos + 1
  <2>1. PICK p : p = slave.pos + 1
    OBVIOUS
  <2> QED BY <1>1, <1>3, <2>1 DEF TypesInv, SlaveType
<1> QED BY <1>1, <1>3, <1>4

LEMMA SlaveMarksIs ==
  ASSUME TypesInv, ReplyInv, SlaveMarks
  PROVE  /\ UNCHANGED <<locked, master, air, radio, queue>> /\ slave' \in SlaveType
         /\ slave.state = "END" /\ slave'.num = 0 /\ slave'.area = slave.area
         /\ slave'.crc = <<>>
         /\ \/ /\ CrcMatches(slave.area, slave.crc) /\ slave'.state = "MARKED"
               /\ flash' = Marked(slave.area)
            \/ slave' = Failed /\ UNCHANGED flash
<1>1. UNCHANGED <<locked, master, air, radio, queue>> /\ slave.state = "END"
  BY DEF SlaveMarks, link
<1>2. CASE CrcMatches(slave.area, slave.crc)
  <2>1. /\ flash' = Marked(slave.area)
        /\ slave' = [slave EXCEPT !.state = "MARKED", !.crc = <<>>]
    BY <1>2 DEF SlaveMarks, NoBlocks
  <2>2. slave.num = 0
    BY <1>1 DEF ReplyInv, Taking
  <2>3. slave \in SlaveType /\ <<>> \in Seq(Contents) /\ "MARKED" \in SlaveStates
    BY DEF TypesInv, SlaveStates
  <2>4. /\ slave' \in SlaveType /\ slave'.state = "MARKED" /\ slave'.crc = <<>>
        /\ slave'.num = slave.num /\ slave'.area = slave.area
    BY <2>1, <2>3 DEF SlaveType
  <2> QED BY <1>1, <1>2, <2>1, <2>2, <2>4
<1>3. CASE ~CrcMatches(slave.area, slave.crc)
  <2>1. slave' = Failed /\ UNCHANGED flash
    BY <1>3 DEF SlaveMarks
  <2> QED BY <1>1, <2>1, FailedIs
<1> QED BY <1>2, <1>3
---------------------------------------------------------------------------
(* The dialogue *)

LinkInv == TurnInv /\ RequestInv /\ AnswerInv /\ StepInv

LEMMA QueuesAre ==
  ASSUME LinkTypes
  PROVE  /\ \A d \in Devices : Len(queue[d]) \in Nat /\ queue[d] \in Seq(Messages)
         /\ \A d \in Devices : ~Received(d) <=> Len(queue[d]) = 0
         /\ \A d \in Devices : ~Received(d) => Heard(d) = {}
<1>1. \A d \in Devices : queue[d] \in Seq(Messages)
  BY DEF LinkTypes
<1>2. \A d \in Devices : Len(queue[d]) \in Nat
  BY <1>1
<1>3. \A d \in Devices : ~Received(d) => Heard(d) = {}
  BY Silent DEF LinkTypes
<1> QED BY <1>1, <1>2, <1>3 DEF Received

LEMMA MasterFrameEnds ==
  ASSUME TypesInv, LinkInv, Prompt, Deliver("master") \/ Damage("master") \/ Lose("master")
  PROVE  LinkTypes' /\ LinkInv' /\ UNCHANGED <<flash, locked, master, slave>>
<1>1. /\ LinkTypes' /\ UNCHANGED <<flash, locked, master, slave>>
      /\ Sending("master") /\ ~Sending("master")' /\ air'.slave = air.slave
      /\ radio'.master = "short" /\ radio'.slave \in {radio.slave, "off"}
      /\ queue'.master = queue.master /\ Heard("master")' = Heard("master")
      /\ Heard("slave")' \subseteq Heard("slave") \cup {air.master}
      /\ Len(queue'.slave) <= Len(queue.slave) + 1
      /\ radio.slave = "off" => queue' = queue /\ Heard("slave")' = Heard("slave")
  BY FrameEnds, DevicesAre DEF TypesInv
<1>2. /\ MasterWaits' <=> MasterWaits
      /\ SlaveWaits' <=> SlaveWaits
      /\ Taking' <=> Taking
      /\ \A frame : Matches(frame)' <=> Matches(frame)
      /\ \A frame : Answers(frame)' <=> Answers(frame)
  BY <1>1 DEF MasterWaits, SlaveWaits, Matches, Answers, Taking
<1>3. /\ Sending("slave")' <=> Sending("slave")
      /\ Received("master")' <=> Received("master")
  BY <1>1 DEF Sending, Received
<1>4. /\ Len(queue.slave) \in Nat /\ (~Received("slave") => Len(queue.slave) = 0)
      /\ ~Received("slave") => Heard("slave") = {}
      /\ Received("slave")' => Len(queue'.slave) # 0
      /\ Len(queue'.slave) \in Nat
  BY <1>1, QueuesAre, DevicesAre DEF TypesInv, LinkTypes, Received
<1>5. ~(MasterWaits /\ Received("master")) /\ ~(SlaveWaits /\ Received("slave"))
  BY DEF Prompt
<1>6. ~Sending("slave")
  BY <1>1 DEF LinkInv, TurnInv
<1>7. TurnInv'
  <2>1. MasterWaits' => Len(queue'.master) <= 1
    BY <1>1, <1>2 DEF LinkInv, TurnInv
  <2>2. SlaveWaits' => Len(queue'.slave) <= 1
    BY <1>1, <1>2, <1>4, <1>5
  <2>3. ~(MasterWaits' /\ Received("master")')
    BY <1>2, <1>3, <1>5
  <2>4. ~Sending("slave")' /\ ~Sending("master")'
    BY <1>1, <1>3, <1>6
  <2>5. radio'.master # "long"
    BY <1>1
  <2>6. master'.state # "off"
    BY <1>1 DEF LinkInv, TurnInv
  <2>7. slave'.state \in {"boot", "off", "INIT"} =>
          ~Sending("slave")' /\ radio'.slave = "off" /\ ~Received("slave")'
    <3>1. SUFFICES ASSUME slave'.state \in {"boot", "off", "INIT"}
                   PROVE  radio'.slave = "off" /\ ~Received("slave")'
      BY <2>4
    <3>2. radio.slave = "off" /\ ~Received("slave")
      BY <1>1, <3>1 DEF LinkInv, TurnInv
    <3> QED BY <1>1, <3>2 DEF Received
  <2>8. \A d \in Devices : ~Sending(d)'
    BY <2>4 DEF Devices
  <2> QED BY <2>1, <2>2, <2>3, <2>4, <2>5, <2>6, <2>7, <2>8 DEF TurnInv
<1>8. RequestInv'
  <2>1. WholeFrame(air.master) /\ (MasterWaits => Matches(air.master))
    BY <1>1 DEF LinkInv, RequestInv
  <2>2. MasterSays'
    BY <1>1 DEF LinkInv, RequestInv, MasterSays
  <2>3. \A frame \in Heard("slave")' :
          WholeFrame(frame) /\ (MasterWaits /\ SlaveWaits => Matches(frame))
    BY <1>1, <2>1 DEF LinkInv, RequestInv
  <2> QED BY <1>1, <1>2, <2>2, <2>3 DEF RequestInv, WholeFrame
<1>9. AnswerInv'
  BY <1>1, <1>2, <1>3, <1>6 DEF LinkInv, AnswerInv
<1>10. StepInv'
  <2>1. Answering' => Answering
    BY <1>1, <1>3 DEF Answering
  <2> QED BY <1>1, <1>2, <2>1 DEF LinkInv, StepInv
<1> QED BY <1>1, <1>7, <1>8, <1>9, <1>10 DEF LinkInv

LEMMA SlaveFrameEnds ==
  ASSUME TypesInv, LinkInv, Prompt, Deliver("slave") \/ Damage("slave") \/ Lose("slave")
  PROVE  LinkTypes' /\ LinkInv' /\ UNCHANGED <<flash, locked, master, slave>>
<1>1. /\ LinkTypes' /\ UNCHANGED <<flash, locked, master, slave>>
      /\ Sending("slave") /\ ~Sending("slave")' /\ air'.master = air.master
      /\ radio'.slave = "short" /\ radio'.master \in {radio.master, "off"}
      /\ queue'.slave = queue.slave /\ Heard("slave")' = Heard("slave")
      /\ Heard("master")' \subseteq Heard("master") \cup {air.slave}
      /\ Len(queue'.master) <= Len(queue.master) + 1
      /\ radio.master = "off" => queue' = queue /\ Heard("master")' = Heard("master")
  BY FrameEnds, DevicesAre DEF TypesInv
<1>2. /\ MasterWaits' <=> MasterWaits
      /\ SlaveWaits' <=> SlaveWaits
      /\ Taking' <=> Taking
      /\ \A frame : Matches(frame)' <=> Matches(frame)
      /\ \A frame : Answers(frame)' <=> Answers(frame)
  BY <1>1 DEF MasterWaits, SlaveWaits, Matches, Answers, Taking
<1>3. /\ Sending("master")' <=> Sending("master")
      /\ Received("slave")' <=> Received("slave")
  BY <1>1 DEF Sending, Received
<1>4. /\ Len(queue.master) \in Nat /\ (~Received("master") => Len(queue.master) = 0)
      /\ ~Received("master") => Heard("master") = {}
      /\ ~Received("slave") => Heard("slave") = {}
      /\ Len(queue'.master) \in Nat
  BY <1>1, QueuesAre, DevicesAre DEF TypesInv, LinkTypes, Received
<1>5. ~(MasterWaits /\ Received("master")) /\ ~(SlaveWaits /\ Received("slave"))
  BY DEF Prompt
<1>6. ~Sending("master")
  BY <1>1 DEF LinkInv, TurnInv
<1>7. TurnInv'
  <2>1. SlaveWaits' => Len(queue'.slave) <= 1
    BY <1>1, <1>2 DEF LinkInv, TurnInv
  <2>2. MasterWaits' => Len(queue'.master) <= 1
    BY <1>1, <1>2, <1>4, <1>5
  <2>3. ~(SlaveWaits' /\ Received("slave")')
    BY <1>2, <1>3, <1>5
  <2>4. ~Sending("slave")' /\ ~Sending("master")'
    BY <1>1, <1>3, <1>6
  <2>5. radio'.master # "long"
    BY <1>1 DEF LinkInv, TurnInv
  <2>6. slave'.state \notin {"boot", "off", "INIT"}
    BY <1>1 DEF LinkInv, TurnInv
  <2>7. master'.state = "off" => radio'.master = "off" /\ ~Received("master")'
    <3>1. SUFFICES ASSUME master'.state = "off"
                   PROVE  radio'.master = "off" /\ ~Received("master")'
      OBVIOUS
    <3>2. radio.master = "off" /\ ~Received("master")
      BY <1>1, <3>1 DEF LinkInv, TurnInv
    <3> QED BY <1>1, <3>2 DEF Received
  <2>8. \A d \in Devices : ~Sending(d)'
    BY <2>4 DEF Devices
  <2> QED BY <2>1, <2>2, <2>3, <2>4, <2>5, <2>6, <2>7, <2>8 DEF TurnInv
<1>8. RequestInv'
  <2>1. MasterSays'
    BY <1>1 DEF LinkInv, RequestInv, MasterSays
  <2> QED BY <1>1, <1>2, <1>3, <1>6, <2>1 DEF LinkInv, RequestInv, WholeFrame
<1>9. AnswerInv'
  <2>1. MasterWaits => Answers(air.slave)
    BY <1>1 DEF LinkInv, AnswerInv
  <2> QED BY <1>1, <1>2, <2>1 DEF LinkInv, AnswerInv
<1>10. StepInv'
  <2>1. Answering
    BY <1>1 DEF Answering
  <2> QED BY <1>1, <1>2, <2>1 DEF LinkInv, StepInv
<1> QED BY <1>1, <1>7, <1>8, <1>9, <1>10 DEF LinkInv

LEMMA TimeoutComes ==
  ASSUME TypesInv, LinkInv, Prompt, NEW d \in Devices, RxTimeout(d)
  PROVE  LinkTypes' /\ LinkInv' /\ UNCHANGED <<flash, locked, master, slave>>
<1>1. /\ LinkTypes' /\ UNCHANGED <<flash, locked, master, slave, air>>
      /\ radio[d] # "off" /\ radio'[d] = "off" /\ radio'[Other(d)] = radio[Other(d)]
      /\ queue'[Other(d)] = queue[Other(d)]
      /\ \A e \in Devices : Heard(e)' \subseteq Heard(e)
      /\ Len(queue'[d]) <= Len(queue[d]) + 1
      /\ d = "master" => radio[d] = "long" \/ ~Sending("slave")
  BY ListeningEnds DEF TypesInv
<1>2. /\ MasterWaits' <=> MasterWaits
      /\ SlaveWaits' <=> SlaveWaits
      /\ Taking' <=> Taking
      /\ \A frame : Matches(frame)' <=> Matches(frame)
      /\ \A frame : Answers(frame)' <=> Answers(frame)
      /\ Sending("master")' <=> Sending("master")
      /\ Sending("slave")' <=> Sending("slave")
  BY <1>1 DEF MasterWaits, SlaveWaits, Matches, Answers, Taking, Sending
<1>3. /\ Heard("master")' \subseteq Heard("master")
      /\ Heard("slave")' \subseteq Heard("slave")
  BY <1>1, DevicesAre
<1>4. /\ Len(queue.master) \in Nat /\ (~Received("master") => Len(queue.master) = 0)
      /\ Len(queue.slave) \in Nat /\ (~Received("slave") => Len(queue.slave) = 0)
      /\ Len(queue'.master) \in Nat /\ Len(queue'.slave) \in Nat
  BY <1>1, QueuesAre, DevicesAre DEF TypesInv, LinkTypes, Received
<1>5. ~(MasterWaits /\ Received("master")) /\ ~(SlaveWaits /\ Received("slave"))
  BY DEF Prompt
<1>6. RequestInv'
  <2>1. MasterSays'
    BY <1>1 DEF LinkInv, RequestInv, MasterSays
  <2> QED BY <1>1, <1>2, <1>3, <2>1 DEF LinkInv, RequestInv, WholeFrame
<1>7. AnswerInv'
  BY <1>1, <1>2, <1>3 DEF LinkInv, AnswerInv
<1>8. StepInv'
  <2>1. Answering' => Answering
    BY <1>2, <1>3 DEF Answering
  <2> QED BY <1>1, <1>2, <2>1 DEF LinkInv, StepInv
<1>9. \A e \in Devices : Sending(e)' => radio'[e] = "off"
  <2>1. \A e \in Devices : e = d \/ e = Other(d)
    BY DEF Devices, Other
  <2>2. \A e \in Devices : Sending(e)' => Sending(e)
    BY <1>2 DEF Devices
  <2> QED BY <1>1, <2>1, <2>2 DEF LinkInv, TurnInv
<1>10. CASE d = "master"
  <2>1. /\ radio.master # "off" /\ radio'.master = "off" /\ radio'.slave = radio.slave
        /\ queue'.slave = queue.slave /\ Len(queue'.master) <= Len(queue.master) + 1
        /\ ~Sending("slave") /\ ~Sending("master") /\ master.state # "off"
    BY <1>1, <1>10, DevicesAre DEF LinkInv, TurnInv
  <2>2. Received("slave")' <=> Received("slave")
    BY <2>1 DEF Received
  <2>3. MasterWaits' => Len(queue'.master) <= 1
    BY <1>2, <1>4, <1>5, <2>1
  <2>4. slave'.state \in {"boot", "off", "INIT"} => radio'.slave = "off" /\ ~Received("slave")'
    BY <1>1, <2>1, <2>2 DEF LinkInv, TurnInv
  <2>5. SlaveWaits' => Len(queue'.slave) <= 1
    BY <1>2, <2>1 DEF LinkInv, TurnInv
  <2>6. TurnInv'
    BY <1>1, <1>2, <1>5, <1>9, <2>1, <2>2, <2>3, <2>4, <2>5 DEF TurnInv
  <2> QED BY <1>1, <1>6, <1>7, <1>8, <2>6 DEF LinkInv
<1>11. CASE d = "slave"
  <2>1. /\ radio.slave # "off" /\ radio'.slave = "off" /\ radio'.master = radio.master
        /\ queue'.master = queue.master /\ Len(queue'.slave) <= Len(queue.slave) + 1
        /\ ~Sending("slave") /\ slave.state \notin {"boot", "off", "INIT"}
    BY <1>1, <1>11, DevicesAre DEF LinkInv, TurnInv
  <2>2. Received("master")' <=> Received("master")
    BY <2>1 DEF Received
  <2>3. SlaveWaits' => Len(queue'.slave) <= 1
    BY <1>2, <1>4, <1>5, <2>1
  <2>4. master'.state = "off" => ~Sending("master") /\ radio'.master = "off" /\ ~Received("master")'
    BY <1>1, <2>1, <2>2 DEF LinkInv, TurnInv
  <2>5. MasterWaits' => Len(queue'.master) <= 1
    BY <1>2, <2>1 DEF LinkInv, TurnInv
  <2>6. SlaveWaits /\ Heard("slave")' # {} => FALSE
    <3>1. SlaveWaits => Heard("slave") = {}
      BY <1>5, QueuesAre, DevicesAre DEF TypesInv
    <3> QED BY <1>3, <3>1
  <2>7. radio'.master # "long"
    BY <2>1 DEF LinkInv, TurnInv
  <2>8. TurnInv'
    BY <1>1, <1>2, <1>5, <1>9, <2>1, <2>2, <2>3, <2>4, <2>5, <2>6, <2>7 DEF TurnInv
  <2> QED BY <1>1, <1>6, <1>7, <1>8, <2>8 DEF LinkInv
<1> QED BY <1>10, <1>11 DEF Devices

\* When the master speaks, neither has anything to hear or to say.
LEMMA MasterSpoke ==
  ASSUME TypesInv, LinkInv, MasterSpeaks, UNCHANGED slave,
         queue' \in [Devices -> Seq(Messages)], queue'.slave = queue.slave,
         ~Received("master")', Len(queue'.master) = 0, Heard("master")' = {},
         ~(SlaveWaits /\ Received("slave")), ~Sending("slave")
  PROVE  LinkTypes' /\ TurnInv' /\ RequestInv' /\ AnswerInv' /\ ~Answering'
<1>1. /\ air'.slave = air.slave /\ radio'.slave = radio.slave /\ radio'.master = "off"
      /\ Sending("master")' /\ WholeFrame(air.master)' /\ Matches(air.master)'
      /\ MasterWaits' /\ MasterSays'
  BY DEF MasterSpeaks
<1>2. LinkTypes'
  BY DEF MasterSpeaks, LinkTypes
<1>3. ~Sending("slave")'
  BY <1>1 DEF Sending
<1>4. Heard("slave")' = Heard("slave") /\ (Received("slave")' <=> Received("slave"))
  BY DEF Heard, Received
<1>5. SlaveWaits' <=> SlaveWaits
  BY DEF SlaveWaits
<1>6. SlaveWaits => Heard("slave") = {}
  BY QueuesAre, DevicesAre DEF TypesInv
<1>7. TurnInv'
  <2>1. slave'.state \in {"boot", "off", "INIT"} => radio'.slave = "off" /\ ~Received("slave")'
    BY <1>1, <1>4 DEF LinkInv, TurnInv
  <2>2. master'.state # "off"
    BY <1>1 DEF MasterWaits
  <2>3. SlaveWaits' => Len(queue'.slave) <= 1
    BY <1>5 DEF LinkInv, TurnInv
  <2>4. \A d \in Devices : Sending(d)' => radio'[d] = "off"
    BY <1>1, <1>3 DEF Devices
  <2>5. Len(queue'.master) <= 1 /\ radio'.master # "long"
    BY <1>1
  <2> QED BY <1>3, <1>4, <1>5, <1>6, <2>1, <2>2, <2>3, <2>4, <2>5 DEF TurnInv
<1>8. RequestInv'
  BY <1>1, <1>4, <1>5, <1>6 DEF LinkInv, RequestInv, WholeFrame
<1>9. AnswerInv'
  BY <1>3 DEF AnswerInv
<1>10. ~Answering'
  BY <1>3 DEF Answering
<1> QED BY <1>2, <1>7, <1>8, <1>9, <1>10

\* When it does not wait any more, nothing is promised about what it hears.
LEMMA MasterStopped ==
  ASSUME TypesInv, LinkInv, UNCHANGED <<slave, air, radio>>,
         queue' \in [Devices -> Seq(Messages)], queue'.slave = queue.slave,
         master'.state \in {"END", "ERROR"}
  PROVE  LinkTypes' /\ LinkInv'
<1>1. ~MasterWaits' /\ master'.state # "off"
  BY DEF MasterWaits
<1>2. LinkTypes'
  BY DEF TypesInv, LinkTypes
<1>3. /\ Sending("slave")' <=> Sending("slave")
      /\ Sending("master")' <=> Sending("master")
  BY DEF Sending
<1>4. Heard("slave")' = Heard("slave") /\ (Received("slave")' <=> Received("slave"))
  BY DEF Heard, Received
<1>5. SlaveWaits' <=> SlaveWaits
  BY DEF SlaveWaits
<1>6. TurnInv'
  <2>1. \A d \in Devices : Sending(d)' => radio'[d] = "off"
    BY <1>3 DEF LinkInv, TurnInv, Devices
  <2>2. slave'.state \in {"boot", "off", "INIT"} =>
          ~Sending("slave")' /\ radio'.slave = "off" /\ ~Received("slave")'
    BY <1>3, <1>4 DEF LinkInv, TurnInv
  <2>3. SlaveWaits' => Len(queue'.slave) <= 1
    BY <1>5 DEF LinkInv, TurnInv
  <2>4. radio'.master # "long" /\ ~(Sending("master")' /\ Sending("slave")')
    BY <1>3 DEF LinkInv, TurnInv
  <2>5. SlaveWaits' /\ Heard("slave")' # {} => ~Sending("master")'
    BY <1>3, <1>4, <1>5 DEF LinkInv, TurnInv
  <2>6. SlaveWaits' /\ Received("slave")' => ~Sending("slave")'
    BY <1>3, <1>4, <1>5 DEF LinkInv, TurnInv
  <2> QED BY <1>1, <2>1, <2>2, <2>3, <2>4, <2>5, <2>6 DEF TurnInv
<1>7. RequestInv'
  <2>1. MasterSays'
    BY <1>1 DEF MasterSays
  <2> QED BY <1>1, <1>3, <1>4, <2>1 DEF LinkInv, RequestInv, WholeFrame
<1>8. AnswerInv'
  BY <1>1 DEF AnswerInv
<1>9. StepInv'
  BY <1>1 DEF StepInv
<1> QED BY <1>2, <1>6, <1>7, <1>8, <1>9 DEF LinkInv

LEMMA MasterLink ==
  ASSUME TypesInv, LinkInv, MasterBegin \/ MasterWorks \/ MasterExpires
  PROVE  /\ LinkTypes' /\ LinkInv' /\ master' \in MasterType
         /\ UNCHANGED <<flash, locked, slave>>
<1> USE DEF TypesInv
<1>1. CASE MasterBegin
  <2>1. /\ MasterSpeaks /\ Quiet /\ master.state = "off" /\ master'.state = "FW_VER_WAIT"
        /\ UNCHANGED <<flash, locked, slave, queue>>
    BY <1>1, MasterBeginIs
  <2>2. ~Received("master")' /\ Len(queue'.master) = 0 /\ Heard("master")' = {}
    <3>1. ~Received("master")
      BY <2>1 DEF LinkInv, TurnInv
    <3>2. Len(queue.master) = 0 /\ Heard("master") = {}
      BY <3>1, QueuesAre, DevicesAre
    <3> QED BY <2>1, <3>1, <3>2 DEF Received, Heard
  <2>3. ~(SlaveWaits /\ Received("slave")) /\ ~Sending("slave")
    BY <2>1, DevicesAre DEF Quiet, Prompt
  <2>4. LinkTypes' /\ TurnInv' /\ RequestInv' /\ AnswerInv' /\ ~Answering'
    BY <2>1, <2>2, <2>3, MasterSpoke DEF LinkTypes
  <2>5. StepInv'
    BY <2>1, <2>4 DEF StepInv
  <2> QED BY <2>1, <2>4, <2>5 DEF LinkInv, MasterSpeaks
<1>2. CASE MasterAnswered
  <2>1. /\ UNCHANGED <<flash, locked, slave>> /\ queue' = Popped("master")
        /\ MasterWaits /\ Received("master") /\ Msg("master").type = "DATA"
        /\ MasterStops \/ (MasterSpeaks /\ MasterSteps)
    BY <1>2, MasterAnsweredIs DEF LinkInv, RequestInv
  <2>2. /\ queue' \in [Devices -> Seq(Messages)] /\ queue'.slave = queue.slave
        /\ ~Received("master")' /\ Heard("master")' = {} /\ Len(queue'.master) = 0
        /\ Msg("master").frame \in Heard("master")
    <3>1. Len(queue.master) <= 1
      BY <2>1 DEF LinkInv, TurnInv
    <3>2. Len(queue.master) \in Nat /\ Len(queue.master) > 0
      BY <2>1, QueuesAre, DevicesAre DEF Received
    <3> QED BY <2>1, <3>1, <3>2, QueuePopped, DevicesAre DEF LinkTypes
  <2>3. CASE MasterStops
    <3>1. LinkTypes' /\ LinkInv'
      BY <2>1, <2>2, <2>3, MasterStopped DEF MasterStops
    <3> QED BY <2>1, <2>3, <3>1 DEF MasterStops
  <2>4. CASE MasterSpeaks /\ MasterSteps
    <3>1. ~(SlaveWaits /\ Received("slave")) /\ ~Sending("slave")
      BY <2>1 DEF LinkInv, TurnInv
    <3>2. LinkTypes' /\ TurnInv' /\ RequestInv' /\ AnswerInv' /\ ~Answering'
      BY <2>1, <2>2, <2>4, <3>1, MasterSpoke
    <3>3. Answering /\ (Taking' <=> Taking) /\ slave' = slave
      BY <2>1, <2>2 DEF Answering, Taking
    <3>4. master.num \in Int
      BY DEF MasterType
    <3>5. StepInv
      BY DEF LinkInv
    <3>6. StepInv'
      <4>1. CASE master.state = "FW_VER_WAIT" /\ master'.state = "START_RSP_WAIT"
        BY <3>2, <3>3, <3>5, <4>1 DEF StepInv
      <4>2. CASE /\ master.state = "START_RSP_WAIT" /\ master'.state = "DATA_ACK_WAIT"
                 /\ master'.num = 1
        BY <3>2, <3>3, <3>5, <4>2 DEF StepInv
      <4>3. CASE /\ master.state = "DATA_ACK_WAIT" /\ master'.state = "DATA_ACK_WAIT"
                 /\ master'.num = master.num + 1
        BY <3>2, <3>3, <3>4, <3>5, <4>3 DEF StepInv
      <4>4. CASE master.state = "DATA_ACK_WAIT" /\ master'.state = "END_RSP_WAIT"
        BY <4>4 DEF StepInv
      <4> QED BY <2>4, <4>1, <4>2, <4>3, <4>4 DEF MasterSteps
    <3> QED BY <2>1, <2>4, <3>2, <3>6 DEF LinkInv, MasterSpeaks
  <2> QED BY <2>1, <2>3, <2>4
<1>3. CASE MasterRetries
  <2>1. /\ UNCHANGED <<flash, locked, slave>> /\ queue' = Popped("master")
        /\ MasterWaits /\ Received("master")
        /\ \/ MasterStops
           \/ MasterSpeaks /\ master'.state = master.state /\ master'.num = master.num
    BY <1>3, MasterRetriesIs DEF LinkInv, RequestInv
  <2>2. /\ queue' \in [Devices -> Seq(Messages)] /\ queue'.slave = queue.slave
        /\ ~Received("master")' /\ Heard("master")' = {} /\ Len(queue'.master) = 0
    <3>1. Len(queue.master) <= 1
      BY <2>1 DEF LinkInv, TurnInv
    <3>2. Len(queue.master) \in Nat /\ Len(queue.master) > 0
      BY <2>1, QueuesAre, DevicesAre DEF Received
    <3> QED BY <2>1, <3>1, <3>2, QueuePopped, DevicesAre DEF LinkTypes
  <2>3. CASE MasterStops
    <3>1. LinkTypes' /\ LinkInv'
      BY <2>1, <2>2, <2>3, MasterStopped DEF MasterStops
    <3> QED BY <2>1, <2>3, <3>1 DEF MasterStops
  <2>4. CASE MasterSpeaks /\ master'.state = master.state /\ master'.num = master.num
    <3>1. ~(SlaveWaits /\ Received("slave")) /\ ~Sending("slave")
      BY <2>1 DEF LinkInv, TurnInv
    <3>2. LinkTypes' /\ TurnInv' /\ RequestInv' /\ AnswerInv' /\ ~Answering'
      BY <2>1, <2>2, <2>4, <3>1, MasterSpoke
    <3>3. (Taking' <=> Taking) /\ slave' = slave
      BY <2>1 DEF Taking
    <3>4. StepInv'
      BY <2>4, <3>2, <3>3 DEF LinkInv, StepInv
    <3> QED BY <2>1, <2>4, <3>2, <3>4 DEF LinkInv, MasterSpeaks
  <2> QED BY <2>1, <2>3, <2>4
<1>4. CASE MasterExpires
  <2>1. /\ UNCHANGED <<flash, locked, slave, air, radio>> /\ queue' = Emptied("master")
        /\ master' = MasterAt("ERROR")
    BY <1>4 DEF MasterExpires, memory
  <2>2. master' \in MasterType /\ master'.state = "ERROR"
    BY <2>1, MasterAtIs
  <2>3. queue' \in [Devices -> Seq(Messages)] /\ queue'.slave = queue.slave
    BY <2>1, QueueEmptied, DevicesAre DEF LinkTypes
  <2>4. LinkTypes' /\ LinkInv'
    BY <2>1, <2>2, <2>3, MasterStopped
  <2> QED BY <2>1, <2>2, <2>4
<1>5. CASE MasterEnds
  <2>1. /\ UNCHANGED <<flash, locked, slave>> /\ queue' = Emptied("master")
        /\ master' = MasterOff /\ RadioOff("master") /\ Quiet
    BY <1>5 DEF MasterEnds, memory
  <2>2. master' \in MasterType /\ master'.state = "off"
    BY <2>1, MasterAtIs
  <2>3. /\ queue' \in [Devices -> Seq(Messages)] /\ queue'.slave = queue.slave
        /\ ~Received("master")' /\ Heard("master")' = {}
    BY <2>1, QueueEmptied, DevicesAre DEF LinkTypes
  <2>4. /\ air' \in [Devices -> Frames] /\ radio' \in [Devices -> {"off", "short", "long"}]
        /\ ~Sending("master")' /\ radio'.master = "off"
        /\ air'.slave = air.slave /\ radio'.slave = radio.slave
    BY <2>1, SwitchedOff, DevicesAre
  <2>5. ~MasterWaits' /\ (SlaveWaits' <=> SlaveWaits) /\ (Sending("slave")' <=> Sending("slave"))
    BY <2>1, <2>2, <2>4 DEF MasterWaits, SlaveWaits, Sending
  <2>6. Heard("slave")' = Heard("slave") /\ (Received("slave")' <=> Received("slave"))
    BY <2>3 DEF Heard, Received
  <2>7. TurnInv'
    <3>1. \A d \in Devices : Sending(d)' => radio'[d] = "off"
      BY <2>4, <2>5 DEF LinkInv, TurnInv, Devices
    <3>2. slave'.state \in {"boot", "off", "INIT"} =>
            ~Sending("slave")' /\ radio'.slave = "off" /\ ~Received("slave")'
      BY <2>1, <2>4, <2>5, <2>6 DEF LinkInv, TurnInv
    <3>3. SlaveWaits' => Len(queue'.slave) <= 1
      BY <2>3, <2>5 DEF LinkInv, TurnInv
    <3>4. SlaveWaits' /\ Received("slave")' => ~Sending("slave")'
      BY <2>5, <2>6 DEF LinkInv, TurnInv
    <3> QED BY <2>3, <2>4, <2>5, <3>1, <3>2, <3>3, <3>4 DEF TurnInv
  <2>8. RequestInv'
    <3>1. MasterSays'
      BY <2>2 DEF MasterSays
    <3> QED BY <2>4, <2>5, <2>6, <3>1 DEF LinkInv, RequestInv, WholeFrame
  <2>9. AnswerInv' /\ StepInv' /\ LinkTypes'
    BY <2>2, <2>3, <2>4, <2>5 DEF AnswerInv, StepInv, LinkTypes
  <2> QED BY <2>1, <2>2, <2>7, <2>8, <2>9 DEF LinkInv
<1> QED BY <1>1, <1>2, <1>3, <1>4, <1>5 DEF MasterWorks
---------------------------------------------------------------------------
(* The slave in the dialogue *)

\* What the slave has heard is what the master waits for an answer to.
LEMMA Asked ==
  ASSUME RequestInv, MasterWaits, SlaveWaits, NEW frame \in Heard("slave")
  PROVE  /\ frame.kind = "VERSION_REQ" => master.state = "FW_VER_WAIT"
         /\ frame.kind = "START_REQ"   => master.state = "START_RSP_WAIT"
         /\ frame.kind = "DATA"        => /\ master.state = "DATA_ACK_WAIT"
                                          /\ master.num = frame.num
         /\ frame.kind = "END_REQ"     => master.state = "END_RSP_WAIT"
<1>1. MasterSays /\ frame.kind = master.tx.kind /\ frame.num = master.tx.num
  BY DEF RequestInv, Matches
<1>2. CASE master.state = "DATA_ACK_WAIT"
  <2>1. master.tx = Frame("DATA", master.num, Content(Offered, master.num))
    BY <1>1, <1>2 DEF MasterSays
  <2>2. master.tx.kind = "DATA" /\ master.tx.num = master.num
    BY <2>1 DEF Frame
  <2> QED BY <1>1, <1>2, <2>2
<1>3. CASE master.state # "DATA_ACK_WAIT"
  BY <1>1, <1>3 DEF MasterSays, MasterWaits
<1> QED BY <1>2, <1>3

\* It answers: then the master has nothing to handle and does not send.
LEMMA SlaveReplied ==
  ASSUME TypesInv, LinkInv, UNCHANGED master, queue' = Popped("slave"), SlaveWaits,
         Received("slave"), Msg("slave").type = "DATA", NEW frame, SlaveSpeaks(frame),
         slave'.state \notin {"boot", "off", "INIT"}, MasterWaits => Answers(frame)
  PROVE  LinkTypes' /\ TurnInv' /\ RequestInv' /\ AnswerInv'
<1>1. /\ queue' \in [Devices -> Seq(Messages)] /\ queue'.master = queue.master
      /\ ~Received("slave")' /\ Heard("slave")' = {} /\ Len(queue'.slave) = 0
      /\ Heard("slave") # {}
  <2>1. Len(queue.slave) <= 1
    BY DEF LinkInv, TurnInv
  <2>2. Len(queue.slave) \in Nat /\ Len(queue.slave) > 0
    BY QueuesAre, DevicesAre DEF Received, TypesInv
  <2>3. "slave" \in Devices /\ "master" \in Devices \ {"slave"}
    BY DEF Devices
  <2>4. queue \in [Devices -> Seq(Messages)]
    BY DEF TypesInv, LinkTypes
  <2>5. /\ Msg("slave").frame \in Heard("slave")
        /\ queue' \in [Devices -> Seq(Messages)] /\ queue'.master = queue.master
        /\ Len(queue'.slave) = Len(queue.slave) - 1
        /\ ~Received("slave")' /\ Heard("slave")' = {}
    BY <2>1, <2>3, <2>4, QueuePopped
  <2> QED BY <2>1, <2>2, <2>5
<1>2. /\ air'.slave.kind = frame.kind /\ air'.slave.num = frame.num
      /\ radio'.slave = "off" /\ air'.master = air.master /\ radio'.master = radio.master
  BY DEF SlaveSpeaks
<1>3. LinkTypes'
  BY <1>1 DEF SlaveSpeaks, LinkTypes
<1>4. ~Sending("master") /\ ~Sending("master")'
  BY <1>1, <1>2 DEF LinkInv, TurnInv, Sending
<1>5. /\ MasterWaits' <=> MasterWaits
      /\ Received("master")' <=> Received("master")
      /\ Heard("master")' = Heard("master")
  BY <1>1 DEF MasterWaits, Received, Heard
<1>6. ~(MasterWaits /\ Received("master"))
  BY DEF LinkInv, TurnInv
<1>7. TurnInv'
  <2>1. \A d \in Devices : Sending(d)' => radio'[d] = "off"
    BY <1>2, <1>4 DEF Devices
  <2>2. master'.state = "off" => radio'.master = "off" /\ ~Received("master")'
    BY <1>2, <1>5 DEF LinkInv, TurnInv
  <2>3. MasterWaits' => Len(queue'.master) <= 1
    BY <1>1, <1>5 DEF LinkInv, TurnInv
  <2>4. radio'.master # "long"
    BY <1>2 DEF LinkInv, TurnInv
  <2>5. Len(queue'.slave) <= 1
    BY <1>1
  <2> QED BY <1>1, <1>4, <1>5, <1>6, <2>1, <2>2, <2>3, <2>4, <2>5 DEF TurnInv
<1>8. RequestInv'
  <2>1. MasterSays'
    BY DEF LinkInv, RequestInv, MasterSays
  <2> QED BY <1>1, <1>4, <2>1 DEF RequestInv
<1>9. AnswerInv'
  <2>1. MasterWaits => Answers(air.slave)'
    BY <1>2 DEF Answers
  <2>2. \A f : Answers(f)' <=> Answers(f)
    BY DEF Answers
  <2> QED BY <1>5, <2>1, <2>2 DEF LinkInv, AnswerInv
<1> QED BY <1>3, <1>7, <1>8, <1>9

\* It is busy with itself: what is sent or has been heard does not matter to it.
LEMMA SlaveBusy ==
  ASSUME TypesInv, LinkInv, UNCHANGED <<master, air, radio>>,
         queue' \in [Devices -> Seq(Messages)], queue'.master = queue.master,
         Heard("slave")' \subseteq Heard("slave"), Received("slave")' => Received("slave"),
         ~SlaveWaits', slave'.state \in {"boot", "off", "INIT"} =>
                         slave.state \in {"boot", "off", "INIT"}
  PROVE  LinkTypes' /\ LinkInv'
<1>1. LinkTypes'
  BY DEF TypesInv, LinkTypes
<1>2. /\ MasterWaits' <=> MasterWaits
      /\ Received("master")' <=> Received("master")
      /\ Heard("master")' = Heard("master")
      /\ Sending("slave")' <=> Sending("slave")
      /\ Sending("master")' <=> Sending("master")
  BY DEF MasterWaits, Received, Heard, Sending
<1>3. TurnInv'
  <2>1. \A d \in Devices : Sending(d)' => radio'[d] = "off"
    BY <1>2 DEF LinkInv, TurnInv, Devices
  <2>2. master'.state = "off" => ~Sending("master")' /\ radio'.master = "off" /\ ~Received("master")'
    BY <1>2 DEF LinkInv, TurnInv
  <2>3. MasterWaits' => Len(queue'.master) <= 1
    BY <1>2 DEF LinkInv, TurnInv
  <2>4. radio'.master # "long" /\ ~(Sending("master")' /\ Sending("slave")')
    BY <1>2 DEF LinkInv, TurnInv
  <2>5. slave'.state \in {"boot", "off", "INIT"} =>
          ~Sending("slave")' /\ radio'.slave = "off" /\ ~Received("slave")'
    BY <1>2 DEF LinkInv, TurnInv
  <2>6. MasterWaits' /\ Received("master")' => ~Sending("master")' /\ ~Sending("slave")'
    BY <1>2 DEF LinkInv, TurnInv
  <2> QED BY <2>1, <2>2, <2>3, <2>4, <2>5, <2>6 DEF TurnInv
<1>4. RequestInv'
  <2>1. MasterSays'
    BY DEF LinkInv, RequestInv, MasterSays
  <2>2. \A f : Matches(f)' <=> Matches(f)
    BY DEF Matches
  <2> QED BY <1>2, <2>1, <2>2 DEF LinkInv, RequestInv, WholeFrame
<1>5. AnswerInv'
  <2>1. \A f : Answers(f)' <=> Answers(f)
    BY DEF Answers
  <2> QED BY <1>2, <2>1 DEF LinkInv, AnswerInv
<1>6. StepInv'
  <2>1. ~Taking'
    BY DEF Taking, SlaveWaits
  <2> QED BY <2>1 DEF StepInv
<1> QED BY <1>1, <1>3, <1>4, <1>5, <1>6 DEF LinkInv

\* It listens again.
LEMMA SlaveListened ==
  ASSUME TypesInv, LinkInv, UNCHANGED <<master, air>>, ~Sending("slave"),
         radio' = [radio EXCEPT !["slave"] = "long"],
         queue' \in [Devices -> Seq(Messages)], queue'.master = queue.master,
         ~Received("slave")', Heard("slave")' = {}, Len(queue'.slave) = 0,
         slave'.state \notin {"boot", "off", "INIT"}, Taking' => Taking /\ slave'.num = slave.num
  PROVE  LinkTypes' /\ LinkInv'
<1>1. /\ radio' \in [Devices -> {"off", "short", "long"}]
      /\ radio'.slave = "long" /\ radio'.master = radio.master
  BY DEF TypesInv, LinkTypes, Devices
<1>2. LinkTypes'
  BY <1>1 DEF TypesInv, LinkTypes
<1>3. /\ MasterWaits' <=> MasterWaits
      /\ Received("master")' <=> Received("master")
      /\ Heard("master")' = Heard("master")
      /\ ~Sending("slave")'
      /\ Sending("master")' <=> Sending("master")
  BY DEF MasterWaits, Received, Heard, Sending
<1>4. TurnInv'
  <2>1. \A d \in Devices : Sending(d)' => radio'[d] = "off"
    BY <1>1, <1>3 DEF LinkInv, TurnInv, Devices
  <2>2. master'.state = "off" => ~Sending("master")' /\ radio'.master = "off" /\ ~Received("master")'
    BY <1>1, <1>3 DEF LinkInv, TurnInv
  <2>3. MasterWaits' => Len(queue'.master) <= 1
    BY <1>3 DEF LinkInv, TurnInv
  <2>4. radio'.master # "long"
    BY <1>1 DEF LinkInv, TurnInv
  <2>5. MasterWaits' /\ Received("master")' => ~Sending("master")' /\ ~Sending("slave")'
    BY <1>3 DEF LinkInv, TurnInv
  <2>6. Len(queue'.slave) <= 1
    OBVIOUS
  <2> QED BY <1>3, <2>1, <2>2, <2>3, <2>4, <2>5, <2>6 DEF TurnInv
<1>5. RequestInv'
  <2>1. MasterSays'
    BY DEF LinkInv, RequestInv, MasterSays
  <2>2. \A f : Matches(f)' <=> Matches(f)
    BY DEF Matches
  <2> QED BY <1>3, <2>1, <2>2 DEF LinkInv, RequestInv, WholeFrame
<1>6. AnswerInv'
  <2>1. \A f : Answers(f)' <=> Answers(f)
    BY DEF Answers
  <2> QED BY <1>3, <2>1 DEF LinkInv, AnswerInv
<1>7. StepInv'
  <2>1. Answering' => Answering
    BY <1>3 DEF Answering
  <2> QED BY <2>1 DEF LinkInv, StepInv
<1> QED BY <1>2, <1>4, <1>5, <1>6, <1>7 DEF LinkInv

\* It starts again.
LEMMA SlaveStarted ==
  ASSUME TypesInv, LinkInv, UNCHANGED master, SlaveStill, slave'.state = "boot"
  PROVE  LinkTypes' /\ LinkInv'
<1>1. /\ queue' \in [Devices -> Seq(Messages)] /\ queue'.master = queue.master
      /\ ~Received("slave")' /\ Heard("slave")' = {}
  BY QueueEmptied, DevicesAre DEF SlaveStill, TypesInv, LinkTypes
<1>2. /\ ~Sending("slave")' /\ radio'.slave = "off"
      /\ air'.master = air.master /\ radio'.master = radio.master
  BY DEF SlaveStill
<1>3. LinkTypes'
  BY <1>1 DEF SlaveStill, LinkTypes
<1>4. /\ MasterWaits' <=> MasterWaits
      /\ Received("master")' <=> Received("master")
      /\ Heard("master")' = Heard("master")
      /\ Sending("master")' <=> Sending("master")
      /\ ~SlaveWaits' /\ ~Taking'
  BY <1>1, <1>2 DEF MasterWaits, Received, Heard, Sending, SlaveWaits, Taking
<1>5. TurnInv'
  <2>1. \A d \in Devices : Sending(d)' => radio'[d] = "off"
    BY <1>2, <1>4 DEF LinkInv, TurnInv, Devices
  <2>2. master'.state = "off" => ~Sending("master")' /\ radio'.master = "off" /\ ~Received("master")'
    BY <1>2, <1>4 DEF LinkInv, TurnInv
  <2>3. MasterWaits' => Len(queue'.master) <= 1
    BY <1>1, <1>4 DEF LinkInv, TurnInv
  <2>4. radio'.master # "long"
    BY <1>2 DEF LinkInv, TurnInv
  <2>5. MasterWaits' /\ Received("master")' => ~Sending("master")'
    BY <1>4 DEF LinkInv, TurnInv
  <2> QED BY <1>1, <1>2, <1>4, <2>1, <2>2, <2>3, <2>4, <2>5 DEF TurnInv
<1>6. RequestInv'
  <2>1. MasterSays'
    BY DEF LinkInv, RequestInv, MasterSays
  <2>2. \A f : Matches(f)' <=> Matches(f)
    BY DEF Matches
  <2> QED BY <1>1, <1>2, <1>4, <2>1, <2>2 DEF LinkInv, RequestInv, WholeFrame
<1>7. AnswerInv'
  <2>1. \A f : Answers(f)' <=> Answers(f)
    BY DEF Answers
  <2> QED BY <1>2, <1>4, <2>1 DEF LinkInv, AnswerInv
<1>8. StepInv'
  BY <1>4 DEF StepInv
<1> QED BY <1>3, <1>5, <1>6, <1>7, <1>8 DEF LinkInv

LEMMA SlaveBootIs ==
  ASSUME TypesInv, SlaveBoot
  PROVE  /\ UNCHANGED <<flash, master, air, radio, queue>> /\ locked' \in BOOLEAN
         /\ slave' \in SlaveType /\ slave.state = "boot" /\ slave'.state = "off"
         /\ slave'.num = slave.num /\ slave'.crc = slave.crc
BY DEF SlaveBoot, link, flash_lock, TypesInv, SlaveType, SlaveStates

\* What was in the queue of a slave that was waiting is gone.
LEMMA SlavePopped ==
  ASSUME TypesInv, LinkInv, SlaveWaits, Received("slave"), queue' = Popped("slave")
  PROVE  /\ queue' \in [Devices -> Seq(Messages)] /\ queue'.master = queue.master
         /\ ~Received("slave")' /\ Heard("slave")' = {} /\ Len(queue'.slave) = 0
<1>1. "slave" \in Devices /\ "master" \in Devices \ {"slave"}
  BY DEF Devices
<1>2. queue \in [Devices -> Seq(Messages)]
  BY DEF TypesInv, LinkTypes
<1>3. Len(queue.slave) <= 1 /\ Len(queue.slave) \in Nat /\ Len(queue.slave) > 0
  BY <1>1, QueuesAre DEF Received, TypesInv, LinkInv, TurnInv
<1>4. /\ queue' \in [Devices -> Seq(Messages)] /\ queue'.master = queue.master
      /\ Len(queue'.slave) = Len(queue.slave) - 1
      /\ ~Received("slave")' /\ Heard("slave")' = {}
  BY <1>1, <1>2, <1>3, QueuePopped
<1> QED BY <1>3, <1>4

LEMMA ReplyStill ==
  ASSUME slave'.num = 0, slave'.crc = <<>>, ~SlaveWaits', slave'.state # "END"
  PROVE  ReplyInv'
<1>1. SubSeq(Image(Offered), 1, 0) = <<>>
  BY CrcStarts
<1> QED BY <1>1 DEF ReplyInv, Taking, SlaveWaits

LEMMA GreetsLink ==
  ASSUME TypesInv, LinkInv, ReplyInv, FirmInv, SlaveGreets
  PROVE  LinkTypes' /\ LinkInv' /\ ReplyInv'
<1>1. /\ UNCHANGED <<flash, locked, master>> /\ queue' = Popped("slave")
      /\ Received("slave") /\ Msg("slave").type = "DATA" /\ SlaveSpeaks(slave'.tx)
      /\ slave'.num = slave.num /\ slave'.crc = slave.crc
      /\ \/ /\ slave.state = "FW_VERSION_READY" /\ slave'.state = "START_READY"
            /\ Msg("slave").frame.kind = "VERSION_REQ" /\ slave'.tx.kind = "VERSION_RSP"
         \/ /\ slave.state = "START_READY" /\ slave'.state = "DATA_READY"
            /\ Msg("slave").frame.kind = "START_REQ" /\ slave'.tx.kind = "START_RSP"
  BY SlaveGreetsIs
<1>2. SlaveWaits /\ Msg("slave").frame \in Heard("slave")
  BY <1>1, SlaveHeard DEF SlaveWaits
<1>3. MasterWaits => \/ slave'.state = "START_READY" /\ master.state = "FW_VER_WAIT"
                     \/ slave'.state = "DATA_READY" /\ master.state = "START_RSP_WAIT"
  BY <1>1, <1>2, Asked DEF LinkInv
<1>4. MasterWaits => Answers(slave'.tx)
  <2>1. SUFFICES ASSUME MasterWaits PROVE Answers(slave'.tx)
    OBVIOUS
  <2>2. CASE slave'.state = "START_READY"
    BY <1>1, <1>3, <2>1, <2>2 DEF Answers
  <2>3. CASE slave'.state = "DATA_READY"
    BY <1>1, <1>3, <2>1, <2>3 DEF Answers
  <2> QED BY <1>1, <2>2, <2>3
<1>5. LinkTypes' /\ TurnInv' /\ RequestInv' /\ AnswerInv'
  BY <1>1, <1>2, <1>4, SlaveReplied
<1>6. slave.num = 0 /\ slave.crc = SubSeq(Image(Offered), 1, 0)
  BY <1>1 DEF ReplyInv, Taking
<1>7. StepInv'
  BY <1>1, <1>3, <1>6 DEF StepInv, Taking, MasterWaits
<1>8. ReplyInv'
  BY <1>1, <1>6 DEF ReplyInv, Taking
<1> QED BY <1>5, <1>7, <1>8 DEF LinkInv

LEMMA RepeatsLink ==
  ASSUME TypesInv, LinkInv, ReplyInv, SlaveRepeats
  PROVE  LinkTypes' /\ LinkInv' /\ ReplyInv'
<1>1. /\ UNCHANGED <<flash, locked, master>> /\ queue' = Popped("slave")
      /\ Received("slave") /\ Msg("slave").type = "DATA" /\ SlaveSpeaks(slave'.tx)
      /\ slave'.state = slave.state /\ slave'.tx = slave.tx
      /\ slave'.num = slave.num /\ slave'.crc = slave.crc
      /\ \/ slave.state = "START_READY" /\ Msg("slave").frame.kind = "VERSION_REQ"
         \/ slave.state = "DATA_READY"  /\ Msg("slave").frame.kind = "START_REQ"
         \/ /\ Taking /\ Msg("slave").frame.kind = "DATA"
            /\ Msg("slave").frame.num = slave.num
  BY SlaveRepeatsIs
<1>2. SlaveWaits /\ Msg("slave").frame \in Heard("slave")
  BY <1>1, SlaveHeard DEF SlaveWaits, Taking
<1>3. slave.num \in Nat
  BY FlashAssumption DEF TypesInv, SlaveType
<1>4. ASSUME slave.state = "START_READY" /\ Msg("slave").frame.kind = "VERSION_REQ"
      PROVE  (MasterWaits => Answers(slave'.tx)) /\ StepInv'
  <2>1. MasterWaits => master.state = "FW_VER_WAIT"
    BY <1>2, <1>4, Asked DEF LinkInv
  <2>2. slave.tx.kind = "VERSION_RSP" /\ ~Taking'
    BY <1>1, <1>4 DEF ReplyInv, Taking
  <2>3. MasterWaits => Answers(slave'.tx)
    BY <1>1, <2>1, <2>2 DEF Answers
  <2>4. StepInv'
    BY <2>2 DEF StepInv
  <2> QED BY <2>3, <2>4
<1>5. ASSUME slave.state = "DATA_READY" /\ Msg("slave").frame.kind = "START_REQ"
      PROVE  (MasterWaits => Answers(slave'.tx)) /\ StepInv'
  <2>1. MasterWaits => master.state = "START_RSP_WAIT"
    BY <1>2, <1>5, Asked DEF LinkInv
  <2>2. MasterWaits => slave.num = 0 /\ slave.tx.kind = "START_RSP"
    BY <1>5, <2>1 DEF LinkInv, StepInv, ReplyInv, Taking
  <2>3. MasterWaits => Answers(slave'.tx)
    BY <1>1, <2>1, <2>2 DEF Answers
  <2>4. StepInv'
    BY <1>1, <2>1, <2>2 DEF StepInv, MasterWaits
  <2> QED BY <2>3, <2>4
<1>6. ASSUME Taking /\ Msg("slave").frame.kind = "DATA" /\ Msg("slave").frame.num = slave.num
      PROVE  (MasterWaits => Answers(slave'.tx)) /\ StepInv'
  <2>1. MasterWaits => master.state = "DATA_ACK_WAIT" /\ master.num = slave.num
    BY <1>2, <1>6, Asked DEF LinkInv
  <2>2. slave.num \in Positions
    BY <1>2, <1>6 DEF LinkInv, RequestInv, WholeFrame
  <2>3. slave.num # 0
    BY <2>2, FlashAssumption DEF Positions
  <2>4. slave.tx.kind = "ACK" /\ slave.tx.num = slave.num
    BY <1>6, <2>3 DEF ReplyInv
  <2>5. MasterWaits => Answers(slave'.tx)
    BY <1>1, <2>1, <2>4 DEF Answers
  <2>6. StepInv'
    BY <1>1, <2>1 DEF StepInv, MasterWaits
  <2> QED BY <2>5, <2>6
<1>7. (MasterWaits => Answers(slave'.tx)) /\ StepInv'
  BY <1>1, <1>4, <1>5, <1>6
<1>8. slave'.state \notin {"boot", "off", "INIT"}
  BY <1>1, <1>2 DEF SlaveWaits
<1>9. LinkTypes' /\ TurnInv' /\ RequestInv' /\ AnswerInv'
  BY <1>1, <1>2, <1>7, <1>8, SlaveReplied
<1>10. ReplyInv'
  <2>1. Taking' <=> Taking
    BY <1>1 DEF Taking
  <2> QED BY <1>1, <2>1 DEF ReplyInv
<1> QED BY <1>7, <1>9, <1>10 DEF LinkInv

LEMMA StoresLink ==
  ASSUME TypesInv, LinkInv, ReplyInv, SlaveStores
  PROVE  LinkTypes' /\ LinkInv' /\ ReplyInv'
<1>1. /\ UNCHANGED master /\ queue' = Popped("slave")
      /\ Received("slave") /\ Msg("slave").type = "DATA" /\ SlaveSpeaks(slave'.tx)
      /\ slave.state = "DATA_READY" /\ Msg("slave").frame.kind = "DATA"
      /\ Msg("slave").frame.num = slave.num + 1 /\ slave.num + 1 \in Positions
      /\ slave'.num = slave.num + 1
      /\ slave'.crc = Append(slave.crc, Content(Offered, slave.num + 1))
      /\ slave'.state \in {"DATA_READY", "END_READY"}
      /\ slave'.tx = Ack(slave.num + 1)
  BY SlaveStoresIs DEF LinkInv
<1>2. SlaveWaits /\ Msg("slave").frame \in Heard("slave") /\ Taking /\ Taking'
  BY <1>1, SlaveHeard DEF SlaveWaits, Taking
<1>3. slave.num \in 0..Blocks /\ slave.num \in Nat
  BY FlashAssumption DEF TypesInv, SlaveType
<1>4. MasterWaits => master.state = "DATA_ACK_WAIT" /\ master.num = slave'.num
  BY <1>1, <1>2, Asked DEF LinkInv
<1>5. slave'.tx.kind = "ACK" /\ slave'.tx.num = slave'.num
  BY <1>1 DEF Ack, Frame
<1>6. MasterWaits => Answers(slave'.tx)
  BY <1>4, <1>5 DEF Answers
<1>7. LinkTypes' /\ TurnInv' /\ RequestInv' /\ AnswerInv'
  BY <1>1, <1>2, <1>6, SlaveReplied
<1>8. StepInv'
  BY <1>1, <1>4 DEF StepInv, MasterWaits
<1>9. ReplyInv'
  <2>1. slave.crc = SubSeq(Image(Offered), 1, slave.num)
    BY <1>1 DEF ReplyInv
  <2>2. slave'.crc = SubSeq(Image(Offered), 1, slave.num + 1)
    BY <1>1, <1>3, <2>1, CrcGrows
  <2>3. slave'.num # 0
    BY <1>1, <1>3
  <2> QED BY <1>1, <1>2, <1>5, <2>2, <2>3 DEF ReplyInv
<1> QED BY <1>7, <1>8, <1>9 DEF LinkInv

\* A step that ends the dialogue without an answer.
LEMMA FailedLink ==
  ASSUME TypesInv, LinkInv, UNCHANGED <<master, air, radio>>, slave' = Failed,
         queue' = Emptied("slave") \/ (SlaveWaits /\ Received("slave") /\ queue' = Popped("slave"))
  PROVE  LinkTypes' /\ LinkInv' /\ ReplyInv'
<1>1. /\ queue' \in [Devices -> Seq(Messages)] /\ queue'.master = queue.master
      /\ ~Received("slave")' /\ Heard("slave")' = {}
  <2>1. CASE queue' = Emptied("slave")
    BY <2>1, QueueEmptied, DevicesAre DEF TypesInv, LinkTypes
  <2>2. CASE SlaveWaits /\ Received("slave") /\ queue' = Popped("slave")
    BY <2>2, SlavePopped
  <2> QED BY <2>1, <2>2
<1>2. slave'.state = "ERROR" /\ slave'.num = 0 /\ slave'.crc = <<>>
  BY FailedIs
<1>3. ~SlaveWaits'
  BY <1>2 DEF SlaveWaits
<1>4. LinkTypes' /\ LinkInv'
  BY <1>1, <1>2, <1>3, SlaveBusy
<1>5. ReplyInv'
  BY <1>2, <1>3, ReplyStill
<1> QED BY <1>4, <1>5

LEMMA ConcludesLink ==
  ASSUME TypesInv, LinkInv, ReplyInv, SlaveConcludes
  PROVE  LinkTypes' /\ LinkInv' /\ ReplyInv'
<1>1. /\ UNCHANGED <<flash, locked, master>> /\ queue' = Popped("slave")
      /\ Received("slave") /\ Msg("slave").type = "DATA"
      /\ slave.state = "END_READY" /\ Msg("slave").frame.kind = "END_REQ"
      /\ slave'.num = 0
      /\ \/ slave' = Failed /\ UNCHANGED <<air, radio>>
         \/ /\ slave'.state = "END" /\ slave'.crc = slave.crc
            /\ SlaveSpeaks(Command("END_RSP", 0))
  BY SlaveConcludesIs
<1>2. SlaveWaits /\ Msg("slave").frame \in Heard("slave")
  BY <1>1, SlaveHeard DEF SlaveWaits
<1>3. CASE slave' = Failed /\ UNCHANGED <<air, radio>>
  BY <1>1, <1>2, <1>3, FailedLink
<1>4. CASE /\ slave'.state = "END" /\ slave'.crc = slave.crc
           /\ SlaveSpeaks(Command("END_RSP", 0))
  <2>1. MasterWaits => master.state = "END_RSP_WAIT"
    BY <1>1, <1>2, Asked DEF LinkInv
  <2>2. MasterWaits => Answers(Command("END_RSP", 0))
    BY <2>1 DEF Answers, Command, Frame
  <2>3. LinkTypes' /\ TurnInv' /\ RequestInv' /\ AnswerInv'
    BY <1>1, <1>2, <1>4, <2>2, SlaveReplied
  <2>4. ~Taking'
    BY <1>4 DEF Taking
  <2>5. StepInv'
    BY <2>4 DEF StepInv
  <2>6. slave.num \in 0..Blocks /\ slave.crc = SubSeq(Image(Offered), 1, slave.num)
    BY <1>1 DEF ReplyInv, TypesInv, SlaveType
  <2>7. ReplyInv'
    BY <1>1, <1>4, <2>4, <2>6 DEF ReplyInv
  <2> QED BY <2>3, <2>5, <2>7 DEF LinkInv
<1> QED BY <1>1, <1>3, <1>4

LEMMA RetriesLink ==
  ASSUME TypesInv, LinkInv, ReplyInv, SlaveRetries
  PROVE  LinkTypes' /\ LinkInv' /\ ReplyInv'
<1>1. /\ UNCHANGED <<flash, locked, master>> /\ queue' = Popped("slave")
      /\ Received("slave") /\ SlaveWaits
      /\ \/ slave' = Failed /\ UNCHANGED <<air, radio>>
         \/ /\ slave'.state = slave.state /\ slave'.num = slave.num
            /\ slave'.crc = slave.crc /\ slave'.tx = slave.tx
            /\ air' = air /\ radio' = [radio EXCEPT !["slave"] = "long"]
  BY SlaveRetriesIs DEF LinkInv
<1>2. CASE slave' = Failed /\ UNCHANGED <<air, radio>>
  BY <1>1, <1>2, FailedLink
<1>3. CASE /\ slave'.state = slave.state /\ slave'.num = slave.num
           /\ slave'.crc = slave.crc /\ slave'.tx = slave.tx
           /\ air' = air /\ radio' = [radio EXCEPT !["slave"] = "long"]
  <2>1. /\ queue' \in [Devices -> Seq(Messages)] /\ queue'.master = queue.master
        /\ ~Received("slave")' /\ Heard("slave")' = {} /\ Len(queue'.slave) = 0
    BY <1>1, SlavePopped
  <2>2. ~Sending("slave")
    BY <1>1 DEF LinkInv, TurnInv
  <2>3. (Taking' <=> Taking) /\ slave'.state \notin {"boot", "off", "INIT"}
    BY <1>1, <1>3 DEF Taking, SlaveWaits
  <2>4. LinkTypes' /\ LinkInv'
    BY <1>1, <1>3, <2>1, <2>2, <2>3, SlaveListened
  <2>5. ReplyInv'
    BY <1>3, <2>3 DEF ReplyInv
  <2> QED BY <2>4, <2>5
<1> QED BY <1>1, <1>2, <1>3
---------------------------------------------------------------------------
(* The image that runs *)

FirmNext == FlashTypes' /\ FirmInv' /\ Running' \in {Running, Offered}

LEMMA FirmRests ==
  ASSUME FlashTypes, FirmInv, UNCHANGED flash, locked' \in BOOLEAN, slave'.state \in {"boot", "off"}
  PROVE  FirmNext
<1>1. Running' = Running /\ Whole(Started)'
  BY FlashKept DEF FirmInv
<1>2. FirmInv'
  BY <1>1 DEF FirmInv, SlaveWaits
<1> QED BY <1>1, <1>2 DEF FirmNext, FlashTypes

LEMMA FirmFails ==
  ASSUME TypesInv, FirmInv, UNCHANGED <<flash, locked>>, slave' = Failed,
         SlaveWaits \/ slave.state = "END"
  PROVE  FirmNext
<1>1. Running' = Running /\ Whole(Started)' /\ Started' = Started
  BY FlashKept DEF FirmInv
<1>2. slave'.state = "ERROR" /\ slave'.area = slave.area /\ slave'.pos = 1
  BY FailedIs
<1>3. Started = 1 - slave.area
  BY DEF FirmInv
<1>4. FirmInv'
  BY <1>1, <1>2, <1>3 DEF FirmInv, SlaveWaits
<1> QED BY <1>1, <1>4 DEF FirmNext, FlashTypes, TypesInv

LEMMA FirmWaits ==
  ASSUME TypesInv, FirmInv, UNCHANGED <<flash, locked>>, slave'.area = slave.area,
         SlaveWaits \/ (slave.state = "INIT" /\ slave.pos > 1),
         SlaveWaits' \/ slave'.state = "END"
  PROVE  FirmNext
<1>1. Running' = Running /\ Whole(Started)' /\ Started' = Started
  BY FlashKept DEF FirmInv
<1>2. Started = 1 - slave.area /\ (~locked => flash[slave.area].mark = "blank")
  BY DEF FirmInv
<1>3. slave'.state \notin {"INIT", "ERROR", "MARKED"}
  BY DEF SlaveWaits
<1>4. FirmInv'
  BY <1>1, <1>2, <1>3 DEF FirmInv
<1> QED BY <1>1, <1>4 DEF FirmNext, FlashTypes, TypesInv

\* The area that does not run changes.
LEMMA FirmTouched ==
  ASSUME TypesInv, FirmInv, Touches(slave.area), Started = 1 - slave.area,
         locked' \in BOOLEAN, slave'.area = slave.area, slave'.state # "MARKED",
         SlaveWaits' \/ slave'.state = "END" \/ (slave'.state = "INIT" /\ slave'.pos > 1) =>
           (~locked' => flash'[slave.area].mark = "blank"),
         slave'.state \in {"INIT", "ERROR"} => slave'.pos > 0
  PROVE  FirmNext
<1>1. slave.area \in Areas
  BY DEF TypesInv, SlaveType
<1>2. Started' = Started /\ Whole(Started)' /\ Running' = Running
  BY <1>1, TouchedOther DEF FirmInv
<1>3. FlashTypes'
  BY DEF Touches, FlashTypes
<1>4. FirmInv'
  BY <1>2 DEF FirmInv
<1> QED BY <1>2, <1>3, <1>4 DEF FirmNext

LEMMA StoresFirm ==
  ASSUME TypesInv, RequestInv, FirmInv, SlaveStores
  PROVE  FirmNext
<1> DEFINE k == slave.num + 1
           c == Content(Offered, k)
<1>1. /\ UNCHANGED locked /\ slave.state = "DATA_READY" /\ k \in Positions
      /\ slave'.area = slave.area /\ slave'.state \in {"DATA_READY", "END_READY"}
      /\ flash' = Written(slave.area, k, c)
  BY SlaveStoresIs
<1> HIDE DEF k
<1>2. slave.area \in Areas /\ c \in Contents /\ FlashTypes
  BY <1>1, FlashAssumption DEF TypesInv, SlaveType, Content, Contents, Positions
<1> HIDE DEF c
<1>3. Touches(slave.area) /\ flash'[slave.area].mark = flash[slave.area].mark
  BY <1>1, <1>2, WrittenTouches
<1>4. Started = 1 - slave.area /\ (~locked => flash[slave.area].mark = "blank")
  BY <1>1 DEF FirmInv, SlaveWaits
<1> QED BY <1>1, <1>2, <1>3, <1>4, FirmTouched DEF FlashTypes

LEMMA BeginFirm ==
  ASSUME TypesInv, FirmInv, SlaveBegin
  PROVE  FirmNext
<1>1. /\ UNCHANGED flash /\ slave'.state = "INIT" /\ slave'.area = Target /\ slave'.pos = 1
      /\ locked' \in {FALSE, locked}
  BY SlaveBeginIs
<1>2. Running' = Running /\ Whole(Started)' /\ Started' = Started
  BY <1>1, FlashKept DEF FirmInv
<1>3. Started = 1 - slave'.area
  BY <1>1, AreasAre DEF Target
<1>4. FirmInv'
  BY <1>1, <1>2, <1>3 DEF FirmInv, SlaveWaits
<1>5. FlashTypes'
  BY <1>1 DEF FlashTypes, TypesInv
<1> QED BY <1>2, <1>4, <1>5 DEF FirmNext

LEMMA ErasesFirm ==
  ASSUME TypesInv, FirmInv, SlaveErases
  PROVE  FirmNext
<1>1. /\ UNCHANGED locked /\ slave.state \in {"INIT", "ERROR"} /\ slave'.state = slave.state
      /\ slave'.area = slave.area /\ slave'.pos = slave.pos + 1
      /\ slave.pos \in Positions /\ slave.pos \in Nat
      /\ flash' = Erased(slave.area, slave.pos)
  BY SlaveErasesIs
<1>2. slave.area \in Areas /\ FlashTypes
  BY DEF TypesInv, SlaveType
<1>3. /\ Touches(slave.area)
      /\ ~locked /\ (slave.pos = 1 \/ flash[slave.area].mark = "blank") =>
           flash'[slave.area].mark = "blank"
  BY <1>1, <1>2, ErasedTouches
<1>4. Started = 1 - slave.area /\ slave.pos > 0
  BY <1>1 DEF FirmInv
<1>5. slave.state = "INIT" /\ slave.pos > 1 => (~locked => flash[slave.area].mark = "blank")
  BY DEF FirmInv
<1>6. slave'.state = "INIT" /\ ~locked => flash'[slave.area].mark = "blank"
  BY <1>1, <1>3, <1>4, <1>5
<1>7. ~SlaveWaits' /\ slave'.state # "END" /\ slave'.state # "MARKED" /\ slave'.pos > 0
  BY <1>1 DEF SlaveWaits
<1> QED BY <1>1, <1>2, <1>3, <1>4, <1>6, <1>7, FirmTouched DEF FlashTypes

\* Only the image that was offered gets a mark: the CRC is that of what was received.
LEMMA MarksFirm ==
  ASSUME TypesInv, ReplyInv, FirmInv, SlaveMarks
  PROVE  FirmNext
<1>1. /\ UNCHANGED locked /\ slave.state = "END" /\ slave'.area = slave.area
      /\ \/ /\ CrcMatches(slave.area, slave.crc) /\ slave'.state = "MARKED"
            /\ flash' = Marked(slave.area)
         \/ slave' = Failed /\ UNCHANGED flash
  BY SlaveMarksIs
<1>2. CASE slave' = Failed /\ UNCHANGED flash
  BY <1>1, <1>2, FirmFails
<1>3. CASE /\ CrcMatches(slave.area, slave.crc) /\ slave'.state = "MARKED"
           /\ flash' = Marked(slave.area)
  <2>1. PICK v \in Versions : slave.crc = Image(v) /\ flash[slave.area].blocks = Image(v)
    BY <1>3 DEF CrcMatches
  <2>2. PICK n \in 0..Blocks : slave.crc = SubSeq(Image(Offered), 1, n)
    BY <1>1 DEF ReplyInv
  <2>3. v = Offered
    BY <2>1, <2>2, CrcStarts
  <2>4. /\ slave.area \in Areas /\ Offered \in Versions /\ FlashTypes
        /\ Started = 1 - slave.area /\ Whole(Started)
        /\ ~locked => flash[slave.area].mark = "blank"
    BY <1>1, FlashAssumption DEF TypesInv, SlaveType, FirmInv
  <2>5. PICK a : a = slave.area
    OBVIOUS
  <2>6. FlashTypes' /\ BothMarked(a, Offered)' /\ Running' \in {Running, Offered}
    BY <1>1, <1>3, <2>1, <2>3, <2>4, <2>5, MarkedBoth
  <2>7. BothMarked(slave.area, Offered)'
    BY <1>1, <2>5, <2>6 DEF BothMarked, Whole
  <2>8. Whole(Started)'
    <3>1. ASSUME Whole(1 - a)', (~locked => flash[a].mark = "set" /\ flash[a].blocks = Image(Offered))',
                 (locked => Started = 1 - a)'
          PROVE  Whole(Started)'
      BY <2>4, <2>5, <3>1, AreasAre DEF Whole, Started, Areas
    <3> QED BY <2>6, <3>1 DEF BothMarked
  <2>9. FirmInv'
    BY <1>3, <2>7, <2>8 DEF FirmInv, SlaveWaits
  <2> QED BY <2>6, <2>9 DEF FirmNext
<1> QED BY <1>1, <1>2, <1>3

LEMMA SwitchesFirm ==
  ASSUME TypesInv, FirmInv, SlaveSwitches
  PROVE  FirmNext
<1>1. /\ slave.state = "MARKED" /\ flash' = Unmarked(1 - slave.area) /\ locked' \in BOOLEAN
      /\ SlaveRestart
  BY DEF SlaveSwitches, flash_lock
<1>2. slave'.state = "boot"
  BY <1>1, SlaveRestartIs
<1>3. slave.area \in Areas /\ Offered \in Versions /\ FlashTypes /\ BothMarked(slave.area, Offered)
  BY <1>1, FlashAssumption DEF TypesInv, SlaveType, FirmInv
<1>4. FlashTypes' /\ Whole(Started)' /\ Running' \in {Running, Offered}
  BY <1>1, <1>3, UnmarkedOld
<1>5. FirmInv'
  BY <1>2, <1>4 DEF FirmInv, SlaveWaits
<1> QED BY <1>4, <1>5 DEF FirmNext

\* A power failure may tear the block that is written or erased: not one that runs.
LEMMA PowerFirm ==
  ASSUME TypesInv, RequestInv, FirmInv, PowerLoss
  PROVE  FirmNext
<1>1. Interrupted /\ SlaveRestart /\ UNCHANGED <<locked, master>>
  BY DEF PowerLoss
<1>2. slave'.state = "boot"
  BY <1>1, SlaveRestartIs
<1>3. slave.area \in Areas /\ FlashTypes /\ locked' \in BOOLEAN
  BY <1>1 DEF TypesInv, SlaveType, FlashTypes
<1>4. ASSUME NEW k \in Positions, flash' = Torn(slave.area, k), Started = 1 - slave.area
      PROVE  FirmNext
  <2>1. Touches(slave.area)
    BY <1>3, <1>4, TornTouches
  <2>2. Started' = Started /\ Whole(Started)' /\ Running' = Running
    BY <1>3, <1>4, <2>1, TouchedOther DEF FirmInv
  <2>3. FlashTypes'
    BY <1>3, <2>1 DEF Touches, FlashTypes
  <2>4. FirmInv'
    BY <1>2, <2>2 DEF FirmInv, SlaveWaits
  <2> QED BY <2>2, <2>3, <2>4 DEF FirmNext
<1>5. CASE UNCHANGED flash
  BY <1>2, <1>3, <1>5, FirmRests
<1>6. CASE NextBlock /\ flash' = Torn(slave.area, slave.num + 1)
  <2>1. /\ slave.state = "DATA_READY" /\ Received("slave") /\ Msg("slave").type = "DATA"
        /\ Msg("slave").frame.kind = "DATA" /\ Msg("slave").frame.num = slave.num + 1
    BY <1>6 DEF NextBlock, SlaveHas
  <2>2. WholeFrame(Msg("slave").frame)
    BY <2>1, SlaveHeard DEF RequestInv
  <2>3. slave.num + 1 \in Positions
    BY <2>1, <2>2 DEF WholeFrame
  <2>4. Started = 1 - slave.area
    BY <2>1 DEF FirmInv, SlaveWaits
  <2> QED BY <1>4, <1>6, <2>3, <2>4
<1>7. CASE /\ slave.state \in {"INIT", "ERROR"} /\ slave.pos <= ErasedBlocks
           /\ flash' = Torn(slave.area, slave.pos)
  <2>1. slave.pos > 0 /\ slave.pos \in 0..(ErasedBlocks + 1) /\ Started = 1 - slave.area
    BY <1>7 DEF FirmInv, TypesInv, SlaveType
  <2>2. slave.pos \in Positions
    BY <1>7, <2>1, FlashAssumption DEF Positions
  <2> QED BY <1>4, <1>7, <2>1, <2>2
<1> QED BY <1>1, <1>5, <1>6, <1>7 DEF Interrupted
---------------------------------------------------------------------------
(* Every step *)

Kept == LinkTypes' /\ LinkInv' /\ ReplyInv' /\ FirmNext /\ slave' \in SlaveType
        /\ master' \in MasterType

LEMMA SlaveKept ==
  ASSUME TypesInv, LinkInv, ReplyInv, FirmInv,
         SlaveBegin \/ SlaveWorks \/ SlaveExpires \/ PowerLoss
  PROVE  Kept
<1>0. RequestInv /\ TurnInv
  BY DEF LinkInv
<1>1. ASSUME UNCHANGED <<master, air, radio, queue>>, ~SlaveWaits',
             slave'.state \in {"boot", "off", "INIT"} => slave.state \in {"boot", "off", "INIT"}
      PROVE  LinkTypes' /\ LinkInv'
  <2>1. /\ queue' \in [Devices -> Seq(Messages)] /\ queue'.master = queue.master
        /\ Heard("slave")' \subseteq Heard("slave") /\ (Received("slave")' => Received("slave"))
    BY <1>1 DEF TypesInv, LinkTypes, Heard, Received
  <2> QED BY <1>1, <2>1, SlaveBusy
<1>2. ASSUME UNCHANGED master
      PROVE  master' \in MasterType
  BY <1>2 DEF TypesInv
<1>3. CASE SlaveBoot
  <2>1. /\ UNCHANGED <<flash, master, air, radio, queue>> /\ locked' \in BOOLEAN
        /\ slave' \in SlaveType /\ slave.state = "boot" /\ slave'.state = "off"
        /\ slave'.num = slave.num /\ slave'.crc = slave.crc
    BY <1>3, SlaveBootIs
  <2>2. ReplyInv'
    BY <2>1 DEF ReplyInv, Taking
  <2>3. ~SlaveWaits'
    BY <2>1 DEF SlaveWaits
  <2>4. FirmNext
    BY <2>1, FirmRests DEF TypesInv
  <2> QED BY <1>1, <1>2, <2>1, <2>2, <2>3, <2>4 DEF Kept
<1>4. CASE SlaveBegin
  <2>1. /\ UNCHANGED <<flash, master, air, radio, queue>> /\ slave' \in SlaveType
        /\ slave.state = "off" /\ slave'.state = "INIT"
        /\ slave'.num = 0 /\ slave'.crc = <<>>
    BY <1>4, SlaveBeginIs
  <2>2. ~SlaveWaits'
    BY <2>1 DEF SlaveWaits
  <2>3. ReplyInv'
    BY <2>1, <2>2, ReplyStill
  <2>4. FirmNext
    BY <1>4, BeginFirm
  <2> QED BY <1>1, <1>2, <2>1, <2>2, <2>3, <2>4 DEF Kept
<1>5. CASE SlaveErases
  <2>1. /\ UNCHANGED <<master, air, radio, queue>> /\ slave' \in SlaveType
        /\ slave.state \in {"INIT", "ERROR"} /\ slave'.state = slave.state
        /\ slave'.num = slave.num /\ slave'.crc = slave.crc
    BY <1>5, SlaveErasesIs
  <2>2. ~SlaveWaits'
    BY <2>1 DEF SlaveWaits
  <2>3. ReplyInv'
    BY <2>1 DEF ReplyInv, Taking
  <2>4. FirmNext
    BY <1>5, ErasesFirm
  <2> QED BY <1>1, <1>2, <2>1, <2>2, <2>3, <2>4 DEF Kept
<1>6. CASE SlaveListens
  <2>1. /\ UNCHANGED <<flash, locked, master, queue>> /\ slave' \in SlaveType
        /\ slave.state = "INIT" /\ slave'.state = "FW_VERSION_READY" /\ slave.pos > ErasedBlocks
        /\ slave'.num = slave.num /\ slave'.crc = slave.crc /\ slave'.area = slave.area
        /\ air' = air /\ radio' = [radio EXCEPT !["slave"] = "long"]
    BY <1>6, SlaveListensIs
  <2>2. ~Received("slave") /\ ~Sending("slave")
    BY <1>0, <2>1 DEF TurnInv
  <2>3. Heard("slave") = {} /\ Len(queue.slave) = 0
    BY <2>2, QueuesAre, DevicesAre DEF TypesInv
  <2>4. /\ queue' \in [Devices -> Seq(Messages)] /\ queue'.master = queue.master
        /\ ~Received("slave")' /\ Heard("slave")' = {} /\ Len(queue'.slave) = 0
    BY <2>1, <2>2, <2>3 DEF TypesInv, LinkTypes, Heard, Received
  <2>5. ~Taking' /\ SlaveWaits'
    BY <2>1 DEF Taking, SlaveWaits
  <2>6. LinkTypes' /\ LinkInv'
    BY <2>1, <2>2, <2>4, <2>5, SlaveListened
  <2>7. ReplyInv'
    BY <2>1, <2>5 DEF ReplyInv, Taking
  <2>8. slave.pos > 1
    <3>1. slave.pos \in Int
      BY DEF TypesInv, SlaveType
    <3> QED BY <2>1, <3>1, FlashAssumption
  <2>9. FirmNext
    BY <2>1, <2>5, <2>8, FirmWaits
  <2> QED BY <1>2, <2>1, <2>6, <2>7, <2>9 DEF Kept
<1>7. CASE SlaveGreets
  <2>1. LinkTypes' /\ LinkInv' /\ ReplyInv'
    BY <1>7, GreetsLink
  <2>2. /\ UNCHANGED <<flash, locked, master>> /\ slave' \in SlaveType
        /\ slave'.area = slave.area /\ SlaveWaits /\ SlaveWaits'
    BY <1>7, SlaveGreetsIs DEF SlaveWaits
  <2>3. FirmNext
    BY <2>2, FirmWaits
  <2> QED BY <1>2, <2>1, <2>2, <2>3 DEF Kept
<1>8. CASE SlaveRepeats
  <2>1. LinkTypes' /\ LinkInv' /\ ReplyInv'
    BY <1>8, RepeatsLink
  <2>2. /\ UNCHANGED <<flash, locked, master>> /\ slave' \in SlaveType
        /\ slave'.area = slave.area /\ SlaveWaits /\ SlaveWaits'
    BY <1>8, SlaveRepeatsIs DEF SlaveWaits, Taking
  <2>3. FirmNext
    BY <2>2, FirmWaits
  <2> QED BY <1>2, <2>1, <2>2, <2>3 DEF Kept
<1>9. CASE SlaveStores
  <2>1. LinkTypes' /\ LinkInv' /\ ReplyInv' /\ FirmNext
    BY <1>0, <1>9, StoresLink, StoresFirm
  <2>2. UNCHANGED master /\ slave' \in SlaveType
    BY <1>0, <1>9, SlaveStoresIs
  <2> QED BY <1>2, <2>1, <2>2 DEF Kept
<1>10. CASE SlaveConcludes
  <2>1. LinkTypes' /\ LinkInv' /\ ReplyInv'
    BY <1>10, ConcludesLink
  <2>2. /\ UNCHANGED <<flash, locked, master>> /\ slave' \in SlaveType
        /\ slave'.area = slave.area /\ SlaveWaits
        /\ slave' = Failed \/ slave'.state = "END"
    BY <1>10, SlaveConcludesIs DEF SlaveWaits
  <2>3. FirmNext
    BY <2>2, FirmWaits, FirmFails
  <2> QED BY <1>2, <2>1, <2>2, <2>3 DEF Kept
<1>11. CASE SlaveRetries
  <2>1. LinkTypes' /\ LinkInv' /\ ReplyInv'
    BY <1>11, RetriesLink
  <2>2. /\ UNCHANGED <<flash, locked, master>> /\ slave' \in SlaveType
        /\ slave'.area = slave.area /\ SlaveWaits
        /\ slave' = Failed \/ slave'.state = slave.state
    BY <1>0, <1>11, SlaveRetriesIs
  <2>3. slave'.state = slave.state => SlaveWaits'
    BY <2>2 DEF SlaveWaits
  <2>4. FirmNext
    BY <2>2, <2>3, FirmWaits, FirmFails
  <2> QED BY <1>2, <2>1, <2>2, <2>4 DEF Kept
<1>12. CASE SlaveMarks
  <2>1. /\ UNCHANGED <<master, air, radio, queue>> /\ slave' \in SlaveType
        /\ slave'.num = 0 /\ slave'.crc = <<>> /\ slave'.state \in {"MARKED", "ERROR"}
    <3>1. Failed.state = "ERROR" /\ Failed.crc = <<>>
      BY FailedIs
    <3> QED BY <1>12, <3>1, SlaveMarksIs
  <2>2. ~SlaveWaits'
    BY <2>1 DEF SlaveWaits
  <2>3. ReplyInv'
    BY <2>1, <2>2, ReplyStill
  <2>4. FirmNext
    BY <1>12, MarksFirm
  <2> QED BY <1>1, <1>2, <2>1, <2>2, <2>3, <2>4 DEF Kept
<1>13. ASSUME SlaveRestart, UNCHANGED master, FirmNext
       PROVE  Kept
  <2>1. /\ slave' \in SlaveType /\ slave'.state = "boot" /\ slave'.num = 0 /\ slave'.crc = <<>>
        /\ SlaveStill
    BY <1>13, SlaveRestartIs
  <2>2. ~SlaveWaits'
    BY <2>1 DEF SlaveWaits
  <2>3. ReplyInv'
    BY <2>1, <2>2, ReplyStill
  <2>4. LinkTypes' /\ LinkInv'
    BY <1>13, <2>1, SlaveStarted
  <2> QED BY <1>2, <1>13, <2>1, <2>3, <2>4 DEF Kept
<1>14. CASE SlaveSwitches
  BY <1>13, <1>14, SwitchesFirm DEF SlaveSwitches
<1>15. CASE SlaveGivesUp
  <2>1. SlaveRestart /\ UNCHANGED <<flash, master>> /\ locked' \in BOOLEAN
    BY <1>15 DEF SlaveGivesUp, flash_lock
  <2>2. slave'.state = "boot"
    BY <2>1, SlaveRestartIs
  <2>3. FirmNext
    BY <2>1, <2>2, FirmRests DEF TypesInv
  <2> QED BY <1>13, <2>1, <2>3
<1>16. CASE PowerLoss
  BY <1>0, <1>13, <1>16, PowerFirm DEF PowerLoss
<1>17. CASE SlaveExpires
  <2>1. /\ UNCHANGED <<flash, locked, master, air, radio>> /\ queue' = Emptied("slave")
        /\ SlaveWaits /\ slave' = Failed /\ slave' \in SlaveType
    BY <1>17, SlaveExpiresIs
  <2>2. LinkTypes' /\ LinkInv' /\ ReplyInv'
    BY <2>1, FailedLink
  <2>3. FirmNext
    BY <2>1, FirmFails
  <2> QED BY <1>2, <2>1, <2>2, <2>3 DEF Kept
<1> QED BY <1>3, <1>4, <1>5, <1>6, <1>7, <1>8, <1>9, <1>10, <1>11, <1>12, <1>14, <1>15,
           <1>16, <1>17 DEF SlaveWorks

LEMMA OthersKept ==
  ASSUME TypesInv, LinkInv, ReplyInv, FirmInv,
         MasterBegin \/ MasterWorks \/ MasterExpires \/ Radio
  PROVE  Kept
<1>1. LinkTypes' /\ LinkInv' /\ master' \in MasterType /\ UNCHANGED <<flash, locked, slave>>
  <2>1. CASE MasterBegin \/ MasterWorks \/ MasterExpires
    BY <2>1, MasterLink
  <2>2. CASE Radio
    <3>1. PICK d \in Devices : Prompt /\ (Deliver(d) \/ Damage(d) \/ Lose(d) \/ RxTimeout(d))
      BY <2>2 DEF Radio
    <3>2. LinkTypes' /\ LinkInv' /\ UNCHANGED <<flash, locked, master, slave>>
      <4>1. CASE RxTimeout(d)
        BY <3>1, <4>1, TimeoutComes
      <4>2. CASE d = "master" /\ (Deliver(d) \/ Damage(d) \/ Lose(d))
        BY <3>1, <4>2, MasterFrameEnds
      <4>3. CASE d = "slave" /\ (Deliver(d) \/ Damage(d) \/ Lose(d))
        BY <3>1, <4>3, SlaveFrameEnds
      <4> QED BY <3>1, <4>1, <4>2, <4>3 DEF Devices
    <3> QED BY <3>2 DEF TypesInv
  <2> QED BY <2>1, <2>2
<1>2. ReplyInv'
  BY <1>1 DEF ReplyInv, Taking
<1>3. FirmNext
  <2>1. Running' = Running /\ Whole(Started)' /\ Started' = Started
    BY <1>1, FlashKept DEF FirmInv
  <2>2. (SlaveWaits' <=> SlaveWaits) /\ (BothMarked(slave.area, Offered)' <=> BothMarked(slave.area, Offered))
    BY <1>1, <2>1 DEF SlaveWaits, BothMarked, Whole
  <2>3. FirmInv'
    BY <1>1, <2>1, <2>2 DEF FirmInv
  <2> QED BY <1>1, <2>1, <2>3 DEF FirmNext, FlashTypes, TypesInv
<1> QED BY <1>1, <1>2, <1>3 DEF Kept, TypesInv

LEMMA Begins ==
  ASSUME Init
  PROVE  OtaInv
<1>1. FlashTypes /\ Whole(Started)
  BY FoundRuns DEF Init
<1>2. master = MasterOff /\ slave = SlaveOff
  BY DEF Init
<1>3. /\ master \in MasterType /\ master.state = "off"
      /\ slave \in SlaveType /\ slave.state = "boot" /\ slave.num = 0 /\ slave.crc = <<>>
  <2>1. /\ "off" \in SlaveStates /\ 0 \in Areas /\ 0 \in 0..(ErasedBlocks + 1)
        /\ <<>> \in Seq(Contents)
    BY FlashAssumption DEF SlaveStates, Areas
  <2>2. SlaveOff \in SlaveType
    BY <2>1, SlaveStates0
  <2> QED BY <1>2, <2>2, MasterAtIs DEF SlaveOff, NoBlocks
<1>4. NoFrame \in Frames /\ NoFrame.kind = "NONE"
  BY CommandTypes DEF NoFrame, Frame
<1>5. LinkTypes /\ \A d \in Devices : ~Sending(d) /\ radio[d] = "off" /\ queue[d] = <<>>
  BY <1>4 DEF Init, LinkTypes, Sending
<1>6. \A d \in Devices : ~Received(d) /\ Heard(d) = {} /\ Len(queue[d]) = 0
  BY <1>5 DEF Received, Heard
<1>7. ~MasterWaits /\ ~SlaveWaits /\ ~Taking
  BY <1>3 DEF MasterWaits, SlaveWaits, Taking
<1>8. TurnInv
  BY <1>3, <1>5, <1>6, <1>7, DevicesAre DEF TurnInv
<1>9. RequestInv /\ AnswerInv /\ StepInv
  <2>1. MasterSays
    BY <1>3 DEF MasterSays
  <2> QED BY <1>5, <1>6, <1>7, <2>1, DevicesAre DEF RequestInv, AnswerInv, StepInv
<1>10. ReplyInv
  BY <1>3, <1>7, CrcStarts DEF ReplyInv
<1>11. FirmInv
  BY <1>1, <1>3, <1>7 DEF FirmInv
<1> QED BY <1>1, <1>3, <1>5, <1>8, <1>9, <1>10, <1>11 DEF OtaInv, TypesInv

LEMMA Stays ==
  ASSUME OtaInv, [Next]_vars
  PROVE  OtaInv' /\ Running' \in {Running, Offered}
<1>1. TypesInv /\ LinkInv /\ ReplyInv /\ FirmInv
  BY DEF OtaInv, LinkInv
<1>2. ASSUME Kept
      PROVE  OtaInv' /\ Running' \in {Running, Offered}
  BY <1>2 DEF Kept, FirmNext, OtaInv, TypesInv, LinkInv
<1>3. CASE Next
  BY <1>1, <1>2, <1>3, SlaveKept, OthersKept DEF Next
<1>4. CASE UNCHANGED vars
  <2>1. UNCHANGED <<flash, locked, master, slave, air, radio, queue>>
    BY <1>4 DEF vars
  <2>2. Running' = Running
    BY <2>1, FlashKept
  <2>3. /\ MasterWaits' <=> MasterWaits
        /\ SlaveWaits' <=> SlaveWaits
        /\ Taking' <=> Taking
        /\ \A d : Received(d)' <=> Received(d)
        /\ \A d : Sending(d)' <=> Sending(d)
        /\ \A d : Heard(d)' = Heard(d)
        /\ \A f : Matches(f)' <=> Matches(f)
        /\ \A f : Answers(f)' <=> Answers(f)
    BY <2>1 DEF MasterWaits, SlaveWaits, Taking, Received, Sending, Heard, Matches, Answers
  <2>4. TypesInv'
    BY <1>1, <2>1 DEF TypesInv, FlashTypes, LinkTypes
  <2>5. TurnInv'
    BY <1>1, <2>1, <2>3 DEF LinkInv, TurnInv
  <2>6. RequestInv'
    <3>1. MasterSays'
      BY <1>1, <2>1 DEF LinkInv, RequestInv, MasterSays
    <3> QED BY <1>1, <2>1, <2>3, <3>1 DEF LinkInv, RequestInv, WholeFrame
  <2>7. AnswerInv'
    BY <1>1, <2>1, <2>3 DEF LinkInv, AnswerInv
  <2>8. ReplyInv'
    BY <1>1, <2>1, <2>3 DEF ReplyInv
  <2>9. StepInv'
    <3>1. Answering' <=> Answering
      BY <2>3 DEF Answering
    <3> QED BY <1>1, <2>1, <2>3, <3>1 DEF LinkInv, StepInv
  <2>10. FirmInv'
    <3>1. Started' = Started /\ Whole(Started)'
      BY <1>1, <2>1, FlashKept DEF FirmInv
    <3>2. BothMarked(slave.area, Offered)' <=> BothMarked(slave.area, Offered)
      BY <2>1, <3>1 DEF BothMarked, Whole
    <3> QED BY <1>1, <2>1, <2>3, <3>1, <3>2 DEF FirmInv
  <2> QED BY <2>2, <2>4, <2>5, <2>6, <2>7, <2>8, <2>9, <2>10 DEF OtaInv
<1> QED BY <1>3, <1>4
---------------------------------------------------------------------------
(* The theorems *)

\* The two loops, their frames, queues and radios and the flash of the slave keep to the
\* invariant, whatever frames get lost or come damaged, however often and whenever the
\* power of the slave fails or a time limit ends a state.
THEOREM OtaInvariant == Spec => []OtaInv
<1>1. Init => OtaInv
  BY Begins
<1>2. OtaInv /\ [Next]_vars => OtaInv'
  BY Stays
<1> QED BY <1>1, <1>2, PTL DEF Spec

\* The slave has taken the blocks of the image in order, each once and whole, whatever was
\* lost or came twice: a frame that is repeated carries the number it had, is answered
\* again and not stored again, and no other frame is taken for a block.
THEOREM TakenInOrder == Spec => []ReceivedInOrder
<1>1. OtaInv => ReceivedInOrder
  BY DEF OtaInv, ReplyInv, ReceivedInOrder
<1> QED BY <1>1, OtaInvariant, PTL

\* The master and the slave that answers it are at the same block or one apart: what the
\* master takes for an acknowledgement is that of the block it has sent last.
THEOREM OneBlockApart == Spec => []StopAndWait
<1>1. OtaInv => StopAndWait
  BY DEF OtaInv, StepInv, StopAndWait, Taking
<1> QED BY <1>1, OtaInvariant, PTL

\* A slave always starts a whole image, the one it had or the one that was offered: the
\* update implements the abstract slot, in which the running version changes to the offered
\* one in a single step.
THEOREM SlotImplemented == Spec => ImplementsSlot
<1>1. Init => Slot!Init
  <2>1. SUFFICES ASSUME Init PROVE Running \in Versions
    BY DEF Slot!Init
  <2>2. Whole(Started)
    BY <2>1, FoundRuns DEF Init
  <2> QED BY <2>2, RunningWhole
<1>2. OtaInv /\ [Next]_vars => [Slot!Next]_Running
  BY Stays DEF Slot!Next, Slot!Replace
<1> QED BY <1>1, <1>2, OtaInvariant, PTL DEF Spec, ImplementsSlot, Slot!Spec
===============================================================================
