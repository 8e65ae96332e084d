--------------------------- MODULE UartUpdate_proofs ---------------------------
(***************************************************************************)
(* Proofs about UartUpdate, for images of any size, any number of retries, *)
(* buffers, losses and late timeouts, and every device it may be used on.  *)
(***************************************************************************)
EXTENDS UartUpdate, UpdateFlash_proofs
---------------------------------------------------------------------------
(* The invariant *)

MasterStates == {"off", "FW_VER_WAIT", "START_RSP_WAIT", "DATA_ACK_WAIT", "END_RSP_WAIT",
                 "END", "ERROR"}
SlaveStates == {"boot", "off", "INIT", "FW_VERSION_READY", "START_READY", "DATA_READY",
                "END_READY", "END", "MARKED", "ERROR"}

\* What is sent once the master knows that the slave has an older image.
Leading == {"START_REQ", "DATA", "END_REQ"}

\* What is so as long as no bytes are handled that no check sum was tested of: mr says
\* whether that may have been.
Behind(mr) == mr \/ Running <= Offered

\* A frame says what is so, wherever it is and however late it is handled: a block is what
\* its number says, and a version less than the one offered was, and is, that of a slave
\* that runs nothing newer.
True(frame, mr) ==
  /\ frame.kind = "DATA" =>
       mr \/ (frame.num \in Positions /\ frame.data = Content(Offered, frame.num))
  /\ frame.kind = "VERSION_RSP" /\ frame.num < Offered => Behind(mr)
  /\ frame.kind \in Leading => Behind(mr)

Datas  == Parts \cup {Blank}
Frames == [kind : Kinds \cup {"DAMAGED"}, num : Int, data : Datas]

TrueFrames(mr) == {frame \in Frames : True(frame, mr)}
Messages(mr) ==
  [type : {"DATA", "INVALID", "TIMEOUT"}, frame : TrueFrames(mr), after : Nat]

MasterType(mr) == [state : MasterStates, retry : Nat, num : 0..Blocks, finish : BOOLEAN,
                   tx : TrueFrames(mr)]
SlaveType(mr) == [state : SlaveStates, retry : Nat, num : Nat, max : Int, area : Areas,
                  pos : 0..(ErasedBlocks + 1), crc : Seq(Datas), tx : TrueFrames(mr)]

Types(mr) ==
  /\ FlashTypes
  /\ master \in MasterType(mr) /\ slave \in SlaveType(mr)
  /\ air \in [Devices -> TrueFrames(mr)]
  /\ queue \in [Devices -> Seq(Messages(mr))]

\* The master has an older slave to bring up to date, and knows which block comes next.
MasterInv(mr) ==
  /\ master.state \in {"FW_VER_WAIT", "START_RSP_WAIT"} => master.num = 0
  /\ master.state = "DATA_ACK_WAIT" => /\ master.num \in Positions
                                       /\ master.finish = (master.num = Blocks)
  /\ master.state \in {"START_RSP_WAIT", "DATA_ACK_WAIT", "END_RSP_WAIT"} => Behind(mr)

Taking == slave.state \in {"DATA_READY", "END_READY"}

\* What the slave has taken.
TakenInv(mr) ==
  /\ ~Taking => slave.num = 0
  /\ ~mr => IF slave.state = "END"
            THEN \E n \in 0..Blocks : slave.crc = SubSeq(Image(Offered), 1, n)
            ELSE /\ slave.num \in 0..Blocks
                 /\ slave.crc = SubSeq(Image(Offered), 1, slave.num)
  /\ Taking \/ slave.state \in {"END", "MARKED"} => Behind(mr)

\* The area of an update is the one that does not run, without a mark once its first block
\* is erased; then both may be marked.
FirmInv ==
  /\ Whole(Started)
  /\ SlaveWaits \/ slave.state \in {"INIT", "END", "ERROR"} => Started = 1 - slave.area
  /\ SlaveWaits \/ slave.state = "END" \/ (slave.state = "INIT" /\ slave.pos > 1) =>
       (~locked => flash[slave.area].mark = "blank")
  /\ slave.state \in {"INIT", "ERROR"} => slave.pos > 0
  /\ slave.state = "MARKED" => BothMarked(slave.area, Offered)

UartInv ==
  \E mr \in BOOLEAN :
    mr = misread /\ Types(mr) /\ MasterInv(mr) /\ TakenInv(mr) /\ FirmInv
---------------------------------------------------------------------------
(* Frames, messages and queues *)

LEMMA FramesAreTrue ==
  ASSUME NEW mr \in BOOLEAN
  PROVE  /\ {NoFrame, Damaged} \subseteq TrueFrames(mr) /\ NoFrame.kind = "NONE"
         /\ \A num \in Int : /\ Ack(num) \in TrueFrames(mr)
                             /\ Command("VERSION_REQ", num) \in TrueFrames(mr)
                             /\ Command("START_RSP", num) \in TrueFrames(mr)
                             /\ Command("END_RSP", num) \in TrueFrames(mr)
         /\ Running \in Int => Command("VERSION_RSP", Running) \in TrueFrames(mr)
         /\ Behind(mr) =>
              /\ \A num \in Int : /\ Command("START_REQ", num) \in TrueFrames(mr)
                                  /\ Command("END_REQ", num) \in TrueFrames(mr)
              /\ \A k \in Positions :
                   Frame("DATA", k, Content(Offered, k)) \in TrueFrames(mr)
<1>1. Blank \in Datas
  BY DEF Datas
<1>2. ASSUME NEW kind \in Kinds \cup {"DAMAGED"}, NEW num \in Int,
             kind \in Leading => kind # "DATA" /\ Behind(mr),
             kind = "VERSION_RSP" => num = Running
      PROVE  Frame(kind, num, Blank) \in TrueFrames(mr)
  <2>1. Frame(kind, num, Blank) = [kind |-> kind, num |-> num, data |-> Blank]
    BY DEF Frame
  <2>2. Frame(kind, num, Blank) \in Frames
    BY <1>1, <2>1 DEF Frames
  <2>3. True(Frame(kind, num, Blank), mr)
    BY <1>2, <2>1, FlashAssumption DEF True, Leading, Behind
  <2> QED BY <2>2, <2>3 DEF TrueFrames
<1>3. ASSUME NEW k \in Positions, Behind(mr)
      PROVE  Frame("DATA", k, Content(Offered, k)) \in TrueFrames(mr)
  <2>1. Content(Offered, k) \in Datas /\ k \in Int
    BY FlashAssumption DEF Datas, Parts, Positions
  <2>2. /\ Frame("DATA", k, Content(Offered, k)) \in Frames
        /\ True(Frame("DATA", k, Content(Offered, k)), mr)
    BY <1>3, <2>1 DEF Frame, Frames, Kinds, True
  <2> QED BY <2>2 DEF TrueFrames
<1>4. \A kind \in {"NONE", "DAMAGED", "ACK", "VERSION_REQ", "START_RSP", "END_RSP"}, num \in Int :
        Frame(kind, num, Blank) \in TrueFrames(mr)
  BY <1>2 DEF Kinds, Leading
<1>5. Running \in Int => Frame("VERSION_RSP", Running, Blank) \in TrueFrames(mr)
  BY <1>2 DEF Kinds, Leading
<1>6. Behind(mr) => \A kind \in {"START_REQ", "END_REQ"}, num \in Int :
                      Frame(kind, num, Blank) \in TrueFrames(mr)
  BY <1>2 DEF Kinds, Leading
<1>7. NoFrame.kind = "NONE"
  BY DEF NoFrame, Frame
<1> QED BY <1>3, <1>4, <1>5, <1>6, <1>7 DEF NoFrame, Damaged, Ack, Command

\* What was true stays true when the offered image takes the place of the old one.
LEMMA StillTrue ==
  ASSUME NEW mr \in BOOLEAN, Running' \in {Running, Offered}
  PROVE  /\ TrueFrames(mr) \subseteq TrueFrames(mr)' /\ Messages(mr) \subseteq Messages(mr)'
         /\ Seq(Messages(mr)) \subseteq Seq(Messages(mr))'
         /\ Behind(mr) => Behind(mr)'
<1>1. Behind(mr) => Behind(mr)'
  BY FlashAssumption DEF Behind
<1>2. \A frame : True(frame, mr) => True(frame, mr)'
  BY <1>1 DEF True
<1>3. TrueFrames(mr) \subseteq TrueFrames(mr)'
  BY <1>2 DEF TrueFrames
<1>4. Messages(mr) \subseteq Messages(mr)'
  BY <1>3 DEF Messages
<1>5. ASSUME NEW S, NEW T, S \subseteq T PROVE Seq(S) \subseteq Seq(T)
  BY <1>5
<1>6. Seq(Messages(mr)) \subseteq Seq(Messages(mr))'
  BY <1>4, <1>5
<1> QED BY <1>1, <1>3, <1>4, <1>6

\* Once bytes have been misread less is claimed.
LEMMA LessClaimed ==
  ASSUME NEW mr \in BOOLEAN, UartInv, misread => mr
  PROVE  Types(mr) /\ MasterInv(mr) /\ TakenInv(mr) /\ FirmInv
<1>1. PICK lo \in BOOLEAN :
        lo = misread /\ Types(lo) /\ MasterInv(lo) /\ TakenInv(lo) /\ FirmInv
  BY DEF UartInv
<1>2. lo => mr
  BY <1>1
<1>3. Behind(lo) => Behind(mr)
  BY <1>2 DEF Behind
<1>4. TrueFrames(lo) \subseteq TrueFrames(mr)
  BY <1>2, <1>3 DEF TrueFrames, True
<1>5. Messages(lo) \subseteq Messages(mr)
  BY <1>4 DEF Messages
<1>6. Seq(Messages(lo)) \subseteq Seq(Messages(mr))
  BY <1>5
<1>7. MasterType(lo) \subseteq MasterType(mr) /\ SlaveType(lo) \subseteq SlaveType(mr)
  BY <1>4 DEF MasterType, SlaveType
<1>8. Types(mr)
  BY <1>1, <1>4, <1>6, <1>7 DEF Types
<1>9. MasterInv(mr) /\ TakenInv(mr)
  BY <1>1, <1>2, <1>3 DEF MasterInv, TakenInv
<1> QED BY <1>1, <1>8, <1>9

LEMMA QueuePushed ==
  ASSUME NEW mr \in BOOLEAN, NEW messages \in Seq(Messages(mr)), NEW m \in Messages(mr)
  PROVE  Pushed(messages, m) \in Seq(Messages(mr))
BY DEF Pushed

\* A buffer that is overwritten holds a frame that is true as well.
LEMMA QueueOverwritten ==
  ASSUME NEW mr \in BOOLEAN, NEW messages \in Seq(Messages(mr)), NEW frame \in TrueFrames(mr)
  PROVE  Overwritten(messages, frame) \in Seq(Messages(mr))
<1> DEFINE New(m) == IF m.type # "DATA" THEN m
                     ELSE IF m.after = PHY_RX_BUF_NUM - 1 THEN Message("DATA", frame)
                     ELSE [m EXCEPT !.after = @ + 1]
<1>1. ASSUME NEW m \in Messages(mr) PROVE New(m) \in Messages(mr)
  <2>1. Message("DATA", frame) \in Messages(mr)
    BY DEF Message, Messages
  <2>2. [m EXCEPT !.after = @ + 1] \in Messages(mr)
    BY DEF Messages
  <2> QED BY <2>1, <2>2
<1>2. Overwritten(messages, frame) = [i \in DOMAIN messages |-> New(messages[i])]
  BY DEF Overwritten
<1> HIDE DEF New
<1>3. \A i \in 1..Len(messages) : New(messages[i]) \in Messages(mr)
  BY <1>1
<1>4. DOMAIN messages = 1..Len(messages) /\ Len(messages) \in Nat
  OBVIOUS
<1> QED BY <1>2, <1>3, <1>4

LEMMA QueueKept ==
  ASSUME NEW mr \in BOOLEAN, Types(mr), NEW d \in Devices
  PROVE  /\ \A type \in {"DATA", "INVALID"}, frame \in TrueFrames(mr) :
              Arrived(d, type, frame) \in [Devices -> Seq(Messages(mr))]
         /\ [queue EXCEPT ![d] = Pushed(@, Message("TIMEOUT", NoFrame))]
              \in [Devices -> Seq(Messages(mr))]
         /\ Emptied(d) \in [Devices -> Seq(Messages(mr))]
         /\ queue[d] # <<>> => /\ Popped(d) \in [Devices -> Seq(Messages(mr))]
                              /\ Msg(d) \in Messages(mr)
<1>1. queue \in [Devices -> Seq(Messages(mr))] /\ queue[d] \in Seq(Messages(mr))
  BY DEF Types
<1>2. ASSUME NEW messages \in Seq(Messages(mr))
      PROVE  [queue EXCEPT ![d] = messages] \in [Devices -> Seq(Messages(mr))]
  BY <1>1
<1>3. ASSUME NEW type \in {"DATA", "INVALID"}, NEW frame \in TrueFrames(mr)
      PROVE  Arrived(d, type, frame) \in [Devices -> Seq(Messages(mr))]
  <2>1. Message(type, frame) \in Messages(mr)
    BY DEF Message, Messages
  <2>2. Pushed(Overwritten(queue[d], frame), Message(type, frame)) \in Seq(Messages(mr))
    BY <1>1, <2>1, QueueOverwritten, QueuePushed
  <2> QED BY <1>2, <2>2 DEF Arrived
<1>4. [queue EXCEPT ![d] = Pushed(@, Message("TIMEOUT", NoFrame))]
        \in [Devices -> Seq(Messages(mr))]
  <2>1. Message("TIMEOUT", NoFrame) \in Messages(mr)
    BY FramesAreTrue DEF Message, Messages
  <2>2. Pushed(queue[d], Message("TIMEOUT", NoFrame)) \in Seq(Messages(mr))
    BY <1>1, <2>1, QueuePushed
  <2> QED BY <1>2, <2>2
<1>5. Emptied(d) \in [Devices -> Seq(Messages(mr))]
  <2>1. <<>> \in Seq(Messages(mr))
    OBVIOUS
  <2> QED BY <1>2, <2>1 DEF Emptied
<1>6. ASSUME queue[d] # <<>>
      PROVE  Popped(d) \in [Devices -> Seq(Messages(mr))] /\ Msg(d) \in Messages(mr)
  <2>1. Tail(queue[d]) \in Seq(Messages(mr)) /\ Head(queue[d]) \in Messages(mr)
    BY <1>1, <1>6
  <2> QED BY <1>2, <2>1 DEF Popped, Msg
<1> QED BY <1>3, <1>4, <1>5, <1>6

\* What is handled.
Hears(d, frame, mr) == Received(d) /\ frame \in Seen(d) /\ Read(d) /\ misread' = mr

LEMMA Heard ==
  ASSUME NEW mr \in BOOLEAN, Types(mr), NEW d \in Devices, NEW frame, Hears(d, frame, mr)
  PROVE  /\ Popped(d) \in [Devices -> Seq(Messages(mr))]
         /\ Emptied(d) \in [Devices -> Seq(Messages(mr))]
         /\ frame \in Frames /\ True(frame, mr)
<1>1. queue[d] # <<>> /\ frame \in Seen(d) /\ misread' = mr /\ Read(d)
  BY DEF Hears, Received
<1>2. /\ Popped(d) \in [Devices -> Seq(Messages(mr))] /\ Msg(d) \in Messages(mr)
      /\ Emptied(d) \in [Devices -> Seq(Messages(mr))]
  BY <1>1, QueueKept
<1>3. CASE Intact(d)
  <2>1. frame = Msg(d).frame
    BY <1>1, <1>3 DEF Seen
  <2> QED BY <1>2, <2>1 DEF Messages, TrueFrames
<1>4. CASE ~Intact(d)
  <2>1. frame \in Unchecked
    BY <1>1, <1>4 DEF Seen
  <2>2. mr
    <3>1. mr = (misread \/ ~Intact(d))
      BY <1>1 DEF Read
    <3>2. (misread \/ ~Intact(d)) = TRUE
      BY <1>4
    <3> QED BY <3>1, <3>2
  <2>3. frame \in Frames
    <3>1. 0..(Blocks + 1) \cup Versions \subseteq Int /\ Parts \subseteq Datas
      BY FlashAssumption DEF Datas
    <3>2. Kinds \subseteq Kinds \cup {"DAMAGED"}
      OBVIOUS
    <3> QED BY <2>1, <3>1, <3>2 DEF Unchecked, Frames
  <2>4. True(frame, mr)
    BY <2>2 DEF True, Behind
  <2> QED BY <1>2, <2>3, <2>4
<1> QED BY <1>3, <1>4

LEMMA AirKept ==
  ASSUME NEW mr \in BOOLEAN, Types(mr), NEW d \in Devices, NEW frame \in TrueFrames(mr)
  PROVE  [air EXCEPT ![d] = frame] \in [Devices -> TrueFrames(mr)]
BY DEF Types

\* The wire and the timer change no more than the queues and the air.
LEMMA WireIs ==
  ASSUME NEW mr \in BOOLEAN, Types(mr), Wire
  PROVE  /\ UNCHANGED <<flash, locked, master, slave>>
         /\ air' \in [Devices -> TrueFrames(mr)] /\ queue' \in [Devices -> Seq(Messages(mr))]
<1>1. PICK d \in Devices : Deliver(d) \/ Damage(d) \/ Lose(d) \/ TimerExpires(d)
  BY DEF Wire
<1>2. Other(d) \in Devices
  BY DEF Other, Devices
<1>3. /\ air[d] \in TrueFrames(mr) /\ {NoFrame, Damaged} \subseteq TrueFrames(mr)
      /\ queue \in [Devices -> Seq(Messages(mr))]
  BY FramesAreTrue DEF Types
<1>4. /\ [air EXCEPT ![d] = NoFrame] \in [Devices -> TrueFrames(mr)]
      /\ air \in [Devices -> TrueFrames(mr)]
  BY <1>3, AirKept DEF Types
<1>5. CASE Deliver(d)
  <2>1. /\ UNCHANGED <<flash, locked, master, slave>> /\ air' = [air EXCEPT ![d] = NoFrame]
        /\ queue' \in {Arrived(Other(d), "DATA", air[d]), queue}
    BY <1>5 DEF Deliver, Out, memory
  <2>2. Arrived(Other(d), "DATA", air[d]) \in [Devices -> Seq(Messages(mr))]
    BY <1>2, <1>3, QueueKept
  <2> QED BY <1>3, <1>4, <2>1, <2>2
<1>6. CASE Damage(d)
  <2>1. /\ UNCHANGED <<flash, locked, master, slave>> /\ air' = [air EXCEPT ![d] = NoFrame]
        /\ queue' = Arrived(Other(d), "INVALID", Damaged)
    BY <1>6 DEF Damage, Out, memory
  <2>2. Arrived(Other(d), "INVALID", Damaged) \in [Devices -> Seq(Messages(mr))]
    BY <1>2, <1>3, QueueKept
  <2> QED BY <1>4, <2>1, <2>2
<1>7. CASE Lose(d)
  <2>1. /\ UNCHANGED <<flash, locked, master, slave, queue>> /\ air' = [air EXCEPT ![d] = NoFrame]
    BY <1>7 DEF Lose, Out, memory
  <2> QED BY <1>3, <1>4, <2>1
<1>8. CASE TimerExpires(d)
  <2>1. /\ UNCHANGED <<flash, locked, master, slave, air>>
        /\ queue' \in {[queue EXCEPT ![d] = Pushed(@, Message("TIMEOUT", NoFrame))], queue}
    BY <1>8 DEF TimerExpires, memory
  <2>2. [queue EXCEPT ![d] = Pushed(@, Message("TIMEOUT", NoFrame))]
          \in [Devices -> Seq(Messages(mr))]
    BY QueueKept
  <2> QED BY <1>3, <1>4, <2>1, <2>2
<1> QED BY <1>1, <1>5, <1>6, <1>7, <1>8
---------------------------------------------------------------------------
(* What the master does *)

LEMMA RunningOld ==
  ASSUME FirmInv
  PROVE  Running \in Versions /\ Running \in Nat
BY RunningWhole, FlashAssumption DEF FirmInv

MasterKept(mr) ==
  /\ master' \in MasterType(mr) /\ air' \in [Devices -> TrueFrames(mr)]
  /\ MasterInv(mr)'

LEMMA MasterAtIs ==
  ASSUME NEW mr \in BOOLEAN, NEW state \in {"off", "END", "ERROR"}
  PROVE  /\ MasterAt(state) \in MasterType(mr) /\ MasterAt(state).state = state
         /\ MasterOff \in MasterType(mr) /\ MasterOff.state = "off"
<1>1. NoFrame \in TrueFrames(mr)
  BY FramesAreTrue
<1>2. MasterOff \in MasterType(mr)
  BY <1>1, FlashAssumption DEF MasterOff, MasterType, MasterStates
<1>3. state \in MasterStates
  BY DEF MasterStates
<1>4. MasterAt(state) \in MasterType(mr) /\ MasterAt(state).state = state
  BY <1>2, <1>3 DEF MasterAt, MasterType
<1> QED BY <1>2, <1>4 DEF MasterOff

\* The update is over for it.
LEMMA MasterStops ==
  ASSUME NEW mr \in BOOLEAN, Types(mr), air' = air,
         \/ master' = MasterOff
         \/ \E state \in {"END", "ERROR"} : master' = MasterAt(state)
  PROVE  MasterKept(mr)
<1>1. master' \in MasterType(mr) /\ master'.state \in {"off", "END", "ERROR"}
  BY MasterAtIs
<1>2. MasterInv(mr)'
  BY <1>1 DEF MasterInv
<1> QED BY <1>1, <1>2 DEF MasterKept, Types

LEMMA ProceedIs ==
  ASSUME NEW mr \in BOOLEAN, Types(mr), Behind(mr), Running' = Running,
         NEW state \in {"START_RSP_WAIT", "END_RSP_WAIT"}, NEW frame \in TrueFrames(mr),
         Proceed(state, frame), state = "START_RSP_WAIT" => master.num = 0
  PROVE  MasterKept(mr)
<1>1. /\ master' = [master EXCEPT !.state = state, !.retry = 0, !.tx = frame]
      /\ air' = [air EXCEPT !["master"] = frame]
  BY DEF Proceed, Send
<1>2. master' \in MasterType(mr) /\ master'.state = state /\ master'.num = master.num
  BY <1>1 DEF Types, MasterType, MasterStates
<1>3. air' \in [Devices -> TrueFrames(mr)]
  BY <1>1, AirKept DEF Devices
<1>4. MasterInv(mr)'
  BY <1>2 DEF MasterInv, Behind
<1> QED BY <1>2, <1>3, <1>4 DEF MasterKept

LEMMA SendBlockIs ==
  ASSUME NEW mr \in BOOLEAN, Types(mr), Behind(mr), Running' = Running, SendBlock,
         master.num + 1 \in Positions
  PROVE  MasterKept(mr)
<1> DEFINE k == master.num + 1
           frame == Frame("DATA", k, Content(Offered, k))
<1>1. frame \in TrueFrames(mr)
  BY FramesAreTrue
<1>2. k \in 0..Blocks /\ k \in Positions
  BY FlashAssumption DEF Positions
<1>3. /\ master' = [master EXCEPT !.state = "DATA_ACK_WAIT", !.retry = 0, !.num = k,
                                  !.finish = (k = Blocks), !.tx = frame]
      /\ air' = [air EXCEPT !["master"] = frame]
  BY DEF SendBlock, Send
<1> HIDE DEF k, frame
<1>4. /\ master' \in MasterType(mr) /\ master'.state = "DATA_ACK_WAIT" /\ master'.num = k
      /\ master'.finish = (k = Blocks)
  BY <1>1, <1>2, <1>3 DEF Types, MasterType, MasterStates
<1>5. air' \in [Devices -> TrueFrames(mr)]
  BY <1>1, <1>3, AirKept DEF Devices
<1>6. MasterInv(mr)'
  BY <1>2, <1>4 DEF MasterInv, Behind
<1> QED BY <1>4, <1>5, <1>6 DEF MasterKept

LEMMA MasterIs ==
  ASSUME NEW mr \in BOOLEAN, Types(mr), MasterInv(mr), FirmInv, misread' = mr,
         MasterBegin \/ MasterWorks \/ MasterExpires
  PROVE  /\ UNCHANGED <<flash, locked, slave>> /\ MasterKept(mr)
         /\ queue' \in [Devices -> Seq(Messages(mr))]
<1>1. "master" \in Devices /\ queue \in [Devices -> Seq(Messages(mr))] /\ Running \in Int
  BY RunningOld DEF Devices, Types
<1>2. Blocks \in Nat /\ Blocks > 0 /\ master.num \in 0..Blocks
  BY FlashAssumption DEF Types, MasterType
<1>3. ASSUME UNCHANGED flash PROVE Running' = Running
  BY <1>3, FlashKept
<1>4. CASE MasterBegin
  <2>1. /\ UNCHANGED <<flash, locked, slave, queue>>
        /\ master' = [state |-> "FW_VER_WAIT", retry |-> 0, num |-> 0, finish |-> FALSE,
                      tx |-> Command("VERSION_REQ", 0)]
        /\ air' = [air EXCEPT !["master"] = master'.tx]
    BY <1>4 DEF MasterBegin, MasterOff, Send, memory
  <2>2. Command("VERSION_REQ", 0) \in TrueFrames(mr)
    BY FramesAreTrue
  <2>3. master' \in MasterType(mr) /\ master'.state = "FW_VER_WAIT" /\ master'.num = 0
    BY <1>2, <2>1, <2>2 DEF MasterType, MasterStates
  <2>4. air' \in [Devices -> TrueFrames(mr)]
    BY <1>1, <2>1, <2>2, AirKept
  <2>5. MasterInv(mr)'
    BY <2>3 DEF MasterInv
  <2> QED BY <1>1, <2>1, <2>3, <2>4, <2>5 DEF MasterKept
<1>5. CASE MasterExpires
  <2>1. /\ UNCHANGED <<flash, locked, slave, air>> /\ master' = MasterAt("ERROR")
        /\ queue' = Emptied("master")
    BY <1>5 DEF MasterExpires, memory
  <2> QED BY <1>1, <2>1, MasterStops, QueueKept
<1>6. CASE MasterEnds
  <2>1. /\ UNCHANGED <<flash, locked, slave, air>> /\ master' = MasterOff
        /\ queue' = Emptied("master")
    BY <1>6 DEF MasterEnds, StopTimer, memory
  <2> QED BY <1>1, <2>1, MasterStops, QueueKept
<1>7. ASSUME NEW frame, Hears("master", frame, mr), MasterWaits, MasterRetries(frame)
      PROVE  /\ UNCHANGED <<flash, locked, slave>> /\ MasterKept(mr)
             /\ queue' \in [Devices -> Seq(Messages(mr))]
  <2>1. UNCHANGED <<flash, locked, slave>> /\ queue' = Popped("master")
    BY <1>7 DEF MasterRetries, Taken, memory
  <2>2. queue' \in [Devices -> Seq(Messages(mr))]
    BY <1>1, <1>7, <2>1, Heard
  <2>3. CASE master.retry = FW_UPDATE_RETRY_MAX
    <3>1. master' = MasterAt("ERROR") /\ air' = air
      BY <1>7, <2>3 DEF MasterRetries, MasterGives, StopTimer
    <3> QED BY <2>1, <2>2, <3>1, MasterStops
  <2>4. CASE master.retry # FW_UPDATE_RETRY_MAX
    <3>1. master.retry + 1 \in Nat /\ master \in MasterType(mr) /\ master.tx \in TrueFrames(mr)
      BY DEF Types, MasterType
    <3>2. /\ master' = [master EXCEPT !.retry = master.retry + 1]
          /\ air' = [air EXCEPT !["master"] = master.tx]
      BY <1>7, <2>4 DEF MasterRetries, Send
    <3>3. /\ master' \in MasterType(mr) /\ master'.state = master.state /\ master'.num = master.num
          /\ master'.finish = master.finish
      BY <3>1, <3>2 DEF MasterType
    <3>4. air' \in [Devices -> TrueFrames(mr)]
      BY <1>1, <3>1, <3>2, AirKept
    <3>5. MasterInv(mr)'
      BY <1>3, <1>7, <2>1, <3>3 DEF MasterInv, Behind
    <3> QED BY <2>1, <2>2, <3>3, <3>4, <3>5 DEF MasterKept
  <2> QED BY <2>3, <2>4
<1>8. ASSUME NEW frame, Hears("master", frame, mr), MasterWaits, MasterAnswered(frame)
      PROVE  /\ UNCHANGED <<flash, locked, slave>> /\ MasterKept(mr)
             /\ queue' \in [Devices -> Seq(Messages(mr))]
  <2>1. /\ UNCHANGED <<flash, locked, slave>> /\ MasterWaits
        /\ queue' = Popped("master") /\ Answers(frame)
    BY <1>8 DEF MasterAnswered, Answered, Taken, memory
  <2>2. queue' \in [Devices -> Seq(Messages(mr))] /\ True(frame, mr)
    BY <1>1, <1>8, <2>1, Heard
  <2>3. Running' = Running
    BY <1>3, <2>1
  <2>4. ASSUME NEW state \in {"END", "ERROR"}, MasterGives(state)
        PROVE  MasterKept(mr)
    BY <2>4, MasterStops DEF MasterGives, StopTimer
  <2>5. CASE master.state = "FW_VER_WAIT"
    <3>1. CASE Older(frame)
      <4>1. frame.kind = "VERSION_RSP" /\ frame.num < Offered
        BY <2>1, <2>5, <3>1 DEF Answers, Older
      <4>2. Behind(mr)
        BY <2>2, <4>1 DEF True
      <4>3. Proceed("START_RSP_WAIT", Command("START_REQ", Blocks))
        BY <1>8, <2>5, <3>1 DEF MasterAnswered
      <4>4. Command("START_REQ", Blocks) \in TrueFrames(mr)
        BY <1>2, <4>2, FramesAreTrue
      <4>5. MasterKept(mr)
        BY <2>3, <2>5, <4>2, <4>3, <4>4, ProceedIs DEF MasterInv
      <4> QED BY <2>1, <2>2, <4>5
    <3>2. CASE ~Older(frame)
      <4>1. MasterGives("ERROR")
        BY <1>8, <2>5, <3>2 DEF MasterAnswered
      <4> QED BY <2>1, <2>2, <2>4, <4>1
    <3> QED BY <3>1, <3>2
  <2>6. CASE master.state = "START_RSP_WAIT"
    <3>1. SendBlock
      BY <1>8, <2>6 DEF MasterAnswered
    <3>2. master.num + 1 \in Positions /\ Behind(mr)
      BY <1>2, <2>6 DEF MasterInv, Positions
    <3> QED BY <2>1, <2>2, <2>3, <3>1, <3>2, SendBlockIs
  <2>7. CASE master.state = "DATA_ACK_WAIT"
    <3>1. Behind(mr)
      BY <2>7 DEF MasterInv
    <3>2. CASE master.finish
      <4>1. Proceed("END_RSP_WAIT", Command("END_REQ", Blocks))
        BY <1>8, <2>7, <3>2 DEF MasterAnswered
      <4>2. Command("END_REQ", Blocks) \in TrueFrames(mr)
        BY <1>2, <3>1, FramesAreTrue
      <4>3. MasterKept(mr)
        BY <2>3, <3>1, <4>1, <4>2, ProceedIs
      <4> QED BY <2>1, <2>2, <4>3
    <3>3. CASE ~master.finish
      <4>1. SendBlock
        BY <1>8, <2>7, <3>3 DEF MasterAnswered
      <4>2. master.num \in Positions /\ master.num # Blocks
        BY <2>7, <3>3 DEF MasterInv
      <4>3. master.num + 1 \in Positions
        BY <1>2, <4>2 DEF Positions
      <4> QED BY <2>1, <2>2, <2>3, <3>1, <4>1, <4>3, SendBlockIs
    <3> QED BY <3>2, <3>3
  <2>8. CASE master.state = "END_RSP_WAIT"
    <3>1. MasterGives("END")
      BY <1>8, <2>8 DEF MasterAnswered
    <3> QED BY <2>1, <2>2, <2>4, <3>1
  <2> QED BY <2>1, <2>5, <2>6, <2>7, <2>8 DEF MasterWaits
<1>9. CASE MasterHears
  <2>1. PICK frame \in Seen("master") : MasterAnswered(frame) \/ MasterRetries(frame)
    BY <1>9 DEF MasterHears
  <2>2. Hears("master", frame, mr) /\ MasterWaits
    BY <1>9, <2>1 DEF MasterHears, MasterAnswered, MasterRetries, Taken, Hears
  <2> QED BY <1>7, <1>8, <2>1, <2>2
<1> QED BY <1>4, <1>5, <1>6, <1>9 DEF MasterWorks
---------------------------------------------------------------------------
(* What the slave does *)

\* What it has to send and to handle is true.
SlaveLink(mr) ==
  /\ UNCHANGED master /\ slave' \in SlaveType(mr)
  /\ air' \in [Devices -> TrueFrames(mr)] /\ queue' \in [Devices -> Seq(Messages(mr))]

LEMMA SlaveOffIs ==
  ASSUME NEW mr \in BOOLEAN, NEW state \in SlaveStates, NEW area \in Areas,
         NEW pos \in 0..(ErasedBlocks + 1),
         NEW crc \in Seq(Datas)
  PROVE  /\ [SlaveOff EXCEPT !.state = state, !.area = area, !.pos = pos] \in SlaveType(mr)
         /\ [SlaveOff EXCEPT !.state = state, !.area = area, !.crc = crc] \in SlaveType(mr)
         /\ SlaveOff \in SlaveType(mr)
<1>1. NoFrame \in TrueFrames(mr) /\ <<>> \in Seq(Datas)
  BY FramesAreTrue
<1>2. 0 \in 0..Blocks /\ 0 \in 0..(ErasedBlocks + 1) /\ 0 \in Areas
  BY FlashAssumption DEF Areas
<1>3. SlaveOff \in SlaveType(mr)
  BY <1>1, <1>2 DEF SlaveOff, SlaveType, SlaveStates, NoBlocks
<1>4. [SlaveOff EXCEPT !.state = state, !.area = area, !.pos = pos] \in SlaveType(mr)
  BY <1>3 DEF SlaveType
<1>5. [SlaveOff EXCEPT !.state = state, !.area = area, !.crc = crc] \in SlaveType(mr)
  BY <1>3 DEF SlaveType
<1> QED BY <1>3, <1>4, <1>5

LEMMA FailedIs ==
  ASSUME NEW mr \in BOOLEAN, Types(mr)
  PROVE  /\ Failed \in SlaveType(mr) /\ Failed.state = "ERROR" /\ Failed.area = slave.area
         /\ Failed.pos = 1 /\ Failed.num = 0 /\ Failed.crc = <<>>
<1>1. slave.area \in Areas /\ "ERROR" \in SlaveStates /\ <<>> \in Seq(Datas)
  BY DEF Types, SlaveType, SlaveStates
<1>2. Failed \in SlaveType(mr)
  <2>1. 1 \in 0..(ErasedBlocks + 1)
    BY FlashAssumption
  <2> QED BY <1>1, <2>1, SlaveOffIs DEF Failed
<1> QED BY <1>2 DEF Failed, SlaveOff, NoBlocks

LEMMA SlaveBootIs ==
  ASSUME NEW mr \in BOOLEAN, Types(mr), SlaveBoot
  PROVE  /\ SlaveLink(mr) /\ UNCHANGED flash /\ locked' \in BOOLEAN
         /\ slave.state = "boot" /\ slave'.state = "off"
         /\ slave'.num = slave.num /\ slave'.crc = slave.crc
<1>1. /\ UNCHANGED <<flash, master, air, queue>> /\ locked' \in BOOLEAN
      /\ slave.state = "boot" /\ slave' = [slave EXCEPT !.state = "off"]
  BY DEF SlaveBoot, link, flash_lock
<1>2. /\ slave' \in SlaveType(mr) /\ slave'.state = "off"
      /\ slave'.num = slave.num /\ slave'.crc = slave.crc
  BY <1>1 DEF Types, SlaveType, SlaveStates
<1> QED BY <1>1, <1>2 DEF SlaveLink, Types

LEMMA SlaveBeginIs ==
  ASSUME NEW mr \in BOOLEAN, Types(mr), SlaveBegin
  PROVE  /\ SlaveLink(mr) /\ UNCHANGED flash /\ locked' \in {FALSE, locked}
         /\ slave'.state = "INIT" /\ slave'.num = 0 /\ slave'.crc = <<>>
         /\ slave'.area = Target /\ slave'.pos = 1
<1>1. /\ Target \in Areas /\ "INIT" \in SlaveStates /\ <<>> \in Seq(Datas)
      /\ 1 \in 0..(ErasedBlocks + 1)
  BY FlashAssumption, AreasAre DEF Target, SlaveStates
<1>2. /\ slave' = [SlaveOff EXCEPT !.state = "INIT", !.area = Target, !.pos = 1]
      /\ UNCHANGED <<flash, master, air, queue>> /\ locked' \in {FALSE, locked}
  BY DEF SlaveBegin, link, flash_unlock
<1>3. slave' \in SlaveType(mr)
  BY <1>1, <1>2, SlaveOffIs
<1>4. /\ slave'.state = "INIT" /\ slave'.num = 0 /\ slave'.crc = <<>>
      /\ slave'.area = Target /\ slave'.pos = 1
  BY <1>2 DEF SlaveOff, NoBlocks
<1> QED BY <1>2, <1>3, <1>4 DEF SlaveLink, Types

LEMMA SlaveErasesIs ==
  ASSUME NEW mr \in BOOLEAN, Types(mr), FirmInv, SlaveErases
  PROVE  /\ SlaveLink(mr) /\ UNCHANGED locked
         /\ slave.state \in {"INIT", "ERROR"} /\ slave'.state = slave.state
         /\ slave'.num = slave.num /\ slave'.crc = slave.crc /\ slave'.area = slave.area
         /\ slave'.pos = slave.pos + 1 /\ slave.pos \in Positions /\ slave.pos \in Nat
         /\ flash' = Erased(slave.area, slave.pos)
<1>1. /\ UNCHANGED <<locked, master, air, queue>>
      /\ slave.state \in {"INIT", "ERROR"} /\ slave.pos <= ErasedBlocks
      /\ flash' = Erased(slave.area, slave.pos)
      /\ slave' = [slave EXCEPT !.pos = slave.pos + 1]
  BY DEF SlaveErases, link
<1>2. slave.pos \in 0..(ErasedBlocks + 1) /\ slave.pos > 0
  BY <1>1 DEF FirmInv, Types, SlaveType
<1>3. slave.pos \in Positions /\ slave.pos \in Nat /\ slave.pos + 1 \in 0..(ErasedBlocks + 1)
  BY <1>1, <1>2, FlashAssumption DEF Positions
<1>4. /\ slave' \in SlaveType(mr) /\ slave'.state = slave.state
      /\ slave'.num = slave.num /\ slave'.crc = slave.crc /\ slave'.area = slave.area
      /\ slave'.pos = slave.pos + 1
  <2>1. PICK p : p = slave.pos + 1
    OBVIOUS
  <2> QED BY <1>1, <1>3, <2>1 DEF Types, SlaveType
<1> QED BY <1>1, <1>3, <1>4 DEF SlaveLink, Types

LEMMA SlaveListensIs ==
  ASSUME NEW mr \in BOOLEAN, Types(mr), SlaveListens
  PROVE  /\ SlaveLink(mr) /\ UNCHANGED <<flash, locked>>
         /\ slave.state = "INIT" /\ slave.pos > ErasedBlocks
         /\ slave'.state = "FW_VERSION_READY" /\ slave'.area = slave.area
         /\ slave'.num = slave.num /\ slave'.crc = slave.crc
<1>1. /\ UNCHANGED <<flash, locked, master, air>>
      /\ slave.state = "INIT" /\ slave.pos > ErasedBlocks
      /\ slave' = [slave EXCEPT !.state = "FW_VERSION_READY"]
      /\ queue' = IF queue.slave = <<>> THEN queue ELSE Popped("slave")
  BY DEF SlaveListens, Wait, memory
<1>2. /\ slave' \in SlaveType(mr) /\ slave'.state = "FW_VERSION_READY" /\ slave'.area = slave.area
      /\ slave'.num = slave.num /\ slave'.crc = slave.crc
  BY <1>1 DEF Types, SlaveType, SlaveStates
<1>3. queue' \in [Devices -> Seq(Messages(mr))]
  <2>1. "slave" \in Devices
    BY DEF Devices
  <2>2. queue.slave # <<>> => Popped("slave") \in [Devices -> Seq(Messages(mr))]
    BY <2>1, QueueKept
  <2> QED BY <1>1, <2>2 DEF Types
<1> QED BY <1>1, <1>2, <1>3 DEF SlaveLink, Types

\* It answers what it has heard.
LEMMA SlaveAnswers ==
  ASSUME NEW mr \in BOOLEAN, Types(mr), UNCHANGED master, slave' \in SlaveType(mr),
         NEW heard, Hears("slave", heard, mr), queue' = Popped("slave"),
         NEW frame \in TrueFrames(mr), Send("slave", frame)
  PROVE  SlaveLink(mr)
<1>1. "slave" \in Devices
  BY DEF Devices
<1>2. queue' \in [Devices -> Seq(Messages(mr))]
  BY <1>1, Heard
<1>3. air' \in [Devices -> TrueFrames(mr)]
  BY <1>1, AirKept DEF Send
<1> QED BY <1>2, <1>3 DEF SlaveLink

LEMMA SlaveGreetsIs ==
  ASSUME NEW mr \in BOOLEAN, Types(mr), FirmInv, NEW frame, Hears("slave", frame, mr),
         SlaveGreets(frame)
  PROVE  /\ SlaveLink(mr) /\ UNCHANGED <<flash, locked>>
         /\ slave.state = "FW_VERSION_READY" /\ slave'.state = "START_READY"
         /\ slave'.area = slave.area /\ slave'.num = slave.num /\ slave'.crc = slave.crc
<1> DEFINE answer == Command("VERSION_RSP", Running)
<1>1. answer \in TrueFrames(mr)
  BY RunningOld, FramesAreTrue
<1> HIDE DEF answer
<1>2. /\ UNCHANGED <<flash, locked, master>> /\ slave.state = "FW_VERSION_READY"
      /\ queue' = Popped("slave")
      /\ slave' = [slave EXCEPT !.state = "START_READY", !.retry = 0, !.tx = answer]
      /\ Send("slave", slave'.tx)
  BY DEF SlaveGreets, Taken, memory, answer
<1>3. /\ slave' \in SlaveType(mr) /\ slave'.state = "START_READY" /\ slave'.tx = answer
      /\ slave'.area = slave.area /\ slave'.num = slave.num /\ slave'.crc = slave.crc
  BY <1>1, <1>2 DEF Types, SlaveType, SlaveStates
<1>4. SlaveLink(mr)
  BY <1>1, <1>2, <1>3, SlaveAnswers
<1> QED BY <1>2, <1>3, <1>4

\* It starts on the word of a master that has something newer.
LEMMA SlaveStartsIs ==
  ASSUME NEW mr \in BOOLEAN, Types(mr), NEW frame, Hears("slave", frame, mr),
         SlaveStarts(frame)
  PROVE  /\ SlaveLink(mr) /\ UNCHANGED <<flash, locked>> /\ Behind(mr)
         /\ slave.state = "START_READY" /\ slave'.state = "DATA_READY"
         /\ slave'.area = slave.area /\ slave'.num = slave.num /\ slave'.crc = slave.crc
<1>1. /\ UNCHANGED <<flash, locked, master>> /\ slave.state = "START_READY"
      /\ queue' = Popped("slave") /\ frame.kind = "START_REQ"
  BY DEF SlaveStarts, SlaveHas, Taken, memory
<1>2. frame \in Frames /\ True(frame, mr)
  BY <1>1, Heard DEF Devices
<1>3. PICK m, answer : m = frame.num /\ answer = Command("START_RSP", 0)
  OBVIOUS
<1>4. m \in Int /\ answer \in TrueFrames(mr)
  BY <1>2, <1>3, FramesAreTrue DEF Frames
<1>5. /\ slave' = [slave EXCEPT !.state = "DATA_READY", !.retry = 0, !.max = m, !.tx = answer]
      /\ Send("slave", slave'.tx)
  BY <1>3 DEF SlaveStarts
<1>6. /\ slave' \in SlaveType(mr) /\ slave'.state = "DATA_READY" /\ slave'.tx = answer
      /\ slave'.area = slave.area /\ slave'.num = slave.num /\ slave'.crc = slave.crc
  BY <1>4, <1>5 DEF Types, SlaveType, SlaveStates
<1>7. SlaveLink(mr)
  BY <1>1, <1>4, <1>5, <1>6, SlaveAnswers
<1>8. Behind(mr)
  BY <1>1, <1>2 DEF True, Leading
<1> QED BY <1>1, <1>6, <1>7, <1>8

LEMMA SlaveRepeatsIs ==
  ASSUME NEW mr \in BOOLEAN, Types(mr), NEW frame, Hears("slave", frame, mr),
         SlaveRepeats(frame)
  PROVE  /\ SlaveLink(mr) /\ UNCHANGED <<flash, locked>>
         /\ SlaveWaits /\ slave'.state = slave.state
         /\ slave'.area = slave.area /\ slave'.num = slave.num /\ slave'.crc = slave.crc
<1>1. /\ UNCHANGED <<flash, locked, master>> /\ queue' = Popped("slave")
      /\ slave' = [slave EXCEPT !.retry = 0] /\ Send("slave", slave.tx) /\ SlaveWaits
  BY DEF SlaveRepeats, Repeated, Taken, memory, SlaveWaits
<1>2. /\ slave' \in SlaveType(mr) /\ slave'.state = slave.state
      /\ slave'.area = slave.area /\ slave'.num = slave.num /\ slave'.crc = slave.crc
      /\ slave.tx \in TrueFrames(mr)
  BY <1>1 DEF Types, SlaveType
<1>3. SlaveLink(mr)
  BY <1>1, <1>2, SlaveAnswers
<1> QED BY <1>1, <1>2, <1>3

\* What it stores is the block with that number.
LEMMA SlaveStoresIs ==
  ASSUME NEW mr \in BOOLEAN, Types(mr), NEW frame, Hears("slave", frame, mr),
         SlaveStores(frame)
  PROVE  /\ SlaveLink(mr) /\ UNCHANGED locked
         /\ slave.state = "DATA_READY" /\ slave'.state \in {"DATA_READY", "END_READY"}
         /\ slave'.num = slave.num + 1 /\ slave'.area = slave.area
         /\ slave'.crc = Append(slave.crc, frame.data)
         /\ frame.data \in Datas /\ slave.num \in Nat
         /\ flash' = IF slave.num + 1 \in Positions
                     THEN Written(slave.area, slave.num + 1, frame.data) ELSE flash
         /\ ~mr => /\ slave.num + 1 \in Positions
                   /\ frame.data = Content(Offered, slave.num + 1)
<1> DEFINE k == slave.num + 1
           c == frame.data
<1>1. /\ UNCHANGED <<locked, master>> /\ queue' = Popped("slave")
      /\ slave.state = "DATA_READY" /\ frame.kind = "DATA" /\ frame.num = k
  BY DEF SlaveStores, NextBlock, SlaveHas, Taken
<1>2. frame \in Frames /\ True(frame, mr) /\ slave.num \in Nat
  BY Heard DEF Devices, Types, SlaveType
<1>3. ~mr => k \in Positions /\ c = Content(Offered, k)
  BY <1>1, <1>2 DEF True
<1>4. PICK s : s = IF k = slave.max THEN "END_READY" ELSE slave.state
  OBVIOUS
<1>5. /\ flash' = IF k \in Positions THEN Written(slave.area, k, c) ELSE flash
      /\ slave' = [slave EXCEPT !.num = k, !.retry = 0, !.crc = Append(slave.crc, c),
                                !.tx = Ack(k), !.state = s]
      /\ Send("slave", Ack(k))
  BY <1>4 DEF SlaveStores
<1>6. k \in Nat /\ k \in Int /\ c \in Datas /\ s \in {"DATA_READY", "END_READY"}
  BY <1>1, <1>2, <1>4 DEF Frames
<1> HIDE DEF k, c
<1>7. Ack(k) \in TrueFrames(mr)
  BY <1>6, FramesAreTrue
<1>8. Append(slave.crc, c) \in Seq(Datas)
  BY <1>6 DEF Types, SlaveType
<1>9. /\ slave' \in SlaveType(mr) /\ slave'.num = k /\ slave'.crc = Append(slave.crc, c)
      /\ slave'.area = slave.area /\ slave'.state = s
  BY <1>5, <1>6, <1>7, <1>8 DEF Types, SlaveType, SlaveStates
<1>10. SlaveLink(mr)
  BY <1>1, <1>5, <1>7, <1>9, SlaveAnswers
<1> QED BY <1>1, <1>2, <1>3, <1>5, <1>6, <1>9, <1>10 DEF k, c

\* A step that ends the dialogue.
LEMMA FailedLink ==
  ASSUME NEW mr \in BOOLEAN, Types(mr), UNCHANGED <<master, air>>, slave' = Failed,
         \/ queue' = Emptied("slave")
         \/ queue' = Popped("slave") /\ \E frame : Hears("slave", frame, mr)
  PROVE  SlaveLink(mr)
<1>1. "slave" \in Devices
  BY DEF Devices
<1>2. queue' \in [Devices -> Seq(Messages(mr))]
  BY <1>1, QueueKept, Heard
<1> QED BY <1>2, FailedIs DEF SlaveLink, Types

LEMMA SlaveConcludesIs ==
  ASSUME NEW mr \in BOOLEAN, Types(mr), NEW frame, Hears("slave", frame, mr),
         SlaveConcludes(frame)
  PROVE  /\ SlaveLink(mr) /\ UNCHANGED <<flash, locked>>
         /\ slave.state = "END_READY"
         /\ \/ slave' = Failed
            \/ /\ slave'.state = "END" /\ slave'.crc = slave.crc /\ slave'.num = 0
               /\ slave'.area = slave.area
<1>1. /\ UNCHANGED <<flash, locked, master>> /\ queue' = Emptied("slave")
      /\ slave.state = "END_READY"
  BY DEF SlaveConcludes, memory
<1>2. CASE frame.num # slave.num
  <2>1. slave' = Failed /\ air' = air
    BY <1>2 DEF SlaveConcludes, StopTimer
  <2> QED BY <1>1, <2>1, FailedLink
<1>3. CASE frame.num = slave.num
  <2>1. /\ slave' = [SlaveOff EXCEPT !.state = "END", !.area = slave.area, !.crc = slave.crc]
        /\ air' = [air EXCEPT !["slave"] = Command("END_RSP", 0)]
    BY <1>3 DEF SlaveConcludes
  <2>2. /\ "END" \in SlaveStates /\ slave.area \in Areas /\ slave.crc \in Seq(Datas)
        /\ 1 \in 0..(ErasedBlocks + 1)
    BY FlashAssumption DEF Types, SlaveType, SlaveStates
  <2>3. slave' \in SlaveType(mr)
    BY <2>1, <2>2, SlaveOffIs
  <2>4. /\ slave'.state = "END" /\ slave'.crc = slave.crc /\ slave'.area = slave.area
        /\ slave'.num = 0
    BY <2>1 DEF SlaveOff
  <2>5. Command("END_RSP", 0) \in TrueFrames(mr)
    BY FramesAreTrue
  <2>6. air' \in [Devices -> TrueFrames(mr)]
    BY <2>1, <2>5, AirKept DEF Devices
  <2>7. queue' \in [Devices -> Seq(Messages(mr))]
    BY <1>1, QueueKept DEF Devices
  <2> QED BY <1>1, <2>3, <2>4, <2>6, <2>7 DEF SlaveLink
<1> QED BY <1>2, <1>3

LEMMA SlaveRetriesIs ==
  ASSUME NEW mr \in BOOLEAN, Types(mr), NEW frame, Hears("slave", frame, mr),
         SlaveWaits, SlaveRetries(frame)
  PROVE  /\ SlaveLink(mr) /\ UNCHANGED <<flash, locked>> /\ SlaveWaits
         /\ \/ slave' = Failed
            \/ /\ slave'.state = slave.state /\ slave'.num = slave.num
               /\ slave'.crc = slave.crc /\ slave'.area = slave.area
<1>1. /\ UNCHANGED <<flash, locked, master>> /\ queue' = Popped("slave")
      /\ SlaveWaits /\ air' = air
  BY DEF SlaveRetries, StopTimer, Wait, Taken, memory
<1>2. CASE slave.retry = FW_UPDATE_RETRY_MAX
  <2>1. slave' = Failed
    BY <1>2 DEF SlaveRetries
  <2> QED BY <1>1, <2>1, FailedLink
<1>3. CASE slave.retry # FW_UPDATE_RETRY_MAX
  <2>1. slave' = [slave EXCEPT !.retry = slave.retry + 1]
    BY <1>3 DEF SlaveRetries
  <2>2. slave \in SlaveType(mr) /\ slave.retry + 1 \in Nat
    BY DEF Types, SlaveType
  <2>3. /\ slave' \in SlaveType(mr) /\ slave'.area = slave.area
        /\ slave'.state = slave.state /\ slave'.num = slave.num /\ slave'.crc = slave.crc
    BY <2>1, <2>2 DEF SlaveType
  <2>4. queue' \in [Devices -> Seq(Messages(mr))]
    BY <1>1, Heard DEF Devices
  <2> QED BY <1>1, <2>3, <2>4 DEF SlaveLink, Types
<1> QED BY <1>2, <1>3

LEMMA SlaveExpiresIs ==
  ASSUME NEW mr \in BOOLEAN, Types(mr), SlaveExpires
  PROVE  SlaveLink(mr) /\ UNCHANGED <<flash, locked>> /\ SlaveWaits /\ slave' = Failed
<1>1. /\ UNCHANGED <<flash, locked, master, air>> /\ queue' = Emptied("slave")
      /\ SlaveWaits /\ slave' = Failed
  BY DEF SlaveExpires, memory
<1> QED BY <1>1, FailedLink

LEMMA SlaveRestartIs ==
  ASSUME NEW mr \in BOOLEAN, Types(mr), SlaveRestart, UNCHANGED master
  PROVE  SlaveLink(mr) /\ slave'.state = "boot" /\ slave'.num = 0 /\ slave'.crc = <<>>
<1>1. /\ slave' = SlaveOff /\ queue' = Emptied("slave")
      /\ air' = [air EXCEPT !["slave"] = NoFrame]
  BY DEF SlaveRestart
<1>2. /\ "off" \in SlaveStates /\ 0 \in Areas /\ 0 \in 0..(ErasedBlocks + 1)
      /\ <<>> \in Seq(Datas)
  BY FlashAssumption DEF SlaveStates, Areas
<1>3. slave' \in SlaveType(mr)
  BY <1>1, <1>2, SlaveOffIs
<1>4. air' \in [Devices -> TrueFrames(mr)] /\ queue' \in [Devices -> Seq(Messages(mr))]
  BY <1>1, FramesAreTrue, AirKept, QueueKept DEF Devices
<1> QED BY <1>1, <1>3, <1>4 DEF SlaveLink, SlaveOff, NoBlocks

LEMMA SlaveMarksIs ==
  ASSUME NEW mr \in BOOLEAN, Types(mr), TakenInv(mr), SlaveMarks
  PROVE  /\ SlaveLink(mr) /\ UNCHANGED locked
         /\ slave.state = "END" /\ slave'.num = 0 /\ slave'.area = slave.area
         /\ slave'.crc = <<>>
         /\ \/ /\ CrcMatches(slave.area, slave.crc) /\ slave'.state = "MARKED"
               /\ flash' = Marked(slave.area)
            \/ slave' = Failed /\ UNCHANGED flash
<1>1. UNCHANGED <<locked, master, air, queue>> /\ slave.state = "END"
  BY DEF SlaveMarks, link
<1>2. CASE CrcMatches(slave.area, slave.crc)
  <2>1. /\ flash' = Marked(slave.area)
        /\ slave' = [slave EXCEPT !.state = "MARKED", !.crc = <<>>]
    BY <1>2 DEF SlaveMarks, NoBlocks
  <2>2. slave.num = 0
    BY <1>1 DEF TakenInv, Taking
  <2>3. slave \in SlaveType(mr) /\ <<>> \in Seq(Datas) /\ "MARKED" \in SlaveStates
    BY DEF Types, SlaveStates
  <2>4. /\ slave' \in SlaveType(mr) /\ slave'.state = "MARKED" /\ slave'.crc = <<>>
        /\ slave'.num = slave.num /\ slave'.area = slave.area
    BY <2>1, <2>3 DEF SlaveType
  <2> QED BY <1>1, <1>2, <2>1, <2>2, <2>4 DEF SlaveLink, Types
<1>3. CASE ~CrcMatches(slave.area, slave.crc)
  <2>1. slave' = Failed /\ UNCHANGED flash
    BY <1>3 DEF SlaveMarks
  <2> QED BY <1>1, <2>1, FailedIs DEF SlaveLink, Types
<1> QED BY <1>2, <1>3
---------------------------------------------------------------------------
(* The image that runs *)

FirmNext == FlashTypes' /\ FirmInv' /\ Running' \in {Running, Offered}

LEMMA FirmRests ==
  ASSUME FlashTypes, FirmInv, UNCHANGED flash, locked' \in BOOLEAN, slave'.state \in {"boot", "off"}
  PROVE  FirmNext
<1>1. Running' = Running /\ Whole(Started)'
  BY FlashKept DEF FirmInv
<1>2. FirmInv'
  BY <1>1 DEF FirmInv, SlaveWaits
<1> QED BY <1>1, <1>2 DEF FirmNext, FlashTypes

LEMMA FirmFails ==
  ASSUME NEW mr \in BOOLEAN, Types(mr), FirmInv, UNCHANGED <<flash, locked>>, slave' = Failed,
         SlaveWaits \/ slave.state = "END"
  PROVE  FirmNext
<1>1. Running' = Running /\ Whole(Started)' /\ Started' = Started
  BY FlashKept DEF FirmInv
<1>2. slave'.state = "ERROR" /\ slave'.area = slave.area /\ slave'.pos = 1
  BY FailedIs
<1>3. Started = 1 - slave.area
  BY DEF FirmInv
<1>4. FirmInv'
  BY <1>1, <1>2, <1>3 DEF FirmInv, SlaveWaits
<1> QED BY <1>1, <1>4 DEF FirmNext, FlashTypes, Types

LEMMA FirmWaits ==
  ASSUME NEW mr \in BOOLEAN, Types(mr), FirmInv,
         UNCHANGED <<flash, locked>>, slave'.area = slave.area,
         SlaveWaits \/ (slave.state = "INIT" /\ slave.pos > 1),
         SlaveWaits' \/ slave'.state = "END"
  PROVE  FirmNext
<1>1. Running' = Running /\ Whole(Started)' /\ Started' = Started
  BY FlashKept DEF FirmInv
<1>2. Started = 1 - slave.area /\ (~locked => flash[slave.area].mark = "blank")
  BY DEF FirmInv
<1>3. slave'.state \notin {"INIT", "ERROR", "MARKED"}
  BY DEF SlaveWaits
<1>4. FirmInv'
  BY <1>1, <1>2, <1>3 DEF FirmInv
<1> QED BY <1>1, <1>4 DEF FirmNext, FlashTypes, Types

\* The area that does not run changes.
LEMMA FirmTouched ==
  ASSUME NEW mr \in BOOLEAN, Types(mr), FirmInv, Touches(slave.area), Started = 1 - slave.area,
         locked' \in BOOLEAN, slave'.area = slave.area, slave'.state # "MARKED",
         SlaveWaits' \/ slave'.state = "END" \/ (slave'.state = "INIT" /\ slave'.pos > 1) =>
           (~locked' => flash'[slave.area].mark = "blank"),
         slave'.state \in {"INIT", "ERROR"} => slave'.pos > 0
  PROVE  FirmNext
<1>1. slave.area \in Areas
  BY DEF Types, SlaveType
<1>2. Started' = Started /\ Whole(Started)' /\ Running' = Running
  BY <1>1, TouchedOther DEF FirmInv
<1>3. FlashTypes'
  BY DEF Touches, FlashTypes
<1>4. FirmInv'
  BY <1>2 DEF FirmInv
<1> QED BY <1>2, <1>3, <1>4 DEF FirmNext

LEMMA StoresFirm ==
  ASSUME NEW mr \in BOOLEAN, Types(mr), FirmInv, NEW frame, Hears("slave", frame, mr),
         SlaveStores(frame)
  PROVE  FirmNext /\ Running' = Running
<1> DEFINE k == slave.num + 1
           c == frame.data
<1>1. /\ UNCHANGED locked /\ slave.state = "DATA_READY" /\ c \in Datas
      /\ slave'.area = slave.area /\ slave'.state \in {"DATA_READY", "END_READY"}
      /\ flash' = IF k \in Positions THEN Written(slave.area, k, c) ELSE flash
  BY SlaveStoresIs
<1> HIDE DEF k, c
<1>2. slave.area \in Areas /\ FlashTypes /\ c \in Contents
  <2>1. slave.area \in Areas /\ FlashTypes
    BY DEF Types, SlaveType
  <2>2. Datas \subseteq Contents
    BY FlashAssumption DEF Datas, Parts, Blank, Garbled, Content, Contents, Positions
  <2> QED BY <1>1, <2>1, <2>2
<1>3. Touches(slave.area) /\ flash'[slave.area].mark = flash[slave.area].mark
  <2>1. CASE k \in Positions
    BY <1>1, <1>2, <2>1, WrittenTouches
  <2>2. CASE k \notin Positions
    BY <1>1, <1>2, <2>2 DEF Touches, FlashTypes
  <2> QED BY <2>1, <2>2
<1>4. Started = 1 - slave.area /\ (~locked => flash[slave.area].mark = "blank")
  BY <1>1 DEF FirmInv, SlaveWaits
<1>5. Running' = Running
  BY <1>2, <1>3, <1>4, TouchedOther DEF FirmInv
<1>6. FirmNext
  BY <1>1, <1>2, <1>3, <1>4, FirmTouched DEF FlashTypes
<1> QED BY <1>5, <1>6

LEMMA BeginFirm ==
  ASSUME NEW mr \in BOOLEAN, Types(mr), FirmInv, SlaveBegin
  PROVE  FirmNext
<1>1. /\ UNCHANGED flash /\ slave'.state = "INIT" /\ slave'.area = Target /\ slave'.pos = 1
      /\ locked' \in {FALSE, locked}
  BY SlaveBeginIs
<1>2. Running' = Running /\ Whole(Started)' /\ Started' = Started
  BY <1>1, FlashKept DEF FirmInv
<1>3. Started = 1 - slave'.area
  BY <1>1, AreasAre DEF Target
<1>4. FirmInv'
  BY <1>1, <1>2, <1>3 DEF FirmInv, SlaveWaits
<1>5. FlashTypes'
  BY <1>1 DEF FlashTypes, Types
<1> QED BY <1>2, <1>4, <1>5 DEF FirmNext

LEMMA ErasesFirm ==
  ASSUME NEW mr \in BOOLEAN, Types(mr), FirmInv, SlaveErases
  PROVE  FirmNext
<1>1. /\ UNCHANGED locked /\ slave.state \in {"INIT", "ERROR"} /\ slave'.state = slave.state
      /\ slave'.area = slave.area /\ slave'.pos = slave.pos + 1
      /\ slave.pos \in Positions /\ slave.pos \in Nat
      /\ flash' = Erased(slave.area, slave.pos)
  BY SlaveErasesIs
<1>2. slave.area \in Areas /\ FlashTypes
  BY DEF Types, SlaveType
<1>3. /\ Touches(slave.area)
      /\ ~locked /\ (slave.pos = 1 \/ flash[slave.area].mark = "blank") =>
           flash'[slave.area].mark = "blank"
  BY <1>1, <1>2, ErasedTouches
<1>4. Started = 1 - slave.area /\ slave.pos > 0
  BY <1>1 DEF FirmInv
<1>5. slave.state = "INIT" /\ slave.pos > 1 => (~locked => flash[slave.area].mark = "blank")
  BY DEF FirmInv
<1>6. slave'.state = "INIT" /\ ~locked => flash'[slave.area].mark = "blank"
  BY <1>1, <1>3, <1>4, <1>5
<1>7. ~SlaveWaits' /\ slave'.state # "END" /\ slave'.state # "MARKED" /\ slave'.pos > 0
  BY <1>1 DEF SlaveWaits
<1> QED BY <1>1, <1>2, <1>3, <1>4, <1>6, <1>7, FirmTouched DEF FlashTypes

\* No blocks but those of the image that was offered make a whole image.
LEMMA CrcOffered ==
  ASSUME NEW v \in Versions, Image(v) \in Seq(Datas)
  PROVE  v = Offered
<1>1. 1 \in Positions /\ Image(v)[1] = <<v, 1>>
  <2>1. 1 \in Positions
    BY FlashAssumption DEF Positions
  <2> QED BY <2>1 DEF Image, Content
<1>2. Image(v)[1] \in Datas
  <2>1. PICK s \in Seq(Datas) : s = Image(v)
    OBVIOUS
  <2>2. DOMAIN s = Positions
    BY <2>1 DEF Image
  <2>3. 1 \in DOMAIN s
    BY <1>1, <2>2
  <2>4. s[1] \in Datas
    BY <2>3
  <2> QED BY <2>1, <2>4
<1>3. v \in Nat
  BY FlashAssumption
<1>4. \/ <<v, 1>> = <<-1, 0>> \/ <<v, 1>> = <<-2, 0>>
      \/ \E k \in Positions : <<v, 1>> = <<Offered, k>>
  BY <1>1, <1>2 DEF Datas, Parts, Blank, Garbled, Content
<1> QED BY <1>3, <1>4

\* Only the image that was offered gets a mark: the CRC is that of what was received.
LEMMA MarksFirm ==
  ASSUME NEW mr \in BOOLEAN, Types(mr), TakenInv(mr), FirmInv, SlaveMarks
  PROVE  FirmNext
<1>1. /\ UNCHANGED locked /\ slave.state = "END" /\ slave'.area = slave.area
      /\ \/ /\ CrcMatches(slave.area, slave.crc) /\ slave'.state = "MARKED"
            /\ flash' = Marked(slave.area)
         \/ slave' = Failed /\ UNCHANGED flash
  BY SlaveMarksIs
<1>2. CASE slave' = Failed /\ UNCHANGED flash
  BY <1>1, <1>2, FirmFails
<1>3. CASE /\ CrcMatches(slave.area, slave.crc) /\ slave'.state = "MARKED"
           /\ flash' = Marked(slave.area)
  <2>1. PICK v \in Versions : slave.crc = Image(v) /\ flash[slave.area].blocks = Image(v)
    BY <1>3 DEF CrcMatches
  <2>2. slave.crc \in Seq(Datas)
    BY DEF Types, SlaveType
  <2>3. v = Offered
    BY <2>1, <2>2, CrcOffered
  <2>4. /\ slave.area \in Areas /\ Offered \in Versions /\ FlashTypes
        /\ Started = 1 - slave.area /\ Whole(Started)
        /\ ~locked => flash[slave.area].mark = "blank"
    BY <1>1, FlashAssumption DEF Types, SlaveType, FirmInv
  <2>5. PICK a : a = slave.area
    OBVIOUS
  <2>6. FlashTypes' /\ BothMarked(a, Offered)' /\ Running' \in {Running, Offered}
    BY <1>1, <1>3, <2>1, <2>3, <2>4, <2>5, MarkedBoth
  <2>7. BothMarked(slave.area, Offered)'
    BY <1>1, <2>5, <2>6 DEF BothMarked, Whole
  <2>8. Whole(Started)'
    <3>1. ASSUME Whole(1 - a)',
                 (~locked => flash[a].mark = "set" /\ flash[a].blocks = Image(Offered))',
                 (locked => Started = 1 - a)'
          PROVE  Whole(Started)'
      BY <2>4, <2>5, <3>1, AreasAre DEF Whole, Started, Areas
    <3> QED BY <2>6, <3>1 DEF BothMarked
  <2>9. FirmInv'
    BY <1>3, <2>7, <2>8 DEF FirmInv, SlaveWaits
  <2> QED BY <2>6, <2>9 DEF FirmNext
<1> QED BY <1>1, <1>2, <1>3

LEMMA SwitchesFirm ==
  ASSUME NEW mr \in BOOLEAN, Types(mr), FirmInv, SlaveSwitches
  PROVE  FirmNext
<1>1. /\ slave.state = "MARKED" /\ flash' = Unmarked(1 - slave.area) /\ locked' \in BOOLEAN
      /\ SlaveRestart /\ UNCHANGED master
  BY DEF SlaveSwitches, flash_lock
<1>2. slave'.state = "boot"
  BY <1>1, SlaveRestartIs
<1>3. slave.area \in Areas /\ Offered \in Versions /\ FlashTypes /\ BothMarked(slave.area, Offered)
  BY <1>1, FlashAssumption DEF Types, SlaveType, FirmInv
<1>4. FlashTypes' /\ Whole(Started)' /\ Running' \in {Running, Offered}
  BY <1>1, <1>3, UnmarkedOld
<1>5. FirmInv'
  BY <1>2, <1>4 DEF FirmInv, SlaveWaits
<1> QED BY <1>4, <1>5 DEF FirmNext
---------------------------------------------------------------------------
(* Every step *)

LEMMA TakenNothing ==
  ASSUME NEW mr \in BOOLEAN, slave'.num = 0, slave'.crc = <<>>,
         slave'.state \notin {"DATA_READY", "END_READY", "END"},
         slave'.state = "MARKED" => Behind(mr)'
  PROVE  TakenInv(mr)'
<1>1. SubSeq(Image(Offered), 1, 0) = <<>> /\ 0 \in 0..Blocks
  BY CrcStarts, FlashAssumption
<1> QED BY <1>1 DEF TakenInv, Taking

\* It has taken nothing more.
LEMMA TakenSame ==
  ASSUME NEW mr \in BOOLEAN, TakenInv(mr),
         slave'.num = slave.num, slave'.crc = slave.crc, slave.state # "END",
         slave'.state \notin {"END", "MARKED"}, Taking => Taking',
         Taking' => Behind(mr)'
  PROVE  TakenInv(mr)'
BY DEF TakenInv, Taking

SlaveNext(mr) == SlaveLink(mr) /\ TakenInv(mr)' /\ FirmNext

LEMMA SlaveKept ==
  ASSUME NEW mr \in BOOLEAN, Types(mr), TakenInv(mr), FirmInv, misread' = mr,
         SlaveBegin \/ SlaveWorks \/ SlaveExpires
  PROVE  SlaveNext(mr)
<1>1. ASSUME FirmNext, Behind(mr) PROVE Behind(mr)'
  BY <1>1, StillTrue DEF FirmNext
<1>2. ASSUME slave' = Failed PROVE TakenInv(mr)'
  BY <1>2, FailedIs, TakenNothing
<1>3. Taking => Behind(mr)
  BY DEF TakenInv
<1>4. CASE SlaveBoot
  <2>1. /\ SlaveLink(mr) /\ UNCHANGED flash /\ locked' \in BOOLEAN
        /\ slave.state = "boot" /\ slave'.state = "off"
        /\ slave'.num = slave.num /\ slave'.crc = slave.crc
    BY <1>4, SlaveBootIs
  <2>2. FirmNext
    BY <2>1, FirmRests DEF Types
  <2>3. TakenInv(mr)'
    BY <2>1, TakenSame DEF Taking
  <2> QED BY <2>1, <2>2, <2>3 DEF SlaveNext
<1>5. CASE SlaveBegin
  <2>1. SlaveLink(mr) /\ slave'.state = "INIT" /\ slave'.num = 0 /\ slave'.crc = <<>>
    BY <1>5, SlaveBeginIs
  <2>2. FirmNext
    BY <1>5, BeginFirm
  <2>3. TakenInv(mr)'
    BY <2>1, TakenNothing
  <2> QED BY <2>1, <2>2, <2>3 DEF SlaveNext
<1>6. CASE SlaveErases
  <2>1. /\ SlaveLink(mr) /\ slave.state \in {"INIT", "ERROR"} /\ slave'.state = slave.state
        /\ slave'.num = slave.num /\ slave'.crc = slave.crc
    BY <1>6, SlaveErasesIs
  <2>2. FirmNext
    BY <1>6, ErasesFirm
  <2>3. TakenInv(mr)'
    BY <2>1, TakenSame DEF Taking
  <2> QED BY <2>1, <2>2, <2>3 DEF SlaveNext
<1>7. CASE SlaveListens
  <2>1. /\ SlaveLink(mr) /\ UNCHANGED <<flash, locked>>
        /\ slave.state = "INIT" /\ slave.pos > ErasedBlocks
        /\ slave'.state = "FW_VERSION_READY" /\ slave'.area = slave.area
        /\ slave'.num = slave.num /\ slave'.crc = slave.crc
    BY <1>7, SlaveListensIs
  <2>2. slave.pos > 1
    <3>1. slave.pos \in Int
      BY DEF Types, SlaveType
    <3> QED BY <2>1, <3>1, FlashAssumption
  <2>3. SlaveWaits'
    BY <2>1 DEF SlaveWaits
  <2>4. FirmNext
    BY <2>1, <2>2, <2>3, FirmWaits
  <2>5. TakenInv(mr)'
    BY <2>1, TakenSame DEF Taking
  <2> QED BY <2>1, <2>4, <2>5 DEF SlaveNext
<1>8. ASSUME NEW frame, Hears("slave", frame, mr), SlaveGreets(frame)
      PROVE  SlaveNext(mr)
  <2>1. /\ SlaveLink(mr) /\ UNCHANGED <<flash, locked>>
        /\ slave.state = "FW_VERSION_READY" /\ slave'.state = "START_READY"
        /\ slave'.area = slave.area /\ slave'.num = slave.num /\ slave'.crc = slave.crc
    BY <1>8, SlaveGreetsIs
  <2>2. SlaveWaits /\ SlaveWaits'
    BY <2>1 DEF SlaveWaits
  <2>3. FirmNext
    BY <2>1, <2>2, FirmWaits
  <2>4. TakenInv(mr)'
    BY <2>1, TakenSame DEF Taking
  <2> QED BY <2>1, <2>3, <2>4 DEF SlaveNext
<1>9. ASSUME NEW frame, Hears("slave", frame, mr), SlaveStarts(frame)
      PROVE  SlaveNext(mr)
  <2>1. /\ SlaveLink(mr) /\ UNCHANGED <<flash, locked>> /\ Behind(mr)
        /\ slave.state = "START_READY" /\ slave'.state = "DATA_READY"
        /\ slave'.area = slave.area /\ slave'.num = slave.num /\ slave'.crc = slave.crc
    BY <1>9, SlaveStartsIs
  <2>2. SlaveWaits /\ SlaveWaits'
    BY <2>1 DEF SlaveWaits
  <2>3. FirmNext
    BY <2>1, <2>2, FirmWaits
  <2>4. TakenInv(mr)'
    BY <1>1, <2>1, <2>3, TakenSame DEF Taking
  <2> QED BY <2>1, <2>3, <2>4 DEF SlaveNext
<1>10. ASSUME NEW frame, Hears("slave", frame, mr), SlaveRepeats(frame)
       PROVE  SlaveNext(mr)
  <2>1. /\ SlaveLink(mr) /\ UNCHANGED <<flash, locked>>
        /\ SlaveWaits /\ slave'.state = slave.state
        /\ slave'.area = slave.area /\ slave'.num = slave.num /\ slave'.crc = slave.crc
    BY <1>10, SlaveRepeatsIs
  <2>2. SlaveWaits' /\ (Taking' <=> Taking) /\ slave.state \notin {"END", "MARKED"}
    BY <2>1 DEF SlaveWaits, Taking
  <2>3. FirmNext
    BY <2>1, <2>2, FirmWaits
  <2>4. TakenInv(mr)'
    BY <1>1, <1>3, <2>1, <2>2, <2>3, TakenSame
  <2> QED BY <2>1, <2>3, <2>4 DEF SlaveNext
<1>11. ASSUME NEW frame, Hears("slave", frame, mr), SlaveStores(frame)
       PROVE  SlaveNext(mr)
  <2>1. /\ SlaveLink(mr)
        /\ slave.state = "DATA_READY" /\ slave'.state \in {"DATA_READY", "END_READY"}
        /\ slave'.num = slave.num + 1 /\ slave.num \in Nat
        /\ slave'.crc = Append(slave.crc, frame.data)
        /\ ~mr => /\ slave.num + 1 \in Positions
                  /\ frame.data = Content(Offered, slave.num + 1)
    BY <1>11, SlaveStoresIs
  <2>2. FirmNext
    BY <1>11, StoresFirm
  <2>3. ASSUME ~mr PROVE /\ slave'.num \in 0..Blocks
                         /\ slave'.crc = SubSeq(Image(Offered), 1, slave'.num)
    <3>1. slave.crc = SubSeq(Image(Offered), 1, slave.num) /\ slave.num \in 0..Blocks
      BY <2>1, <2>3 DEF TakenInv
    <3>2. slave'.crc = SubSeq(Image(Offered), 1, slave'.num)
      BY <2>1, <2>3, <3>1, CrcGrows
    <3>3. slave'.num \in 0..Blocks
      BY <2>1, <2>3, FlashAssumption DEF Positions
    <3> QED BY <3>2, <3>3
  <2>4. Behind(mr)'
    BY <1>1, <1>3, <2>1, <2>2 DEF Taking
  <2>5. TakenInv(mr)'
    BY <2>1, <2>3, <2>4 DEF TakenInv, Taking
  <2> QED BY <2>1, <2>2, <2>5 DEF SlaveNext
<1>12. ASSUME NEW frame, Hears("slave", frame, mr), SlaveConcludes(frame)
       PROVE  SlaveNext(mr)
  <2>1. /\ SlaveLink(mr) /\ UNCHANGED <<flash, locked>> /\ slave.state = "END_READY"
        /\ \/ slave' = Failed
           \/ /\ slave'.state = "END" /\ slave'.crc = slave.crc /\ slave'.num = 0
              /\ slave'.area = slave.area
    BY <1>12, SlaveConcludesIs
  <2>2. SlaveWaits
    BY <2>1 DEF SlaveWaits
  <2>3. FirmNext
    BY <2>1, <2>2, FirmWaits, FirmFails
  <2>4. Behind(mr)'
    BY <1>1, <1>3, <2>1, <2>3 DEF Taking
  <2>5. ~mr => slave.num \in 0..Blocks /\ slave.crc = SubSeq(Image(Offered), 1, slave.num)
    BY <2>1 DEF TakenInv
  <2>6. TakenInv(mr)'
    <3>1. CASE slave' = Failed
      BY <1>2, <3>1
    <3>2. CASE slave'.state = "END" /\ slave'.crc = slave.crc /\ slave'.num = 0
      BY <2>4, <2>5, <3>2 DEF TakenInv, Taking
    <3> QED BY <2>1, <3>1, <3>2
  <2> QED BY <2>1, <2>3, <2>6 DEF SlaveNext
<1>13. ASSUME NEW frame, Hears("slave", frame, mr), SlaveWaits, SlaveRetries(frame)
       PROVE  SlaveNext(mr)
  <2>1. /\ SlaveLink(mr) /\ UNCHANGED <<flash, locked>> /\ SlaveWaits
        /\ \/ slave' = Failed
           \/ /\ slave'.state = slave.state /\ slave'.num = slave.num
              /\ slave'.crc = slave.crc /\ slave'.area = slave.area
    BY <1>13, SlaveRetriesIs
  <2>2. CASE slave' = Failed
    BY <1>2, <2>1, <2>2, FirmFails DEF SlaveNext
  <2>3. CASE /\ slave'.state = slave.state /\ slave'.num = slave.num
             /\ slave'.crc = slave.crc /\ slave'.area = slave.area
    <3>1. SlaveWaits' /\ (Taking' <=> Taking) /\ slave.state \notin {"END", "MARKED"}
      BY <2>1, <2>3 DEF SlaveWaits, Taking
    <3>2. FirmNext
      BY <2>1, <2>3, <3>1, FirmWaits
    <3>3. TakenInv(mr)'
      BY <1>1, <1>3, <2>3, <3>1, <3>2, TakenSame
    <3> QED BY <2>1, <3>2, <3>3 DEF SlaveNext
  <2> QED BY <2>1, <2>2, <2>3
<1>14. CASE SlaveMarks
  <2>1. /\ SlaveLink(mr) /\ slave.state = "END" /\ slave'.num = 0 /\ slave'.crc = <<>>
        /\ slave'.state = "MARKED" \/ slave' = Failed
    BY <1>14, SlaveMarksIs
  <2>2. FirmNext
    BY <1>14, MarksFirm
  <2>3. Behind(mr)'
    BY <1>1, <2>1, <2>2 DEF TakenInv
  <2>4. TakenInv(mr)'
    BY <1>2, <2>1, <2>3, TakenNothing
  <2> QED BY <2>1, <2>2, <2>4 DEF SlaveNext
<1>15. ASSUME SlaveRestart, UNCHANGED master, FirmNext PROVE SlaveNext(mr)
  <2>1. SlaveLink(mr) /\ slave'.state = "boot" /\ slave'.num = 0 /\ slave'.crc = <<>>
    BY <1>15, SlaveRestartIs
  <2>2. TakenInv(mr)'
    BY <2>1, TakenNothing
  <2> QED BY <1>15, <2>1, <2>2 DEF SlaveNext
<1>16. CASE SlaveSwitches
  BY <1>15, <1>16, SwitchesFirm DEF SlaveSwitches
<1>17. CASE SlaveGivesUp
  <2>1. SlaveRestart /\ UNCHANGED <<flash, master>> /\ locked' \in BOOLEAN
    BY <1>17 DEF SlaveGivesUp, flash_lock
  <2>2. slave'.state = "boot"
    BY <2>1, SlaveRestartIs
  <2>3. FirmNext
    BY <2>1, <2>2, FirmRests DEF Types
  <2> QED BY <1>15, <2>1, <2>3
<1>18. CASE SlaveExpires
  <2>1. SlaveLink(mr) /\ UNCHANGED <<flash, locked>> /\ SlaveWaits /\ slave' = Failed
    BY <1>18, SlaveExpiresIs
  <2> QED BY <1>2, <2>1, FirmFails DEF SlaveNext
<1>19. CASE SlaveHears
  <2>1. PICK frame \in Seen("slave") : SlaveHandles(frame)
    BY <1>19 DEF SlaveHears
  <2>2. Hears("slave", frame, mr) /\ SlaveWaits
    BY <1>19, <2>1
    DEF SlaveHears, SlaveHandles, SlaveGreets, SlaveStarts, SlaveRepeats, SlaveStores,
        SlaveConcludes, SlaveRetries, Taken, Hears
  <2> QED BY <1>8, <1>9, <1>10, <1>11, <1>12, <1>13, <2>1, <2>2 DEF SlaveHandles
<1> QED BY <1>4, <1>5, <1>6, <1>7, <1>14, <1>16, <1>17, <1>18, <1>19 DEF SlaveWorks

LEMMA MasterUnmoved ==
  ASSUME NEW mr \in BOOLEAN, MasterInv(mr), UNCHANGED master, Running' \in {Running, Offered}
  PROVE  MasterInv(mr)'
<1>1. Behind(mr) => Behind(mr)'
  BY StillTrue
<1> QED BY <1>1 DEF MasterInv

LEMMA SlaveUnmoved ==
  ASSUME NEW mr \in BOOLEAN, Types(mr), TakenInv(mr), FirmInv, UNCHANGED <<flash, locked, slave>>
  PROVE  TakenInv(mr)' /\ FirmNext
<1>1. Running' = Running /\ Whole(Started)' /\ Started' = Started
  BY FlashKept DEF FirmInv
<1>2. /\ SlaveWaits' <=> SlaveWaits
      /\ BothMarked(slave.area, Offered)' <=> BothMarked(slave.area, Offered)
  BY <1>1 DEF SlaveWaits, BothMarked, Whole
<1>3. FirmInv'
  BY <1>1, <1>2 DEF FirmInv
<1>4. TakenInv(mr)'
  BY <1>1 DEF TakenInv, Taking, Behind
<1> QED BY <1>1, <1>3, <1>4 DEF FirmNext, FlashTypes, Types

LEMMA Begins ==
  ASSUME Init
  PROVE  UartInv
<1>1. FlashTypes /\ Whole(Started)
  BY FoundRuns DEF Init
<1>2. /\ master = MasterOff /\ slave = SlaveOff
      /\ air = [d \in Devices |-> NoFrame] /\ queue = [d \in Devices |-> <<>>]
  BY DEF Init
<1>3. /\ "off" \in SlaveStates /\ 0 \in Areas /\ 0 \in 0..(ErasedBlocks + 1)
      /\ <<>> \in Seq(Datas) /\ <<>> \in Seq(Messages(FALSE))
  BY FlashAssumption DEF SlaveStates, Areas
<1>4. /\ master \in MasterType(FALSE) /\ master.state = "off"
      /\ slave \in SlaveType(FALSE) /\ slave.state = "boot" /\ slave.num = 0 /\ slave.crc = <<>>
  BY <1>2, <1>3, MasterAtIs, SlaveOffIs DEF SlaveOff, NoBlocks
<1>5. air \in [Devices -> TrueFrames(FALSE)] /\ queue \in [Devices -> Seq(Messages(FALSE))]
  BY <1>2, <1>3, FramesAreTrue
<1>6. MasterInv(FALSE)
  BY <1>4 DEF MasterInv
<1>7. TakenInv(FALSE)
  <2>1. 0 \in 0..Blocks
    BY FlashAssumption
  <2> QED BY <1>4, <2>1, CrcStarts DEF TakenInv, Taking
<1>8. FirmInv
  BY <1>1, <1>4 DEF FirmInv, SlaveWaits
<1>9. Types(FALSE) /\ misread = FALSE
  BY <1>1, <1>4, <1>5 DEF Types, Init
<1> QED BY <1>6, <1>7, <1>8, <1>9 DEF UartInv

\* The image that runs stays, or is the one offered to a device with nothing newer.
Forward ==
  \/ Running' = Running
  \/ Running' = Offered /\ (misread' \/ Running <= Offered)

\* What has been misread stays so.
LEMMA MisreadStays ==
  ASSUME UartInv, [Next]_vars
  PROVE  misread' \in BOOLEAN /\ (misread => misread')
<1>1. misread \in BOOLEAN
  BY DEF UartInv
<1>2. ASSUME NEW d, Read(d) PROVE misread' \in BOOLEAN /\ (misread => misread')
  BY <1>1, <1>2 DEF Read
<1>3. CASE MasterBegin \/ MasterEnds \/ MasterExpires
  BY <1>1, <1>3 DEF MasterBegin, MasterEnds, MasterExpires
<1>4. CASE MasterHears
  BY <1>2, <1>4 DEF MasterHears, MasterAnswered, MasterRetries, Taken
<1>5. CASE SlaveHears
  <2>1. Read("slave")
    BY <1>5
    DEF SlaveHears, SlaveHandles, SlaveGreets, SlaveStarts, SlaveRepeats, SlaveStores,
        SlaveConcludes, SlaveRetries, Taken
  <2> QED BY <1>2, <2>1
<1>6. CASE SlaveBoot \/ SlaveBegin \/ SlaveErases \/ SlaveListens \/ SlaveExpires
  BY <1>1, <1>6 DEF SlaveBoot, SlaveBegin, SlaveErases, SlaveListens, SlaveExpires
<1>7. CASE SlaveMarks \/ SlaveSwitches \/ SlaveGivesUp
  BY <1>1, <1>7 DEF SlaveMarks, SlaveSwitches, SlaveGivesUp
<1>8. CASE Wire
  BY <1>1, <1>8 DEF Wire, Deliver, Damage, Lose, TimerExpires
<1>9. CASE UNCHANGED vars
  BY <1>1, <1>9 DEF vars
<1> QED BY <1>3, <1>4, <1>5, <1>6, <1>7, <1>8, <1>9 DEF Next, MasterWorks, SlaveWorks

LEMMA Stays ==
  ASSUME UartInv, [Next]_vars
  PROVE  UartInv' /\ Forward
<1>1. PICK mr \in BOOLEAN : mr = misread' /\ (misread => mr)
  BY MisreadStays
<1>1a. Types(mr) /\ MasterInv(mr) /\ TakenInv(mr) /\ FirmInv
  BY <1>1, LessClaimed
<1>1b. ASSUME Types(mr)', MasterInv(mr)', TakenInv(mr)', FirmInv' PROVE UartInv'
  BY <1>1, <1>1b DEF UartInv
<1>2. ASSUME FlashTypes', Running' \in {Running, Offered},
             master' \in MasterType(mr), slave' \in SlaveType(mr),
             air' \in [Devices -> TrueFrames(mr)], queue' \in [Devices -> Seq(Messages(mr))]
      PROVE  Types(mr)'
  <2>1. /\ TrueFrames(mr) \subseteq TrueFrames(mr)' /\ Messages(mr) \subseteq Messages(mr)'
        /\ Seq(Messages(mr)) \subseteq Seq(Messages(mr))'
    BY <1>2, StillTrue
  <2>2. MasterType(mr) \subseteq MasterType(mr)' /\ SlaveType(mr) \subseteq SlaveType(mr)'
    BY <2>1 DEF MasterType, SlaveType
  <2>3. air' \in [Devices -> TrueFrames(mr)]' /\ queue' \in [Devices -> Seq(Messages(mr))]'
    BY <1>2, <2>1
  <2> QED BY <1>2, <2>2, <2>3 DEF Types
<1>3. ASSUME UNCHANGED <<flash, locked, slave>>, master' \in MasterType(mr), MasterInv(mr)',
             air' \in [Devices -> TrueFrames(mr)], queue' \in [Devices -> Seq(Messages(mr))]
      PROVE  UartInv' /\ Forward
  <2>1. TakenInv(mr)' /\ FirmNext /\ Running' = Running
    BY <1>1a, <1>3, SlaveUnmoved, FlashKept
  <2>2. slave' \in SlaveType(mr)
    BY <1>1a, <1>3 DEF Types
  <2>3. Types(mr)'
    BY <1>2, <1>3, <2>1, <2>2 DEF FirmNext
  <2> QED BY <1>1b, <1>3, <2>1, <2>3 DEF FirmNext, Forward
<1>4. CASE MasterBegin \/ MasterWorks \/ MasterExpires
  BY <1>1, <1>1a, <1>3, <1>4, MasterIs DEF MasterKept
<1>5. CASE Wire
  <2>1. /\ UNCHANGED <<flash, locked, master, slave>>
        /\ air' \in [Devices -> TrueFrames(mr)] /\ queue' \in [Devices -> Seq(Messages(mr))]
    BY <1>1a, <1>5, WireIs
  <2>2. MasterInv(mr)' /\ master' \in MasterType(mr)
    BY <1>1a, <2>1, FlashKept, MasterUnmoved DEF Types
  <2> QED BY <1>3, <2>1, <2>2
<1>6. CASE SlaveBegin \/ SlaveWorks \/ SlaveExpires
  <2>1. SlaveLink(mr) /\ TakenInv(mr)' /\ FirmNext
    BY <1>1, <1>1a, <1>6, SlaveKept DEF SlaveNext
  <2>2. master' \in MasterType(mr) /\ MasterInv(mr)'
    BY <1>1a, <2>1, MasterUnmoved DEF SlaveLink, FirmNext, Types
  <2>3. Types(mr)'
    BY <1>2, <2>1, <2>2 DEF SlaveLink, FirmNext
  <2>4. Forward
    <3>1. CASE SlaveMarks
      <4>1. slave.state = "END"
        BY <3>1 DEF SlaveMarks
      <4> QED BY <1>1, <1>1a, <2>1, <4>1 DEF TakenInv, Behind, FirmNext, Forward
    <3>2. CASE SlaveSwitches
      <4>1. slave.state = "MARKED"
        BY <3>2 DEF SlaveSwitches
      <4> QED BY <1>1, <1>1a, <2>1, <4>1 DEF TakenInv, Behind, FirmNext, Forward
    <3>3. CASE SlaveHears
      <4>1. PICK frame \in Seen("slave") : SlaveHandles(frame)
        BY <3>3 DEF SlaveHears
      <4>2. CASE SlaveStores(frame)
        <5>1. Hears("slave", frame, mr)
          BY <1>1, <3>3, <4>1, <4>2 DEF SlaveHears, SlaveStores, Taken, Hears
        <5> QED BY <1>1a, <4>2, <5>1, StoresFirm DEF Forward
      <4>3. CASE ~SlaveStores(frame)
        <5>1. UNCHANGED flash
          BY <4>1, <4>3
          DEF SlaveHandles, SlaveGreets, SlaveStarts, SlaveRepeats, SlaveConcludes,
              SlaveRetries, memory
        <5> QED BY <5>1, FlashKept DEF Forward
      <4> QED BY <4>2, <4>3
    <3>4. CASE SlaveErases
      <4>1. /\ slave.state \in {"INIT", "ERROR"} /\ slave.pos \in Positions
            /\ flash' = Erased(slave.area, slave.pos)
        BY <1>1a, <3>4, SlaveErasesIs
      <4>2. slave.area \in Areas /\ FlashTypes /\ Whole(Started) /\ Started = 1 - slave.area
        BY <1>1a, <4>1 DEF FirmInv, Types, SlaveType
      <4>3. Touches(slave.area)
        BY <4>1, <4>2, ErasedTouches
      <4>4. Running' = Running
        BY <4>2, <4>3, TouchedOther
      <4> QED BY <4>4 DEF Forward
    <3>5. CASE UNCHANGED flash
      BY <3>5, FlashKept DEF Forward
    <3> QED
      BY <1>6, <3>1, <3>2, <3>3, <3>4, <3>5
      DEF SlaveWorks, SlaveBegin, SlaveExpires, SlaveBoot, SlaveListens, SlaveGivesUp, memory
  <2> QED BY <1>1b, <2>1, <2>2, <2>3, <2>4 DEF FirmNext
<1>7. CASE UNCHANGED vars
  <2>1. UNCHANGED <<flash, locked, master, slave, air, queue>>
    BY <1>7 DEF vars
  <2>2. MasterInv(mr)' /\ master' \in MasterType(mr)
    BY <1>1a, <2>1, FlashKept, MasterUnmoved DEF Types
  <2>3. air' \in [Devices -> TrueFrames(mr)] /\ queue' \in [Devices -> Seq(Messages(mr))]
    BY <1>1a, <2>1 DEF Types
  <2> QED BY <1>3, <2>1, <2>2, <2>3
<1> QED BY <1>4, <1>5, <1>6, <1>7 DEF Next
---------------------------------------------------------------------------
(* The theorems *)

\* Until bytes are handled that no check sum was tested of (a damaged frame in a buffer
\* that was waited for, or a part of one), every frame, in the air, in a buffer that another
\* may overwrite, or kept to be sent again, says what is so, whatever is lost, late or
\* answered twice; and always no area but one with a whole image is started.
THEOREM UartInvariant == Spec => []UartInv
<1>1. Init => UartInv
  BY Begins
<1>2. UartInv /\ [Next]_vars => UartInv'
  BY Stays
<1> QED BY <1>1, <1>2, PTL DEF Spec

\* The slave has taken the blocks of the image in order, each once and whole (BlockNum,
\* PktCRC), also when the buffer of a message was overwritten by a later frame before it was
\* handled; as long as no buffer is handled with a damaged frame or a part of one in it.
THEOREM TakenInOrder == Spec => []ReceivedInOrder
<1>1. UartInv => ReceivedInOrder
  <2>1. SUFFICES ASSUME UartInv, ~misread, slave.state # "END"
                 PROVE  slave.crc = SubSeq(Image(Offered), 1, slave.num)
    BY DEF ReceivedInOrder
  <2>2. PICK mr \in BOOLEAN : mr = misread /\ TakenInv(mr)
    BY <2>1 DEF UartInv
  <2> QED BY <2>1, <2>2 DEF TakenInv
<1> QED BY <1>1, UartInvariant, PTL

\* A slave always starts a whole image, the one it had or the one that was offered, also
\* when it has handled damaged bytes: the update implements the abstract slot.
THEOREM SlotImplemented == Spec => ImplementsSlot
<1>1. Init => Slot!Init
  <2>1. SUFFICES ASSUME Init PROVE Running \in Versions
    BY DEF Slot!Init
  <2>2. Whole(Started)
    BY <2>1, FoundRuns DEF Init
  <2> QED BY <2>2, RunningWhole
<1>2. UartInv /\ [Next]_vars => [Slot!Next]_Running
  BY Stays DEF Slot!Next, Slot!Replace, Forward
<1> QED BY <1>1, <1>2, UartInvariant, PTL DEF Spec, ImplementsSlot, Slot!Spec

\* No device gets an older image than it runs, as long as no damaged frame is read from a
\* buffer: a slave starts only on the word of a master that has read a version less than its
\* own, and by wire no version is read but the one the slave has sent.
THEOREM NeverOlder == Spec => OnlyForward
<1>1. UartInv /\ [Next]_vars => [misread' \/ Running' >= Running]_vars
  <2>1. SUFFICES ASSUME UartInv, [Next]_vars, ~misread' PROVE Running' >= Running
    OBVIOUS
  <2>2. Running' = Running \/ (Running' = Offered /\ Running <= Offered)
    BY <2>1, Stays DEF Forward
  <2>3. FirmInv
    BY <2>1 DEF UartInv
  <2>4. Running \in Nat /\ Offered \in Nat
    BY <2>3, RunningOld, FlashAssumption
  <2> QED BY <2>2, <2>4
<1> QED BY <1>1, UartInvariant, PTL DEF Spec, OnlyForward
===============================================================================
