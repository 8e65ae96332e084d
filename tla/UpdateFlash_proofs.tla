-------------------------- MODULE UpdateFlash_proofs --------------------------
(***************************************************************************)
(* What the steps of an update do to the image that runs: lemmas for the   *)
(* proofs about RadioOta and UartUpdate, for images of any size.           *)
(***************************************************************************)
EXTENDS UpdateFlash, TLAPS

Marks    == {"set", "blank", "other"}
Contents == Int \X Int

FlashTypes ==
  /\ flash \in [Areas -> [mark : Marks, blocks : [Positions -> Contents]]]
  /\ locked \in BOOLEAN

\* A start would run this area, if it is its turn.
Whole(a) == flash[a].mark = "set" /\ \E v \in Versions : flash[a].blocks = Image(v)

\* A step that changes area a alone, and gives it no mark.
Touches(a) ==
  /\ flash' \in [Areas -> [mark : Marks, blocks : [Positions -> Contents]]]
  /\ flash'[1 - a] = flash[1 - a]
  /\ flash'[a].mark = "set" => flash[a].mark = "set"

LEMMA AreasAre ==
  /\ \A a \in Areas : 1 - a \in Areas /\ a # 1 - a /\ 1 - (1 - a) = a
  /\ \A a, b \in Areas : b = a \/ b = 1 - a
  /\ Started \in Areas
BY DEF Areas, Started

\* Images of two versions differ in the first block.
LEMMA ImagesDiffer ==
  ASSUME NEW v, NEW w, Image(v) = Image(w)
  PROVE  v = w
<1>1. 1 \in Positions
  BY FlashAssumption DEF Positions
<1>2. Image(v)[1] = <<v, 1>> /\ Image(w)[1] = <<w, 1>>
  BY <1>1 DEF Image, Content
<1> QED BY <1>2

LEMMA ImageTypes ==
  ASSUME NEW v \in Versions \cup {None}
  PROVE  /\ Image(v) \in [Positions -> Contents]
         /\ NoImage \in [Positions -> Contents]
BY FlashAssumption DEF Image, NoImage, Content, Contents, Blank, Positions, None

\* The version that runs is the one of the image in the area that is started.
LEMMA RunningIs ==
  ASSUME NEW v \in Versions, flash[Started].mark = "set", flash[Started].blocks = Image(v)
  PROVE  Running = v
<1>1. 1 \in Positions
  BY FlashAssumption DEF Positions
<1>2. Image(v)[1] = <<v, 1>>
  BY <1>1 DEF Image, Content
<1>3. Running = flash[Started].blocks[1][1]
  BY DEF Running
<1> QED BY <1>2, <1>3

LEMMA RunningWhole ==
  ASSUME Whole(Started)
  PROVE  Running \in Versions /\ flash[Started].blocks = Image(Running)
<1>1. PICK v \in Versions : flash[Started].blocks = Image(v)
  BY DEF Whole
<1>2. Running = v
  BY <1>1, RunningIs DEF Whole
<1> QED BY <1>1, <1>2

\* At the first start a device runs the image it was found with.
LEMMA FoundRuns ==
  ASSUME FlashInit
  PROVE  FlashTypes /\ Whole(Started)
<1>1. PICK found \in Found :
       flash = [a \in Areas |->
                  IF a = found.area THEN Area("set", Image(found.version))
                  ELSE IF found.rest = None THEN Area("blank", NoImage)
                  ELSE Area("other", Image(found.rest))]
  BY DEF FlashInit
<1>2. /\ found.area \in Areas /\ found.version \in Versions
      /\ found.rest \in Versions \cup {None}
  BY FlashAssumption DEF Areas, None
<1>3. /\ Image(found.version) \in [Positions -> Contents]
      /\ Image(found.rest) \in [Positions -> Contents]
      /\ NoImage \in [Positions -> Contents]
  BY <1>2, ImageTypes
<1>4. FlashTypes
  BY <1>1, <1>3 DEF FlashTypes, FlashInit, Area, Marks
<1>5. Whole(found.area)
  BY <1>1, <1>2 DEF Whole, Area
<1>6. flash[1 - found.area].mark # "set" /\ flash[found.area].mark = "set"
  <2>1. 1 - found.area \in Areas /\ 1 - found.area # found.area
    BY <1>2, AreasAre
  <2> QED BY <1>1, <1>2, <2>1 DEF Area
<1>7. Started = found.area
  BY <1>2, <1>6 DEF Started, Areas
<1> QED BY <1>4, <1>5, <1>7

\* What happens to the other area does not touch the image that runs.
LEMMA TouchedOther ==
  ASSUME NEW a \in Areas, Started = 1 - a, Whole(Started), Touches(a)
  PROVE  Started' = Started /\ Whole(Started)' /\ Running' = Running
<1>1. Started' = 1 - a
  BY DEF Started, Areas, Touches, Whole
<1>2. flash'[1 - a] = flash[1 - a]
  BY DEF Touches
<1>3. Whole(Started)'
  BY <1>1, <1>2 DEF Whole
<1>4. Running' = Running
  BY <1>1, <1>2 DEF Running
<1> QED BY <1>1, <1>3, <1>4

\* A record of the mark and the blocks is changed field by field.
LEMMA MarkUpdated ==
  ASSUME NEW r \in [mark : Marks, blocks : [Positions -> Contents]], NEW m
  PROVE  [r EXCEPT !.mark = m] = [mark |-> m, blocks |-> r.blocks]
OBVIOUS

LEMMA AreaUpdated ==
  ASSUME NEW r \in [mark : Marks, blocks : [Positions -> Contents]],
         NEW m, NEW b \in [Positions -> Contents]
  PROVE  [r EXCEPT !.blocks = b, !.mark = m] = [mark |-> m, blocks |-> b]
<1> DEFINE q == [r EXCEPT !.blocks = b]
<1>1. q \in [mark : Marks, blocks : [Positions -> Contents]] /\ q.blocks = b
  OBVIOUS
<1> HIDE DEF q
<1>2. [q EXCEPT !.mark = m] = [mark |-> m, blocks |-> q.blocks]
  BY <1>1, MarkUpdated
<1> QED BY <1>1, <1>2 DEF q

\* Programming a block.
LEMMA WrittenTouches ==
  ASSUME FlashTypes, NEW a \in Areas, NEW k \in Positions, NEW c \in Contents,
         flash' = Written(a, k, c)
  PROVE  Touches(a) /\ flash'[a].mark = flash[a].mark
<1>1. Programmed(flash[a].blocks[k], c) \in Contents
  BY DEF Programmed, Contents, Garbled
<1>2. 1 - a \in Areas /\ 1 - a # a
  BY AreasAre
<1>3. CASE locked
  BY <1>3 DEF Written, Touches, FlashTypes
<1>4. CASE ~locked
  <2> DEFINE p == Programmed(flash[a].blocks[k], c)
  <2>1. flash' = [flash EXCEPT ![a].blocks[k] = p]
    BY <1>4 DEF Written
  <2> HIDE DEF p
  <2>2. flash' = [flash EXCEPT ![a] = [flash[a] EXCEPT !.blocks = [flash[a].blocks EXCEPT ![k] = p]]]
    BY <2>1 DEF FlashTypes
  <2>3. [flash[a] EXCEPT !.blocks = [flash[a].blocks EXCEPT ![k] = p]]
          \in [mark : Marks, blocks : [Positions -> Contents]]
    BY <1>1 DEF FlashTypes, p
  <2> QED BY <1>2, <2>2, <2>3 DEF Touches, FlashTypes
<1> QED BY <1>3, <1>4

\* Erasing one, which takes the mark away with the first.
LEMMA ErasedTouches ==
  ASSUME FlashTypes, NEW a \in Areas, NEW k \in Positions, flash' = Erased(a, k)
  PROVE  /\ Touches(a)
         /\ ~locked /\ (k = 1 \/ flash[a].mark = "blank") => flash'[a].mark = "blank"
<1>1. Blank \in Contents
  BY DEF Contents, Blank
<1>2. 1 - a \in Areas /\ 1 - a # a
  BY AreasAre
<1>3. CASE locked
  BY <1>3 DEF Erased, Touches, FlashTypes
<1>4. CASE ~locked
  <2> DEFINE m == IF k = 1 THEN "blank" ELSE flash[a].mark
             b == [flash[a].blocks EXCEPT ![k] = Blank]
  <2>1. flash' = [flash EXCEPT ![a] = [mark |-> m, blocks |-> b]]
    <3>1. flash' = [flash EXCEPT ![a] = [flash[a] EXCEPT !.blocks = b, !.mark = m]]
      BY <1>4 DEF Erased, FlashTypes
    <3>3. b \in [Positions -> Contents]
      BY <1>1 DEF FlashTypes
    <3>2. flash[a] \in [mark : Marks, blocks : [Positions -> Contents]]
      BY DEF FlashTypes
    <3> HIDE DEF m, b
    <3> QED BY <3>1, <3>2, <3>3, AreaUpdated
  <2>2. m \in Marks /\ b \in [Positions -> Contents]
    BY <1>1 DEF FlashTypes, Marks
  <2>3. /\ flash'[a].mark = m /\ flash'[1 - a] = flash[1 - a]
        /\ flash' \in [Areas -> [mark : Marks, blocks : [Positions -> Contents]]]
    <3> HIDE DEF m, b
    <3> QED BY <1>2, <2>1, <2>2 DEF FlashTypes
  <2> QED BY <2>3 DEF Touches
<1> QED BY <1>3, <1>4

\* A power failure in the middle of either.
LEMMA TornTouches ==
  ASSUME FlashTypes, NEW a \in Areas, NEW k \in Positions, flash' = Torn(a, k)
  PROVE  Touches(a)
<1>1. Garbled \in Contents
  BY DEF Contents, Garbled
<1>2. 1 - a \in Areas /\ 1 - a # a
  BY AreasAre
<1>3. CASE locked
  BY <1>3 DEF Torn, Touches, FlashTypes
<1>4. CASE ~locked
  <2> DEFINE m == IF k = 1 /\ flash[a].mark = "set" THEN "other" ELSE flash[a].mark
             b == [flash[a].blocks EXCEPT ![k] = Garbled]
  <2>1. flash' = [flash EXCEPT ![a] = [mark |-> m, blocks |-> b]]
    <3>1. flash' = [flash EXCEPT ![a] = [flash[a] EXCEPT !.blocks = b, !.mark = m]]
      BY <1>4 DEF Torn, FlashTypes
    <3>3. b \in [Positions -> Contents]
      BY <1>1 DEF FlashTypes
    <3>2. flash[a] \in [mark : Marks, blocks : [Positions -> Contents]]
      BY DEF FlashTypes
    <3> HIDE DEF m, b
    <3> QED BY <3>1, <3>2, <3>3, AreaUpdated
  <2>2. m \in Marks /\ b \in [Positions -> Contents] /\ (m = "set" => flash[a].mark = "set")
    BY <1>1 DEF FlashTypes, Marks
  <2>3. /\ flash'[a].mark = m /\ flash'[1 - a] = flash[1 - a]
        /\ flash' \in [Areas -> [mark : Marks, blocks : [Positions -> Contents]]]
    <3> HIDE DEF m, b
    <3> QED BY <1>2, <2>1, <2>2 DEF FlashTypes
  <2> QED BY <2>2, <2>3 DEF Touches
<1> QED BY <1>3, <1>4

\* The new image has its mark as well as the old one: either is a whole image, and none of
\* them is started if the flash is locked and nothing has changed.
BothMarked(a, v) ==
  /\ Whole(1 - a)
  /\ ~locked => flash[a].mark = "set" /\ flash[a].blocks = Image(v)
  /\ locked => Started = 1 - a

LEMMA BothWhole ==
  ASSUME NEW a \in Areas, NEW v \in Versions, BothMarked(a, v)
  PROVE  Whole(Started)
<1>1. locked \/ Whole(a)
  BY DEF BothMarked, Whole
<1>2. Started = a \/ Started = 1 - a
  BY AreasAre
<1> QED BY <1>1, <1>2 DEF BothMarked

\* The new image gets its mark, on blank flash.
LEMMA MarkedBoth ==
  ASSUME FlashTypes, NEW a \in Areas, NEW v \in Versions, Started = 1 - a, Whole(Started),
         ~locked => flash[a].mark = "blank", flash[a].blocks = Image(v),
         flash' = Marked(a), locked' = locked
  PROVE  FlashTypes' /\ BothMarked(a, v)' /\ Running' \in {Running, v}
<1>1. 1 - a \in Areas /\ 1 - a # a
  BY AreasAre
<1>2. CASE locked
  <2>1. UNCHANGED <<flash, locked>>
    BY <1>2 DEF Marked
  <2>2. UNCHANGED Started /\ UNCHANGED Running
    BY <2>1 DEF Started, Running
  <2> QED BY <1>2, <2>1, <2>2 DEF BothMarked, Whole, FlashTypes
<1>M. ~locked => flash[a].mark = "blank"
  OBVIOUS
<1>3. CASE ~locked
  <2>1. flash' = [flash EXCEPT ![a] = [mark |-> "set", blocks |-> flash[a].blocks]]
    <3>1. flash[a] \in [mark : Marks, blocks : [Positions -> Contents]]
      BY DEF FlashTypes
    <3>2. flash' = [flash EXCEPT ![a] = [flash[a] EXCEPT !.mark = "set"]]
      BY <1>3, <1>M DEF Marked, FlashTypes
    <3> QED BY <3>1, <3>2, MarkUpdated
  <2>2. flash' \in [Areas -> [mark : Marks, blocks : [Positions -> Contents]]]
    BY <2>1 DEF FlashTypes, Marks
  <2>3. flash'[a].mark = "set" /\ flash'[a].blocks = Image(v) /\ flash'[1 - a] = flash[1 - a]
    BY <1>1, <2>1 DEF FlashTypes
  <2>4. BothMarked(a, v)'
    BY <1>3, <2>3 DEF BothMarked, Whole
  <2>5. Running' \in {Running, v}
    <3>1. CASE Started' = a
      <4>1. flash'[Started'].mark = "set" /\ flash'[Started'].blocks = Image(v)
        BY <2>3, <3>1
      <4>2. 1 \in Positions /\ Image(v)[1] = <<v, 1>>
        BY FlashAssumption DEF Positions, Image, Content
      <4> QED BY <4>1, <4>2 DEF Running
    <3>2. CASE Started' = 1 - a
      BY <2>3, <3>2 DEF Running
    <3>3. Started' = a \/ Started' = 1 - a
      BY DEF Started, Areas
    <3> QED BY <3>1, <3>2, <3>3
  <2> QED BY <2>2, <2>4, <2>5 DEF FlashTypes
<1> QED BY <1>2, <1>3

\* The old image loses its mark.
LEMMA UnmarkedOld ==
  ASSUME FlashTypes, NEW a \in Areas, NEW v \in Versions, BothMarked(a, v),
         flash' = Unmarked(1 - a), locked' \in BOOLEAN
  PROVE  FlashTypes' /\ Whole(Started)' /\ Running' \in {Running, v}
<1>1. 1 - a \in Areas /\ 1 - a # a
  BY AreasAre
<1>2. CASE locked
  <2>1. UNCHANGED flash /\ Whole(Started)
    BY <1>2, BothWhole DEF Unmarked
  <2>2. UNCHANGED Started /\ UNCHANGED Running
    BY <2>1 DEF Started, Running
  <2> QED BY <2>1, <2>2 DEF Whole, FlashTypes
<1>3. CASE ~locked
  <2>1. flash' = [flash EXCEPT ![1 - a] = [mark |-> "other", blocks |-> flash[1 - a].blocks]]
    <3>1. flash[1 - a] \in [mark : Marks, blocks : [Positions -> Contents]]
      BY <1>1 DEF FlashTypes
    <3>2. flash' = [flash EXCEPT ![1 - a] = [flash[1 - a] EXCEPT !.mark = "other"]]
      BY <1>1, <1>3 DEF Unmarked, FlashTypes
    <3> QED BY <3>1, <3>2, MarkUpdated
  <2>2. flash' \in [Areas -> [mark : Marks, blocks : [Positions -> Contents]]]
    BY <1>1, <2>1 DEF FlashTypes, Marks
  <2>3. /\ flash'[a].mark = "set" /\ flash'[a].blocks = Image(v)
        /\ flash'[1 - a].mark = "other"
    BY <1>1, <1>3, <2>1 DEF FlashTypes, BothMarked
  <2>4. Started' = a
    BY <2>3 DEF Started, Areas
  <2>5. 1 \in Positions /\ Image(v)[1] = <<v, 1>>
    BY FlashAssumption DEF Positions, Image, Content
  <2>6. Running' = v
    BY <2>3, <2>4, <2>5 DEF Running
  <2> QED BY <2>2, <2>3, <2>4, <2>6 DEF FlashTypes, Whole
<1> QED BY <1>2, <1>3

LEMMA FlashKept ==
  ASSUME UNCHANGED flash
  PROVE  UNCHANGED Started /\ UNCHANGED Running /\ (Whole(Started) => Whole(Started)')
BY DEF Started, Running, Whole
---------------------------------------------------------------------------
(* What a CRC is taken over: the first blocks of an image *)

\* The next block of the image that is offered.
LEMMA CrcGrows ==
  ASSUME NEW n \in 0..Blocks, n + 1 \in Positions
  PROVE  Append(SubSeq(Image(Offered), 1, n), Content(Offered, n + 1))
           = SubSeq(Image(Offered), 1, n + 1)
<1> DEFINE I == Image(Offered)
<1>1. /\ I \in Seq(Contents) /\ Len(I) = Blocks /\ n + 1 \in 1..Blocks
      /\ I[n + 1] = Content(Offered, n + 1)
  <2>1. I \in [1..Blocks -> Contents] /\ Blocks \in Nat
    BY ImageTypes, FlashAssumption DEF Positions
  <2>2. I[n + 1] = Content(Offered, n + 1)
    BY DEF Image
  <2> HIDE DEF I
  <2> QED BY <2>1, <2>2 DEF Positions
<1> HIDE DEF I
<1>2. Append(SubSeq(I, 1, n), I[n + 1]) = SubSeq(I, 1, n + 1)
  BY <1>1
<1> QED BY <1>1, <1>2 DEF I

\* Only the image that is offered comes out whole.
LEMMA CrcStarts ==
  /\ SubSeq(Image(Offered), 1, 0) = <<>>
  /\ \A v \in Versions, n \in 0..Blocks :
       SubSeq(Image(Offered), 1, n) = Image(v) => v = Offered
<1> DEFINE I == Image(Offered)
<1>1. I \in [1..Blocks -> Contents] /\ Blocks \in Nat /\ Blocks > 0
  BY ImageTypes, FlashAssumption DEF Positions
<1>2. SubSeq(I, 1, 0) = <<>>
  OBVIOUS
<1>3. ASSUME NEW v \in Versions, NEW n \in 0..Blocks, SubSeq(I, 1, n) = Image(v)
      PROVE  v = Offered
  <2>1. Image(v) \in [1..Blocks -> Contents]
    BY ImageTypes DEF Positions
  <2>2. I \in Seq(Contents) /\ Len(I) = Blocks
    <3> HIDE DEF I
    <3> QED BY <1>1
  <2>3. Len(SubSeq(I, 1, n)) = n
    <3> HIDE DEF I
    <3> QED BY <1>1, <2>2
  <2>4. Image(v) \in Seq(Contents) /\ Len(Image(v)) = Blocks
    BY <1>1, <2>1
  <2>5. n = Blocks
    BY <1>3, <2>3, <2>4
  <2>6. SubSeq(I, 1, Blocks) = I
    <3> HIDE DEF I
    <3> QED BY <1>1, <2>2
  <2>7. Image(v) = Image(Offered)
    BY <1>3, <2>5, <2>6
  <2> QED BY <2>7, ImagesDiffer
<1> QED BY <1>2, <1>3
===============================================================================
