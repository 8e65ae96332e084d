---------------------------- MODULE UpdateFlash ----------------------------
(***************************************************************************)
(* The flash of a device whose firmware is updated in the field, as the    *)
(* 2.4G samples of the SDK do it: two areas for an image, the mark in each *)
(* that the ROM looks for, and the block protection of flash_prot.c.       *)
(*                                                                         *)
(* A block is what one data frame carries (48 bytes by radio, 64 by UART). *)
(* Its content is a pair of a version and a position in the image, so that *)
(* an image that is torn, mixed or shifted is told from a whole one.  The  *)
(* CRC is taken to find every difference.                                  *)
(***************************************************************************)
EXTENDS Integers, Sequences

CONSTANTS
  Blocks,         \* blocks of an image
  ErasedBlocks,   \* blocks in the 15 sectors that are erased for it
  Versions,       \* firmware versions
  Offered,        \* the version the master has
  Found           \* the devices considered: the area and the version of the image that
                  \* runs, and the version of what is left in the other area, if any

ASSUME FlashAssumption ==
  /\ Blocks \in Nat \ {0} /\ ErasedBlocks \in 1..Blocks
  /\ Versions \subseteq Nat /\ Offered \in Versions
  /\ \A found \in Found : /\ found.area \in {0, 1} /\ found.version \in Versions
                           /\ found.rest \in Versions \cup {-1}

VARIABLES
  flash,          \* the two areas, with their marks
  locked          \* whether the status register of the flash protects them

---------------------------------------------------------------------------
(* Areas and marks *)

Areas     == {0, 1}
Positions == 1..Blocks

Blank    == <<-1, 0>>
Garbled  == <<-2, 0>>
Content(version, k) == <<version, k>>

Area(mark, blocks) == [mark |-> mark, blocks |-> blocks]
Image(version)     == [k \in Positions |-> Content(version, k)]
NoImage            == [k \in Positions |-> Blank]

\* The ROM and the application decide by the same byte of the mark at address 8: an
\* image at address 0 comes first.
Started == IF flash[0].mark = "set" THEN 0 ELSE 1

\* Where the next image goes: the area that does not run.
Target == 1 - Started

None == -1

\* The version the ROM would start, if there is a whole image.
Running ==
  IF flash[Started].mark = "set" /\ \E v \in Versions : flash[Started].blocks = Image(v)
  THEN flash[Started].blocks[1][1]
  ELSE None

---------------------------------------------------------------------------
(* Writing and erasing *)

\* Programming only clears bits: over anything but blank flash the result is neither.
Programmed(old, new) == IF old \in {Blank, new} THEN new ELSE Garbled

Written(area, k, content) ==
  IF locked THEN flash
  ELSE [flash EXCEPT ![area].blocks[k] = Programmed(@, content)]

Marked(area) ==
  IF locked THEN flash
  ELSE [flash EXCEPT ![area].mark = IF @ = "other" THEN "other" ELSE "set"]

Unmarked(area) ==
  IF locked THEN flash ELSE [flash EXCEPT ![area].mark = "other"]

\* The mark is in the first block.
Erased(area, k) ==
  IF locked THEN flash
  ELSE [flash EXCEPT ![area].blocks[k] = Blank,
                     ![area].mark = IF k = 1 THEN "blank" ELSE @]

\* The power fails while a block is written or erased.
Torn(area, k) ==
  IF locked THEN flash
  ELSE [flash EXCEPT ![area].blocks[k] = Garbled,
                     ![area].mark = IF k = 1 /\ @ = "set" THEN "other" ELSE @]

\* The whole image in an area, with the check sum at its end, is the one received.
CrcMatches(area, received) ==
  \E v \in Versions : received = Image(v) /\ flash[area].blocks = Image(v)

---------------------------------------------------------------------------
(* Protection *)

\* flash_unlock tries three times to clear the status register and gives up; for a flash
\* that flash_protection_init does not know it does nothing.
flash_unlock == {FALSE, locked}

\* flash_lock is given up likewise; where another size is locked it unlocks that first.
flash_lock == BOOLEAN

\* A device has one image that is marked, and in the other area nothing, or what an
\* earlier update left there without its mark.
FlashInit ==
  /\ \E found \in Found :
       flash = [a \in Areas |->
                  IF a = found.area THEN Area("set", Image(found.version))
                  ELSE IF found.rest = None THEN Area("blank", NoImage)
                  ELSE Area("other", Image(found.rest))]
  /\ locked \in BOOLEAN
=============================================================================
