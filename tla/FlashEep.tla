----------------------------- MODULE FlashEep -----------------------------
(***************************************************************************)
(* The settings store of flash_eep.c: objects appended as records to one   *)
(* of two flash sectors, and repacked into the other when it is full.      *)
(*                                                                         *)
(* Each flash program and each sector erase is a step of its own, and the  *)
(* power may fail between any two.                                         *)
(*                                                                         *)
(* Flash is modelled at the level of records.  A record holds the address  *)
(* it was programmed at, so the walks over a sector that step from head to *)
(* head are the traversal of the sequence of its records.  The bytes of    *)
(* one flash_write_page call are programmed in order, and programming only *)
(* clears bits.  An interrupted one leaves nothing, or a record whose id   *)
(* is still 0xff, with its own size or, when the size byte itself was cut  *)
(* short, with a larger one (a size over MAX_FOBJ_SIZE is what the code    *)
(* calls a failed write).  Which part of its data is there cannot be told, *)
(* since no reader looks at the data of a record without an id.  The       *)
(* programs of a single byte, an id or a mark of a sector, are done or not *)
(* done.                                                                   *)
(***************************************************************************)
EXTENDS SequencesExt, Integers

CONSTANTS
  SECTOR_SIZE,     \* FLASH_SECTOR_SIZE
  MAX_FOBJ_SIZE,   \* largest object
  Ids,             \* object ids (EEP_ID_e)
  Vals,            \* contents an object can have
  PayloadsOf,      \* the sizes and contents the callers give the objects of each id
  ReadSizes,       \* the limits the callers pass to flash_read_cfg
  TornSizes,       \* what an interrupted program can leave in a size byte
  NoVal            \* no contents

\* sizeof(fobj_head_t): a sector, and each record in it, starts with an id byte
\* and a size byte.
HEAD == 2
\* An id byte that was not programmed.
NoId == 255

\* Sizes fit a byte, and a sector without objects takes the largest one.
ASSUME FlashAssumption ==
  /\ MAX_FOBJ_SIZE \in 0..254
  /\ SECTOR_SIZE \in Nat /\ HEAD + MAX_FOBJ_SIZE + HEAD < SECTOR_SIZE
  /\ Ids \subseteq 0..254
  /\ PayloadsOf \in [Ids -> SUBSET [size : Nat, val : Vals]]
  /\ ReadSizes \subseteq Nat
  /\ TornSizes \subseteq 0..254
  /\ NoVal \notin Vals

VARIABLES
  sector,  \* the two sectors
  pc,      \* where in flash_eep.c the call in progress is
  op,      \* that call
  ret,     \* what the last call returned
  saddr,   \* sector chosen by get_addr_bscfg (the source of a pack)
  rd,      \* pack: the record of the source sector at rdaddr
  wraddr,  \* address the next object is written to
  flags    \* pack: buf_id, the ids marked as copied

vars == <<sector, pc, op, ret, saddr, rd, wraddr, flags>>

---------------------------------------------------------------------------
(* Calls, results and flash contents *)

FMEM_NOT_FOUND == -1
FMEM_SIZE_ERR  == -2
FMEM_OVERFLOW  == -3

NoOp   == [kind |-> "none"]
Writes == [kind : {"write"}, id : Ids, size : Nat, val : Vals]
Reads  == [kind : {"read"}, id : Ids, maxsize : Nat]
Erases == [kind : {"erase"}]

Result(code, v) == [code |-> code, val |-> v]
NoResult        == Result(0, NoVal)

Records == [at : Nat, id : Ids \cup {NoId}, size : Nat, val : Vals \cup {NoVal}]

\* A sector head reads 0xffff, 0x00ff (the current sector) or 0x0000.
Heads   == {"free", "current", "closed"}
Sectors == 0..1
Erased  == [head |-> "free", log |-> <<>>]
Other(s) == 1 - s

\* The room of a record: one with a size that cannot be is taken for the largest.
Width(r) == HEAD + IF r.size <= MAX_FOBJ_SIZE THEN r.size ELSE MAX_FOBJ_SIZE

\* The address behind the first n records of a sector.
EndOf(log, n) == IF n = 0 THEN HEAD ELSE log[n].at + Width(log[n])

\* Mutant: the size of a torn record is believed.
FreeAddrBySize(log) ==
  IF log = <<>> THEN HEAD ELSE log[Len(log)].at + HEAD + log[Len(log)].size

\* get_addr_wrobj: the first head that reads 0xffff, behind the last record.  An address
\* outside of the sector, behind a torn record, stands for the 0 that asks for a pack.
FreeAddr(log) == EndOf(log, Len(log))

\* get_addr_idobj: the index of the last record with this id, 0 if there is none.
LastIdx(log, id) ==
  SelectLastInSeq(log, LAMBDA r : r.size <= MAX_FOBJ_SIZE /\ r.id = id)

\* Mutant: the id is programmed together with the size and the data.
ProgramWithId(log, addr, size, v) ==
  Append(log, [at |-> addr, id |-> op.id, size |-> size,
               val |-> IF size = 0 THEN NoVal ELSE v])

\* _flash_write_obj, first flash program: the size and the data.
Program(log, addr, size, v) ==
  Append(log, [at |-> addr, id |-> NoId, size |-> size,
               val |-> IF size = 0 THEN NoVal ELSE v])

\* _flash_write_obj, second flash program: the id of the record just programmed.
ProgramId(log, id) == [log EXCEPT ![Len(log)].id = id]

\* What is left when the first program is interrupted: more bits of the size byte may be
\* set than there should be, and the data is anything.
Tear(log) ==
  LET r == log[Len(log)]
  IN  {[log EXCEPT ![Len(log)] = [at |-> r.at, id |-> r.id, size |-> size, val |-> NoVal]] :
         size \in {v \in TornSizes \cup {r.size} : v >= r.size}}

\* The ids whose flag shares a byte of buf_id with the flag of `id'.
SameByte(id) == (8 * (id \div 8))..(8 * (id \div 8) + 7)

\* Mutant: the bit is chosen by the byte index.
SetFlagByByte(b, id) == b \cup {id \div 8}

\* set_flag_eep_id
SetFlag(b, id) == b \cup {id}

\* check_flag_eep_id: `&=' clears the other flags of the byte it looks at.
MaskFlag(b, id) == (b \ SameByte(id)) \cup (b \cap {id})

\* The store is at a step of its code, with an operation of its interface, and its sectors
\* hold what flash can (flash_write_cfg, flash_read_cfg, pack_eep_fmem).
TypeOK ==
  /\ sector \in [Sectors -> [head : Heads, log : Seq(Records)]]
  /\ pc \in {"idle", "bscfg", "bs_mark", "read", "lookup", "pack_erase", "pack",
             "pack_id", "pack_mark", "pack_close", "packed", "write", "write_id",
             "erase0", "erase1"}
  /\ op \in {NoOp} \cup Writes \cup Reads \cup Erases
  /\ ret \in [code : Int, val : Vals \cup {NoVal}]
  /\ saddr \in Sectors
  /\ rd \in Nat
  /\ wraddr \in Nat
  /\ flags \in SUBSET Ids

---------------------------------------------------------------------------
(* Power up on erased flash *)

Init ==
  /\ sector = [s \in Sectors |-> Erased]
  /\ pc = "idle"
  /\ op = NoOp
  /\ ret = NoResult
  /\ saddr = 0 /\ rd = 0 /\ wraddr = 0 /\ flags = {}

---------------------------------------------------------------------------
(* Calls and returns *)

Locals == <<saddr, rd, wraddr, flags>>

ResetLocals == saddr' = 0 /\ rd' = 0 /\ wraddr' = 0 /\ flags' = {}

Goto(label) == pc' = label

Return(code, v) ==
  /\ Goto("idle")
  /\ op' = NoOp
  /\ ret' = Result(code, v)
  /\ ResetLocals

Enter(o, label) ==
  /\ pc = "idle"
  /\ Goto(label)
  /\ op' = o
  /\ ret' = NoResult
  /\ UNCHANGED <<sector, Locals>>

\* A size over MAX_FOBJ_SIZE is refused before the flash is looked at.
Refuse ==
  /\ pc = "idle"
  /\ \/ \E id \in Ids : \E p \in PayloadsOf[id] : p.size > MAX_FOBJ_SIZE
     \/ \E maxsize \in ReadSizes : maxsize > MAX_FOBJ_SIZE
  /\ Return(FMEM_SIZE_ERR, NoVal)
  /\ UNCHANGED sector

\* flash_write_cfg(ptr, id, size)
WriteCfg(id, size, v) ==
  /\ size <= MAX_FOBJ_SIZE
  /\ Enter([kind |-> "write", id |-> id, size |-> size, val |-> v], "bscfg")

\* flash_read_cfg(ptr, id, maxsize)
ReadCfg(id, maxsize) ==
  /\ maxsize <= MAX_FOBJ_SIZE
  /\ Enter([kind |-> "read", id |-> id, maxsize |-> maxsize], "bscfg")

\* flash_erase_all_cfg()
EraseAllCfg == Enter([kind |-> "erase"], "erase0")

---------------------------------------------------------------------------
(* get_addr_bscfg: the current sector, made if there is none *)

CurrentSectors == {s \in Sectors : sector[s].head = "current"}

AfterBscfg == IF op.kind = "write" THEN "lookup" ELSE "read"

\* The scan keeps the last current sector it meets.
FoundCurrent ==
  /\ pc = "bscfg"
  /\ CurrentSectors # {}
  /\ saddr' = Max(CurrentSectors)
  /\ Goto(AfterBscfg)
  /\ UNCHANGED <<sector, op, ret, rd, wraddr, flags>>

EraseFirst ==
  /\ pc = "bscfg"
  /\ CurrentSectors = {}
  /\ sector' = [sector EXCEPT ![0] = Erased]
  /\ saddr' = 0
  /\ Goto("bs_mark")
  /\ UNCHANGED <<op, ret, rd, wraddr, flags>>

MarkFirst ==
  /\ pc = "bs_mark"
  /\ sector' = [sector EXCEPT ![saddr].head = "current"]
  /\ Goto(AfterBscfg)
  /\ UNCHANGED <<op, ret, Locals>>

---------------------------------------------------------------------------
(* flash_read_cfg, with the current sector known *)

Read ==
  /\ pc = "read"
  /\ LET log == sector[saddr].log
         i   == LastIdx(log, op.id)
     IN  \/ /\ i = 0
            /\ Return(FMEM_NOT_FOUND, NoVal)
         \/ /\ i # 0
            /\ Return(log[i].size,
                      IF log[i].size <= op.maxsize THEN log[i].val ELSE NoVal)
  /\ UNCHANGED sector

---------------------------------------------------------------------------
(* flash_write_cfg, with the current sector known *)

Identical(r) ==
  /\ r.size = op.size
  /\ r.size # 0 => r.val = op.val

AlreadyWritten(log) ==
  LET i == LastIdx(log, op.id) IN i # 0 /\ Identical(log[i])

\* The object ends before the last byte of the sector.
Fits(addr) == addr + op.size + HEAD < SECTOR_SIZE

WriteIdentical ==
  /\ pc = "lookup"
  /\ AlreadyWritten(sector[saddr].log)
  /\ Return(op.size, NoVal)
  /\ UNCHANGED sector

FindRoom ==
  /\ pc = "lookup"
  /\ ~AlreadyWritten(sector[saddr].log)
  /\ wraddr' = FreeAddr(sector[saddr].log)
  /\ Goto(IF Fits(wraddr') THEN "write" ELSE "pack_erase")
  /\ UNCHANGED <<sector, op, ret, saddr, rd, flags>>

WriteObj ==
  /\ pc = "write"
  /\ sector' = [sector EXCEPT ![saddr].log = Program(@, wraddr, op.size, op.val)]
  /\ Goto("write_id")
  /\ UNCHANGED <<op, ret, Locals>>

WriteId ==
  /\ pc = "write_id"
  /\ sector' = [sector EXCEPT ![saddr].log = ProgramId(@, op.id)]
  /\ Return(op.size, NoVal)

---------------------------------------------------------------------------
(* pack_eep_fmem: from sector saddr into the other one *)

Src == sector[saddr].log
Dst == Other(saddr)

PackErase ==
  /\ pc = "pack_erase"
  /\ sector' = [sector EXCEPT ![Dst] = Erased]
  /\ rd' = 1
  /\ wraddr' = HEAD
  /\ flags' = {}
  /\ Goto("pack")
  /\ UNCHANGED <<op, ret, saddr>>

PackStep ==
  /\ pc = "pack"
  /\ rd <= Len(Src)
  /\ rd' = rd + 1

\* Neither deleted, nor without an id, nor with a size that cannot be.
IsObject(r) == r.size \in 1..MAX_FOBJ_SIZE /\ r.id # NoId

\* The step over a record that is no object.  One without an id is stepped over by the size
\* it has, before that size is looked at: the walks of the readers step over it by its Width.
SkippedTo(r) ==
  r.at + HEAD + IF r.id # NoId /\ r.size > MAX_FOBJ_SIZE THEN MAX_FOBJ_SIZE ELSE r.size

\* The records the loop can be at when it goes on at this address: the one that starts there,
\* or, inside of a record, one of those behind it or the end.  (Data taken for heads are
\* taken for heads of records to skip; an object made out of data is not modelled.)
Resumed(log, addr) ==
  LET here == {i \in 1..Len(log) : log[i].at = addr}
  IN  IF here # {} THEN here
      ELSE {i \in 1..Len(log) : log[i].at > addr} \cup {Len(log) + 1}

\* Mutant: rdaddr is not advanced before `continue'.
PackSkipStays ==
  /\ pc = "pack"
  /\ rd <= Len(Src)
  /\ ~IsObject(Src[rd])
  /\ UNCHANGED vars

\* A deleted object, or a record whose id, or size, was never programmed.
PackSkip ==
  /\ pc = "pack"
  /\ rd <= Len(Src)
  /\ ~IsObject(Src[rd])
  /\ rd' \in Resumed(Src, SkippedTo(Src[rd]))
  /\ UNCHANGED <<sector, pc, op, ret, saddr, wraddr, flags>>

\* The flag of this id is set: it was copied already.
PackCopied ==
  /\ PackStep
  /\ IsObject(Src[rd])
  /\ Src[rd].id \in MaskFlag(flags, Src[rd].id)
  /\ flags' = MaskFlag(flags, Src[rd].id)
  /\ UNCHANGED <<sector, pc, op, ret, saddr, wraddr>>

\* Mutant: the record that was read is copied, not the last one with its id.
OwnRecord == Src[rd]

\* get_addr_idobj(rdaddr, ...): the last record with the id of the one at rd.
Newest == Src[LastIdx(Src, Src[rd].id)]

NotCopied ==
  /\ IsObject(Src[rd])
  /\ Src[rd].id \notin MaskFlag(flags, Src[rd].id)
  /\ flags' = SetFlag(MaskFlag(flags, Src[rd].id), Src[rd].id)

PackDeleted ==
  /\ PackStep
  /\ NotCopied
  /\ Newest.size = 0
  /\ UNCHANGED <<sector, pc, op, ret, saddr, wraddr>>

PackCopy ==
  /\ pc = "pack"
  /\ rd <= Len(Src)
  /\ NotCopied
  /\ Newest.size # 0
  /\ sector' = [sector EXCEPT
                 ![Dst].log = Program(@, wraddr, Newest.size, Newest.val)]
  /\ Goto("pack_id")
  /\ UNCHANGED <<op, ret, saddr, rd, wraddr>>

\* Mutant: rdaddr is not advanced after a copy.
PackCopyIdStays ==
  /\ pc = "pack_id"
  /\ sector' = [sector EXCEPT ![Dst].log = ProgramId(@, Src[rd].id)]
  /\ wraddr' = wraddr + HEAD + Newest.size
  /\ Goto(IF wraddr' >= SECTOR_SIZE THEN "pack_mark" ELSE "pack")
  /\ UNCHANGED <<op, ret, saddr, rd, flags>>

\* The copy gets its id.  A copy that reaches the end of the sector ends the loop.
PackCopyId ==
  /\ pc = "pack_id"
  /\ sector' = [sector EXCEPT ![Dst].log = ProgramId(@, Src[rd].id)]
  /\ wraddr' = wraddr + HEAD + Newest.size
  /\ rd' = rd + 1
  /\ Goto(IF wraddr' >= SECTOR_SIZE THEN "pack_mark" ELSE "pack")
  /\ UNCHANGED <<op, ret, saddr, flags>>

PackEnd ==
  /\ pc = "pack"
  /\ rd > Len(Src)
  /\ Goto("pack_mark")
  /\ UNCHANGED <<sector, op, ret, Locals>>

PackMark ==
  /\ pc = "pack_mark"
  /\ sector' = [sector EXCEPT ![Dst].head = "current"]
  /\ Goto("pack_close")
  /\ UNCHANGED <<op, ret, Locals>>

\* The old sector is closed; flash_write_cfg goes on in the new one.
PackClose ==
  /\ pc = "pack_close"
  /\ sector' = [sector EXCEPT ![saddr].head = "closed"]
  /\ saddr' = Dst
  /\ rd' = 0
  /\ flags' = {}
  /\ Goto("packed")
  /\ UNCHANGED <<op, ret, wraddr>>

\* Mutant: the room is not checked again after repacking.
WriteUnchecked ==
  /\ pc = "packed"
  /\ Goto("write")
  /\ UNCHANGED <<sector, op, ret, Locals>>

WriteAfterPack ==
  /\ pc = "packed"
  /\ Fits(wraddr)
  /\ Goto("write")
  /\ UNCHANGED <<sector, op, ret, Locals>>

Overflow ==
  /\ pc = "packed"
  /\ ~Fits(wraddr)
  /\ Return(FMEM_OVERFLOW, NoVal)
  /\ UNCHANGED sector

---------------------------------------------------------------------------
(* flash_erase_all_cfg *)

EraseSector0 ==
  /\ pc = "erase0"
  /\ sector' = [sector EXCEPT ![0] = Erased]
  /\ Goto("erase1")
  /\ UNCHANGED <<op, ret, Locals>>

EraseSector1 ==
  /\ pc = "erase1"
  /\ sector' = [sector EXCEPT ![1] = Erased]
  /\ Return(0, NoVal)

---------------------------------------------------------------------------
(* Power loss, and the specification *)

\* RAM is lost.  Flash stays as it is, but for the object being programmed.
TornSector(s) == {[sector EXCEPT ![s].log = log] : log \in Tear(sector[s].log)}

Crash ==
  /\ \/ pc = "write_id" /\ sector' \in TornSector(saddr)
     \/ pc = "pack_id" /\ sector' \in TornSector(Dst)
     \/ pc \notin {"write_id", "pack_id"} /\ UNCHANGED sector
  /\ Goto("idle")
  /\ op' = NoOp
  /\ ret' = NoResult
  /\ ResetLocals

Call ==
  \/ \E id \in Ids : \E p \in PayloadsOf[id] : WriteCfg(id, p.size, p.val)
  \/ \E id \in Ids, maxsize \in ReadSizes : ReadCfg(id, maxsize)
  \/ EraseAllCfg
  \/ Refuse

PackLoop == PackSkip \/ PackCopied \/ PackDeleted \/ PackCopy \/ PackCopyId \/ PackEnd
Pack     == PackErase \/ PackLoop \/ PackMark \/ PackClose

\* The steps of the call in progress.
Step ==
  \/ FoundCurrent \/ EraseFirst \/ MarkFirst
  \/ Read
  \/ WriteIdentical \/ FindRoom \/ WriteObj \/ WriteId
  \/ Pack \/ WriteAfterPack \/ Overflow
  \/ EraseSector0 \/ EraseSector1

Next == Call \/ Step \/ Crash

Spec == Init /\ [][Next]_vars

\* The processor keeps executing the call it is in.
FairSpec == Spec /\ WF_vars(Step)
---------------------------------------------------------------------------
(* Properties *)

\* The object a reader of this log finds.
ObjectIn(log, id) ==
  LET i == LastIdx(log, id)
  IN  IF i = 0 \/ log[i].size = 0
      THEN [size |-> 0, val |-> NoVal]
      ELSE [size |-> log[i].size, val |-> log[i].val]

\* What flash_read_cfg would return if the power failed now.
Visible ==
  LET log == IF CurrentSectors = {} THEN <<>> ELSE sector[Max(CurrentSectors)].log
  IN  [id \in Ids |-> ObjectIn(log, id)]

\* Durability: whatever the interleaving of calls, repacking and power failures,
\* the stored objects change only as EepStore says: a write changes one object and
\* as a whole, repacking, overflow and a crash change none, erasing clears all.
Store == INSTANCE EepStore WITH kv <- Visible

\* The exception: the loop of pack_eep_fmem believes the size of a torn record, and the
\* objects behind it may be missing when the new sector takes over.  No object gets other
\* contents by that, or those of an earlier version.
TornRepack ==
  /\ PackMark \/ PackClose
  /\ \E i \in DOMAIN Src : Src[i].size > MAX_FOBJ_SIZE
  /\ \A id \in Ids : Visible'[id] \in {Visible[id], [size |-> 0, val |-> NoVal]}

ImplementsStore == Store!Init /\ [][Store!Next \/ TornRepack]_(Store!vars)

\* Records lie one behind the other from the head of the sector, torn ones too, so that
\* the walk of the next power up meets every one of them and ends at erased flash.
Contiguous(log) ==
  \A i \in DOMAIN log : log[i].at = EndOf(log, i - 1)

\* No record that was programmed as a whole reaches the last byte of its sector
\* (get_addr_wrobj needs an erased head to stop at).
EndsInside(log) ==
  \A i \in DOMAIN log : log[i].id # NoId => EndOf(log, i) < SECTOR_SIZE

\* Flash is programmed only where it is erased and only inside the sector: the
\* object about to be written, or copied, starts behind the last record, and ends inside
\* of its sector, wherever a torn record has left the end of the log.
WritesErasedFlash ==
  /\ \A s \in Sectors : Contiguous(sector[s].log) /\ EndsInside(sector[s].log)
  /\ pc = "write" => wraddr = FreeAddr(Src) /\ Fits(wraddr)
  /\ pc = "write_id" => FreeAddr(Src) < SECTOR_SIZE
  /\ pc = "pack" => wraddr = FreeAddr(sector[Dst].log)
  /\ pc = "pack_id" => FreeAddr(sector[Dst].log) < SECTOR_SIZE

\* While the objects of each id keep one size, a record that was read leaves room for
\* the copy it causes.
OneSizePerId ==
  \A id \in Ids : \A p, q \in PayloadsOf[id] :
    p.size # 0 /\ q.size # 0 => p.size = q.size

\* While a sector is repacked, the new one is never fuller than the part of the old
\* one that was read, so repacking itself cannot overflow.
PackNeverGrows ==
  pc = "pack" => FreeAddr(sector[Dst].log) <= EndOf(Src, rd - 1)

\* Every call of the store comes to an end (get_addr_bscfg, the walks over a sector
\* and the loop of pack_eep_fmem all finish), with or without a crash on the way.
CallsReturn == pc # "idle" ~> pc = "idle"
---------------------------------------------------------------------------
(* What the comments of the code say, and it does not do *)

\* Repacking a sector, and switching to the new one, changes no stored object:
\* flash_read_cfg goes on returning "the size of the object last saved".
RepackKeepsObjects == [][PackMark \/ PackClose => Visible' = Visible]_vars
===========================================================================
