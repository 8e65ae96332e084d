-------------------------- MODULE FlashEep_proofs --------------------------
(***************************************************************************)
(* Proofs about FlashEep, for every size of sector and object and every    *)
(* set of ids and contents.                                                *)
(***************************************************************************)
EXTENDS FlashEep, SequenceTheorems, WellFoundedInduction, TLAPS

---------------------------------------------------------------------------
(* The walks over a sector *)

\* A set of positions that is not empty has a last one, and Max finds it.
LEMMA MaxPosition ==
  ASSUME NEW n \in Nat, NEW S, S \subseteq 1..n, S # {}
  PROVE  Max(S) \in S /\ \A y \in S : y <= Max(S)
<1> DEFINE T == {n - x : x \in S}
<1>1. T \subseteq Nat /\ T # {}
  <2>1. PICK x \in S : TRUE
    OBVIOUS
  <2>2. n - x \in T
    BY <2>1
  <2>3. \A y \in S : n - y \in Nat
    OBVIOUS
  <2> QED BY <2>2, <2>3
<1>2. PICK t \in T : \A u \in T : ~ (<<u, t>> \in OpToRel(<, Nat))
  BY <1>1, NatLessThanWellFounded, WFMin, Zenon
<1>3. \A u \in T : ~ (u < t)
  BY <1>1, <1>2 DEF OpToRel
<1>4. PICK m \in S : t = n - m
  OBVIOUS
<1>5. \A y \in S : m >= y
  <2> TAKE y \in S
  <2>1. n - y \in T
    OBVIOUS
  <2> QED BY <1>3, <1>4, <2>1
<1> HIDE DEF T
<1> QED BY <1>4, <1>5 DEF Max

\* The records get_addr_idobj looks for: those of the id with a size that can be.
OfId(r, id) == r.size <= MAX_FOBJ_SIZE /\ r.id = id

\* It finds the last one, if there is one.
LEMMA LastIdxFinds ==
  ASSUME NEW log \in Seq(Records), NEW id
  PROVE  /\ LastIdx(log, id) \in 0..Len(log)
         /\ LastIdx(log, id) = 0 => \A i \in 1..Len(log) : ~ OfId(log[i], id)
         /\ LastIdx(log, id) # 0 =>
              /\ OfId(log[LastIdx(log, id)], id)
              /\ \A i \in 1..Len(log) : OfId(log[i], id) => i <= LastIdx(log, id)
<1> DEFINE I == {i \in 1..Len(log) : log[i].size <= MAX_FOBJ_SIZE /\ log[i].id = id}
<1>1. LastIdx(log, id) = IF I # {} THEN Max(I) ELSE 0
  BY DEF LastIdx, SelectLastInSeq
<1>2. Len(log) \in Nat
  BY LenProperties
<1>3. \A i \in 1..Len(log) : i \in I <=> OfId(log[i], id)
  BY DEF OfId
<1>4. CASE I = {}
  BY <1>1, <1>2, <1>3, <1>4
<1>5. CASE I # {}
  <2>1. Max(I) \in I /\ \A y \in I : y <= Max(I)
    BY <1>2, <1>5, MaxPosition
  <2>2. I \subseteq 1..Len(log)
    OBVIOUS
  <2> HIDE DEF I
  <2>3. PICK k : k = LastIdx(log, id)
    OBVIOUS
  <2>4. k \in I /\ \A y \in I : y <= k
    BY <1>1, <1>5, <2>1, <2>3
  <2>5. k \in 1..Len(log)
    BY <2>2, <2>4
  <2>6. k \in 0..Len(log) /\ k # 0
    BY <1>2, <2>5
  <2>7. OfId(log[k], id) /\ \A i \in 1..Len(log) : OfId(log[i], id) => i <= k
    BY <1>3, <2>4, <2>5
  <2> QED BY <2>3, <2>6, <2>7
<1> QED BY <1>4, <1>5

\* The walks step over a record by at least its head.
LEMMA WidthIsRoom ==
  ASSUME NEW r \in Records
  PROVE  /\ Width(r) \in Nat /\ Width(r) >= HEAD
         /\ r.size <= MAX_FOBJ_SIZE => Width(r) = HEAD + r.size
<1>1. r.size \in Nat /\ MAX_FOBJ_SIZE \in Nat
  BY FlashAssumption DEF Records
<1> QED BY <1>1 DEF Width, HEAD

LEMMA EndsAreAddresses ==
  ASSUME NEW log \in Seq(Records)
  PROVE  /\ \A i \in 0..Len(log) : EndOf(log, i) \in Nat /\ EndOf(log, i) >= HEAD
         /\ \A i \in 1..Len(log) : /\ log[i].at \in Nat
                                   /\ EndOf(log, i) = log[i].at + Width(log[i])
                                   /\ Width(log[i]) \in Nat /\ Width(log[i]) >= HEAD
         /\ FreeAddr(log) \in Nat /\ FreeAddr(log) >= HEAD
<1>1. Len(log) \in Nat
  BY LenProperties
<1>2. \A i \in 1..Len(log) : /\ log[i].at \in Nat
                            /\ EndOf(log, i) = log[i].at + Width(log[i])
                            /\ Width(log[i]) \in Nat /\ Width(log[i]) >= HEAD
  <2> TAKE i \in 1..Len(log)
  <2>1. log[i] \in Records
    BY ElementOfSeq
  <2>2. log[i].at \in Nat
    BY <2>1 DEF Records
  <2>3. EndOf(log, i) = log[i].at + Width(log[i])
    BY <1>1 DEF EndOf
  <2> QED BY <2>1, <2>2, <2>3, WidthIsRoom
<1>3. \A i \in 0..Len(log) : EndOf(log, i) \in Nat /\ EndOf(log, i) >= HEAD
  <2> TAKE i \in 0..Len(log)
  <2>1. CASE i = 0
    BY <2>1 DEF EndOf, HEAD
  <2>2. CASE i # 0
    <3>1. i \in 1..Len(log)
      BY <1>1, <2>2
    <3> QED BY <1>2, <3>1 DEF HEAD
  <2> QED BY <2>1, <2>2
<1>4. FreeAddr(log) \in Nat /\ FreeAddr(log) >= HEAD
  BY <1>1, <1>3 DEF FreeAddr
<1> QED BY <1>2, <1>3, <1>4

---------------------------------------------------------------------------
(* Programming records *)

\* The first program of an object appends one record, without an id.
LEMMA ProgramAppends ==
  ASSUME NEW log \in Seq(Records), NEW addr \in Nat, NEW size \in Nat,
         NEW v \in Vals \cup {NoVal}
  PROVE  LET new == Program(log, addr, size, v) IN
         /\ new \in Seq(Records)
         /\ Len(new) = Len(log) + 1
         /\ \A i \in 1..Len(log) : new[i] = log[i]
         /\ new[Len(log) + 1].at = addr
         /\ new[Len(log) + 1].size = size
         /\ new[Len(log) + 1].id = NoId
<1> DEFINE r == [at |-> addr, id |-> NoId, size |-> size,
                 val |-> IF size = 0 THEN NoVal ELSE v]
<1>1. r \in Records
  BY DEF Records
<1>2. Program(log, addr, size, v) = Append(log, r)
  BY DEF Program
<1> HIDE DEF r
<1>3. /\ Append(log, r) \in Seq(Records)
      /\ Len(Append(log, r)) = Len(log) + 1
      /\ \A i \in 1..Len(log) : Append(log, r)[i] = log[i]
      /\ Append(log, r)[Len(log) + 1] = r
  BY <1>1, AppendProperties
<1> QED BY <1>2, <1>3 DEF r

\* The second one, and an interruption, change the last record only: the one its id,
\* the other its data and its size.
LEMMA ProgramIdChangesLast ==
  ASSUME NEW log \in Seq(Records), NEW id \in Ids \cup {NoId}
  PROVE  LET new == ProgramId(log, id) IN
         /\ new \in Seq(Records)
         /\ Len(new) = Len(log)
         /\ \A i \in 1..Len(log) :
              /\ new[i].at = log[i].at
              /\ new[i].size = log[i].size
              /\ new[i].val = log[i].val
         /\ \A i \in 1..Len(log) : i # Len(log) => new[i] = log[i]
         /\ Len(log) > 0 => new[Len(log)].id = id
<1> DEFINE n == Len(log)
           new == [log EXCEPT ![n].id = id]
<1>1. n \in Nat /\ DOMAIN log = 1..n /\ \A i \in 1..n : log[i] \in Records
  BY LenProperties, ElementOfSeq
<1>2. DOMAIN new = 1..n
  BY <1>1
<1>3. \A i \in 1..n : new[i] = IF i = n THEN [log[n] EXCEPT !.id = id] ELSE log[i]
  BY <1>1
<1>4. \A i \in 1..n : new[i] \in Records
  BY <1>1, <1>3 DEF Records
<1>5. new \in [1..n -> Records]
  BY <1>2, <1>4, <1>1
<1>6. new \in Seq(Records) /\ Len(new) = n
  BY <1>1, <1>2, <1>5, SeqDef, LenProperties
<1>7. \A i \in 1..n : /\ new[i].at = log[i].at
                      /\ new[i].size = log[i].size
                      /\ new[i].val = log[i].val
  BY <1>1, <1>3 DEF Records
<1>8. n > 0 => new[n].id = id
  BY <1>1, <1>3 DEF Records
<1> HIDE DEF n, new
<1> QED BY <1>3, <1>6, <1>7, <1>8 DEF ProgramId, n, new

LEMMA TearChangesLast ==
  ASSUME NEW log \in Seq(Records), NEW new \in Tear(log)
  PROVE  /\ new \in Seq(Records)
         /\ Len(new) = Len(log)
         /\ \A i \in 1..Len(log) :
              /\ new[i].at = log[i].at
              /\ new[i].id = log[i].id
              /\ new[i].size >= log[i].size
         /\ \A i \in 1..Len(log) : i # Len(log) => new[i] = log[i]
         /\ Len(log) > 0 => new[Len(log)].val = NoVal
<1> DEFINE n == Len(log)
           r == log[n]
<1>1. n \in Nat /\ DOMAIN log = 1..n /\ \A i \in 1..n : log[i] \in Records
  BY LenProperties, ElementOfSeq
<1>2. PICK size \in TornSizes \cup {r.size} :
        /\ size >= r.size
        /\ new = [log EXCEPT ![n] = [at |-> r.at, id |-> r.id, size |-> size, val |-> NoVal]]
  BY DEF Tear
<1>3. DOMAIN new = 1..n
  BY <1>1, <1>2
<1>4. \A i \in 1..n :
        new[i] = IF i = n THEN [at |-> r.at, id |-> r.id, size |-> size, val |-> NoVal] ELSE log[i]
  BY <1>1, <1>2
<1>5. n > 0 => size \in Nat /\ r \in Records
  BY <1>1, FlashAssumption DEF Records
<1>6. \A i \in 1..n : new[i] \in Records
  <2> TAKE i \in 1..n
  <2>1. CASE i = n
    <3>1. n > 0 /\ r.at \in Nat /\ r.id \in Ids \cup {NoId}
      BY <1>1, <1>5, <2>1 DEF Records
    <3> HIDE DEF n, r
    <3> QED BY <1>4, <1>5, <2>1, <3>1 DEF Records
  <2>2. CASE i # n
    BY <1>1, <1>4, <2>2
  <2> QED BY <2>1, <2>2
<1>7. new \in [1..n -> Records]
  BY <1>2, <1>3, <1>6, <1>1
<1>8. new \in Seq(Records) /\ Len(new) = n
  BY <1>1, <1>3, <1>7, SeqDef, LenProperties
<1>9. \A i \in 1..n : /\ new[i].at = log[i].at
                      /\ new[i].id = log[i].id
                      /\ new[i].size >= log[i].size
  <2> TAKE i \in 1..n
  <2>1. CASE i = n
    <3>1. n > 0
      BY <1>1, <2>1
    <3>2. new[i] = [at |-> r.at, id |-> r.id, size |-> size, val |-> NoVal]
      BY <1>4, <2>1, <3>1
    <3> QED BY <1>2, <2>1, <3>2
  <2>2. CASE i # n
    <3>1. log[i].size \in Nat
      BY <1>1 DEF Records
    <3> QED BY <1>4, <2>2, <3>1
  <2> QED BY <2>1, <2>2
<1>10. n > 0 => new[n].val = NoVal
  <2> HIDE DEF r
  <2>1. n > 0 => n \in 1..n
    BY <1>1
  <2>2. n > 0 => new[n] = [at |-> r.at, id |-> r.id, size |-> size, val |-> NoVal]
    BY <1>4, <2>1
  <2> QED BY <2>2
<1> HIDE DEF n, r
<1> QED BY <1>4, <1>8, <1>9, <1>10 DEF n

---------------------------------------------------------------------------
(* Types *)

\* What TypeOK needs to be inductive: the call that belongs to each point of the
\* code, and that the loop of pack_eep_fmem is at a record of the source sector.
CallMatches ==
  /\ pc \in {"bscfg", "bs_mark"} => op \in Writes \cup Reads
  /\ pc = "read" => op \in Reads
  /\ pc \in {"lookup", "pack_erase", "pack", "pack_id", "pack_mark", "pack_close",
            "packed", "write", "write_id"} => op \in Writes

AtRecord ==
  /\ pc = "pack" => rd >= 1
  /\ pc = "pack_id" => rd \in 1..Len(Src) /\ IsObject(Src[rd])

TypeInv == TypeOK /\ CallMatches /\ AtRecord

\* Reading a write that was called: its size and contents.
LEMMA WriteFields ==
  ASSUME op \in Writes
  PROVE  op.kind = "write" /\ op.id \in Ids /\ op.size \in Nat /\ op.val \in Vals
BY DEF Writes

LEMMA ReadFields ==
  ASSUME op \in Reads
  PROVE  op.kind = "read" /\ op.id \in Ids /\ op.maxsize \in Nat
BY DEF Reads

\* The object the loop of pack_eep_fmem copies is a record of the source sector.
LEMMA NewestIsRecord ==
  ASSUME TypeOK, rd \in 1..Len(Src), IsObject(Src[rd])
  PROVE  /\ Src[rd] \in Records
         /\ Src[rd].id \in Ids
         /\ LastIdx(Src, Src[rd].id) \in 1..Len(Src)
         /\ Newest \in Records
         /\ Newest.id = Src[rd].id
         /\ Newest.size <= MAX_FOBJ_SIZE
<1>1. Src \in Seq(Records)
  BY DEF TypeOK, Src
<1>2. Src[rd] \in Records /\ Len(Src) \in Nat
  BY <1>1, ElementOfSeq, LenProperties
<1>3. Src[rd].id \in Ids
  BY <1>2 DEF Records, IsObject
<1>4. OfId(Src[rd], Src[rd].id)
  BY <1>2, FlashAssumption DEF OfId, IsObject
<1>7. LastIdx(Src, Src[rd].id) # 0
  BY <1>1, <1>4, LastIdxFinds
<1>5. /\ LastIdx(Src, Src[rd].id) \in 1..Len(Src) /\ Newest.id = Src[rd].id
      /\ Newest.size <= MAX_FOBJ_SIZE
  BY <1>1, <1>2, <1>7, LastIdxFinds DEF Newest, OfId
<1>6. Newest \in Records
  BY <1>1, <1>5, ElementOfSeq DEF Newest
<1> QED BY <1>2, <1>3, <1>5, <1>6

\* Replacing the log, or the head, of one sector.
LEMMA SectorUpdate ==
  ASSUME TypeOK, NEW s \in Sectors, NEW log \in Seq(Records), NEW head \in Heads
  PROVE  /\ [sector EXCEPT ![s].log = log] \in [Sectors -> [head : Heads, log : Seq(Records)]]
         /\ [sector EXCEPT ![s].head = head] \in [Sectors -> [head : Heads, log : Seq(Records)]]
         /\ [sector EXCEPT ![s] = Erased] \in [Sectors -> [head : Heads, log : Seq(Records)]]
         /\ \A t \in Sectors :
              /\ [sector EXCEPT ![s].log = log][t].log = IF t = s THEN log ELSE sector[t].log
              /\ [sector EXCEPT ![s].log = log][t].head = sector[t].head
              /\ [sector EXCEPT ![s].head = head][t].log = sector[t].log
              /\ [sector EXCEPT ![s].head = head][t].head = IF t = s THEN head ELSE sector[t].head
              /\ [sector EXCEPT ![s] = Erased][t] = IF t = s THEN Erased ELSE sector[t]
<1>1. sector \in [Sectors -> [head : Heads, log : Seq(Records)]]
  BY DEF TypeOK
<1>2. Erased \in [head : Heads, log : Seq(Records)]
  BY EmptySeq DEF Erased, Heads
<1> QED BY <1>1, <1>2

LEMMA TypeInvInit == Init => TypeInv
<1> SUFFICES ASSUME Init PROVE TypeInv
  OBVIOUS
<1>1. Erased \in [head : Heads, log : Seq(Records)]
  BY EmptySeq DEF Erased, Heads
<1>2. sector \in [Sectors -> [head : Heads, log : Seq(Records)]]
  BY <1>1 DEF Init
<1>3. ret \in [code : Int, val : Vals \cup {NoVal}]
  BY DEF Init, NoResult, Result
<1>4. TypeOK
  BY <1>2, <1>3 DEF Init, TypeOK, Sectors
<1> QED BY <1>4 DEF TypeInv, CallMatches, AtRecord, Init

\* A return leaves the firmware idle, with nothing to say about its locals.
LEMMA ReturnTypes ==
  ASSUME NEW code \in Int, NEW v \in Vals \cup {NoVal}, Return(code, v),
         sector' \in [Sectors -> [head : Heads, log : Seq(Records)]]
  PROVE  TypeInv'
<1>1. ret' \in [code : Int, val : Vals \cup {NoVal}]
  BY DEF Return, Result
<1> QED
  BY <1>1 DEF Return, Goto, ResetLocals, TypeInv, TypeOK, CallMatches, AtRecord, Sectors

\* So does a crash.
LEMMA CrashTypes == ASSUME TypeInv, Crash PROVE TypeInv'
<1>1. sector' \in [Sectors -> [head : Heads, log : Seq(Records)]]
  <2>1. /\ sector \in [Sectors -> [head : Heads, log : Seq(Records)]]
        /\ \A s \in Sectors : sector[s].log \in Seq(Records)
    BY DEF TypeInv, TypeOK
  <2>2. ASSUME NEW s \in Sectors, sector' \in TornSector(s)
        PROVE  sector' \in [Sectors -> [head : Heads, log : Seq(Records)]]
    <3>1. PICK log \in Tear(sector[s].log) : sector' = [sector EXCEPT ![s].log = log]
      BY <2>2 DEF TornSector
    <3>2. log \in Seq(Records)
      BY <2>1, TearChangesLast
    <3> QED BY <3>1, <3>2, SectorUpdate DEF TypeInv, Heads
  <2>3. saddr \in Sectors /\ Dst \in Sectors
    BY DEF TypeInv, TypeOK, Dst, Other, Sectors
  <2>4. CASE pc = "write_id"
    BY <2>2, <2>3, <2>4 DEF Crash
  <2>5. CASE pc = "pack_id"
    BY <2>2, <2>3, <2>5 DEF Crash
  <2>6. CASE pc # "write_id" /\ pc # "pack_id"
    BY <2>6 DEF Crash, TypeInv, TypeOK
  <2> QED BY <2>4, <2>5, <2>6
<1>2. ret' \in [code : Int, val : Vals \cup {NoVal}]
  BY DEF Crash, NoResult, Result
<1> QED
  BY <1>1, <1>2 DEF Crash, Goto, ResetLocals, TypeInv, TypeOK, CallMatches, AtRecord, Sectors

\* Calling an operation of the store.
LEMMA CallTypes == ASSUME TypeInv, Call PROVE TypeInv'
<1>1. ASSUME NEW o \in Writes \cup Reads \cup Erases, NEW label \in {"bscfg", "erase0"},
             Enter(o, label), label = "bscfg" => o \in Writes \cup Reads
      PROVE  TypeInv'
  <2>1. ret' \in [code : Int, val : Vals \cup {NoVal}]
    BY <1>1 DEF Enter, NoResult, Result
  <2> QED
    BY <1>1, <2>1 DEF Enter, Goto, Locals, TypeInv, TypeOK, CallMatches, AtRecord
<1>2. ASSUME NEW id \in Ids, NEW p \in PayloadsOf[id], WriteCfg(id, p.size, p.val)
      PROVE  TypeInv'
  <2>1. p \in [size : Nat, val : Vals]
    BY FlashAssumption
  <2>2. [kind |-> "write", id |-> id, size |-> p.size, val |-> p.val] \in Writes
    BY <2>1 DEF Writes
  <2> QED BY <1>1, <1>2, <2>2 DEF WriteCfg
<1>3. ASSUME NEW id \in Ids, NEW maxsize \in ReadSizes, ReadCfg(id, maxsize)
      PROVE  TypeInv'
  <2>1. [kind |-> "read", id |-> id, maxsize |-> maxsize] \in Reads
    BY FlashAssumption DEF Reads
  <2> QED BY <1>1, <1>3, <2>1 DEF ReadCfg
<1>4. ASSUME EraseAllCfg PROVE TypeInv'
  <2>1. [kind |-> "erase"] \in Erases
    BY DEF Erases
  <2> QED BY <1>1, <1>4, <2>1 DEF EraseAllCfg
<1>5. ASSUME Refuse PROVE TypeInv'
  <2>1. sector' \in [Sectors -> [head : Heads, log : Seq(Records)]]
    BY <1>5 DEF Refuse, TypeInv, TypeOK
  <2> QED BY <1>5, <2>1, ReturnTypes DEF Refuse, FMEM_SIZE_ERR
<1> QED BY <1>2, <1>3, <1>4, <1>5 DEF Call

\* get_addr_bscfg, flash_read_cfg, flash_write_cfg and flash_erase_all_cfg.
LEMMA AccessTypes ==
  ASSUME TypeInv,
         \/ FoundCurrent \/ EraseFirst \/ MarkFirst \/ Read
         \/ WriteIdentical \/ FindRoom \/ WriteObj \/ WriteId
         \/ WriteAfterPack \/ Overflow \/ EraseSector0 \/ EraseSector1
  PROVE  TypeInv'
<1> USE DEF Goto
<1>1. /\ sector \in [Sectors -> [head : Heads, log : Seq(Records)]]
      /\ saddr \in Sectors
      /\ Src \in Seq(Records)
      /\ 0 \in Sectors /\ 1 \in Sectors
  BY DEF TypeInv, TypeOK, Sectors, Src
<1>2. CASE FoundCurrent
  <2>1. saddr' \in Sectors
    <3>1. CurrentSectors \subseteq Sectors /\ CurrentSectors # {}
      BY <1>2 DEF CurrentSectors, FoundCurrent
    <3>2. Max(CurrentSectors) \in CurrentSectors
      <4>1. CASE 1 \in CurrentSectors
        <5>1. \A y \in CurrentSectors : 1 >= y
          BY <3>1 DEF Sectors
        <5> QED BY <4>1, <5>1 DEF Max
      <4>2. CASE 1 \notin CurrentSectors
        <5>1. \A y \in CurrentSectors : y = 0
          BY <3>1, <4>2 DEF Sectors
        <5>2. CurrentSectors = {0}
          BY <3>1, <5>1
        <5> QED BY <5>2 DEF Max
      <4> QED BY <4>1, <4>2
    <3> QED BY <1>2, <3>1, <3>2 DEF FoundCurrent
  <2>2. pc' = "lookup" => op \in Writes
    BY <1>2, ReadFields DEF FoundCurrent, AfterBscfg, TypeInv, CallMatches
  <2>3. pc' = "read" => op \in Reads
    BY <1>2, WriteFields DEF FoundCurrent, AfterBscfg, TypeInv, CallMatches
  <2> QED
    BY <1>2, <2>1, <2>2, <2>3
    DEF FoundCurrent, AfterBscfg, TypeInv, TypeOK, CallMatches, AtRecord
<1>3. CASE EraseFirst
  <2>1. sector' \in [Sectors -> [head : Heads, log : Seq(Records)]]
    BY <1>1, <1>3, SectorUpdate, EmptySeq DEF EraseFirst, TypeInv, Heads
  <2> QED
    BY <1>1, <1>3, <2>1 DEF EraseFirst, TypeInv, TypeOK, CallMatches, AtRecord
<1>4. CASE MarkFirst
  <2>1. sector' \in [Sectors -> [head : Heads, log : Seq(Records)]]
    BY <1>1, <1>4, SectorUpdate, EmptySeq DEF MarkFirst, TypeInv, Heads
  <2>2. pc' = "lookup" => op \in Writes
    BY <1>4, ReadFields DEF MarkFirst, AfterBscfg, TypeInv, CallMatches
  <2>3. pc' = "read" => op \in Reads
    BY <1>4, WriteFields DEF MarkFirst, AfterBscfg, TypeInv, CallMatches
  <2> QED
    BY <1>4, <2>1, <2>2, <2>3
    DEF MarkFirst, AfterBscfg, Locals, TypeInv, TypeOK, CallMatches, AtRecord
<1>5. CASE Read
  <2> DEFINE i == LastIdx(Src, op.id)
  <2>1. sector' = sector
    BY <1>5 DEF Read
  <2>2. CASE i = 0
    BY <1>1, <1>5, <2>1, <2>2, ReturnTypes DEF Read, FMEM_NOT_FOUND, Src
  <2>3. CASE i # 0
    <3>1. i \in 1..Len(Src)
      BY <1>1, <2>3, LastIdxFinds, LenProperties
    <3>2. Src[i] \in Records
      BY <1>1, <3>1, ElementOfSeq
    <3>3. Src[i].size \in Int /\ Src[i].val \in Vals \cup {NoVal}
      BY <3>2 DEF Records
    <3> DEFINE v == IF Src[i].size <= op.maxsize THEN Src[i].val ELSE NoVal
    <3>4. v \in Vals \cup {NoVal}
      BY <3>3
    <3>5. Return(Src[i].size, v)
      BY <1>5, <2>3 DEF Read, Src
    <3> HIDE DEF i, v
    <3> QED BY <1>1, <2>1, <3>3, <3>4, <3>5, ReturnTypes
  <2> QED BY <2>2, <2>3
<1>6. CASE WriteIdentical
  <2>1. op.size \in Int
    BY <1>6, WriteFields DEF WriteIdentical, TypeInv, CallMatches
  <2> QED BY <1>1, <1>6, <2>1, ReturnTypes DEF WriteIdentical
<1>7. CASE FindRoom
  <2>1. wraddr' \in Nat
    <3>1. FreeAddr(Src) \in Nat
      BY <1>1, EndsAreAddresses
    <3> QED BY <1>7, <3>1 DEF FindRoom, Src
  <2> QED
    BY <1>7, <2>1 DEF FindRoom, TypeInv, TypeOK, CallMatches, AtRecord
<1>8. CASE WriteObj
  <2>1. op.size \in Nat /\ op.val \in Vals /\ wraddr \in Nat
    BY <1>8, WriteFields DEF WriteObj, TypeInv, TypeOK, CallMatches
  <2>2. Program(Src, wraddr, op.size, op.val) \in Seq(Records)
    BY <1>1, <2>1, ProgramAppends
  <2>3. sector' \in [Sectors -> [head : Heads, log : Seq(Records)]]
    BY <1>1, <1>8, <2>2, SectorUpdate DEF WriteObj, Src, TypeInv, Heads
  <2> QED
    BY <1>8, <2>3 DEF WriteObj, Locals, TypeInv, TypeOK, CallMatches, AtRecord
<1>9. CASE WriteId
  <2>1. op.id \in Ids /\ op.size \in Nat
    BY <1>9, WriteFields DEF WriteId, TypeInv, CallMatches
  <2>2. ProgramId(Src, op.id) \in Seq(Records)
    BY <1>1, <2>1, ProgramIdChangesLast
  <2>3. sector' \in [Sectors -> [head : Heads, log : Seq(Records)]]
    BY <1>1, <1>9, <2>2, SectorUpdate DEF WriteId, Src, TypeInv, Heads
  <2> QED BY <1>9, <2>1, <2>3, ReturnTypes DEF WriteId
<1>10. CASE WriteAfterPack
  BY <1>10 DEF WriteAfterPack, Locals, TypeInv, TypeOK, CallMatches, AtRecord
<1>11. CASE Overflow
  BY <1>1, <1>11, ReturnTypes DEF Overflow, FMEM_OVERFLOW
<1>12. CASE EraseSector0
  <2>1. sector' \in [Sectors -> [head : Heads, log : Seq(Records)]]
    BY <1>1, <1>12, SectorUpdate, EmptySeq DEF EraseSector0, TypeInv, Heads
  <2> QED
    BY <1>12, <2>1 DEF EraseSector0, Locals, TypeInv, TypeOK, CallMatches, AtRecord
<1>13. CASE EraseSector1
  <2>1. sector' \in [Sectors -> [head : Heads, log : Seq(Records)]]
    BY <1>1, <1>13, SectorUpdate, EmptySeq DEF EraseSector1, TypeInv, Heads
  <2> QED BY <1>13, <2>1, ReturnTypes DEF EraseSector1
<1> QED
  BY <1>2, <1>3, <1>4, <1>5, <1>6, <1>7, <1>8, <1>9, <1>10, <1>11, <1>12, <1>13

\* pack_eep_fmem.
LEMMA PackTypes == ASSUME TypeInv, Pack PROVE TypeInv'
<1> USE DEF Goto
<1>1. /\ sector \in [Sectors -> [head : Heads, log : Seq(Records)]]
      /\ saddr \in Sectors /\ Dst \in Sectors /\ Dst # saddr
      /\ Src \in Seq(Records) /\ sector[Dst].log \in Seq(Records)
      /\ Len(Src) \in Nat
      /\ rd \in Nat /\ wraddr \in Nat /\ flags \in SUBSET Ids
  <2>1. /\ sector \in [Sectors -> [head : Heads, log : Seq(Records)]]
        /\ saddr \in Sectors /\ Dst \in Sectors /\ Dst # saddr
        /\ rd \in Nat /\ wraddr \in Nat /\ flags \in SUBSET Ids
    BY DEF TypeInv, TypeOK, Sectors, Dst, Other
  <2> QED BY <2>1, LenProperties DEF Src
<1>2. ASSUME pc = "pack", rd <= Len(Src), IsObject(Src[rd])
      PROVE  /\ rd \in 1..Len(Src) /\ Src[rd].id \in Ids
             /\ Newest \in Records
             /\ MaskFlag(flags, Src[rd].id) \in SUBSET Ids
             /\ SetFlag(MaskFlag(flags, Src[rd].id), Src[rd].id) \in SUBSET Ids
  <2>1. rd \in 1..Len(Src)
    BY <1>1, <1>2 DEF TypeInv, AtRecord
  <2>2. Src[rd].id \in Ids /\ Newest \in Records
    BY <1>2, <2>1, NewestIsRecord DEF TypeInv
  <2> QED BY <1>1, <2>1, <2>2 DEF MaskFlag, SetFlag
<1>3. CASE PackErase
  <2>1. sector' \in [Sectors -> [head : Heads, log : Seq(Records)]]
    BY <1>1, <1>3, SectorUpdate, EmptySeq DEF PackErase, TypeInv, Heads
  <2> QED
    BY <1>3, <2>1 DEF PackErase, HEAD, TypeInv, TypeOK, CallMatches, AtRecord
<1>4. CASE PackSkip
  <2>1. rd' \in Nat /\ rd' >= 1
    <3>1. rd' \in 1..Len(Src) \cup {Len(Src) + 1}
      BY <1>4 DEF PackSkip, Resumed
    <3> QED BY <1>1, <3>1
  <2> QED
    BY <1>1, <1>4, <2>1 DEF PackSkip, TypeInv, TypeOK, CallMatches, AtRecord
<1>5. CASE PackCopied
  <2>1. flags' \in SUBSET Ids
    BY <1>2, <1>5 DEF PackCopied, PackStep
  <2> QED
    BY <1>1, <1>5, <2>1
    DEF PackCopied, PackStep, TypeInv, TypeOK, CallMatches, AtRecord
<1>6. CASE PackDeleted
  <2>1. flags' \in SUBSET Ids
    BY <1>2, <1>6 DEF PackDeleted, PackStep, NotCopied
  <2> QED
    BY <1>1, <1>6, <2>1
    DEF PackDeleted, PackStep, TypeInv, TypeOK, CallMatches, AtRecord
<1>7. CASE PackCopy
  <2>1. /\ flags' \in SUBSET Ids
        /\ rd \in 1..Len(Src) /\ IsObject(Src[rd])
        /\ Newest.size \in Nat /\ Newest.val \in Vals \cup {NoVal}
    BY <1>2, <1>7 DEF PackCopy, NotCopied, Records
  <2>2. Program(sector[Dst].log, wraddr, Newest.size, Newest.val) \in Seq(Records)
    BY <1>1, <2>1, ProgramAppends
  <2>3. sector' = [sector EXCEPT
                    ![Dst].log = Program(sector[Dst].log, wraddr, Newest.size, Newest.val)]
    BY <1>7 DEF PackCopy
  <2>4. /\ sector' \in [Sectors -> [head : Heads, log : Seq(Records)]]
        /\ sector'[saddr].log = Src
    BY <1>1, <2>2, <2>3, SectorUpdate DEF TypeInv, Heads, Src
  <2> QED
    BY <1>1, <1>7, <2>1, <2>4
    DEF PackCopy, Src, TypeInv, TypeOK, CallMatches, AtRecord
<1>8. CASE PackCopyId
  <2>1. /\ rd \in 1..Len(Src) /\ Src[rd].id \in Ids
        /\ Newest.size \in Nat
    BY <1>8, NewestIsRecord DEF PackCopyId, TypeInv, AtRecord, Records
  <2>2. ProgramId(sector[Dst].log, Src[rd].id) \in Seq(Records)
    BY <1>1, <2>1, ProgramIdChangesLast
  <2>3. sector' = [sector EXCEPT ![Dst].log = ProgramId(sector[Dst].log, Src[rd].id)]
    BY <1>8 DEF PackCopyId
  <2>4. sector' \in [Sectors -> [head : Heads, log : Seq(Records)]]
    BY <1>1, <2>2, <2>3, SectorUpdate DEF TypeInv, Heads
  <2>5. wraddr' \in Nat /\ rd' \in Nat /\ rd' >= 1
    BY <1>1, <1>8, <2>1 DEF PackCopyId, HEAD
  <2> QED
    BY <1>8, <2>4, <2>5 DEF PackCopyId, TypeInv, TypeOK, CallMatches, AtRecord
<1>9. CASE PackEnd
  BY <1>9 DEF PackEnd, Locals, TypeInv, TypeOK, CallMatches, AtRecord
<1>10. CASE PackMark
  <2>1. sector' \in [Sectors -> [head : Heads, log : Seq(Records)]]
    BY <1>1, <1>10, SectorUpdate DEF PackMark, TypeInv, Heads
  <2> QED
    BY <1>10, <2>1 DEF PackMark, Locals, TypeInv, TypeOK, CallMatches, AtRecord
<1>11. CASE PackClose
  <2>1. sector' \in [Sectors -> [head : Heads, log : Seq(Records)]]
    BY <1>1, <1>11, SectorUpdate DEF PackClose, TypeInv, Heads
  <2> QED
    BY <1>1, <1>11, <2>1 DEF PackClose, TypeInv, TypeOK, CallMatches, AtRecord
<1> QED
  BY <1>3, <1>4, <1>5, <1>6, <1>7, <1>8, <1>9, <1>10, <1>11 DEF Pack, PackLoop

LEMMA TypeInvNext == TypeInv /\ [Next]_vars => TypeInv'
<1> SUFFICES ASSUME TypeInv, [Next]_vars PROVE TypeInv'
  OBVIOUS
<1>1. CASE UNCHANGED vars
  BY <1>1 DEF vars, TypeInv, TypeOK, CallMatches, AtRecord, Src
<1>2. CASE Next
  BY <1>2, CallTypes, AccessTypes, PackTypes, CrashTypes DEF Next, Step
<1> QED BY <1>1, <1>2

\* Every variable keeps its type, whatever the calls, their sizes and the crashes.
THEOREM TypeCorrect == Spec => []TypeOK
<1>1. TypeInv => TypeOK
  BY DEF TypeInv
<1> QED BY <1>1, TypeInvInit, TypeInvNext, PTL DEF Spec

---------------------------------------------------------------------------
(* Space: what is programmed stays inside its sector, as long as the objects of *)
(* an id keep one size.                                                         *)

\* A record with an id has a size some caller gave an object of that id.
SizeGiven(id, size) == id \in Ids => \E p \in PayloadsOf[id] : p.size = size

LogOK(log) ==
  /\ Contiguous(log)
  /\ EndsInside(log)
  /\ \A i, j \in 0..Len(log) : i <= j => EndOf(log, i) <= EndOf(log, j)
  /\ \A i \in 1..Len(log) : SizeGiven(log[i].id, log[i].size)

\* The last record is being programmed: it has no id yet, and ends inside of the sector.
Unfinished(log, size) ==
  /\ Len(log) > 0
  /\ log[Len(log)].size = size /\ log[Len(log)].id = NoId
  /\ FreeAddr(log) < SECTOR_SIZE

DstLog == sector[Dst].log

SpaceInv ==
  /\ \A s \in Sectors : LogOK(sector[s].log)
  /\ op \in Writes => SizeGiven(op.id, op.size) /\ op.size <= MAX_FOBJ_SIZE
  /\ pc = "write" => wraddr = FreeAddr(Src) /\ Fits(wraddr)
  /\ pc = "write_id" => Unfinished(Src, op.size)
  /\ pc = "pack" => /\ rd <= Len(Src) + 1
                    /\ wraddr = FreeAddr(DstLog)
                    /\ wraddr <= EndOf(Src, rd - 1)
  /\ pc = "pack_id" => /\ Unfinished(DstLog, Newest.size)
                       /\ FreeAddr(DstLog) = wraddr + HEAD + Newest.size
                       /\ FreeAddr(DstLog) <= EndOf(Src, rd)
                       /\ SizeGiven(Src[rd].id, Newest.size)
  /\ pc \in {"pack_mark", "pack_close"} => wraddr = FreeAddr(DstLog)
  /\ pc = "packed" => wraddr = FreeAddr(Src)

LEMMA ErasedOK == LogOK(Erased.log) /\ FreeAddr(Erased.log) = HEAD
<1>1. Erased.log = <<>> /\ Len(Erased.log) = 0 /\ DOMAIN Erased.log = {}
  BY EmptySeq DEF Erased
<1>2. FreeAddr(Erased.log) = HEAD
  BY <1>1 DEF FreeAddr, EndOf
<1>3. \A i, j \in 0..0 : EndOf(Erased.log, i) <= EndOf(Erased.log, j)
  BY DEF EndOf, HEAD
<1> QED BY <1>1, <1>2, <1>3 DEF LogOK, Contiguous, EndsInside

\* Appending a record at the free address.
LEMMA ProgramOK ==
  ASSUME NEW log \in Seq(Records), LogOK(log), NEW size \in Nat, size <= MAX_FOBJ_SIZE,
         NEW v \in Vals \cup {NoVal}, FreeAddr(log) + HEAD + size < SECTOR_SIZE
  PROVE  LET new == Program(log, FreeAddr(log), size, v) IN
         /\ LogOK(new)
         /\ FreeAddr(new) = FreeAddr(log) + HEAD + size
         /\ Unfinished(new, size)
<1> DEFINE n == Len(log)
           a == FreeAddr(log)
           new == Program(log, a, size, v)
<1>1. n \in Nat /\ a \in Nat
  BY LenProperties, EndsAreAddresses
<1>2. /\ new \in Seq(Records)
      /\ Len(new) = n + 1
      /\ \A i \in 1..n : new[i] = log[i]
      /\ new[n + 1].at = a /\ new[n + 1].size = size /\ new[n + 1].id = NoId
  <2> HIDE DEF a
  <2>1. new \in Seq(Records)
    BY <1>1, ProgramAppends
  <2>4. Len(new) = n + 1
    BY <1>1, ProgramAppends
  <2>2. \A i \in 1..n : new[i] = log[i]
    BY <1>1, ProgramAppends
  <2>3. new[n + 1].at = a /\ new[n + 1].size = size /\ new[n + 1].id = NoId
    BY <1>1, ProgramAppends
  <2> QED BY <2>1, <2>2, <2>3, <2>4
<1>3. DOMAIN log = 1..n /\ DOMAIN new = 1..(n + 1)
  BY <1>2, LenProperties
<1> HIDE DEF new
<1>4. \A i \in 0..n : EndOf(log, i) \in Nat
  BY EndsAreAddresses
<1>6. a = EndOf(log, n)
  BY DEF FreeAddr
<1> HIDE DEF n, a
<1>5. \A i \in 0..n : EndOf(new, i) = EndOf(log, i)
  BY <1>1, <1>2 DEF EndOf
<1>7. EndOf(new, n + 1) = a + HEAD + size
  <2>1. Width(new[n + 1]) = HEAD + size
    BY <1>2 DEF Width
  <2> QED BY <1>1, <1>2, <2>1 DEF EndOf, HEAD
<1>8. FreeAddr(new) = a + HEAD + size
  BY <1>2, <1>7 DEF FreeAddr
<1>9. Contiguous(new)
  <2> SUFFICES ASSUME NEW i \in 1..(n + 1) PROVE new[i].at = EndOf(new, i - 1)
    BY <1>3 DEF Contiguous
  <2>1. CASE i = n + 1
    BY <1>1, <1>2, <1>5, <1>6, <2>1
  <2>2. CASE i \in 1..n
    <3>1. log[i].at = EndOf(log, i - 1)
      BY <1>3, <2>2 DEF LogOK, Contiguous
    <3>2. i - 1 \in 0..n
      BY <1>1, <2>2
    <3> QED BY <1>2, <1>5, <2>2, <3>1, <3>2
  <2> QED BY <1>1, <2>1, <2>2
<1>10. EndsInside(new)
  <2> SUFFICES ASSUME NEW i \in 1..(n + 1), new[i].id # NoId
               PROVE  EndOf(new, i) < SECTOR_SIZE
    BY <1>3 DEF EndsInside
  <2>1. i \in 1..n
    BY <1>1, <1>2
  <2>2. EndOf(log, i) < SECTOR_SIZE
    BY <1>2, <1>3, <2>1 DEF LogOK, EndsInside
  <2>3. i \in 0..n
    BY <1>1, <2>1
  <2> QED BY <1>5, <2>2, <2>3
<1>11. \A i, j \in 0..(n + 1) : i <= j => EndOf(new, i) <= EndOf(new, j)
  <2>1. \A i, j \in 0..n : i <= j => EndOf(log, i) <= EndOf(log, j)
    BY DEF LogOK, n
  <2> SUFFICES ASSUME NEW i \in 0..(n + 1), NEW j \in 0..(n + 1), i <= j
               PROVE  EndOf(new, i) <= EndOf(new, j)
    OBVIOUS
  <2>2. CASE j \in 0..n
    <3>1. i \in 0..n
      BY <1>1, <2>2
    <3> QED BY <1>5, <2>1, <2>2, <3>1
  <2>3. CASE j = n + 1 /\ i \in 0..n
    <3>1. n \in 0..n /\ i <= n
      BY <1>1, <2>3
    <3>2. EndOf(log, i) <= a /\ EndOf(log, i) \in Nat
      BY <1>4, <1>6, <2>1, <2>3, <3>1
    <3>3. EndOf(new, i) = EndOf(log, i)
      BY <1>5, <2>3
    <3> QED BY <1>1, <1>7, <2>3, <3>2, <3>3 DEF HEAD
  <2>4. CASE i = n + 1 /\ j = n + 1
    BY <1>1, <1>7, <2>4 DEF HEAD
  <2> QED BY <1>1, <2>2, <2>3, <2>4
<1>12. \A i \in 1..(n + 1) : SizeGiven(new[i].id, new[i].size)
  <2> TAKE i \in 1..(n + 1)
  <2>1. CASE i = n + 1
    <3>1. NoId \notin Ids
      BY FlashAssumption DEF NoId
    <3> QED BY <1>2, <2>1, <3>1 DEF SizeGiven
  <2>2. CASE i \in 1..n
    BY <1>2, <2>2 DEF LogOK, n
  <2> QED BY <1>1, <2>1, <2>2
<1>13. LogOK(new)
  BY <1>2, <1>9, <1>10, <1>11, <1>12 DEF LogOK
<1>14. Unfinished(new, size)
  <2>1. a + HEAD + size < SECTOR_SIZE
    BY DEF a
  <2> QED BY <1>1, <1>2, <1>8, <2>1 DEF Unfinished
<1> QED BY <1>8, <1>13, <1>14 DEF new, a

\* Completing the last record: no address and no size changes.
LEMMA ProgramIdOK ==
  ASSUME NEW log \in Seq(Records), LogOK(log), NEW id \in Ids, NEW size,
         Unfinished(log, size), SizeGiven(id, size)
  PROVE  /\ LogOK(ProgramId(log, id))
         /\ FreeAddr(ProgramId(log, id)) = FreeAddr(log)
<1> DEFINE new == ProgramId(log, id)
           n == Len(log)
<1>1. /\ new \in Seq(Records) /\ Len(new) = n
      /\ \A i \in 1..n : new[i].at = log[i].at /\ new[i].size = log[i].size
      /\ \A i \in 1..n : i # n => new[i] = log[i]
      /\ new[n].id = id
  BY ProgramIdChangesLast DEF Unfinished
<1> HIDE DEF new
<1>2. n \in Nat /\ DOMAIN log = 1..n /\ DOMAIN new = 1..n /\ n > 0
  BY <1>1, LenProperties DEF Unfinished
<1>3. \A i \in 0..n : EndOf(new, i) = EndOf(log, i)
  <2> HIDE DEF n
  <2> TAKE i \in 0..n
  <2>1. CASE i = 0
    BY <2>1 DEF EndOf
  <2>2. CASE i # 0
    <3>1. i \in 1..n
      BY <1>2, <2>2
    <3>2. new[i].at = log[i].at /\ Width(new[i]) = Width(log[i])
      BY <1>1, <3>1 DEF Width
    <3> QED BY <2>2, <3>2 DEF EndOf
  <2> QED BY <2>1, <2>2
<1>4. FreeAddr(new) = FreeAddr(log)
  <2>1. n \in 0..n
    BY <1>2
  <2> QED BY <1>1, <1>3, <2>1 DEF FreeAddr
<1>5. Contiguous(new)
  <2> SUFFICES ASSUME NEW i \in 1..n PROVE new[i].at = EndOf(new, i - 1)
    BY <1>2 DEF Contiguous
  <2>1. log[i].at = EndOf(log, i - 1)
    BY <1>2 DEF LogOK, Contiguous
  <2>2. i - 1 \in 0..n
    BY <1>2
  <2> QED BY <1>1, <1>3, <2>1, <2>2
<1>6. EndsInside(new)
  <2> SUFFICES ASSUME NEW i \in 1..n, new[i].id # NoId
               PROVE  EndOf(log, i) < SECTOR_SIZE
    BY <1>2, <1>3 DEF EndsInside
  <2>1. CASE i = n
    BY <2>1 DEF Unfinished, FreeAddr
  <2>2. CASE i # n
    BY <1>1, <1>2, <2>2 DEF LogOK, EndsInside
  <2> QED BY <2>1, <2>2
<1>7. \A i, j \in 0..n : i <= j => EndOf(new, i) <= EndOf(new, j)
  BY <1>3 DEF LogOK
<1>8. \A i \in 1..n : SizeGiven(new[i].id, new[i].size)
  <2> TAKE i \in 1..n
  <2>1. CASE i = n
    BY <1>1, <2>1 DEF Unfinished
  <2>2. CASE i # n
    BY <1>1, <2>2 DEF LogOK
  <2> QED BY <2>1, <2>2
<1>9. LogOK(new)
  BY <1>1, <1>5, <1>6, <1>7, <1>8 DEF LogOK
<1> QED BY <1>4, <1>9 DEF new

\* Tearing it: it still has no id, and the room the walks give it can only grow.
LEMMA TearOK ==
  ASSUME NEW log \in Seq(Records), LogOK(log), NEW size, Unfinished(log, size),
         NEW new \in Tear(log)
  PROVE  LogOK(new)
<1> DEFINE n == Len(log)
<1>1. /\ new \in Seq(Records) /\ Len(new) = n
      /\ \A i \in 1..n : /\ new[i].at = log[i].at
                         /\ new[i].id = log[i].id
                         /\ new[i].size >= log[i].size
      /\ \A i \in 1..n : i # n => new[i] = log[i]
  BY TearChangesLast
<1>2. n \in Nat /\ DOMAIN log = 1..n /\ DOMAIN new = 1..n /\ n > 0
  BY <1>1, LenProperties DEF Unfinished
<1>3. \A i \in 0..n : /\ EndOf(log, i) \in Nat /\ EndOf(new, i) \in Nat
                      /\ i # n => EndOf(new, i) = EndOf(log, i)
  <2>1. \A i \in 0..n : EndOf(log, i) \in Nat /\ EndOf(new, i) \in Nat
    BY <1>1, EndsAreAddresses
  <2> HIDE DEF n
  <2>2. ASSUME NEW i \in 0..n, i # n PROVE EndOf(new, i) = EndOf(log, i)
    <3>1. CASE i = 0
      BY <3>1 DEF EndOf
    <3>2. CASE i # 0
      <4>1. i \in 1..n
        BY <1>2, <3>2
      <4> QED BY <1>1, <2>2, <3>2, <4>1 DEF EndOf
    <3> QED BY <3>1, <3>2
  <2> QED BY <2>1, <2>2
<1> HIDE DEF n
<1>4. EndOf(new, n) >= EndOf(log, n)
  <2>1. log[n] \in Records /\ new[n] \in Records
    <3>1. n = Len(log) /\ n = Len(new)
      BY <1>1 DEF n
    <3>2. n \in Nat /\ n > 0
      BY <1>2
    <3>3. n \in 1..n
      BY <3>2
    <3>4. n \in 1..Len(log) /\ n \in 1..Len(new)
      BY <3>1, <3>3, Zenon
    <3> QED BY <1>1, <3>4, ElementOfSeq
  <2>2. /\ log[n].size \in Nat /\ new[n].size \in Nat /\ MAX_FOBJ_SIZE \in Nat
        /\ log[n].at \in Nat
    <3>1. MAX_FOBJ_SIZE \in Nat
      BY FlashAssumption
    <3> QED BY <2>1, <3>1 DEF Records
  <2>3. new[n].at = log[n].at /\ new[n].size >= log[n].size
    BY <1>1, <1>2
  <2>4. Width(new[n]) >= Width(log[n])
    BY <2>2, <2>3 DEF Width, HEAD
  <2>5. Width(new[n]) \in Nat /\ Width(log[n]) \in Nat
    BY <2>1, WidthIsRoom
  <2>6. EndOf(new, n) = new[n].at + Width(new[n]) /\ EndOf(log, n) = log[n].at + Width(log[n])
    BY <1>2 DEF EndOf
  <2> QED BY <2>2, <2>3, <2>4, <2>5, <2>6
<1>5. Contiguous(new)
  <2> SUFFICES ASSUME NEW i \in 1..n PROVE new[i].at = EndOf(new, i - 1)
    BY <1>2 DEF Contiguous
  <2>1. log[i].at = EndOf(log, i - 1)
    BY <1>2 DEF LogOK, Contiguous
  <2>2. i - 1 \in 0..n /\ i - 1 # n
    BY <1>2
  <2> QED BY <1>1, <1>3, <2>1, <2>2
<1>6. EndsInside(new)
  <2> SUFFICES ASSUME NEW i \in 1..n, new[i].id # NoId
               PROVE  EndOf(new, i) < SECTOR_SIZE
    BY <1>2 DEF EndsInside
  <2>1. i # n
    BY <1>1 DEF Unfinished, n
  <2>2. i \in 0..n
    BY <1>2
  <2>3. EndOf(log, i) < SECTOR_SIZE
    BY <1>1, <1>2 DEF LogOK, EndsInside
  <2> QED BY <1>3, <2>1, <2>2, <2>3
<1>7. \A i, j \in 0..n : i <= j => EndOf(new, i) <= EndOf(new, j)
  <2> SUFFICES ASSUME NEW i \in 0..n, NEW j \in 0..n, i <= j
               PROVE  EndOf(new, i) <= EndOf(new, j)
    OBVIOUS
  <2>1. EndOf(log, i) <= EndOf(log, j)
    BY DEF LogOK, n
  <2>2. CASE i = n
    <3>1. j = n
      BY <1>2, <2>2
    <3> QED BY <1>3, <2>2, <3>1
  <2>3. CASE i # n
    <3>1. EndOf(new, i) = EndOf(log, i) /\ EndOf(new, j) >= EndOf(log, j)
      BY <1>3, <1>4, <2>3
    <3> QED BY <1>3, <2>1, <3>1
  <2> QED BY <2>2, <2>3
<1>8. \A i \in 1..n : SizeGiven(new[i].id, new[i].size)
  <2> TAKE i \in 1..n
  <2>1. CASE i = n
    <3>1. new[i].id = NoId /\ NoId \notin Ids
      BY <1>1, <2>1, FlashAssumption DEF Unfinished, NoId, n
    <3> QED BY <3>1 DEF SizeGiven
  <2>2. CASE i # n
    BY <1>1, <2>2 DEF LogOK, n
  <2> QED BY <2>1, <2>2
<1> QED BY <1>1, <1>5, <1>6, <1>7, <1>8 DEF LogOK

\* What every step needs to know of the two sectors.
LEMMA SectorFacts ==
  ASSUME TypeInv
  PROVE  /\ sector \in [Sectors -> [head : Heads, log : Seq(Records)]]
         /\ saddr \in Sectors /\ Dst \in Sectors /\ Dst # saddr
         /\ 0 \in Sectors /\ 1 \in Sectors
         /\ Src \in Seq(Records) /\ DstLog \in Seq(Records)
         /\ Len(Src) \in Nat /\ Len(DstLog) \in Nat
         /\ \A i \in 1..Len(Src) : Src[i].at \in Nat /\ Src[i].size \in Nat
         /\ rd \in Nat /\ wraddr \in Nat
<1>1. /\ sector \in [Sectors -> [head : Heads, log : Seq(Records)]]
      /\ saddr \in Sectors /\ Dst \in Sectors /\ Dst # saddr
      /\ rd \in Nat /\ wraddr \in Nat
      /\ 0 \in Sectors /\ 1 \in Sectors
  BY DEF TypeInv, TypeOK, Sectors, Dst, Other
<1>2. Src \in Seq(Records) /\ DstLog \in Seq(Records)
  BY <1>1 DEF Src, DstLog
<1>3. Len(Src) \in Nat /\ Len(DstLog) \in Nat
  BY <1>2, LenProperties
<1>4. \A i \in 1..Len(Src) : Src[i].at \in Nat /\ Src[i].size \in Nat
  <2> TAKE i \in 1..Len(Src)
  <2>1. Src[i] \in Records
    BY <1>2, ElementOfSeq
  <2> QED BY <2>1 DEF Records
<1> QED BY <1>1, <1>2, <1>3, <1>4

LEMMA SpaceInvInit == Init => SpaceInv
<1> SUFFICES ASSUME Init PROVE SpaceInv
  OBVIOUS
<1>1. \A s \in Sectors : LogOK(sector[s].log)
  BY ErasedOK DEF Init
<1>2. op \notin Writes
  BY DEF Init, NoOp, Writes
<1> QED BY <1>1, <1>2 DEF Init, SpaceInv

\* Back in idle, only the sectors matter.
LEMMA IdleSpace ==
  ASSUME pc' = "idle", op' = NoOp, \A s \in Sectors : LogOK(sector'[s].log)
  PROVE  SpaceInv'
<1>1. op' \notin Writes
  BY DEF NoOp, Writes
<1> QED BY <1>1 DEF SpaceInv

LEMMA ReturnSpace ==
  ASSUME NEW code, NEW v, Return(code, v), \A s \in Sectors : LogOK(sector'[s].log)
  PROVE  SpaceInv'
BY IdleSpace DEF Return, Goto

\* A crash in the middle of a program leaves one record torn.
LEMMA TornSectorOK ==
  ASSUME TypeInv, SpaceInv, NEW s \in Sectors, NEW size, Unfinished(sector[s].log, size),
         sector' \in TornSector(s)
  PROVE  \A t \in Sectors : LogOK(sector'[t].log)
<1>1. PICK log \in Tear(sector[s].log) : sector' = [sector EXCEPT ![s].log = log]
  BY DEF TornSector
<1>2. sector[s].log \in Seq(Records) /\ \A t \in Sectors : LogOK(sector[t].log)
  BY SectorFacts DEF SpaceInv
<1>3. LogOK(log)
  BY <1>2, TearOK
<1> QED BY <1>1, <1>2, <1>3, SectorFacts

LEMMA CrashSpace == ASSUME TypeInv, SpaceInv, Crash PROVE SpaceInv'
<1>1. \A s \in Sectors : LogOK(sector'[s].log)
  <2>1. /\ \A s \in Sectors : LogOK(sector[s].log)
        /\ saddr \in Sectors /\ Dst \in Sectors
    BY SectorFacts DEF SpaceInv
  <2>3. CASE pc = "write_id"
    <3>1. sector' \in TornSector(saddr) /\ Unfinished(sector[saddr].log, op.size)
      BY <2>3 DEF Crash, SpaceInv, Src
    <3> QED BY <2>1, <3>1, TornSectorOK
  <2>4. CASE pc = "pack_id"
    <3>1. sector' \in TornSector(Dst) /\ Unfinished(sector[Dst].log, Newest.size)
      BY <2>4 DEF Crash, SpaceInv, DstLog
    <3> QED BY <2>1, <3>1, TornSectorOK
  <2>5. CASE pc \notin {"write_id", "pack_id"}
    BY <2>1, <2>5 DEF Crash
  <2> QED BY <2>3, <2>4, <2>5
<1> QED BY <1>1, IdleSpace DEF Crash, Goto

LEMMA CallSpace == ASSUME TypeInv, SpaceInv, Call PROVE SpaceInv'
<1>1. ASSUME NEW o, NEW label \in {"bscfg", "erase0"}, Enter(o, label),
             o \in Writes => SizeGiven(o.id, o.size) /\ o.size <= MAX_FOBJ_SIZE
      PROVE  SpaceInv'
  BY <1>1 DEF Enter, Goto, Locals, SpaceInv, Src
<1>2. ASSUME NEW id \in Ids, NEW p \in PayloadsOf[id], WriteCfg(id, p.size, p.val)
      PROVE  SpaceInv'
  <2> DEFINE o == [kind |-> "write", id |-> id, size |-> p.size, val |-> p.val]
  <2>1. SizeGiven(o.id, o.size) /\ o.size <= MAX_FOBJ_SIZE
    BY <1>2 DEF SizeGiven, WriteCfg
  <2> QED BY <1>1, <1>2, <2>1 DEF WriteCfg
<1>3. ASSUME NEW id \in Ids, NEW maxsize \in ReadSizes, ReadCfg(id, maxsize)
      PROVE  SpaceInv'
  <2> DEFINE o == [kind |-> "read", id |-> id, maxsize |-> maxsize]
  <2>1. o \notin Writes
    BY DEF Writes
  <2> QED BY <1>1, <1>3, <2>1 DEF ReadCfg
<1>4. ASSUME EraseAllCfg PROVE SpaceInv'
  <2>1. [kind |-> "erase"] \notin Writes
    BY DEF Writes
  <2> QED BY <1>1, <1>4, <2>1 DEF EraseAllCfg
<1>5. ASSUME Refuse PROVE SpaceInv'
  BY <1>5, ReturnSpace DEF Refuse, SpaceInv
<1> QED BY <1>2, <1>3, <1>4, <1>5 DEF Call

LEMMA AccessSpace ==
  ASSUME TypeInv, SpaceInv,
         \/ FoundCurrent \/ EraseFirst \/ MarkFirst \/ Read
         \/ WriteIdentical \/ FindRoom \/ WriteObj \/ WriteId
         \/ WriteAfterPack \/ Overflow \/ EraseSector0 \/ EraseSector1
  PROVE  SpaceInv'
<1> USE DEF Goto
<1>1. /\ \A s \in Sectors : LogOK(sector[s].log)
      /\ LogOK(Src) /\ LogOK(Erased.log)
  BY SectorFacts, ErasedOK DEF SpaceInv, Src
<1>2. CASE FoundCurrent
  BY <1>2 DEF FoundCurrent, AfterBscfg, SpaceInv
<1>3. CASE EraseFirst
  <2>1. \A s \in Sectors : LogOK(sector'[s].log)
    BY <1>1, <1>3, SectorFacts DEF EraseFirst
  <2> QED BY <1>3, <2>1 DEF EraseFirst, SpaceInv
<1>4. CASE MarkFirst
  <2>1. \A s \in Sectors : LogOK(sector'[s].log)
    BY <1>1, <1>4, SectorFacts DEF MarkFirst
  <2> QED BY <1>4, <2>1 DEF MarkFirst, AfterBscfg, Locals, SpaceInv
<1>5. CASE Read
  BY <1>1, <1>5, ReturnSpace DEF Read
<1>6. CASE WriteIdentical
  BY <1>1, <1>6, ReturnSpace DEF WriteIdentical
<1>7. CASE FindRoom
  <2>1. Src' = Src /\ sector' = sector /\ op' = op
    BY <1>7 DEF FindRoom, Src
  <2>2. wraddr' = FreeAddr(Src') /\ pc' \in {"write", "pack_erase"}
    BY <1>7, <2>1 DEF FindRoom, Src
  <2>3. pc' = "write" => Fits(wraddr')
    BY <1>7 DEF FindRoom
  <2>4. pc' = "write" => Fits(wraddr)'
    BY <2>1, <2>3 DEF Fits
  <2> QED BY <1>1, <2>1, <2>2, <2>4 DEF SpaceInv
<1>8. CASE WriteObj
  <2>1. /\ op.size \in Nat /\ op.val \in Vals \cup {NoVal}
        /\ wraddr = FreeAddr(Src) /\ FreeAddr(Src) + HEAD + op.size < SECTOR_SIZE
        /\ op.size <= MAX_FOBJ_SIZE
    <3>1. op.size \in Nat /\ op.val \in Vals /\ op.size <= MAX_FOBJ_SIZE
      BY <1>8, WriteFields DEF WriteObj, TypeInv, CallMatches, SpaceInv
    <3>2. wraddr = FreeAddr(Src) /\ Fits(wraddr)
      BY <1>8 DEF WriteObj, SpaceInv
    <3>3. wraddr \in Nat /\ SECTOR_SIZE \in Nat
      BY SectorFacts, FlashAssumption
    <3>4. wraddr + HEAD + op.size < SECTOR_SIZE
      BY <3>1, <3>2, <3>3 DEF Fits, HEAD
    <3> QED BY <3>1, <3>2, <3>4
  <2> DEFINE new == Program(Src, FreeAddr(Src), op.size, op.val)
  <2>2. LogOK(new) /\ Unfinished(new, op.size)
    BY <1>1, <2>1, ProgramOK, SectorFacts
  <2> HIDE DEF new
  <2>3. sector' = [sector EXCEPT ![saddr].log = new]
    BY <1>8, <2>1 DEF WriteObj, Src, new
  <2>4. (\A s \in Sectors : LogOK(sector'[s].log)) /\ Src' = new
    BY <1>1, <1>8, <2>2, <2>3, SectorFacts DEF Src, WriteObj, Locals
  <2> QED BY <1>8, <2>2, <2>4 DEF WriteObj, Locals, SpaceInv
<1>9. CASE WriteId
  <2>1. op.id \in Ids /\ Unfinished(Src, op.size) /\ SizeGiven(op.id, op.size)
    BY <1>9, WriteFields DEF WriteId, TypeInv, CallMatches, SpaceInv
  <2>2. LogOK(ProgramId(Src, op.id))
    BY <1>1, <2>1, ProgramIdOK, SectorFacts
  <2>3. sector' = [sector EXCEPT ![saddr].log = ProgramId(Src, op.id)]
    BY <1>9 DEF WriteId, Src
  <2>4. \A s \in Sectors : LogOK(sector'[s].log)
    BY <1>1, <2>2, <2>3, SectorFacts
  <2> QED BY <1>9, <2>4, ReturnSpace DEF WriteId
<1>10. CASE WriteAfterPack
  BY <1>10 DEF WriteAfterPack, Locals, SpaceInv, Src, Fits
<1>11. CASE Overflow
  BY <1>1, <1>11, ReturnSpace DEF Overflow
<1>12. CASE EraseSector0
  <2>1. \A s \in Sectors : LogOK(sector'[s].log)
    BY <1>1, <1>12, SectorFacts DEF EraseSector0
  <2> QED BY <1>12, <2>1 DEF EraseSector0, Locals, SpaceInv
<1>13. CASE EraseSector1
  <2>1. \A s \in Sectors : LogOK(sector'[s].log)
    BY <1>1, <1>13, SectorFacts DEF EraseSector1
  <2> QED BY <1>13, <2>1, ReturnSpace DEF EraseSector1
<1> QED
  BY <1>2, <1>3, <1>4, <1>5, <1>6, <1>7, <1>8, <1>9, <1>10, <1>11, <1>12, <1>13

\* The point of the argument: with one size per id, the copy pack_eep_fmem makes of
\* the newest object takes exactly the room of the older one it has just read.
LEMMA CopyIsAsLarge ==
  ASSUME OneSizePerId, TypeInv, SpaceInv, rd \in 1..Len(Src), IsObject(Src[rd]),
         Newest.size # 0
  PROVE  /\ Newest.size = Src[rd].size
         /\ SizeGiven(Src[rd].id, Newest.size)
         /\ EndOf(Src, rd) = EndOf(Src, rd - 1) + HEAD + Newest.size
         /\ EndOf(Src, rd) < SECTOR_SIZE
         /\ EndOf(Src, rd - 1) \in Nat /\ EndOf(Src, rd) \in Nat
<1> DEFINE k == LastIdx(Src, Src[rd].id)
<1>1. /\ Src[rd].id \in Ids /\ k \in 1..Len(Src) /\ Newest = Src[k]
      /\ Newest.id = Src[rd].id
  BY NewestIsRecord DEF TypeInv, Newest
<1> HIDE DEF k
<1>2. LogOK(Src)
  BY SectorFacts DEF SpaceInv, Src
<1>3. /\ SizeGiven(Src[rd].id, Src[rd].size)
      /\ SizeGiven(Src[rd].id, Newest.size)
  BY <1>1, <1>2 DEF LogOK
<1>4. Newest.size = Src[rd].size
  BY <1>1, <1>3 DEF SizeGiven, OneSizePerId, IsObject
<1>5. Src[rd].at = EndOf(Src, rd - 1)
  BY <1>2, LenProperties, SectorFacts DEF LogOK, Contiguous
<1>6. EndOf(Src, rd) = Src[rd].at + HEAD + Src[rd].size
  <2>1. Src[rd] \in Records /\ Src[rd].size <= MAX_FOBJ_SIZE
    BY SectorFacts, ElementOfSeq, FlashAssumption DEF IsObject
  <2>2. Width(Src[rd]) = HEAD + Src[rd].size
    BY <2>1, WidthIsRoom
  <2>3. EndOf(Src, rd) = Src[rd].at + Width(Src[rd])
    BY SectorFacts, EndsAreAddresses
  <2>4. Src[rd].at \in Nat /\ Src[rd].size \in Nat
    BY SectorFacts
  <2> QED BY <2>2, <2>3, <2>4 DEF HEAD
<1>7. EndOf(Src, rd) < SECTOR_SIZE
  BY <1>2, LenProperties, SectorFacts DEF LogOK, EndsInside, IsObject
<1>8. Src[rd].at \in Nat /\ EndOf(Src, rd) \in Nat
  <2>1. rd \in 0..Len(Src)
    BY SectorFacts
  <2> QED BY <2>1, SectorFacts, EndsAreAddresses
<1> QED BY <1>3, <1>4, <1>5, <1>6, <1>7, <1>8

\* Stepping over a record that is no object leads to a record behind it, or to the end:
\* to the next one if the size of the record can be.
LEMMA SkipAdvances ==
  ASSUME NEW log \in Seq(Records), LogOK(log), NEW i \in 1..Len(log),
         NEW j \in Resumed(log, SkippedTo(log[i]))
  PROVE  /\ j \in (i + 1)..(Len(log) + 1)
         /\ log[i].size <= MAX_FOBJ_SIZE => j = i + 1
<1> DEFINE n == Len(log)
           a == SkippedTo(log[i])
<1>1. n \in Nat /\ i \in Nat /\ DOMAIN log = 1..n
  BY LenProperties
<1>2. /\ \A k \in 0..n : EndOf(log, k) \in Nat
      /\ \A k \in 1..n : /\ log[k].at \in Nat
                         /\ EndOf(log, k) = log[k].at + Width(log[k])
                         /\ Width(log[k]) \in Nat /\ Width(log[k]) >= HEAD
  BY EndsAreAddresses
<1>3. \A k \in 1..n : log[k].at = EndOf(log, k - 1)
  BY <1>1 DEF LogOK, Contiguous
<1>4. \A k, m \in 0..n : k <= m => EndOf(log, k) <= EndOf(log, m)
  BY DEF LogOK
<1>5. log[i].size \in Nat /\ log[i].at \in Nat /\ MAX_FOBJ_SIZE \in Nat
  <2>1. log[i] \in Records
    BY ElementOfSeq
  <2> QED BY <2>1, FlashAssumption DEF Records
<1>6. /\ a \in Nat /\ a > log[i].at
      /\ log[i].size <= MAX_FOBJ_SIZE => a = EndOf(log, i)
  <2>1. a \in Nat /\ a > log[i].at
    BY <1>5 DEF SkippedTo, HEAD
  <2>2. ASSUME log[i].size <= MAX_FOBJ_SIZE PROVE a = EndOf(log, i)
    BY <1>2, <1>5, <2>2 DEF SkippedTo, Width, HEAD
  <2> QED BY <2>1, <2>2
<1>7. /\ j = n + 1 \/ (j \in 1..n /\ log[j].at >= a)
      /\ \A k \in 1..n : log[k].at = a => j \in 1..n /\ log[j].at = a
  <2> DEFINE here == {k \in 1..n : log[k].at = a}
  <2>1. j \in IF here # {} THEN here ELSE {k \in 1..n : log[k].at > a} \cup {n + 1}
    BY DEF Resumed
  <2>2. \A k \in 1..n : log[k].at \in Nat
    BY <1>2
  <2> HIDE DEF a, n
  <2>3. CASE here # {}
    BY <1>6, <2>1, <2>2, <2>3
  <2>4. CASE here = {}
    <3>1. j \in {k \in 1..n : log[k].at > a} \cup {n + 1}
      BY <2>1, <2>4
    <3>2. \A k \in 1..n : log[k].at # a
      BY <2>4
    <3> HIDE DEF here
    <3> QED BY <1>6, <2>2, <3>1, <3>2
  <2> QED BY <2>3, <2>4
<1> HIDE DEF n, a
\* Records further on are at higher addresses.
<1>8. ASSUME NEW k \in 1..n, NEW m \in 1..n, k < m
      PROVE  log[k].at + HEAD <= log[m].at
  <2>1. k \in 0..n /\ m - 1 \in 0..n /\ k <= m - 1
    BY <1>1, <1>8
  <2>2. EndOf(log, k) <= EndOf(log, m - 1)
    BY <1>4, <2>1
  <2>3. EndOf(log, k) = log[k].at + Width(log[k]) /\ log[m].at = EndOf(log, m - 1)
    BY <1>2, <1>3, <1>8
  <2>4. /\ log[k].at \in Nat /\ log[m].at \in Nat
        /\ Width(log[k]) \in Nat /\ Width(log[k]) >= HEAD
    BY <1>2, <1>8
  <2> QED BY <2>2, <2>3, <2>4 DEF HEAD
<1>9. j \in (i + 1)..(n + 1)
  <2>1. CASE j = n + 1
    BY <1>1, <2>1 DEF n
  <2>2. CASE j \in 1..n /\ log[j].at >= a
    <3>1. ~ (j < i)
      <4>1. j < i => log[j].at + HEAD <= log[i].at
        BY <1>8, <2>2 DEF n
      <4> QED BY <1>2, <1>5, <1>6, <2>2, <4>1 DEF HEAD
    <3>2. j # i
      BY <1>5, <1>6, <2>2
    <3> QED BY <1>1, <2>2, <3>1, <3>2
  <2> QED BY <1>7, <2>1, <2>2
<1>10. ASSUME log[i].size <= MAX_FOBJ_SIZE PROVE j = i + 1
  <2>1. a = EndOf(log, i)
    BY <1>6, <1>10
  <2>2. CASE i + 1 \in 1..n
    <3>1. log[i + 1].at = a
      BY <1>1, <1>3, <2>1, <2>2
    <3>2. j \in 1..n /\ log[j].at = a
      BY <1>7, <2>2, <3>1
    <3>3. i + 1 < j => log[i + 1].at + HEAD <= log[j].at
      BY <1>8, <2>2, <3>2
    <3>4. ~ (i + 1 < j)
      BY <1>6, <3>1, <3>2, <3>3 DEF HEAD
    <3> QED BY <1>1, <1>9, <3>2, <3>4
  <2>3. CASE i + 1 \notin 1..n
    BY <1>1, <1>9, <2>3 DEF n
  <2> QED BY <2>2, <2>3
<1> QED BY <1>9, <1>10 DEF n

\* Where a walk of n records is, before and after it goes on.
LEMMA FurtherOn ==
  ASSUME NEW n \in Nat, NEW i \in 1..n, NEW j \in (i + 1)..(n + 1)
  PROVE  i - 1 \in 0..n /\ j - 1 \in 0..n /\ i - 1 <= j - 1 /\ j <= n + 1
OBVIOUS

LEMMA PackSpace ==
  ASSUME OneSizePerId, TypeInv, SpaceInv, Pack PROVE SpaceInv'
<1> USE DEF Goto
<1>1. /\ \A s \in Sectors : LogOK(sector[s].log)
      /\ LogOK(Src) /\ LogOK(DstLog)
      /\ LogOK(Erased.log) /\ FreeAddr(Erased.log) = HEAD
  BY SectorFacts, ErasedOK DEF SpaceInv, Src, DstLog
\* One record further, or more, without a copy.
<1>2. ASSUME pc = "pack", rd <= Len(Src), rd' \in (rd + 1)..(Len(Src) + 1),
             UNCHANGED <<sector, pc, op, ret, saddr, wraddr>>
      PROVE  SpaceInv'
  <2>1. /\ rd \in 1..Len(Src)
        /\ wraddr = FreeAddr(DstLog) /\ wraddr <= EndOf(Src, rd - 1)
    BY <1>2, SectorFacts DEF SpaceInv, TypeInv, AtRecord
  <2>2. wraddr <= EndOf(Src, rd' - 1) /\ rd' <= Len(Src) + 1
    <3>1. /\ rd - 1 \in 0..Len(Src) /\ rd' - 1 \in 0..Len(Src) /\ rd - 1 <= rd' - 1
          /\ rd' <= Len(Src) + 1
      <4>1. Len(Src) \in Nat
        BY SectorFacts
      <4> QED BY <1>2, <2>1, <4>1, FurtherOn
    <3>2. EndOf(Src, rd - 1) <= EndOf(Src, rd' - 1)
      BY <1>1, <3>1 DEF LogOK
    <3>3. EndOf(Src, rd - 1) \in Nat /\ EndOf(Src, rd' - 1) \in Nat /\ wraddr \in Nat
      BY <3>1, SectorFacts, EndsAreAddresses
    <3> QED BY <2>1, <3>1, <3>2, <3>3
  <2>3. Src' = Src /\ DstLog' = DstLog
    BY <1>2 DEF Src, DstLog, Dst
  <2> QED BY <1>1, <1>2, <2>1, <2>2, <2>3 DEF SpaceInv
\* PackStep is such a step.
<1>12. ASSUME PackStep, UNCHANGED <<sector, pc, op, ret, saddr, wraddr>>
       PROVE  SpaceInv'
  <2>1. rd' \in (rd + 1)..(Len(Src) + 1)
    BY <1>12, SectorFacts DEF PackStep
  <2> QED BY <1>2, <1>12, <2>1 DEF PackStep
<1>3. CASE PackErase
  <2>1. sector' = [sector EXCEPT ![Dst] = Erased] /\ saddr' = saddr
    BY <1>3 DEF PackErase
  <2>2. /\ \A s \in Sectors : LogOK(sector'[s].log)
        /\ DstLog' = Erased.log /\ Src' = Src
    BY <1>1, <2>1, SectorFacts DEF DstLog, Src, Dst
  <2>3. wraddr' = HEAD /\ rd' = 1 /\ pc' = "pack" /\ op' = op
    BY <1>3 DEF PackErase
  <2>4. rd' <= Len(Src) + 1 /\ wraddr' <= EndOf(Src, rd' - 1)
    BY <2>3, SectorFacts DEF EndOf, HEAD
  <2> QED BY <1>1, <2>2, <2>3, <2>4 DEF SpaceInv
<1>4. CASE PackSkip
  <2>1. rd \in 1..Len(Src)
    BY <1>4, SectorFacts DEF PackSkip, TypeInv, AtRecord
  <2>2. rd' \in (rd + 1)..(Len(Src) + 1)
    BY <1>1, <1>4, <2>1, SkipAdvances, SectorFacts DEF PackSkip
  <2> QED BY <1>2, <1>4, <2>2 DEF PackSkip
<1>5. CASE PackCopied
  BY <1>5, <1>12 DEF PackCopied
<1>6. CASE PackDeleted
  BY <1>6, <1>12 DEF PackDeleted
<1>7. CASE PackCopy
  <2>1. /\ rd \in 1..Len(Src) /\ IsObject(Src[rd]) /\ Newest.size # 0
        /\ wraddr = FreeAddr(DstLog) /\ wraddr <= EndOf(Src, rd - 1)
    BY <1>7, SectorFacts DEF PackCopy, NotCopied, SpaceInv, TypeInv, AtRecord
  <2>2. /\ Newest.size \in Nat /\ Newest.val \in Vals \cup {NoVal}
        /\ Newest.size <= MAX_FOBJ_SIZE
    BY <2>1, NewestIsRecord DEF TypeInv, Records
  <2>3. /\ SizeGiven(Src[rd].id, Newest.size)
        /\ EndOf(Src, rd) = EndOf(Src, rd - 1) + HEAD + Newest.size
        /\ EndOf(Src, rd) < SECTOR_SIZE
        /\ EndOf(Src, rd - 1) \in Nat
    BY <2>1, CopyIsAsLarge
  <2>4. /\ wraddr + HEAD + Newest.size <= EndOf(Src, rd)
        /\ wraddr + HEAD + Newest.size < SECTOR_SIZE
    <3>1. wraddr \in Nat /\ SECTOR_SIZE \in Nat
      BY SectorFacts, FlashAssumption
    <3> QED BY <2>1, <2>2, <2>3, <3>1 DEF HEAD
  <2> DEFINE new == Program(DstLog, wraddr, Newest.size, Newest.val)
  <2>5. /\ LogOK(new) /\ Unfinished(new, Newest.size)
        /\ FreeAddr(new) = wraddr + HEAD + Newest.size
    BY <1>1, <2>1, <2>2, <2>4, ProgramOK, SectorFacts
  <2> HIDE DEF new
  <2>6. sector' = [sector EXCEPT ![Dst].log = new] /\ saddr' = saddr
    BY <1>7 DEF PackCopy, DstLog, new
  <2>7. /\ \A s \in Sectors : LogOK(sector'[s].log)
        /\ DstLog' = new /\ Src' = Src
    BY <1>1, <2>5, <2>6, SectorFacts DEF DstLog, Src, Dst
  <2>8. pc' = "pack_id" /\ op' = op /\ rd' = rd /\ wraddr' = wraddr
    BY <1>7 DEF PackCopy
  <2>9. Newest' = Newest
    BY <2>7, <2>8 DEF Newest
  <2> QED
    BY <1>1, <2>3, <2>4, <2>5, <2>7, <2>8, <2>9 DEF SpaceInv
<1>8. CASE PackCopyId
  <2>1. /\ rd \in 1..Len(Src) /\ IsObject(Src[rd])
        /\ Unfinished(DstLog, Newest.size)
        /\ FreeAddr(DstLog) = wraddr + HEAD + Newest.size
        /\ FreeAddr(DstLog) <= EndOf(Src, rd)
        /\ SizeGiven(Src[rd].id, Newest.size)
    BY <1>8 DEF PackCopyId, SpaceInv, TypeInv, AtRecord
  <2>2. Src[rd].id \in Ids
    BY <2>1, NewestIsRecord DEF TypeInv
  <2> DEFINE new == ProgramId(DstLog, Src[rd].id)
  <2>3. LogOK(new) /\ FreeAddr(new) = FreeAddr(DstLog)
    BY <1>1, <2>1, <2>2, ProgramIdOK, SectorFacts
  <2> HIDE DEF new
  <2>4. sector' = [sector EXCEPT ![Dst].log = new] /\ saddr' = saddr
    BY <1>8 DEF PackCopyId, DstLog, new
  <2>5. /\ \A s \in Sectors : LogOK(sector'[s].log)
        /\ DstLog' = new /\ Src' = Src
    BY <1>1, <2>3, <2>4, SectorFacts DEF DstLog, Src, Dst
  <2>6. /\ wraddr' = FreeAddr(DstLog') /\ rd' = rd + 1 /\ op' = op
        /\ pc' \in {"pack", "pack_mark"}
    BY <1>8, <2>1, <2>3, <2>5 DEF PackCopyId
  <2>7. rd' <= Len(Src') + 1 /\ wraddr' <= EndOf(Src', rd' - 1)
    <3>1. rd' - 1 = rd
      BY <2>1, <2>6, SectorFacts
    <3> QED BY <2>1, <2>3, <2>5, <2>6, <3>1, SectorFacts
  <2> QED BY <1>1, <2>5, <2>6, <2>7 DEF SpaceInv
<1>9. CASE PackEnd
  BY <1>9 DEF PackEnd, Locals, SpaceInv, Src, DstLog, Dst
<1>10. CASE PackMark
  <2>1. sector' = [sector EXCEPT ![Dst].head = "current"] /\ saddr' = saddr
    BY <1>10 DEF PackMark, Locals
  <2>2. /\ \A s \in Sectors : LogOK(sector'[s].log)
        /\ DstLog' = DstLog
    BY <1>1, <2>1, SectorFacts DEF DstLog, Dst
  <2> QED BY <1>10, <2>2 DEF PackMark, Locals, SpaceInv
<1>11. CASE PackClose
  <2>1. sector' = [sector EXCEPT ![saddr].head = "closed"] /\ saddr' = Dst
    BY <1>11 DEF PackClose
  <2>2. /\ \A s \in Sectors : LogOK(sector'[s].log)
        /\ Src' = DstLog
    BY <1>1, <2>1, SectorFacts DEF DstLog, Src
  <2> QED BY <1>11, <2>2 DEF PackClose, SpaceInv
<1> QED
  BY <1>3, <1>4, <1>5, <1>6, <1>7, <1>8, <1>9, <1>10, <1>11 DEF Pack, PackLoop

LEMMA SpaceInvNext ==
  ASSUME OneSizePerId, TypeInv, SpaceInv, [Next]_vars PROVE SpaceInv'
<1>1. CASE UNCHANGED vars
  BY <1>1 DEF vars, SpaceInv, Src, DstLog, Dst, Newest, Fits
<1>2. CASE Next
  BY <1>2, CallSpace, AccessSpace, PackSpace, CrashSpace DEF Next, Step
<1> QED BY <1>1, <1>2

\* Flash is programmed only where it is erased and inside the sector, whatever the
\* calls and wherever the power fails, as long as the objects of an id keep one size.
THEOREM SpaceSafe == ASSUME OneSizePerId PROVE Spec => []WritesErasedFlash
<1>1. SpaceInv => WritesErasedFlash
  BY DEF SpaceInv, LogOK, Unfinished, WritesErasedFlash, DstLog
<1>2. TypeInv /\ SpaceInv /\ [Next]_vars => SpaceInv'
  BY SpaceInvNext
<1> QED
  BY <1>1, <1>2, SpaceInvInit, TypeInvInit, TypeInvNext, PTL DEF Spec

\* A repacked sector is never fuller than what was read of the old one.
THEOREM PackFits == ASSUME OneSizePerId PROVE Spec => []PackNeverGrows
<1>1. SpaceInv => PackNeverGrows
  BY DEF SpaceInv, PackNeverGrows, DstLog
<1>2. TypeInv /\ SpaceInv /\ [Next]_vars => SpaceInv'
  BY SpaceInvNext
<1> QED
  BY <1>1, <1>2, SpaceInvInit, TypeInvInit, TypeInvNext, PTL DEF Spec
---------------------------------------------------------------------------
(* FlashEep implements EepStore: however calls, repacking and power        *)
(* failures interleave, the objects change as one map, one call at a time. *)
---------------------------------------------------------------------------
(* What a reader of a log finds *)

Absent == [size |-> 0, val |-> NoVal]

\* A record of an id is what get_addr_idobj finds if there is none of it behind.
LEMMA LastIdxIs ==
  ASSUME NEW log \in Seq(Records), NEW id, NEW i \in 1..Len(log), OfId(log[i], id),
         \A j \in 1..Len(log) : OfId(log[j], id) => j <= i
  PROVE  LastIdx(log, id) = i
<1> DEFINE k == LastIdx(log, id)
<1>1. k \in 0..Len(log) /\ Len(log) \in Nat
  BY LastIdxFinds, LenProperties
<1>2. k # 0
  BY LastIdxFinds
<1>3. OfId(log[k], id) /\ i <= k
  BY <1>1, <1>2, LastIdxFinds
<1> HIDE DEF k
<1>4. k <= i
  BY <1>1, <1>2, <1>3
<1> QED BY <1>1, <1>3, <1>4 DEF k

\* The object is the one of the last record, or absent.
LEMMA ObjectOfLast ==
  ASSUME NEW log \in Seq(Records), NEW id, NEW i \in 1..Len(log), OfId(log[i], id),
         \A j \in 1..Len(log) : OfId(log[j], id) => j <= i
  PROVE  ObjectIn(log, id) = IF log[i].size = 0 THEN Absent
                             ELSE [size |-> log[i].size, val |-> log[i].val]
<1>1. LastIdx(log, id) = i /\ i # 0
  BY LastIdxIs
<1> QED BY <1>1 DEF ObjectIn, Absent

LEMMA NoObject ==
  ASSUME NEW log \in Seq(Records), NEW id,
         \A j \in 1..Len(log) : OfId(log[j], id) => log[j].size = 0
  PROVE  ObjectIn(log, id) = Absent
<1>1. LastIdx(log, id) \in 0..Len(log)
  BY LastIdxFinds
<1>2. CASE LastIdx(log, id) = 0
  BY <1>2 DEF ObjectIn, Absent
<1>3. CASE LastIdx(log, id) # 0
  <2>1. OfId(log[LastIdx(log, id)], id)
    BY <1>3, LastIdxFinds
  <2>2. log[LastIdx(log, id)].size = 0
    BY <1>1, <1>3, <2>1, LenProperties
  <2> QED BY <2>2 DEF ObjectIn, Absent
<1> QED BY <1>2, <1>3

\* Two logs with the same records of an id hold the same object of it.
LEMMA SameObject ==
  ASSUME NEW log \in Seq(Records), NEW new \in Seq(Records), NEW id,
         Len(new) >= Len(log),
         \A i \in 1..Len(log) : OfId(new[i], id) <=> OfId(log[i], id),
         \A i \in 1..Len(log) : OfId(log[i], id) => new[i] = log[i],
         \A i \in 1..Len(new) : i > Len(log) => ~ OfId(new[i], id)
  PROVE  ObjectIn(new, id) = ObjectIn(log, id)
<1> DEFINE k == LastIdx(log, id)
<1>1. k \in 0..Len(log) /\ Len(log) \in Nat /\ Len(new) \in Nat
  BY LastIdxFinds, LenProperties
<1>2. CASE k = 0
  <2>1. \A i \in 1..Len(log) : ~ OfId(log[i], id)
    BY <1>2, LastIdxFinds
  <2>2. \A i \in 1..Len(new) : ~ OfId(new[i], id)
    BY <1>1, <2>1
  <2> QED BY <2>1, <2>2, NoObject
<1>3. CASE k # 0
  <2>1. /\ k \in 1..Len(log) /\ OfId(log[k], id)
        /\ \A i \in 1..Len(log) : OfId(log[i], id) => i <= k
    BY <1>1, <1>3, LastIdxFinds
  <2> HIDE DEF k
  <2>2. /\ k \in 1..Len(new) /\ new[k] = log[k] /\ OfId(new[k], id)
        /\ \A i \in 1..Len(new) : OfId(new[i], id) => i <= k
    BY <1>1, <2>1
  <2>3. ObjectIn(log, id) = IF log[k].size = 0 THEN Absent
                            ELSE [size |-> log[k].size, val |-> log[k].val]
    BY <2>1, ObjectOfLast
  <2>4. ObjectIn(new, id) = IF new[k].size = 0 THEN Absent
                            ELSE [size |-> new[k].size, val |-> new[k].val]
    BY <2>2, ObjectOfLast
  <2> QED BY <2>2, <2>3, <2>4
<1> QED BY <1>2, <1>3

LEMMA ErasedObjects == \A id : ObjectIn(Erased.log, id) = Absent
<1>1. Erased.log = <<>> /\ Erased.log \in Seq(Records) /\ Len(Erased.log) = 0
  BY EmptySeq DEF Erased
<1>2. 1..0 = {}
  OBVIOUS
<1> QED BY <1>1, <1>2, NoObject

\* The record the first program of an object appends.
LEMMA ProgramRecord ==
  ASSUME NEW log \in Seq(Records), NEW addr \in Nat, NEW size \in Nat,
         NEW v \in Vals \cup {NoVal}
  PROVE  \E r \in Records :
           /\ Program(log, addr, size, v) = Append(log, r)
           /\ r.id = NoId /\ r.size = size
           /\ r.val = IF size = 0 THEN NoVal ELSE v
<1> DEFINE r == [at |-> addr, id |-> NoId, size |-> size,
                 val |-> IF size = 0 THEN NoVal ELSE v]
<1>1. r \in Records
  BY DEF Records
<1>2. r.id = NoId /\ r.size = size /\ r.val = IF size = 0 THEN NoVal ELSE v
  OBVIOUS
<1>3. Program(log, addr, size, v) = Append(log, r)
  BY DEF Program
<1> QED BY <1>1, <1>2, <1>3

\* Until it gets its id, a record is no object of any id.
LEMMA ProgramObjects ==
  ASSUME NEW log \in Seq(Records), NEW addr \in Nat, NEW size \in Nat,
         NEW v \in Vals \cup {NoVal}, NEW id \in Ids
  PROVE  ObjectIn(Program(log, addr, size, v), id) = ObjectIn(log, id)
<1>1. PICK r \in Records : Program(log, addr, size, v) = Append(log, r) /\ r.id = NoId
  BY ProgramRecord
<1> DEFINE new == Append(log, r)
<1>2. /\ new \in Seq(Records) /\ Len(new) = Len(log) + 1
      /\ \A i \in 1..Len(log) : new[i] = log[i]
      /\ new[Len(log) + 1] = r
  BY <1>1, AppendProperties
<1>3. NoId # id /\ Len(log) \in Nat
  BY FlashAssumption, LenProperties DEF NoId
<1> HIDE DEF new
<1>4. \A i \in 1..Len(new) : i > Len(log) => ~ OfId(new[i], id)
  BY <1>1, <1>2, <1>3 DEF OfId
<1>5. ObjectIn(new, id) = ObjectIn(log, id)
  BY <1>2, <1>3, <1>4, SameObject
<1> QED BY <1>1, <1>5 DEF new

\* A torn record has no id.
LEMMA TearObjects ==
  ASSUME NEW log \in Seq(Records), Len(log) > 0, log[Len(log)].id = NoId,
         NEW new \in Tear(log), NEW id \in Ids
  PROVE  ObjectIn(new, id) = ObjectIn(log, id)
<1>1. /\ new \in Seq(Records) /\ Len(new) = Len(log)
      /\ \A i \in 1..Len(log) : new[i].id = log[i].id
      /\ \A i \in 1..Len(log) : i # Len(log) => new[i] = log[i]
  BY TearChangesLast
<1>2. NoId # id /\ Len(log) \in Nat
  BY FlashAssumption, LenProperties DEF NoId
<1>3. /\ \A i \in 1..Len(log) : OfId(new[i], id) <=> OfId(log[i], id)
      /\ \A i \in 1..Len(log) : OfId(log[i], id) => new[i] = log[i]
      /\ \A i \in 1..Len(new) : i > Len(log) => ~ OfId(new[i], id)
  BY <1>1, <1>2 DEF OfId
<1> QED BY <1>1, <1>2, <1>3, SameObject

\* Programming the id is the step that changes an object, and no other one.
LEMMA ProgramIdObjects ==
  ASSUME NEW log \in Seq(Records), Len(log) > 0, log[Len(log)].id = NoId,
         log[Len(log)].size <= MAX_FOBJ_SIZE, NEW k \in Ids, NEW id \in Ids
  PROVE  ObjectIn(ProgramId(log, k), id) =
           IF id # k THEN ObjectIn(log, id)
           ELSE IF log[Len(log)].size = 0 THEN Absent
           ELSE [size |-> log[Len(log)].size, val |-> log[Len(log)].val]
<1> DEFINE new == ProgramId(log, k)
           n == Len(log)
<1>1. /\ new \in Seq(Records) /\ Len(new) = n
      /\ \A i \in 1..n : i # n => new[i] = log[i]
      /\ new[n].id = k
  BY ProgramIdChangesLast
<1>2. n \in Nat /\ n \in 1..n
  BY LenProperties
<1>6. NoId # id
  BY FlashAssumption DEF NoId
<1>3. new[n].size = log[n].size /\ new[n].val = log[n].val
  BY <1>2, ProgramIdChangesLast
<1> HIDE DEF new
<1>4. CASE id # k
  <2>1. /\ \A i \in 1..n : OfId(new[i], id) <=> OfId(log[i], id)
        /\ \A i \in 1..n : OfId(log[i], id) => new[i] = log[i]
        /\ \A i \in 1..n : ~ (i > n)
    BY <1>1, <1>2, <1>4, <1>6 DEF OfId
  <2>2. ObjectIn(new, id) = ObjectIn(log, id)
    BY <1>1, <1>2, <2>1, SameObject
  <2> QED BY <1>4, <2>2 DEF new
<1>5. CASE id = k
  <2>1. ObjectIn(new, id) = IF new[n].size = 0 THEN Absent
                            ELSE [size |-> new[n].size, val |-> new[n].val]
    BY <1>1, <1>2, <1>3, <1>5, ObjectOfLast DEF OfId
  <2> QED BY <1>3, <1>5, <2>1 DEF new
<1> QED BY <1>4, <1>5

---------------------------------------------------------------------------
(* The inductive invariant *)

\* Where a call is, the store has nothing else to answer.
CallInv ==
  /\ pc = "idle" => op = NoOp
  /\ pc \in {"erase0", "erase1"} => op \in Erases

\* The sector the call works on is the one a reader would find.
ChosenInv ==
  /\ pc \in {"read", "lookup", "pack_erase", "write", "write_id", "packed"} =>
       CurrentSectors # {} /\ saddr = Max(CurrentSectors)
  /\ pc \in {"pack", "pack_id", "pack_mark"} => CurrentSectors = {saddr}
  /\ pc = "pack_close" => CurrentSectors = Sectors
  /\ pc = "bs_mark" => saddr = 0 /\ CurrentSectors = {} /\ sector[0] = Erased
  /\ pc = "erase1" => sector[0] = Erased

AllObjects(log) == \A i \in 1..Len(log) : IsObject(log[i])

\* Some object of this id lies among the records of the source that were walked over.
Walked(id) == \E i \in 1..(rd - 1) : IsObject(Src[i]) /\ Src[i].id = id

\* A record of the source has a torn size, which may carry the walk over others.
TornSrc == \E i \in 1..Len(Src) : Src[i].size > MAX_FOBJ_SIZE

\* The new sector has the object of the source, or none yet.
CopyOrNone(id) == ObjectIn(DstLog, id) \in {ObjectIn(Src, id), Absent}

\* What pack_eep_fmem has copied: the newest object of every id it has met, unless a
\* torn size has carried it over some.
CopyInv ==
  /\ pc \in {"pack", "pack_id"} =>
       \A id \in Ids :
         /\ CopyOrNone(id)
         /\ TornSrc \/ (Walked(id) => ObjectIn(DstLog, id) = ObjectIn(Src, id))
  /\ pc = "pack" => (\A id \in flags : Walked(id)) /\ AllObjects(DstLog)
  /\ pc = "pack_id" =>
       /\ \A id \in flags : Walked(id) \/ id = Src[rd].id
       /\ Newest.size # 0
       /\ DstLog[Len(DstLog)].id = NoId
       /\ DstLog[Len(DstLog)].val = Newest.val
       /\ \A i \in 1..Len(DstLog) : i # Len(DstLog) => IsObject(DstLog[i])
  /\ pc \in {"pack_mark", "pack_close"} =>
       /\ \A id \in Ids :
            CopyOrNone(id) /\ (TornSrc \/ ObjectIn(DstLog, id) = ObjectIn(Src, id))
       /\ AllObjects(DstLog)

\* What flash_write_cfg has found out before it looks for room, and has done since.
WriteInv ==
  /\ pc \in {"pack_erase", "pack", "pack_id", "pack_mark", "pack_close", "packed"} /\ op.size # 0 =>
       ObjectIn(Src, op.id) # [size |-> op.size, val |-> op.val]
  /\ pc = "packed" => AllObjects(Src)
  /\ pc = "write_id" =>
       /\ Src[Len(Src)].id = NoId
       /\ Src[Len(Src)].val = IF op.size = 0 THEN NoVal ELSE op.val

\* A record without data holds none.
EmptyOK(log) == \A i \in 1..Len(log) : log[i].size = 0 => log[i].val = NoVal

EmptyInv == \A s \in Sectors : EmptyOK(sector[s].log)

StoreInv == CallInv /\ ChosenInv /\ CopyInv /\ WriteInv /\ EmptyInv

LEMMA ErasedEmpty == EmptyOK(Erased.log)
<1>1. Len(Erased.log) = 0
  BY EmptySeq DEF Erased
<1> QED BY <1>1 DEF EmptyOK

LEMMA ProgramEmpty ==
  ASSUME NEW log \in Seq(Records), EmptyOK(log), NEW addr \in Nat, NEW size \in Nat,
         NEW v \in Vals \cup {NoVal}
  PROVE  EmptyOK(Program(log, addr, size, v))
<1>1. PICK r \in Records :
        /\ Program(log, addr, size, v) = Append(log, r)
        /\ r.size = 0 => r.val = NoVal
  BY ProgramRecord
<1> DEFINE new == Append(log, r)
<1>2. /\ Len(new) = Len(log) + 1
      /\ \A i \in 1..Len(log) : new[i] = log[i]
      /\ new[Len(log) + 1] = r
  BY <1>1, AppendProperties
<1>3. Len(log) \in Nat
  BY LenProperties
<1> HIDE DEF new
<1>4. EmptyOK(new)
  BY <1>1, <1>2, <1>3 DEF EmptyOK
<1> QED BY <1>1, <1>4 DEF new

LEMMA ProgramIdEmpty ==
  ASSUME NEW log \in Seq(Records), EmptyOK(log), NEW id \in Ids
  PROVE  EmptyOK(ProgramId(log, id))
<1> DEFINE new == ProgramId(log, id)
<1>1. /\ Len(new) = Len(log)
      /\ \A i \in 1..Len(log) : new[i].size = log[i].size /\ new[i].val = log[i].val
  BY ProgramIdChangesLast
<1> HIDE DEF new
<1>2. EmptyOK(new)
  BY <1>1 DEF EmptyOK
<1> QED BY <1>2 DEF new

LEMMA TearEmpty ==
  ASSUME NEW log \in Seq(Records), EmptyOK(log), NEW new \in Tear(log)
  PROVE  EmptyOK(new)
<1>1. /\ Len(new) = Len(log)
      /\ \A i \in 1..Len(log) : i # Len(log) => new[i] = log[i]
      /\ Len(log) > 0 => new[Len(log)].val = NoVal
  BY TearChangesLast
<1>2. Len(log) \in Nat
  BY LenProperties
<1> QED BY <1>1, <1>2 DEF EmptyOK

---------------------------------------------------------------------------
(* The sectors a step changes *)

\* get_addr_bscfg keeps the last current sector it meets.
LEMMA LastSector ==
  ASSUME NEW S, S \subseteq Sectors, S # {}
  PROVE  Max(S) \in S /\ Max(S) = IF 1 \in S THEN 1 ELSE 0
<1>1. CASE 1 \in S
  <2>1. \A y \in S : 1 >= y
    BY DEF Sectors
  <2>2. \E x \in S : \A y \in S : x >= y
    BY <1>1, <2>1
  <2>3. Max(S) \in S /\ \A y \in S : Max(S) >= y
    BY <2>2, Zenon DEF Max
  <2>4. Max(S) >= 1 /\ Max(S) \in Sectors
    BY <1>1, <2>3
  <2> QED BY <1>1, <2>4 DEF Sectors
<1>2. CASE 1 \notin S
  <2>1. \A y \in S : y = 0
    BY <1>2 DEF Sectors
  <2>2. S = {0}
    BY <2>1
  <2> QED BY <1>2, <2>2 DEF Max
<1> QED BY <1>1, <1>2

LEMMA CurrentUpdate ==
  ASSUME TypeInv, NEW s \in Sectors, NEW log \in Seq(Records)
  PROVE  /\ sector' = [sector EXCEPT ![s].log = log] => CurrentSectors' = CurrentSectors
         /\ sector' = [sector EXCEPT ![s] = Erased] => CurrentSectors' = CurrentSectors \ {s}
         /\ sector' = [sector EXCEPT ![s].head = "current"]
              => CurrentSectors' = CurrentSectors \cup {s}
         /\ sector' = [sector EXCEPT ![s].head = "closed"]
              => CurrentSectors' = CurrentSectors \ {s}
<1>1. sector \in [Sectors -> [head : Heads, log : Seq(Records)]]
  BY SectorFacts
<1>2. ASSUME sector' = [sector EXCEPT ![s].log = log]
      PROVE  CurrentSectors' = CurrentSectors
  <2>1. \A t \in Sectors : sector'[t].head = sector[t].head
    BY <1>1, <1>2
  <2> QED BY <2>1 DEF CurrentSectors
<1>3. ASSUME sector' = [sector EXCEPT ![s] = Erased]
      PROVE  CurrentSectors' = CurrentSectors \ {s}
  <2>1. \A t \in Sectors : sector'[t] = IF t = s THEN Erased ELSE sector[t]
    BY <1>1, <1>3
  <2> QED BY <2>1 DEF CurrentSectors, Erased
<1>4. ASSUME sector' = [sector EXCEPT ![s].head = "current"]
      PROVE  CurrentSectors' = CurrentSectors \cup {s}
  <2>1. \A t \in Sectors : sector'[t].head = IF t = s THEN "current" ELSE sector[t].head
    BY <1>1, <1>4
  <2> QED BY <2>1 DEF CurrentSectors
<1>5. ASSUME sector' = [sector EXCEPT ![s].head = "closed"]
      PROVE  CurrentSectors' = CurrentSectors \ {s}
  <2>1. \A t \in Sectors : sector'[t].head = IF t = s THEN "closed" ELSE sector[t].head
    BY <1>1, <1>5
  <2> QED BY <2>1 DEF CurrentSectors
<1> QED BY <1>2, <1>3, <1>4, <1>5

LEMMA EmptyUpdate ==
  ASSUME TypeInv, EmptyInv, NEW s \in Sectors, NEW log \in Seq(Records), EmptyOK(log),
         NEW head \in Heads,
         \/ sector' = [sector EXCEPT ![s].log = log]
         \/ sector' = [sector EXCEPT ![s] = Erased]
         \/ sector' = [sector EXCEPT ![s].head = head]
  PROVE  EmptyInv'
<1>1. \A t \in Sectors :
        \/ sector'[t].log = sector[t].log
        \/ sector'[t].log = log
        \/ sector'[t].log = Erased.log
  <2>1. sector \in [Sectors -> [head : Heads, log : Seq(Records)]]
    BY SectorFacts
  <2>2. CASE sector' = [sector EXCEPT ![s].log = log]
    BY <2>1, <2>2
  <2>3. CASE sector' = [sector EXCEPT ![s] = Erased]
    BY <2>1, <2>3
  <2>4. CASE sector' = [sector EXCEPT ![s].head = head]
    BY <2>1, <2>4
  <2> QED BY <2>2, <2>3, <2>4
<1> QED BY <1>1, ErasedEmpty DEF EmptyInv

---------------------------------------------------------------------------
(* The invariant holds initially and is kept by calls, accesses and crashes *)

\* Back in idle, only the records matter.
LEMMA IdleStore ==
  ASSUME pc' = "idle", op' = NoOp, EmptyInv'
  PROVE  StoreInv'
<1>1. op' \notin Writes
  BY DEF NoOp, Writes
<1> QED BY <1>1 DEF StoreInv, CallInv, ChosenInv, CopyInv, WriteInv

LEMMA StoreInvInit == Init => StoreInv
<1> SUFFICES ASSUME Init PROVE StoreInv
  OBVIOUS
<1>1. EmptyInv
  BY ErasedEmpty DEF Init, EmptyInv
<1>2. op \notin Writes
  BY DEF Init, NoOp, Writes
<1> QED BY <1>1, <1>2 DEF Init, StoreInv, CallInv, ChosenInv, CopyInv, WriteInv

LEMMA CallStore == ASSUME TypeInv, StoreInv, Call PROVE StoreInv'
<1>1. EmptyInv
  BY DEF StoreInv
<1>2. ASSUME NEW o, NEW label \in {"bscfg", "erase0"}, Enter(o, label),
             label = "erase0" => o \in Erases
      PROVE  StoreInv'
  <2>1. EmptyInv'
    BY <1>1, <1>2 DEF Enter, EmptyInv
  <2> QED
    BY <1>2, <2>1 DEF Enter, Goto, StoreInv, CallInv, ChosenInv, CopyInv, WriteInv
<1>3. ASSUME NEW id \in Ids, NEW p \in PayloadsOf[id], WriteCfg(id, p.size, p.val)
      PROVE  StoreInv'
  <2> DEFINE o == [kind |-> "write", id |-> id, size |-> p.size, val |-> p.val]
  <2>1. Enter(o, "bscfg")
    BY <1>3 DEF WriteCfg
  <2> HIDE DEF o
  <2> QED BY <1>2, <2>1
<1>4. ASSUME NEW id \in Ids, NEW maxsize \in ReadSizes, ReadCfg(id, maxsize)
      PROVE  StoreInv'
  <2> DEFINE o == [kind |-> "read", id |-> id, maxsize |-> maxsize]
  <2>1. Enter(o, "bscfg")
    BY <1>4 DEF ReadCfg
  <2> HIDE DEF o
  <2> QED BY <1>2, <2>1
<1>5. ASSUME EraseAllCfg PROVE StoreInv'
  <2> DEFINE o == [kind |-> "erase"]
  <2>1. o \in Erases /\ Enter(o, "erase0")
    BY <1>5 DEF Erases, EraseAllCfg
  <2> HIDE DEF o
  <2> QED BY <1>2, <2>1
<1>6. ASSUME Refuse PROVE StoreInv'
  <2>1. EmptyInv'
    BY <1>1, <1>6 DEF Refuse, EmptyInv
  <2> QED BY <1>6, <2>1, IdleStore DEF Refuse, Return, Goto
<1> QED BY <1>3, <1>4, <1>5, <1>6 DEF Call

\* A crash changes the last record of one sector at most, and that one has no id.
LEMMA CrashTears ==
  ASSUME TypeInv, SpaceInv, Crash
  PROVE  \/ sector' = sector
         \/ \E s \in Sectors : \E log \in Tear(sector[s].log) :
              /\ sector' = [sector EXCEPT ![s].log = log]
              /\ Len(sector[s].log) > 0 /\ sector[s].log[Len(sector[s].log)].id = NoId
<1>1. saddr \in Sectors /\ Dst \in Sectors
  BY SectorFacts
<1>2. CASE pc = "write_id"
  BY <1>1, <1>2 DEF Crash, SpaceInv, Unfinished, TornSector, Src
<1>3. CASE pc = "pack_id"
  BY <1>1, <1>3 DEF Crash, SpaceInv, Unfinished, TornSector, DstLog
<1> QED BY <1>2, <1>3 DEF Crash

LEMMA CrashStore == ASSUME TypeInv, SpaceInv, StoreInv, Crash PROVE StoreInv'
<1>1. EmptyInv'
  <2>1. CASE sector' = sector
    BY <2>1 DEF StoreInv, EmptyInv
  <2>2. ASSUME NEW s \in Sectors, NEW log \in Tear(sector[s].log),
               sector' = [sector EXCEPT ![s].log = log]
        PROVE  EmptyInv'
    <3>1. sector[s].log \in Seq(Records) /\ EmptyOK(sector[s].log) /\ EmptyInv
      BY SectorFacts DEF StoreInv, EmptyInv
    <3>2. log \in Seq(Records) /\ EmptyOK(log)
      BY <3>1, TearChangesLast, TearEmpty
    <3> QED BY <2>2, <3>1, <3>2, EmptyUpdate DEF Heads
  <2> QED BY <2>1, <2>2, CrashTears
<1> QED BY <1>1, IdleStore DEF Crash, Goto

LEMMA AccessStore ==
  ASSUME TypeInv, StoreInv,
         \/ FoundCurrent \/ EraseFirst \/ MarkFirst \/ Read
         \/ WriteIdentical \/ FindRoom \/ WriteObj \/ WriteId
         \/ WriteAfterPack \/ Overflow \/ EraseSector0 \/ EraseSector1
  PROVE  StoreInv'
<1> USE DEF Goto
<1>1. /\ saddr \in Sectors /\ 0 \in Sectors /\ 1 \in Sectors
      /\ Src \in Seq(Records) /\ EmptyOK(Src)
      /\ Erased.log \in Seq(Records) /\ EmptyOK(Erased.log)
      /\ "current" \in Heads
      /\ CurrentSectors \subseteq Sectors
      /\ EmptyInv
  BY SectorFacts, ErasedEmpty, EmptySeq
  DEF StoreInv, EmptyInv, Src, Erased, Heads, CurrentSectors
\* A return without a change of flash.
<1>2. ASSUME NEW code, NEW v, Return(code, v), sector' = sector PROVE StoreInv'
  BY <1>1, <1>2, IdleStore DEF Return, EmptyInv
<1>3. CASE FoundCurrent
  <2>1. CurrentSectors' = CurrentSectors /\ EmptyInv'
    BY <1>1, <1>3 DEF FoundCurrent, CurrentSectors, EmptyInv
  <2> QED
    BY <1>3, <2>1
    DEF FoundCurrent, AfterBscfg, StoreInv, CallInv, ChosenInv, CopyInv, WriteInv
<1>4. CASE EraseFirst
  <2>1. sector' = [sector EXCEPT ![0] = Erased] /\ CurrentSectors = {}
    BY <1>4 DEF EraseFirst
  <2>2. CurrentSectors' = {} /\ EmptyInv'
    BY <1>1, <2>1, CurrentUpdate, EmptyUpdate
  <2>3. sector'[0] = Erased
    BY <1>1, <2>1, SectorFacts
  <2> QED
    BY <1>4, <2>2, <2>3
    DEF EraseFirst, StoreInv, CallInv, ChosenInv, CopyInv, WriteInv
<1>5. CASE MarkFirst
  <2>1. /\ sector' = [sector EXCEPT ![saddr].head = "current"]
        /\ saddr = 0 /\ saddr' = saddr /\ CurrentSectors = {}
    BY <1>5 DEF MarkFirst, Locals, StoreInv, ChosenInv
  <2>2. CurrentSectors' = {0} /\ EmptyInv'
    BY <1>1, <2>1, CurrentUpdate, EmptyUpdate
  <2>3. saddr' = Max(CurrentSectors')
    BY <1>1, <2>1, <2>2, LastSector
  <2> QED
    BY <1>5, <2>2, <2>3
    DEF MarkFirst, AfterBscfg, StoreInv, CallInv, ChosenInv, CopyInv, WriteInv
<1>6. CASE Read
  BY <1>2, <1>6 DEF Read
<1>7. CASE WriteIdentical
  BY <1>2, <1>7 DEF WriteIdentical
<1>8. CASE FindRoom
  <2>1. /\ sector' = sector /\ op' = op /\ saddr' = saddr /\ Src' = Src
        /\ CurrentSectors' = CurrentSectors /\ EmptyInv'
    BY <1>1, <1>8 DEF FindRoom, Src, CurrentSectors, EmptyInv
  <2>2. op.size # 0 => ObjectIn(Src, op.id) # [size |-> op.size, val |-> op.val]
    <3>1. ~ AlreadyWritten(Src)
      BY <1>8 DEF FindRoom, Src
    <3> DEFINE i == LastIdx(Src, op.id)
    <3>2. CASE i = 0 \/ Src[i].size = 0
      BY <3>2 DEF ObjectIn
    <3>3. CASE i # 0 /\ Src[i].size # 0
      <4>1. ~ (Src[i].size = op.size /\ Src[i].val = op.val)
        BY <3>1, <3>3 DEF AlreadyWritten, Identical
      <4>2. ObjectIn(Src, op.id) = [size |-> Src[i].size, val |-> Src[i].val]
        BY <3>3 DEF ObjectIn
      <4> QED BY <4>1, <4>2
    <3> QED BY <3>2, <3>3
  <2>3. pc' \in {"write", "pack_erase"}
    BY <1>8 DEF FindRoom
  <2>4. CallInv'
    BY <2>1, <2>3 DEF StoreInv, CallInv
  <2>5. ChosenInv'
    BY <1>8, <2>1, <2>3 DEF FindRoom, StoreInv, ChosenInv
  <2>6. WriteInv'
    BY <2>1, <2>2, <2>3 DEF WriteInv
  <2> QED BY <2>1, <2>3, <2>4, <2>5, <2>6 DEF StoreInv, CopyInv
<1>9. CASE WriteObj
  <2> DEFINE new == Program(Src, wraddr, op.size, op.val)
  <2>1. op.size \in Nat /\ op.val \in Vals \cup {NoVal} /\ wraddr \in Nat
    BY <1>9, WriteFields, SectorFacts DEF WriteObj, TypeInv, CallMatches
  <2>2. PICK r \in Records :
          /\ new = Append(Src, r)
          /\ r.id = NoId /\ r.size = op.size
          /\ r.val = IF op.size = 0 THEN NoVal ELSE op.val
    <3>1. Src \in Seq(Records)
      BY <1>1
    <3> DEFINE size == op.size
               v == op.val
               log == Src
    <3>2. log \in Seq(Records) /\ size \in Nat /\ v \in Vals \cup {NoVal}
      BY <2>1, <3>1
    <3> HIDE DEF size, v, log
    <3>3. \E r \in Records :
            /\ Program(log, wraddr, size, v) = Append(log, r)
            /\ r.id = NoId /\ r.size = size
            /\ r.val = IF size = 0 THEN NoVal ELSE v
      BY <2>1, <3>2, ProgramRecord
    <3> QED BY <3>3 DEF size, v, log
  <2>3. new \in Seq(Records) /\ Len(new) = Len(Src) + 1 /\ new[Len(Src) + 1] = r
    BY <1>1, <2>2, AppendProperties
  <2>4. EmptyOK(new)
    BY <1>1, <2>1, ProgramEmpty
  <2>5. sector' = [sector EXCEPT ![saddr].log = new] /\ saddr' = saddr /\ op' = op
    BY <1>9 DEF WriteObj, Locals, Src
  <2> HIDE DEF new
  <2>6. CurrentSectors' = CurrentSectors /\ EmptyInv'
    BY <1>1, <2>3, <2>4, <2>5, CurrentUpdate, EmptyUpdate
  <2>7. Src' = new
    BY <1>1, <2>5, SectorFacts DEF Src
  <2>8. Src'[Len(Src')] = r
    BY <2>3, <2>7
  <2>9. pc = "write" /\ pc' = "write_id"
    BY <1>9 DEF WriteObj
  <2>10. WriteInv'
    BY <2>2, <2>5, <2>8, <2>9 DEF WriteInv
  <2> QED
    BY <2>5, <2>6, <2>9, <2>10 DEF StoreInv, CallInv, ChosenInv, CopyInv
<1>10. CASE WriteId
  <2>1. op.id \in Ids
    BY <1>10, WriteFields DEF WriteId, TypeInv, CallMatches
  <2>2. ProgramId(Src, op.id) \in Seq(Records) /\ EmptyOK(ProgramId(Src, op.id))
    BY <1>1, <2>1, ProgramIdChangesLast, ProgramIdEmpty
  <2>3. sector' = [sector EXCEPT ![saddr].log = ProgramId(Src, op.id)]
    BY <1>10 DEF WriteId, Src
  <2>4. EmptyInv'
    BY <1>1, <2>2, <2>3, EmptyUpdate
  <2> QED BY <1>10, <2>4, IdleStore DEF WriteId, Return
<1>11. CASE WriteAfterPack
  <2>1. CurrentSectors' = CurrentSectors /\ EmptyInv'
    BY <1>1, <1>11 DEF WriteAfterPack, CurrentSectors, EmptyInv
  <2> QED
    BY <1>11, <2>1
    DEF WriteAfterPack, Locals, StoreInv, CallInv, ChosenInv, CopyInv, WriteInv
<1>12. CASE Overflow
  BY <1>2, <1>12 DEF Overflow
<1>13. CASE EraseSector0
  <2>1. sector' = [sector EXCEPT ![0] = Erased]
    BY <1>13 DEF EraseSector0
  <2>2. EmptyInv' /\ sector'[0] = Erased
    BY <1>1, <2>1, EmptyUpdate, SectorFacts
  <2> QED
    BY <1>13, <2>2
    DEF EraseSector0, StoreInv, CallInv, ChosenInv, CopyInv, WriteInv
<1>14. CASE EraseSector1
  <2>1. sector' = [sector EXCEPT ![1] = Erased]
    BY <1>14 DEF EraseSector1
  <2>2. EmptyInv'
    BY <1>1, <2>1, EmptyUpdate
  <2> QED BY <1>14, <2>2, IdleStore DEF EraseSector1, Return
<1> QED
  BY <1>3, <1>4, <1>5, <1>6, <1>7, <1>8, <1>9, <1>10, <1>11, <1>12, <1>13, <1>14

---------------------------------------------------------------------------
(* pack_eep_fmem keeps the invariant *)

\* check_flag_eep_id clears flags and sets none.
LEMMA MaskClears == \A b, id : MaskFlag(b, id) \subseteq b
BY DEF MaskFlag

\* The walk is further on, by one record or more.
LEMMA LongerWalk ==
  ASSUME NEW n \in Nat, NEW m \in Nat, n >= 1, m >= n + 1
  PROVE  (\A i \in 1..(n - 1) : i \in 1..(m - 1)) /\ n \in 1..(m - 1)
OBVIOUS

LEMMA WalkStep ==
  ASSUME TypeInv, rd \in 1..Len(Src), rd' \in (rd + 1)..(Len(Src) + 1), Src' = Src, NEW id
  PROVE  /\ Walked(id) \/ (IsObject(Src[rd]) /\ Src[rd].id = id) => Walked(id)'
         /\ rd' = rd + 1 /\ Walked(id)'
              => Walked(id) \/ (IsObject(Src[rd]) /\ Src[rd].id = id)
<1>1. rd \in Nat /\ rd' \in Nat /\ Len(Src) \in Nat
  BY SectorFacts
<1>2. Walked(id)' <=> \E i \in 1..(rd' - 1) : IsObject(Src[i]) /\ Src[i].id = id
  BY DEF Walked
<1>3. (\A i \in 1..(rd - 1) : i \in 1..(rd' - 1)) /\ rd \in 1..(rd' - 1)
  <2>1. rd >= 1 /\ rd' >= rd + 1
    BY <1>1
  <2> QED BY <1>1, <2>1, LongerWalk
<1>4. rd' = rd + 1 => \A i \in 1..(rd' - 1) : i \in 1..(rd - 1) \/ i = rd
  BY <1>1
<1> QED BY <1>2, <1>3, <1>4 DEF Walked

\* The object of the id of the record the walk is at: the newest one.
LEMMA NewestObject ==
  ASSUME TypeInv, rd \in 1..Len(Src), IsObject(Src[rd])
  PROVE  ObjectIn(Src, Src[rd].id) =
           IF Newest.size = 0 THEN Absent
           ELSE [size |-> Newest.size, val |-> Newest.val]
<1>1. LastIdx(Src, Src[rd].id) \in 1..Len(Src)
  BY NewestIsRecord DEF TypeInv
<1>2. LastIdx(Src, Src[rd].id) # 0
  BY <1>1
<1> QED BY <1>2 DEF ObjectIn, Absent, Newest

\* A record walked over without a copy: it is no object, or one of an id that was met
\* before, or of one that is deleted.
LEMMA WalkStore ==
  ASSUME TypeInv, SpaceInv, StoreInv, pc = "pack", rd <= Len(Src),
         rd' \in (rd + 1)..(Len(Src) + 1), rd' = rd + 1 \/ TornSrc,
         UNCHANGED <<sector, pc, op, saddr, wraddr>>,
         flags' \subseteq flags \cup {Src[rd].id},
         \/ ~ IsObject(Src[rd]) /\ flags' = flags
         \/ IsObject(Src[rd]) /\ Src[rd].id \in flags
         \/ IsObject(Src[rd]) /\ Newest.size = 0
  PROVE  StoreInv'
<1>1. rd \in 1..Len(Src) /\ Src' = Src /\ DstLog' = DstLog /\ pc' = "pack"
  BY SectorFacts DEF TypeInv, AtRecord, Src, DstLog, Dst
<1>2. /\ \A id \in Ids :
           /\ CopyOrNone(id)
           /\ TornSrc \/ (Walked(id) => ObjectIn(DstLog, id) = ObjectIn(Src, id))
      /\ \A id \in flags : Walked(id)
      /\ AllObjects(DstLog)
  BY DEF StoreInv, CopyInv
<1>3. \A id : /\ Walked(id) \/ (IsObject(Src[rd]) /\ Src[rd].id = id) => Walked(id)'
              /\ rd' = rd + 1 /\ Walked(id)'
                   => Walked(id) \/ (IsObject(Src[rd]) /\ Src[rd].id = id)
  BY <1>1, WalkStep
<1>4. ASSUME NEW id \in Ids, ~ TornSrc, Walked(id)'
      PROVE  ObjectIn(DstLog, id) = ObjectIn(Src, id)
  <2>1. CASE Walked(id)
    BY <1>2, <1>4, <2>1
  <2>2. CASE ~ Walked(id)
    <3>1. IsObject(Src[rd]) /\ Src[rd].id = id
      BY <1>3, <1>4, <2>2
    <3>2. Newest.size = 0
      BY <1>2, <2>2, <3>1
    <3>3. ObjectIn(Src, id) = Absent
      BY <1>1, <3>1, <3>2, NewestObject
    <3> QED BY <1>2, <3>3 DEF CopyOrNone
  <2> QED BY <2>1, <2>2
<1>5. ASSUME NEW id \in flags' PROVE Walked(id)'
  <2>1. CASE id \in flags
    BY <1>2, <1>3, <2>1
  <2>2. CASE id \notin flags
    <3>1. id = Src[rd].id /\ IsObject(Src[rd])
      BY <2>2
    <3> QED BY <1>3, <3>1
  <2> QED BY <2>1, <2>2
<1>6. CopyInv'
  <2>1. TornSrc' <=> TornSrc
    BY <1>1 DEF TornSrc
  <2>2. \A id \in Ids : CopyOrNone(id)'
    BY <1>1, <1>2 DEF CopyOrNone
  <2> QED BY <1>1, <1>2, <1>4, <1>5, <2>1, <2>2 DEF CopyInv, AllObjects
<1>7. CurrentSectors' = CurrentSectors /\ EmptyInv'
  BY DEF StoreInv, EmptyInv, CurrentSectors
<1>8. CallInv' /\ ChosenInv' /\ WriteInv'
  BY <1>1, <1>7 DEF StoreInv, CallInv, ChosenInv, WriteInv
<1> QED BY <1>6, <1>7, <1>8 DEF StoreInv

LEMMA CopyStore ==
  ASSUME TypeInv, SpaceInv, StoreInv, PackCopy PROVE StoreInv'
<1> DEFINE n == Len(DstLog)
           new == Program(DstLog, wraddr, Newest.size, Newest.val)
<1>1. /\ rd \in 1..Len(Src) /\ rd' = rd /\ pc = "pack" /\ pc' = "pack_id"
      /\ IsObject(Src[rd]) /\ Newest.size # 0
      /\ UNCHANGED <<op, saddr, rd, wraddr>>
      /\ sector' = [sector EXCEPT ![Dst].log = new]
      /\ flags' = flags \/ flags' = SetFlag(MaskFlag(flags, Src[rd].id), Src[rd].id)
  BY SectorFacts DEF PackCopy, NotCopied, TypeInv, AtRecord, Goto, DstLog
<1>2. /\ Newest.size \in Nat /\ Newest.val \in Vals \cup {NoVal} /\ wraddr \in Nat
      /\ DstLog \in Seq(Records) /\ n \in Nat /\ EmptyOK(DstLog)
      /\ Dst \in Sectors /\ "current" \in Heads
  BY <1>1, NewestIsRecord, SectorFacts
  DEF TypeInv, Records, StoreInv, EmptyInv, DstLog, Heads
<1>3. PICK r \in Records :
        /\ new = Append(DstLog, r)
        /\ r.id = NoId /\ r.size = Newest.size
        /\ r.val = IF Newest.size = 0 THEN NoVal ELSE Newest.val
  <2> HIDE DEF DstLog, Newest
  <2> QED BY <1>2, ProgramRecord
<1>4. /\ new \in Seq(Records) /\ Len(new) = n + 1 /\ new[n + 1] = r
      /\ \A i \in 1..n : new[i] = DstLog[i]
  BY <1>2, <1>3, AppendProperties
<1>5. /\ EmptyOK(new)
      /\ \A id \in Ids : ObjectIn(new, id) = ObjectIn(DstLog, id)
  BY <1>2, ProgramEmpty, ProgramObjects
<1> HIDE DEF new
<1>6. CurrentSectors' = CurrentSectors /\ EmptyInv'
  BY <1>1, <1>2, <1>4, <1>5, CurrentUpdate, EmptyUpdate DEF StoreInv
<1>7. Src' = Src /\ DstLog' = new
  BY <1>1, SectorFacts DEF Src, DstLog, Dst
<1>8. Newest' = Newest /\ \A id : Walked(id)' <=> Walked(id)
  BY <1>1, <1>7 DEF Newest, Walked
<1>9. /\ \A id \in Ids :
           /\ CopyOrNone(id)
           /\ TornSrc \/ (Walked(id) => ObjectIn(DstLog, id) = ObjectIn(Src, id))
      /\ \A id \in flags : Walked(id)
      /\ \A i \in 1..n : IsObject(DstLog[i])
  BY <1>1 DEF StoreInv, CopyInv, AllObjects
<1>10. \A id \in flags' : Walked(id)' \/ id = Src'[rd'].id
  BY <1>1, <1>7, <1>8, <1>9, MaskClears DEF SetFlag
<1>11. /\ DstLog'[Len(DstLog')].id = NoId
       /\ DstLog'[Len(DstLog')].val = Newest'.val
       /\ Newest'.size # 0
  BY <1>1, <1>3, <1>4, <1>7, <1>8
<1>12. \A i \in 1..Len(DstLog') : i # Len(DstLog') => IsObject(DstLog'[i])
  <2>1. \A i \in 1..Len(new) : i # Len(new) => i \in 1..n
    BY <1>2, <1>4
  <2> QED BY <1>4, <1>7, <1>9, <2>1
<1>13. \A id \in Ids :
         /\ CopyOrNone(id)'
         /\ TornSrc' \/ (Walked(id)' => ObjectIn(DstLog', id) = ObjectIn(Src', id))
  <2>1. TornSrc' <=> TornSrc
    BY <1>7 DEF TornSrc
  <2> QED BY <1>5, <1>7, <1>8, <1>9, <2>1 DEF CopyOrNone
<1>14. CopyInv'
  BY <1>1, <1>10, <1>11, <1>12, <1>13 DEF CopyInv
<1>15. CallInv' /\ ChosenInv' /\ WriteInv'
  BY <1>1, <1>6, <1>7 DEF StoreInv, CallInv, ChosenInv, WriteInv
<1> QED BY <1>6, <1>14, <1>15 DEF StoreInv

\* The copy gets its id, and there is room for the next one.
LEMMA CopyIdStore ==
  ASSUME OneSizePerId, TypeInv, SpaceInv, StoreInv, PackCopyId PROVE StoreInv'
<1> DEFINE n == Len(DstLog)
           k == Src[rd].id
           new == ProgramId(DstLog, k)
<1>1. /\ pc = "pack_id" /\ rd \in 1..Len(Src) /\ IsObject(Src[rd]) /\ rd' = rd + 1
      /\ sector' = [sector EXCEPT ![Dst].log = new]
      /\ UNCHANGED <<op, saddr, flags>>
  BY DEF PackCopyId, TypeInv, AtRecord, DstLog
<1>2. /\ k \in Ids /\ DstLog \in Seq(Records) /\ n \in Nat /\ n > 0 /\ EmptyOK(DstLog)
      /\ Dst \in Sectors /\ "current" \in Heads
      /\ DstLog[n].id = NoId /\ DstLog[n].size = Newest.size
      /\ DstLog[n].val = Newest.val /\ Newest.size \in 1..MAX_FOBJ_SIZE
      /\ \A i \in 1..n : i # n => IsObject(DstLog[i])
  <2>1. Newest.size \in Nat /\ Newest.size # 0 /\ Newest.size <= MAX_FOBJ_SIZE
    BY <1>1, NewestIsRecord DEF TypeInv, Records, StoreInv, CopyInv
  <2>2. Newest.size \in 1..MAX_FOBJ_SIZE
    BY <2>1, FlashAssumption
  <2>3. /\ k \in Ids /\ DstLog \in Seq(Records) /\ n \in Nat
        /\ Dst \in Sectors /\ "current" \in Heads
    BY <1>1, NewestIsRecord, SectorFacts DEF TypeInv, Heads
  <2>4. EmptyOK(DstLog)
    BY <2>3 DEF StoreInv, EmptyInv, DstLog
  <2>5. n > 0 /\ DstLog[n].id = NoId /\ DstLog[n].size = Newest.size
    BY <1>1 DEF SpaceInv, Unfinished
  <2>6. DstLog[n].val = Newest.val /\ \A i \in 1..n : i # n => IsObject(DstLog[i])
    BY <1>1 DEF StoreInv, CopyInv
  <2> QED BY <2>2, <2>3, <2>4, <2>5, <2>6
<1>3. pc' = "pack"
  <2>1. FreeAddr(DstLog) = wraddr + HEAD + Newest.size /\ FreeAddr(DstLog) < SECTOR_SIZE
    BY <1>1 DEF SpaceInv, Unfinished
  <2>2. FreeAddr(DstLog) \in Nat /\ SECTOR_SIZE \in Nat
    BY <1>2, EndsAreAddresses, FlashAssumption
  <2>3. wraddr' = FreeAddr(DstLog) /\ ~ (wraddr' >= SECTOR_SIZE)
    BY <2>1, <2>2 DEF PackCopyId
  <2> QED BY <2>3 DEF PackCopyId, Goto
<1>4. /\ new \in Seq(Records) /\ Len(new) = n /\ EmptyOK(new)
      /\ \A i \in 1..n : i # n => new[i] = DstLog[i]
      /\ new[n].id = k
  BY <1>2, ProgramIdChangesLast, ProgramIdEmpty
<1>5. new[n].size = Newest.size
  BY <1>2, ProgramIdChangesLast
<1>6. ASSUME NEW id \in Ids
      PROVE  ObjectIn(new, id) = IF id # k THEN ObjectIn(DstLog, id)
                                 ELSE [size |-> Newest.size, val |-> Newest.val]
  <2>1. Newest.size # 0 /\ DstLog[n].size <= MAX_FOBJ_SIZE
    BY <1>2, FlashAssumption
  <2>2. ObjectIn(new, id) =
          IF id # k THEN ObjectIn(DstLog, id)
          ELSE IF DstLog[n].size = 0 THEN Absent
          ELSE [size |-> DstLog[n].size, val |-> DstLog[n].val]
    BY <1>2, <2>1, ProgramIdObjects
  <2> QED BY <1>2, <2>1, <2>2
<1> HIDE DEF new
<1>7. CurrentSectors' = CurrentSectors /\ EmptyInv'
  BY <1>1, <1>2, <1>4, CurrentUpdate, EmptyUpdate DEF StoreInv
<1>8. Src' = Src /\ DstLog' = new
  BY <1>1, SectorFacts DEF Src, DstLog, Dst
<1>9. \A id : /\ Walked(id) \/ (IsObject(Src[rd]) /\ k = id) => Walked(id)'
              /\ Walked(id)' => Walked(id) \/ k = id
  <2>1. rd' \in (rd + 1)..(Len(Src) + 1)
    BY <1>1, SectorFacts
  <2> QED BY <1>1, <1>8, <2>1, WalkStep
<1>10. /\ \A id \in Ids :
            /\ CopyOrNone(id)
            /\ TornSrc \/ (Walked(id) => ObjectIn(DstLog, id) = ObjectIn(Src, id))
       /\ \A id \in flags : Walked(id) \/ id = k
  BY <1>1 DEF StoreInv, CopyInv
<1>11. \A id \in Ids :
         /\ CopyOrNone(id)'
         /\ TornSrc' \/ (Walked(id)' => ObjectIn(DstLog', id) = ObjectIn(Src', id))
  <2> TAKE id \in Ids
  <2>1. TornSrc' <=> TornSrc
    BY <1>8 DEF TornSrc
  <2>2. CASE id = k
    <3>1. ObjectIn(Src, id) = [size |-> Newest.size, val |-> Newest.val]
      BY <1>1, <1>2, <2>2, NewestObject, FlashAssumption
    <3>2. ObjectIn(DstLog', id) = ObjectIn(Src', id)
      BY <1>6, <1>8, <2>2, <3>1
    <3> QED BY <3>2 DEF CopyOrNone
  <2>3. CASE id # k
    <3>1. ObjectIn(DstLog', id) = ObjectIn(DstLog, id)
      BY <1>6, <1>8, <2>3
    <3> QED BY <1>8, <1>9, <1>10, <2>1, <2>3, <3>1 DEF CopyOrNone
  <2> QED BY <2>2, <2>3
<1>12. \A id \in flags' : Walked(id)'
  BY <1>1, <1>9, <1>10
<1>13. AllObjects(DstLog')
  <2>1. k # NoId
    BY <1>1 DEF IsObject
  <2>2. \A i \in 1..n : IsObject(new[i])
    BY <1>2, <1>4, <1>5, <2>1 DEF IsObject
  <2> QED BY <1>4, <1>8, <2>2 DEF AllObjects
<1>14. CopyInv'
  BY <1>3, <1>11, <1>12, <1>13 DEF CopyInv
<1>15. CallInv' /\ ChosenInv' /\ WriteInv'
  BY <1>1, <1>3, <1>7, <1>8 DEF StoreInv, CallInv, ChosenInv, WriteInv
<1> QED BY <1>7, <1>14, <1>15 DEF StoreInv

\* The new sector starts empty, and the old one is the only current sector.
LEMMA PackEraseStore ==
  ASSUME TypeInv, StoreInv, PackErase PROVE StoreInv'
<1>1. /\ pc = "pack_erase" /\ pc' = "pack"
      /\ sector' = [sector EXCEPT ![Dst] = Erased]
      /\ rd' = 1 /\ flags' = {} /\ UNCHANGED <<op, saddr>>
  BY DEF PackErase, Goto
<1>2. /\ saddr \in Sectors /\ Dst \in Sectors /\ "current" \in Heads
      /\ Erased.log \in Seq(Records) /\ EmptyOK(Erased.log)
  BY SectorFacts, ErasedEmpty, EmptySeq DEF Erased, Heads
<1>3. CurrentSectors' = CurrentSectors \ {Dst} /\ EmptyInv'
  BY <1>1, <1>2, CurrentUpdate, EmptyUpdate DEF StoreInv
<1>4. CurrentSectors' = {saddr}
  <2>1. CurrentSectors \subseteq Sectors
    BY DEF CurrentSectors
  <2>2. CurrentSectors # {} /\ saddr = Max(CurrentSectors)
    BY <1>1 DEF StoreInv, ChosenInv
  <2>3. saddr \in CurrentSectors
    BY <2>1, <2>2, LastSector
  <2>4. \A s \in Sectors : s # Dst <=> s = saddr
    BY <1>2 DEF Sectors, Dst, Other
  <2> QED BY <1>3, <2>1, <2>3, <2>4
<1>5. Src' = Src /\ DstLog' = Erased.log
  BY <1>1, SectorFacts DEF Src, DstLog, Dst
<1>6. \A id : ~ Walked(id)'
  <2>1. 1..(rd' - 1) = {}
    BY <1>1
  <2> QED BY <2>1 DEF Walked
<1>7. \A id \in Ids : ObjectIn(DstLog', id) = Absent
  BY <1>5, ErasedObjects
<1>8. AllObjects(DstLog')
  BY <1>5, EmptySeq DEF AllObjects, Erased
<1>9. CopyInv'
  BY <1>1, <1>6, <1>7, <1>8 DEF CopyInv, CopyOrNone
<1>10. CallInv' /\ ChosenInv' /\ WriteInv'
  BY <1>1, <1>4, <1>5 DEF StoreInv, CallInv, ChosenInv, WriteInv
<1> QED BY <1>3, <1>9, <1>10 DEF StoreInv

\* At the end of the walk every id was met, or has no object, or a torn size hid it.
LEMMA PackEndStore ==
  ASSUME TypeInv, SpaceInv, StoreInv, PackEnd PROVE StoreInv'
<1>1. /\ pc = "pack" /\ pc' = "pack_mark" /\ rd > Len(Src) /\ rd <= Len(Src) + 1
      /\ UNCHANGED <<sector, op, saddr, rd>>
  BY DEF PackEnd, Goto, Locals, SpaceInv
<1>2. rd - 1 = Len(Src) /\ Src \in Seq(Records)
  BY <1>1, SectorFacts
<1>3. Src' = Src /\ DstLog' = DstLog
  BY <1>1 DEF Src, DstLog, Dst
<1>4. \A id \in Ids :
        CopyOrNone(id) /\ (TornSrc \/ ObjectIn(DstLog, id) = ObjectIn(Src, id))
  <2> TAKE id \in Ids
  <2>1. /\ CopyOrNone(id)
        /\ TornSrc \/ (Walked(id) => ObjectIn(DstLog, id) = ObjectIn(Src, id))
    BY <1>1 DEF StoreInv, CopyInv
  <2>2. CASE ~ Walked(id)
    <3>1. \A j \in 1..Len(Src) : OfId(Src[j], id) => Src[j].size = 0
      <4> TAKE j \in 1..Len(Src)
      <4>1. Src[j].size \in Nat /\ MAX_FOBJ_SIZE \in Nat /\ id # NoId
        BY SectorFacts, FlashAssumption DEF NoId
      <4>2. ~ (IsObject(Src[j]) /\ Src[j].id = id)
        BY <1>2, <2>2 DEF Walked
      <4> QED BY <4>1, <4>2 DEF OfId, IsObject
    <3>2. ObjectIn(Src, id) = Absent
      BY <1>2, <3>1, NoObject
    <3> QED BY <2>1, <3>2 DEF CopyOrNone
  <2> QED BY <2>1, <2>2
<1>5. CurrentSectors' = CurrentSectors /\ EmptyInv'
  BY <1>1 DEF StoreInv, EmptyInv, CurrentSectors
<1>6. CopyInv'
  BY <1>1, <1>3, <1>4 DEF StoreInv, CopyInv, AllObjects, CopyOrNone, TornSrc
<1>7. CallInv' /\ ChosenInv' /\ WriteInv'
  BY <1>1, <1>3, <1>5 DEF StoreInv, CallInv, ChosenInv, WriteInv
<1> QED BY <1>5, <1>6, <1>7 DEF StoreInv

\* Between the two marks both sectors are current.
LEMMA PackMarkStore ==
  ASSUME TypeInv, StoreInv, PackMark PROVE StoreInv'
<1>1. /\ pc = "pack_mark" /\ pc' = "pack_close"
      /\ sector' = [sector EXCEPT ![Dst].head = "current"]
      /\ UNCHANGED <<op, saddr>>
  BY DEF PackMark, Goto, Locals
<1>2. /\ Dst \in Sectors /\ saddr \in Sectors /\ "current" \in Heads
      /\ Erased.log \in Seq(Records) /\ EmptyOK(Erased.log)
  BY SectorFacts, ErasedEmpty, EmptySeq DEF Erased, Heads
<1>3. CurrentSectors' = CurrentSectors \cup {Dst} /\ EmptyInv'
  BY <1>1, <1>2, CurrentUpdate, EmptyUpdate DEF StoreInv
<1>4. CurrentSectors' = Sectors
  BY <1>1, <1>2, <1>3 DEF StoreInv, ChosenInv, Sectors, Dst, Other
<1>5. Src' = Src /\ DstLog' = DstLog
  BY <1>1, SectorFacts DEF Src, DstLog, Dst
<1>6. CopyInv'
  BY <1>1, <1>5 DEF StoreInv, CopyInv, AllObjects, CopyOrNone, TornSrc
<1>7. CallInv' /\ ChosenInv' /\ WriteInv'
  BY <1>1, <1>4, <1>5 DEF StoreInv, CallInv, ChosenInv, WriteInv
<1> QED BY <1>3, <1>6, <1>7 DEF StoreInv

LEMMA PackCloseStore ==
  ASSUME TypeInv, StoreInv, PackClose PROVE StoreInv'
<1>1. /\ pc = "pack_close" /\ pc' = "packed"
      /\ sector' = [sector EXCEPT ![saddr].head = "closed"]
      /\ saddr' = Dst /\ op' = op
  BY DEF PackClose, Goto
<1>2. /\ Dst \in Sectors /\ saddr \in Sectors /\ Dst # saddr /\ "closed" \in Heads
      /\ Erased.log \in Seq(Records) /\ EmptyOK(Erased.log)
  BY SectorFacts, ErasedEmpty, EmptySeq DEF Erased, Heads
<1>3. CurrentSectors' = CurrentSectors \ {saddr} /\ EmptyInv'
  BY <1>1, <1>2, CurrentUpdate, EmptyUpdate DEF StoreInv
<1>4. CurrentSectors' = {Dst}
  BY <1>1, <1>2, <1>3 DEF StoreInv, ChosenInv, Sectors
<1>5. CurrentSectors' # {} /\ saddr' = Max(CurrentSectors')
  <2>1. {Dst} \subseteq Sectors /\ {Dst} # {}
    BY <1>2
  <2>2. Max({Dst}) = IF 1 \in {Dst} THEN 1 ELSE 0
    BY <2>1, LastSector
  <2>3. Max({Dst}) = Dst
    BY <1>2, <2>2 DEF Sectors
  <2> QED BY <1>1, <1>4, <2>3
<1>6. Src' = DstLog
  BY <1>1, <1>2, SectorFacts DEF Src, DstLog
<1>7. op.id \in Ids
  BY <1>1, WriteFields DEF TypeInv, CallMatches
<1>8. WriteInv'
  <2>1. ObjectIn(DstLog, op.id) \in {ObjectIn(Src, op.id), Absent} /\ AllObjects(DstLog)
    BY <1>1, <1>7 DEF StoreInv, CopyInv, CopyOrNone
  <2>2. op.size # 0 => ObjectIn(DstLog, op.id) # [size |-> op.size, val |-> op.val]
    BY <1>1, <2>1 DEF StoreInv, WriteInv, Absent
  <2> QED BY <1>1, <1>6, <2>1, <2>2 DEF WriteInv
<1> QED
  BY <1>1, <1>3, <1>5, <1>8 DEF StoreInv, CallInv, ChosenInv, CopyInv

LEMMA PackStore ==
  ASSUME OneSizePerId, TypeInv, SpaceInv, StoreInv, Pack PROVE StoreInv'
<1>1. CASE PackErase
  BY <1>1, PackEraseStore
<1>2. CASE PackSkip
  <2>1. rd \in 1..Len(Src) /\ Src \in Seq(Records) /\ LogOK(Src)
    BY <1>2, SectorFacts DEF PackSkip, TypeInv, AtRecord, SpaceInv, Src
  <2>2. /\ rd' \in (rd + 1)..(Len(Src) + 1)
        /\ Src[rd].size <= MAX_FOBJ_SIZE => rd' = rd + 1
    BY <1>2, <2>1, SkipAdvances DEF PackSkip
  <2>3. rd' = rd + 1 \/ TornSrc
    <3>1. Src[rd].size \in Nat
      BY <2>1, SectorFacts
    <3>2. MAX_FOBJ_SIZE \in Nat
      BY FlashAssumption
    <3> QED BY <2>1, <2>2, <3>1, <3>2 DEF TornSrc
  <2> QED BY <1>2, <2>2, <2>3, WalkStore DEF PackSkip
\* PackStep goes to the next record.
<1>10. PackStep => pc = "pack" /\ rd <= Len(Src) /\ rd' = rd + 1
                   /\ rd' \in (rd + 1)..(Len(Src) + 1)
  BY SectorFacts DEF PackStep
<1>3. CASE PackCopied
  BY <1>3, <1>10, MaskClears, WalkStore DEF PackCopied
<1>4. CASE PackDeleted
  BY <1>4, <1>10, MaskClears, WalkStore DEF PackDeleted, NotCopied, SetFlag
<1>5. CASE PackCopy
  BY <1>5, CopyStore
<1>6. CASE PackCopyId
  BY <1>6, CopyIdStore
<1>7. CASE PackEnd
  BY <1>7, PackEndStore
<1>8. CASE PackMark
  BY <1>8, PackMarkStore
<1>9. CASE PackClose
  BY <1>9, PackCloseStore
<1> QED
  BY <1>1, <1>2, <1>3, <1>4, <1>5, <1>6, <1>7, <1>8, <1>9 DEF Pack, PackLoop

LEMMA StoreInvNext ==
  ASSUME OneSizePerId, TypeInv, SpaceInv, StoreInv, [Next]_vars PROVE StoreInv'
<1>1. CASE UNCHANGED vars
  BY <1>1
  DEF vars, StoreInv, CallInv, ChosenInv, CopyInv, WriteInv, EmptyInv, AllObjects,
      CopyOrNone, TornSrc, Walked, CurrentSectors, Src, DstLog, Dst, Newest
<1>2. CASE Next
  BY <1>2, CallStore, AccessStore, PackStore, CrashStore DEF Next, Step
<1> QED BY <1>1, <1>2

---------------------------------------------------------------------------
(* What a reader of the flash would find *)

LEMMA VisibleNothing ==
  ASSUME CurrentSectors = {}
  PROVE  Visible = [id \in Ids |-> Absent]
<1>1. Erased.log = <<>>
  BY DEF Erased
<1>2. \A id : ObjectIn(<<>>, id) = Absent
  BY <1>1, ErasedObjects
<1> QED BY <1>2 DEF Visible

LEMMA VisibleSrc ==
  ASSUME CurrentSectors # {}, saddr = Max(CurrentSectors)
  PROVE  Visible = [id \in Ids |-> ObjectIn(Src, id)]
BY DEF Visible, Src

\* The last sector decides when both are current.
LEMMA VisibleBoth ==
  ASSUME 1 \in CurrentSectors
  PROVE  Visible = [id \in Ids |-> ObjectIn(sector[1].log, id)]
<1>1. CurrentSectors \subseteq Sectors /\ CurrentSectors # {}
  BY DEF CurrentSectors
<1>2. Max(CurrentSectors) = 1
  BY <1>1, LastSector
<1> QED BY <1>1, <1>2 DEF Visible

\* Nothing a reader could tell apart has changed.
LEMMA VisibleKept ==
  ASSUME CurrentSectors' = CurrentSectors,
         \A s \in CurrentSectors : \A id \in Ids :
           ObjectIn(sector'[s].log, id) = ObjectIn(sector[s].log, id)
  PROVE  Visible' = Visible
<1>1. CASE CurrentSectors = {}
  BY <1>1 DEF Visible
<1>2. CASE CurrentSectors # {}
  <2>1. Max(CurrentSectors) \in CurrentSectors
    <3>1. CurrentSectors \subseteq Sectors
      BY DEF CurrentSectors
    <3> QED BY <1>2, <3>1, LastSector
  <2>2. \A id \in Ids :
          ObjectIn(sector'[Max(CurrentSectors)].log, id)
            = ObjectIn(sector[Max(CurrentSectors)].log, id)
    BY <2>1
  <2> QED BY <1>2, <2>2 DEF Visible
<1> QED BY <1>1, <1>2

LEMMA VisibleSame ==
  ASSUME sector' = sector PROVE Visible' = Visible
BY DEF Visible, CurrentSectors

---------------------------------------------------------------------------
(* Every step is a step of the store, or changes nothing it promises, or takes over *)
(* a sector repacked from behind a torn size                                        *)

StoreStep == [Store!Next \/ TornRepack]_(Store!vars)

LEMMA Stutters ==
  ASSUME op' = op, ret' = ret, Visible' = Visible PROVE StoreStep
BY DEF StoreStep, Store!vars

\* The call begins.
LEMMA CallRefines == ASSUME TypeInv, StoreInv, Call PROVE StoreStep
<1>1. ASSUME NEW o, NEW label, Enter(o, label) PROVE Store!Start(o)
  <2>1. op = NoOp
    BY <1>1 DEF Enter, StoreInv, CallInv
  <2>2. Visible' = Visible
    BY <1>1, VisibleSame DEF Enter
  <2> QED
    BY <1>1, <2>1, <2>2
    DEF Enter, Store!Start, NoOp, Store!NoOp, NoResult, Result,
        Store!NoResult, Store!Result
<1>2. ASSUME NEW id \in Ids, NEW p \in PayloadsOf[id], WriteCfg(id, p.size, p.val)
      PROVE  StoreStep
  <2> DEFINE o == [kind |-> "write", id |-> id, size |-> p.size, val |-> p.val]
  <2>1. p \in [size : Nat, val : Vals]
    BY FlashAssumption
  <2>2. p.size \in Store!Sizes /\ p.val \in Vals
    BY <1>2, <2>1, FlashAssumption DEF WriteCfg, Store!Sizes
  <2>3. Store!Start(o)
    BY <1>1, <1>2 DEF WriteCfg
  <2> QED BY <2>2, <2>3 DEF StoreStep, Store!Next, Store!Call
<1>3. ASSUME NEW id \in Ids, NEW maxsize \in ReadSizes, ReadCfg(id, maxsize)
      PROVE  StoreStep
  <2> DEFINE o == [kind |-> "read", id |-> id, maxsize |-> maxsize]
  <2>1. maxsize \in Store!Sizes
    BY <1>3, FlashAssumption DEF ReadCfg, Store!Sizes
  <2>2. Store!Start(o)
    BY <1>1, <1>3 DEF ReadCfg
  <2> QED BY <2>1, <2>2 DEF StoreStep, Store!Next, Store!Call
<1>4. ASSUME EraseAllCfg PROVE StoreStep
  <2>1. Store!Start([kind |-> "erase"])
    BY <1>1, <1>4 DEF EraseAllCfg
  <2> QED BY <2>1 DEF StoreStep, Store!Next, Store!Call
<1>5. ASSUME Refuse PROVE StoreStep
  <2>1. op = NoOp
    BY <1>5 DEF Refuse, StoreInv, CallInv
  <2>2. Visible' = Visible
    BY <1>5, VisibleSame DEF Refuse
  <2>3. Store!Refuse
    BY <1>5, <2>1, <2>2
    DEF Refuse, Return, Result, FMEM_SIZE_ERR, NoOp, Store!Refuse, Store!Return,
        Store!Result, Store!FMEM_SIZE_ERR, Store!NoOp
  <2> QED BY <2>3 DEF StoreStep, Store!Next
<1> QED BY <1>2, <1>3, <1>4, <1>5 DEF Call

\* Power loss forgets the call and no object: what was being programmed had no id.
LEMMA CrashRefines == ASSUME TypeInv, SpaceInv, StoreInv, Crash PROVE StoreStep
<1>1. Visible' = Visible
  <2>1. CASE sector' = sector
    BY <2>1, VisibleSame
  <2>2. ASSUME NEW s \in Sectors, NEW log \in Tear(sector[s].log),
               sector' = [sector EXCEPT ![s].log = log],
               Len(sector[s].log) > 0, sector[s].log[Len(sector[s].log)].id = NoId
        PROVE  Visible' = Visible
    <3>1. sector[s].log \in Seq(Records)
      BY SectorFacts
    <3>2. log \in Seq(Records) /\ \A id \in Ids : ObjectIn(log, id) = ObjectIn(sector[s].log, id)
      BY <2>2, <3>1, TearChangesLast, TearObjects
    <3>3. CurrentSectors' = CurrentSectors
      BY <2>2, <3>2, CurrentUpdate
    <3>4. \A t \in Sectors : sector'[t].log = IF t = s THEN log ELSE sector[t].log
      BY <2>2, <3>2, SectorFacts
    <3>5. \A t \in CurrentSectors : \A id \in Ids :
            ObjectIn(sector'[t].log, id) = ObjectIn(sector[t].log, id)
      BY <3>2, <3>4 DEF CurrentSectors
    <3> QED BY <3>3, <3>5, VisibleKept
  <2> QED BY <2>1, <2>2, CrashTears
<1>2. Store!Crash
  BY <1>1
  DEF Crash, NoOp, NoResult, Result, Store!Crash, Store!NoOp, Store!NoResult, Store!Result
<1> QED BY <1>2 DEF StoreStep, Store!Next

\* A step of flash_write_cfg, flash_read_cfg and flash_erase_all_cfg.
LEMMA ReadRefines == ASSUME TypeInv, StoreInv, Read PROVE StoreStep
<1> DEFINE i == LastIdx(Src, op.id)
           obj == ObjectIn(Src, op.id)
<1>1. /\ pc = "read" /\ op \in Reads /\ Src \in Seq(Records) /\ EmptyOK(Src)
      /\ sector' = sector
  BY SectorFacts DEF Read, TypeInv, CallMatches, StoreInv, EmptyInv, Src
<1>2. op.kind = "read" /\ op.id \in Ids /\ op.maxsize \in Nat
  BY <1>1, ReadFields
<1>3. Visible[op.id] = obj /\ Visible' = Visible
  BY <1>1, <1>2, VisibleSrc, VisibleSame DEF StoreInv, ChosenInv
<1>4. \/ i = 0 /\ Return(FMEM_NOT_FOUND, NoVal)
      \/ /\ i # 0
         /\ Return(Src[i].size, IF Src[i].size <= op.maxsize THEN Src[i].val ELSE NoVal)
  BY DEF Read, Src
<1>5. Store!CompleteRead
  <2>1. CASE i = 0
    <3>1. obj = Store!Absent
      BY <2>1 DEF ObjectIn, Store!Absent
    <3>2. Store!Return(Store!FMEM_NOT_FOUND, NoVal)
      BY <1>4, <2>1
      DEF Return, Result, FMEM_NOT_FOUND, NoOp, Store!Return, Store!Result,
          Store!FMEM_NOT_FOUND, Store!NoOp
    <3> QED BY <1>2, <1>3, <3>1, <3>2 DEF Store!CompleteRead
  <2>2. CASE i # 0 /\ Src[i].size = 0
    <3>1. obj = Store!Absent
      BY <2>2 DEF ObjectIn, Store!Absent
    <3>2. Src[i].val = NoVal
      BY <1>1, <2>2, LastIdxFinds, LenProperties DEF EmptyOK
    <3>3. Store!Return(0, NoVal)
      BY <1>4, <2>2, <3>2
      DEF Return, Result, NoOp, Store!Return, Store!Result, Store!NoOp
    <3> QED BY <1>2, <1>3, <3>1, <3>3 DEF Store!CompleteRead
  <2>3. CASE i # 0 /\ Src[i].size # 0
    <3>1. obj = [size |-> Src[i].size, val |-> Src[i].val]
      BY <2>3 DEF ObjectIn
    <3>2. obj # Store!Absent
      BY <2>3, <3>1 DEF Store!Absent
    <3>3. Store!Return(obj.size, Store!Fetched(obj, op.maxsize))
      BY <1>4, <2>3, <3>1
      DEF Return, Result, NoOp, Store!Return, Store!Result, Store!NoOp, Store!Fetched
    <3> QED BY <1>2, <1>3, <3>2, <3>3 DEF Store!CompleteRead
  <2> QED BY <2>1, <2>2, <2>3
<1> QED BY <1>5 DEF StoreStep, Store!Next, Store!Serve

\* An object that is stored already is not written again.
LEMMA IdenticalRefines == ASSUME TypeInv, StoreInv, WriteIdentical PROVE StoreStep
<1> DEFINE i == LastIdx(Src, op.id)
<1>1. /\ op \in Writes /\ sector' = sector /\ Return(op.size, NoVal)
      /\ i # 0 /\ Identical(Src[i])
  BY DEF WriteIdentical, TypeInv, CallMatches, AlreadyWritten, Src
<1>2. op.kind = "write" /\ op.id \in Ids
  BY <1>1, WriteFields
<1>3. Visible = [id \in Ids |-> ObjectIn(Src, id)] /\ Visible' = Visible
  BY <1>1, VisibleSrc, VisibleSame DEF WriteIdentical, StoreInv, ChosenInv
<1>4. ObjectIn(Src, op.id) = Store!ObjectOf(op.size, op.val)
  BY <1>1 DEF Identical, ObjectIn, Store!ObjectOf, Store!Absent
<1>5. Visible' = [Visible EXCEPT ![op.id] = Store!ObjectOf(op.size, op.val)]
  BY <1>2, <1>3, <1>4
<1>6. Store!CompleteWrite
  BY <1>1, <1>2, <1>5
  DEF Return, Result, NoOp, Store!CompleteWrite, Store!Return, Store!Result, Store!NoOp
<1> QED BY <1>6 DEF StoreStep, Store!Next, Store!Serve

\* The record of a new object is no object yet.
LEMMA WriteObjRefines == ASSUME TypeInv, StoreInv, WriteObj PROVE StoreStep
<1> DEFINE new == Program(Src, wraddr, op.size, op.val)
<1>1. /\ op.size \in Nat /\ op.val \in Vals \cup {NoVal} /\ wraddr \in Nat
      /\ Src \in Seq(Records) /\ saddr \in Sectors
  BY WriteFields, SectorFacts DEF WriteObj, TypeInv, CallMatches
<1>2. new \in Seq(Records)
  BY <1>1, ProgramAppends
<1>3. \A id \in Ids : ObjectIn(new, id) = ObjectIn(Src, id)
  <2> HIDE DEF Src
  <2> QED BY <1>1, ProgramObjects
<1>4. sector' = [sector EXCEPT ![saddr].log = new] /\ UNCHANGED <<op, ret>>
  BY DEF WriteObj, Src
<1> HIDE DEF new
<1>5. CurrentSectors' = CurrentSectors
  BY <1>1, <1>2, <1>4, CurrentUpdate
<1>6. \A s \in Sectors : sector'[s].log = IF s = saddr THEN new ELSE sector[s].log
  BY <1>1, <1>4, SectorFacts
<1>7. \A s \in CurrentSectors : \A id \in Ids :
        ObjectIn(sector'[s].log, id) = ObjectIn(sector[s].log, id)
  BY <1>3, <1>6 DEF CurrentSectors, Src
<1> QED BY <1>4, <1>5, <1>7, VisibleKept, Stutters

\* Programming its id makes it the object of that id.
LEMMA WriteIdRefines == ASSUME TypeInv, SpaceInv, StoreInv, WriteId PROVE StoreStep
<1> DEFINE new == ProgramId(Src, op.id)
           n == Len(Src)
<1>1. /\ pc = "write_id" /\ Return(op.size, NoVal)
      /\ sector' = [sector EXCEPT ![saddr].log = new]
  BY DEF WriteId, Src
<1>2. op.kind = "write" /\ op.id \in Ids
  BY <1>1, WriteFields DEF TypeInv, CallMatches
<1>3. /\ Src \in Seq(Records) /\ n > 0 /\ saddr \in Sectors
      /\ Src[n].id = NoId /\ Src[n].size = op.size
      /\ Src[n].val = IF op.size = 0 THEN NoVal ELSE op.val
      /\ Src[n].size <= MAX_FOBJ_SIZE
  BY <1>1, SectorFacts
  DEF SpaceInv, Unfinished, StoreInv, WriteInv, TypeInv, CallMatches
<1>4. new \in Seq(Records)
  BY <1>2, <1>3, ProgramIdChangesLast
<1>5. \A id \in Ids :
        ObjectIn(new, id) = IF id # op.id THEN ObjectIn(Src, id)
                            ELSE Store!ObjectOf(op.size, op.val)
  <2> TAKE id \in Ids
  <2>1. ObjectIn(new, id) =
          IF id # op.id THEN ObjectIn(Src, id)
          ELSE IF Src[n].size = 0 THEN Absent
          ELSE [size |-> Src[n].size, val |-> Src[n].val]
    BY <1>2, <1>3, ProgramIdObjects
  <2> QED BY <1>3, <2>1 DEF Absent, Store!ObjectOf, Store!Absent
<1> HIDE DEF new
<1>6. CurrentSectors' = CurrentSectors
  BY <1>1, <1>3, <1>4, CurrentUpdate
<1>7. CurrentSectors # {} /\ saddr = Max(CurrentSectors)
  BY <1>1 DEF StoreInv, ChosenInv
<1>8. Visible = [id \in Ids |-> ObjectIn(Src, id)]
  BY <1>7, VisibleSrc
<1>9. sector'[saddr].log = new
  BY <1>1, <1>3, SectorFacts
<1>10. Visible' = [id \in Ids |-> ObjectIn(new, id)]
  BY <1>6, <1>7, <1>9 DEF Visible
<1>11. Visible' = [Visible EXCEPT ![op.id] = Store!ObjectOf(op.size, op.val)]
  BY <1>2, <1>5, <1>8, <1>10
<1>12. Store!CompleteWrite
  BY <1>1, <1>2, <1>11
  DEF Return, Result, NoOp, Store!CompleteWrite, Store!Return, Store!Result, Store!NoOp
<1> QED BY <1>12 DEF StoreStep, Store!Next, Store!Serve

\* A repacked sector that has no room has objects in it, and not the one to be written.
LEMMA OverflowRefines ==
  ASSUME TypeInv, SpaceInv, StoreInv, Overflow PROVE StoreStep
<1>1. /\ pc = "packed" /\ ~ Fits(wraddr) /\ Return(FMEM_OVERFLOW, NoVal)
      /\ sector' = sector /\ op \in Writes
  BY DEF Overflow, TypeInv, CallMatches
<1>2. op.kind = "write" /\ op.id \in Ids /\ op.size \in Nat /\ op.size <= MAX_FOBJ_SIZE
  BY <1>1, WriteFields DEF SpaceInv
<1>3. /\ Src \in Seq(Records) /\ Len(Src) \in Nat
      /\ wraddr = FreeAddr(Src) /\ AllObjects(Src)
      /\ op.size # 0 => ObjectIn(Src, op.id) # [size |-> op.size, val |-> op.val]
  BY <1>1, SectorFacts DEF SpaceInv, StoreInv, WriteInv
<1>4. Visible = [id \in Ids |-> ObjectIn(Src, id)] /\ Visible' = Visible
  BY <1>1, VisibleSrc, VisibleSame DEF StoreInv, ChosenInv
<1>5. \E id \in Ids : Visible[id] # Store!Absent
  <2>1. Len(Src) # 0
    <3>1. FreeAddr(<<>>) = HEAD
      BY EmptySeq DEF FreeAddr, EndOf
    <3>2. Fits(HEAD)
      BY <1>2, FlashAssumption DEF Fits, HEAD
    <3>3. Len(Src) = 0 => FreeAddr(Src) = HEAD
      BY DEF FreeAddr, EndOf
    <3> QED BY <1>1, <1>3, <3>2, <3>3
  <2>2. 1 \in 1..Len(Src) /\ Src[1] \in Records /\ IsObject(Src[1])
    BY <1>3, <2>1, ElementOfSeq DEF AllObjects
  <2>8. OfId(Src[1], Src[1].id)
    BY <2>2, FlashAssumption DEF OfId, IsObject
  <2> DEFINE id == Src[1].id
             i == LastIdx(Src, id)
  <2>3. id \in Ids
    BY <2>2 DEF Records, IsObject
  <2>4. i \in 0..Len(Src) /\ i # 0
    BY <1>3, <2>2, <2>8, LastIdxFinds
  <2>5. Src[i].size # 0
    BY <1>3, <2>4 DEF AllObjects, IsObject
  <2>6. ObjectIn(Src, id) = [size |-> Src[i].size, val |-> Src[i].val]
    BY <2>4, <2>5 DEF ObjectIn
  <2>7. ObjectIn(Src, id) # Store!Absent
    BY <2>5, <2>6 DEF Store!Absent
  <2> QED BY <1>4, <2>3, <2>7
<1>6. op.size # 0 => Visible[op.id] # Store!ObjectOf(op.size, op.val)
  BY <1>2, <1>3, <1>4 DEF Store!ObjectOf
<1>7. Store!OverflowWrite
  BY <1>1, <1>2, <1>4, <1>5, <1>6
  DEF Return, Result, FMEM_OVERFLOW, NoOp, Store!OverflowWrite, Store!Return,
      Store!Result, Store!FMEM_OVERFLOW, Store!NoOp
<1> QED BY <1>7 DEF StoreStep, Store!Next, Store!Serve

\* Erasing the first sector clears the objects, unless the second one holds them.
LEMMA EraseRefines ==
  ASSUME TypeInv, StoreInv, EraseSector0 \/ EraseSector1 PROVE StoreStep
<1>1. pc \in {"erase0", "erase1"} /\ op.kind = "erase"
  BY DEF EraseSector0, EraseSector1, StoreInv, CallInv, Erases
<1>2. 0 \in Sectors /\ 1 \in Sectors /\ CurrentSectors \subseteq Sectors
  BY DEF Sectors, CurrentSectors
<1>3. CASE EraseSector0
  <2>1. sector' = [sector EXCEPT ![0] = Erased] /\ UNCHANGED <<op, ret>>
    BY <1>3 DEF EraseSector0, Locals
  <2>2. CurrentSectors' = CurrentSectors \ {0}
    BY <1>2, <2>1, CurrentUpdate, SectorFacts
  <2>3. CASE 1 \in CurrentSectors
    <3>1. Visible = [id \in Ids |-> ObjectIn(sector[1].log, id)]
      BY <2>3, VisibleBoth
    <3>2. sector'[1] = sector[1] /\ CurrentSectors' = {1}
      <4>1. sector'[1] = sector[1]
        BY <1>2, <2>1, SectorFacts
      <4>2. \A s \in CurrentSectors : s = 0 \/ s = 1
        BY <1>2 DEF Sectors
      <4>3. CurrentSectors \ {0} = {1}
        BY <2>3, <4>2
      <4> QED BY <2>2, <4>1, <4>3
    <3>3. Visible' = [id \in Ids |-> ObjectIn(sector'[1].log, id)]
      <4>1. {1} \subseteq Sectors /\ {1} # {}
        BY <1>2
      <4>2. Max({1}) = 1
        BY <4>1, LastSector
      <4> QED BY <3>2, <4>2 DEF Visible
    <3> QED BY <2>1, <3>1, <3>2, <3>3, Stutters
  <2>4. CASE 1 \notin CurrentSectors
    <3>1. CurrentSectors' = {}
      BY <1>2, <2>2, <2>4 DEF Sectors
    <3>2. Visible' = [id \in Ids |-> Absent]
      <4>1. Erased.log = <<>> /\ \A id : ObjectIn(<<>>, id) = Absent
        BY ErasedObjects DEF Erased
      <4> QED BY <3>1, <4>1 DEF Visible
    <3>3. Store!Wipe
      BY <1>1, <2>1, <3>2 DEF Store!Wipe, Absent, Store!Absent
    <3> QED BY <3>3 DEF StoreStep, Store!Next, Store!Serve
  <2> QED BY <2>3, <2>4
<1>4. CASE EraseSector1
  <2>1. sector' = [sector EXCEPT ![1] = Erased] /\ sector[0] = Erased
    BY <1>4 DEF EraseSector1, StoreInv, ChosenInv
  <2>2. CurrentSectors' = CurrentSectors \ {1} /\ 0 \notin CurrentSectors
    BY <1>2, <2>1, CurrentUpdate, SectorFacts DEF CurrentSectors, Erased
  <2>3. CurrentSectors' = {}
    BY <1>2, <2>2 DEF Sectors
  <2>4. Visible' = [id \in Ids |-> Absent]
    <3>1. Erased.log = <<>> /\ \A id : ObjectIn(<<>>, id) = Absent
      BY ErasedObjects DEF Erased
    <3> QED BY <2>3, <3>1 DEF Visible
  <2>5. Store!CompleteErase
    BY <1>1, <1>4, <2>4
    DEF EraseSector1, Return, Result, NoOp, Absent, Store!CompleteErase, Store!Return,
        Store!Result, Store!NoOp, Store!Absent
  <2> QED BY <2>5 DEF StoreStep, Store!Next, Store!Serve
<1> QED BY <1>3, <1>4

LEMMA AccessRefines ==
  ASSUME TypeInv, SpaceInv, StoreInv,
         \/ FoundCurrent \/ EraseFirst \/ MarkFirst \/ Read
         \/ WriteIdentical \/ FindRoom \/ WriteObj \/ WriteId
         \/ WriteAfterPack \/ Overflow \/ EraseSector0 \/ EraseSector1
  PROVE  StoreStep
<1>1. CASE FoundCurrent \/ FindRoom \/ WriteAfterPack
  <2>1. sector' = sector /\ UNCHANGED <<op, ret>>
    BY <1>1 DEF FoundCurrent, FindRoom, WriteAfterPack
  <2> QED BY <2>1, VisibleSame, Stutters
<1>2. CASE EraseFirst
  <2>1. /\ sector' = [sector EXCEPT ![0] = Erased] /\ CurrentSectors = {}
        /\ UNCHANGED <<op, ret>>
    BY <1>2 DEF EraseFirst
  <2>2. CurrentSectors' = CurrentSectors
    BY <2>1, CurrentUpdate, SectorFacts
  <2> QED BY <2>1, <2>2, VisibleKept, Stutters
<1>3. CASE MarkFirst
  <2>1. /\ sector' = [sector EXCEPT ![0].head = "current"]
        /\ sector[0] = Erased /\ CurrentSectors = {} /\ UNCHANGED <<op, ret>>
    BY <1>3 DEF MarkFirst, Locals, StoreInv, ChosenInv
  <2>2. 0 \in Sectors /\ CurrentSectors' = {0}
    BY <2>1, CurrentUpdate, SectorFacts
  <2>3. sector'[0].log = Erased.log
    BY <2>1, SectorFacts
  <2>4. Visible' = [id \in Ids |-> Absent]
    <3>1. {0} \subseteq Sectors /\ {0} # {}
      BY <2>2
    <3>2. Max({0}) = 0
      BY <3>1, LastSector
    <3> QED BY <2>2, <2>3, <3>2, ErasedObjects DEF Visible
  <2>5. Visible = [id \in Ids |-> Absent]
    BY <2>1, VisibleNothing
  <2> QED BY <2>1, <2>4, <2>5, Stutters
<1> QED
  BY <1>1, <1>2, <1>3, ReadRefines, IdenticalRefines, WriteObjRefines, WriteIdRefines,
     OverflowRefines, EraseRefines

\* Until the new sector is marked a reader finds the old one, and then the same objects,
\* unless a torn size has hidden some from the loop.
LEMMA PackRefines ==
  ASSUME TypeInv, SpaceInv, StoreInv, Pack PROVE StoreStep
<1>1. /\ saddr \in Sectors /\ Dst \in Sectors /\ Dst # saddr /\ 0 \in Sectors
      /\ DstLog \in Seq(Records) /\ Src \in Seq(Records)
      /\ saddr = 1 => Dst = 0
      /\ saddr = 0 => Dst = 1
      /\ saddr \in {0, 1} /\ Dst \in {0, 1}
  BY SectorFacts DEF Sectors, Dst, Other
<1>2. CASE PackSkip \/ PackCopied \/ PackDeleted \/ PackEnd
  <2>1. sector' = sector /\ UNCHANGED <<op, ret>>
    BY <1>2 DEF PackSkip, PackCopied, PackDeleted, PackEnd
  <2> QED BY <2>1, VisibleSame, Stutters
<1>3. CASE PackErase
  <2>1. /\ sector' = [sector EXCEPT ![Dst] = Erased] /\ UNCHANGED <<op, ret>>
        /\ CurrentSectors # {} /\ saddr = Max(CurrentSectors)
    BY <1>3 DEF PackErase, StoreInv, ChosenInv
  <2>2. CurrentSectors' = {saddr}
    <3>1. StoreInv' /\ pc' = "pack" /\ saddr' = saddr
      BY <1>3, PackEraseStore DEF PackErase, Goto
    <3> QED BY <3>1 DEF StoreInv, ChosenInv
  <2>3. sector'[saddr] = sector[saddr]
    BY <1>1, <2>1, SectorFacts
  <2>4. Visible = [id \in Ids |-> ObjectIn(Src, id)]
    BY <2>1, VisibleSrc
  <2>5. Visible' = [id \in Ids |-> ObjectIn(Src, id)]
    <3>1. {saddr} \subseteq Sectors /\ {saddr} # {}
      BY <1>1
    <3>2. Max({saddr}) = saddr
      BY <1>1, <3>1, LastSector
    <3> QED BY <2>2, <2>3, <3>2 DEF Visible, Src
  <2> QED BY <2>1, <2>4, <2>5, Stutters
\* A copy changes the new sector only, which no reader looks at.
<1>4. ASSUME NEW log \in Seq(Records), sector' = [sector EXCEPT ![Dst].log = log],
             CurrentSectors = {saddr}, UNCHANGED <<op, ret>>
      PROVE  StoreStep
  <2>1. CurrentSectors' = CurrentSectors
    BY <1>1, <1>4, CurrentUpdate
  <2>2. \A s \in CurrentSectors : sector'[s].log = sector[s].log
    BY <1>1, <1>4, SectorFacts
  <2> QED BY <1>4, <2>1, <2>2, VisibleKept, Stutters
<1>5. CASE PackCopy
  <2>1. rd \in 1..Len(Src) /\ IsObject(Src[rd]) /\ CurrentSectors = {saddr}
    BY <1>5, SectorFacts
    DEF PackCopy, NotCopied, TypeInv, AtRecord, StoreInv, ChosenInv
  <2>2. Newest.size \in Nat /\ Newest.val \in Vals \cup {NoVal} /\ wraddr \in Nat
    BY <2>1, NewestIsRecord, SectorFacts DEF TypeInv, Records
  <2>3. Program(DstLog, wraddr, Newest.size, Newest.val) \in Seq(Records)
    <3> HIDE DEF DstLog, Newest
    <3> QED BY <1>1, <2>2, ProgramAppends
  <2> QED BY <1>4, <1>5, <2>1, <2>3 DEF PackCopy, DstLog
<1>6. CASE PackCopyId
  <2>1. rd \in 1..Len(Src) /\ IsObject(Src[rd]) /\ CurrentSectors = {saddr}
    BY <1>6 DEF PackCopyId, TypeInv, AtRecord, StoreInv, ChosenInv
  <2>2. Src[rd].id \in Ids
    BY <2>1, NewestIsRecord DEF TypeInv
  <2>3. ProgramId(DstLog, Src[rd].id) \in Seq(Records)
    BY <1>1, <2>2, ProgramIdChangesLast
  <2> QED BY <1>4, <1>6, <2>1, <2>3 DEF PackCopyId, DstLog
\* The two sectors hold the same objects when the new one is marked, and when the old
\* one is closed, but for those that were hidden.
<1>7. CASE PackMark \/ PackClose
  <2>1. /\ \A id \in Ids :
             CopyOrNone(id) /\ (TornSrc \/ ObjectIn(DstLog, id) = ObjectIn(Src, id))
        /\ UNCHANGED <<op, ret>>
        /\ \/ /\ sector' = [sector EXCEPT ![Dst].head = "current"]
              /\ CurrentSectors = {saddr}
           \/ /\ sector' = [sector EXCEPT ![saddr].head = "closed"]
              /\ CurrentSectors = Sectors
    BY <1>7 DEF PackMark, PackClose, Locals, StoreInv, CopyInv, ChosenInv
  <2>2. \A s \in Sectors : sector'[s].log = sector[s].log
    <3>1. CASE sector' = [sector EXCEPT ![Dst].head = "current"]
      BY <1>1, <3>1, SectorFacts
    <3>2. CASE sector' = [sector EXCEPT ![saddr].head = "closed"]
      BY <1>1, <3>2, SectorFacts
    <3> QED BY <2>1, <3>1, <3>2
  \* A reader finds one of the two sectors, before and after; once it is the new one it
  \* stays the new one.
  <2>3. /\ CurrentSectors \subseteq Sectors /\ CurrentSectors # {}
        /\ CurrentSectors' \subseteq Sectors /\ CurrentSectors' # {}
        /\ CurrentSectors = {saddr} \/ CurrentSectors' = {Dst}
    <3>1. /\ CurrentSectors \subseteq Sectors /\ CurrentSectors # {}
          /\ \/ CurrentSectors' = CurrentSectors \cup {Dst} /\ CurrentSectors = {saddr}
             \/ CurrentSectors' = Sectors \ {saddr}
      BY <1>1, <2>1, CurrentUpdate
    <3>2. Sectors \ {saddr} = {Dst}
      BY <1>1 DEF Sectors
    <3> QED BY <1>1, <3>1, <3>2
  <2> DEFINE before == Max(CurrentSectors)
             after  == Max(CurrentSectors')
  <2>4. /\ before \in {saddr, Dst} /\ after \in {saddr, Dst}
        /\ before = saddr \/ after = Dst
    <3>1. before \in CurrentSectors /\ after \in CurrentSectors'
      BY <2>3, LastSector
    <3>2. \A s \in Sectors : s \in {saddr, Dst}
      BY <1>1 DEF Sectors
    <3> QED BY <2>3, <3>1, <3>2
  <2>5. /\ Visible = [id \in Ids |-> ObjectIn(sector[before].log, id)]
        /\ Visible' = [id \in Ids |-> ObjectIn(sector[after].log, id)]
    BY <1>1, <2>2, <2>3, <2>4 DEF Visible
  <2> HIDE DEF before, after
  <2>6. CASE ~ TornSrc
    <3>1. \A id \in Ids : ObjectIn(sector[before].log, id) = ObjectIn(sector[after].log, id)
      BY <2>1, <2>4, <2>6 DEF Src, DstLog
    <3>2. Visible' = Visible
      BY <2>5, <3>1
    <3> QED BY <2>1, <3>2, Stutters
  <2>7. CASE TornSrc
    <3>1. \A id \in Ids : ObjectIn(sector[after].log, id)
                            \in {ObjectIn(sector[before].log, id), Absent}
      BY <2>1, <2>4 DEF CopyOrNone, Src, DstLog
    <3>2. \A id \in Ids : Visible'[id] \in {Visible[id], Absent}
      BY <2>5, <3>1
    <3>3. \E i \in DOMAIN Src : Src[i].size > MAX_FOBJ_SIZE
      BY <1>1, <2>7, LenProperties DEF TornSrc
    <3> QED BY <1>7, <3>2, <3>3 DEF TornRepack, Absent, StoreStep
  <2> QED BY <2>6, <2>7
<1> QED
  BY <1>2, <1>3, <1>5, <1>6, <1>7 DEF Pack, PackLoop

LEMMA StoreRefines ==
  ASSUME TypeInv, SpaceInv, StoreInv, [Next]_vars PROVE StoreStep
<1>1. CASE UNCHANGED vars
  BY <1>1, VisibleSame, Stutters DEF vars
<1>2. CASE Next
  BY <1>2, CallRefines, AccessRefines, PackRefines, CrashRefines DEF Next, Step
<1> QED BY <1>1, <1>2

\* Durability: while the objects of each id keep one size, whatever the calls and
\* wherever the power fails, also inside of a size byte, the stored objects change only as
\* EepStore says, but for the repack of a sector with a torn size: that one may drop
\* objects, and never alters one.
THEOREM StoreImplemented == ASSUME OneSizePerId PROVE Spec => ImplementsStore
<1>1. Init => Store!Init
  <2> SUFFICES ASSUME Init PROVE Store!Init
    OBVIOUS
  <2>1. CurrentSectors = {}
    BY DEF Init, CurrentSectors, Erased
  <2>2. Visible = [id \in Ids |-> Absent]
    BY <2>1, VisibleNothing
  <2> QED
    BY <2>2
    DEF Init, NoOp, NoResult, Result, Absent, Store!Init, Store!NoOp, Store!NoResult,
        Store!Result, Store!Absent
<1>2. TypeInv /\ SpaceInv /\ [Next]_vars => SpaceInv'
  BY SpaceInvNext
<1>3. TypeInv /\ SpaceInv /\ StoreInv /\ [Next]_vars => StoreInv'
  BY StoreInvNext
<1>4. TypeInv /\ SpaceInv /\ StoreInv /\ [Next]_vars
        => [Store!Next \/ TornRepack]_(Store!vars)
  BY StoreRefines DEF StoreStep
<1> QED
  BY <1>1, <1>2, <1>3, <1>4, TypeInvInit, TypeInvNext, SpaceInvInit, StoreInvInit, PTL
  DEF Spec, ImplementsStore
===========================================================================
