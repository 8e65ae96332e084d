------------------------- MODULE DeviceConfig_proofs -------------------------
(***************************************************************************)
(* Proofs about DeviceConfig, for every length of the name, every content  *)
(* of the messages and every store that firmware of this board left.       *)
(***************************************************************************)
EXTENDS DeviceConfig, WellFoundedInduction, TLAPS

---------------------------------------------------------------------------
(* Numbers *)

\* The widths of the fields.
LEMMA Widths ==
  /\ \A x : x \in Words <=> x \in Nat /\ x <= 65535
  /\ \A x : x \in Bytes <=> x \in Nat /\ x <= 255
  /\ \A x : x \in Pincodes <=> x \in Nat /\ x <= 999999
BY DEF Words, Bytes, Pincodes

LEMMA Constants ==
  /\ MAX_DEV_NAME_LEN \in Nat /\ MAX_DEV_NAME_LEN > 0
  /\ DEV_NAME_STR \in Seq(Bytes \ {0})
  /\ Len(DEV_NAME_STR) \in 1..(MAX_DEV_NAME_LEN - 1)
  /\ NewNames \subseteq Seq(Bytes) /\ \A s \in NewNames : Len(s) > 0
  /\ NewCfgs \subseteq Seq(Words) /\ NewTempCfgs \subseteq Seq(Words)
  /\ NewPincodes \subseteq Nat
  /\ NEW_VER \in Nat /\ NEW_VER % 65536 = BOARD
BY DeviceConfigAssumption

LEMMA SizesOf ==
  /\ SizeOf[EEP_ID_VER] = 4 /\ SizeOf[EEP_ID_DEV_CFG] = 6 /\ SizeOf[EEP_ID_PINCODE] = 4
  /\ SizeOf[EEP_ID_TEMP_CFG] = 4 /\ SizeOf[EEP_ID_BKEY] = 16
BY DEF SizeOf, Ids, Settings, EEP_ID_VER, EEP_ID_DEV_CFG, EEP_ID_PINCODE, EEP_ID_TEMP_CFG,
       EEP_ID_BKEY, EEP_ID_DEV_NAME

LEMMA IdsDiffer ==
  /\ Ids = {EEP_ID_VER, EEP_ID_DEV_CFG, EEP_ID_DEV_NAME, EEP_ID_PINCODE, EEP_ID_TEMP_CFG,
            EEP_ID_BKEY}
  /\ EEP_ID_VER \notin Settings
  /\ EEP_ID_DEV_NAME \notin {EEP_ID_DEV_CFG, EEP_ID_PINCODE, EEP_ID_TEMP_CFG, EEP_ID_BKEY}
  /\ EEP_ID_DEV_CFG \notin {EEP_ID_PINCODE, EEP_ID_TEMP_CFG, EEP_ID_BKEY}
  /\ EEP_ID_TEMP_CFG \notin {EEP_ID_PINCODE, EEP_ID_BKEY}
  /\ EEP_ID_PINCODE # EEP_ID_BKEY
BY DEF Ids, Settings, EEP_ID_VER, EEP_ID_DEV_CFG, EEP_ID_PINCODE, EEP_ID_TEMP_CFG,
       EEP_ID_BKEY, EEP_ID_DEV_NAME

---------------------------------------------------------------------------
(* Configurations *)

\* memcpy changes fields of a structure to fields of the message.
LEMMA MemcpyTyped ==
  ASSUME NEW n \in Nat, NEW S, NEW c \in [1..n -> S], NEW s \in Seq(S)
  PROVE  Memcpy(c, s) \in [1..n -> S]
<1>1. \A i \in 1..n : (IF i \in DOMAIN s THEN s[i] ELSE c[i]) \in S
  OBVIOUS
<1>2. Memcpy(c, s) = [i \in 1..n |-> IF i \in DOMAIN s THEN s[i] ELSE c[i]]
  BY DEF Memcpy
<1> QED BY <1>1, <1>2

LEMMA ClampIs ==
  ASSUME NEW x \in Words
  PROVE  /\ Clamp(x, ADV_INTERVAL_50MS, ADV_INTERVAL_10_24S) \in Words
         /\ ADV_INTERVAL_50MS <= Clamp(x, ADV_INTERVAL_50MS, ADV_INTERVAL_10_24S)
         /\ Clamp(x, ADV_INTERVAL_50MS, ADV_INTERVAL_10_24S) <= ADV_INTERVAL_10_24S
         /\ ADV_INTERVAL_50MS <= x /\ x <= ADV_INTERVAL_10_24S
            => Clamp(x, ADV_INTERVAL_50MS, ADV_INTERVAL_10_24S) = x
<1>1. x \in Nat /\ x <= 65535
  BY Widths
<1>2. PICK y \in Nat : y = Clamp(x, ADV_INTERVAL_50MS, ADV_INTERVAL_10_24S)
  BY <1>1 DEF Clamp, ADV_INTERVAL_50MS, ADV_INTERVAL_10_24S
<1>3. y <= 65535
  BY <1>1, <1>2 DEF Clamp, ADV_INTERVAL_50MS, ADV_INTERVAL_10_24S
<1>4. y \in Words
  BY <1>2, <1>3, Widths
<1> QED BY <1>1, <1>2, <1>4 DEF Clamp, ADV_INTERVAL_50MS, ADV_INTERVAL_10_24S

\* A range that test_dev_cfg checks, without the ends of the interval as literals.
LEMMA UsableIs ==
  ASSUME NEW c
  PROVE  Usable(c) <=> /\ c[1] \in Int /\ ADV_INTERVAL_50MS <= c[1]
                       /\ c[1] <= ADV_INTERVAL_10_24S
                       /\ c[2] >= 1 /\ c[3] # 0
<1>1. \A x : \A m \in Int, n \in Int : x \in m..n <=> x \in Int /\ m <= x /\ x <= n
  OBVIOUS
<1>2. ADV_INTERVAL_50MS \in Int /\ ADV_INTERVAL_10_24S \in Int
  BY DEF ADV_INTERVAL_50MS, ADV_INTERVAL_10_24S
<1>3. c[1] \in ADV_INTERVAL_50MS..ADV_INTERVAL_10_24S
      <=> c[1] \in Int /\ ADV_INTERVAL_50MS <= c[1] /\ c[1] <= ADV_INTERVAL_10_24S
  BY <1>1, <1>2, Zenon
<1> QED BY <1>3, Zenon DEF Usable, advIntervalOf, measuredIntervalsOf

\* test_dev_cfg makes a configuration usable,
LEMMA ValidCfgUsable ==
  ASSUME NEW c \in Cfgs
  PROVE  ValidCfg(c) \in Cfgs /\ Usable(ValidCfg(c))
<1>1. c[1] \in Words /\ c[2] \in Words /\ c[3] \in Words /\ c[4] \in Words
  BY DEF Cfgs
<1>2. c[2] \in Nat /\ c[3] \in Nat /\ 1 \in Words /\ MY_RF_POWER_INDEX \in Words \ {0}
  BY <1>1, Widths DEF MY_RF_POWER_INDEX
<1> DEFINE a == Clamp(c[1], ADV_INTERVAL_50MS, ADV_INTERVAL_10_24S)
           m == IF c[2] < 1 THEN 1 ELSE c[2]
           p == IF c[3] = 0 THEN MY_RF_POWER_INDEX ELSE c[3]
<1>3. a \in Words /\ ADV_INTERVAL_50MS <= a /\ a <= ADV_INTERVAL_10_24S
  BY <1>1, ClampIs
<1>4. m \in Words /\ m >= 1 /\ p \in Words /\ p # 0
  BY <1>1, <1>2
<1>5. a \in Int
  BY <1>3, Widths
<1>6. ValidCfg(c) = <<a, m, p, c[4]>>
  BY DEF ValidCfg
<1> HIDE DEF a, m, p
<1>7. ValidCfg(c) \in Cfgs
  BY <1>1, <1>3, <1>4, <1>6 DEF Cfgs
<1>8. ValidCfg(c)[1] = a /\ ValidCfg(c)[2] = m /\ ValidCfg(c)[3] = p
  BY <1>6
<1> QED BY <1>3, <1>4, <1>5, <1>7, <1>8, UsableIs

\* and leaves a usable one as it is.
LEMMA ValidCfgFixed ==
  ASSUME NEW c \in Cfgs, Usable(c)
  PROVE  ValidCfg(c) = c
<1>1. c[1] \in Words /\ c[2] \in Words
  BY DEF Cfgs
<1>2. Clamp(c[1], ADV_INTERVAL_50MS, ADV_INTERVAL_10_24S) = c[1]
  BY <1>1, ClampIs, UsableIs
<1>3. ~(c[2] < 1) /\ c[3] # 0
  BY <1>1, UsableIs, Widths
<1>4. ValidCfg(c) = <<c[1], c[2], c[3], c[4]>>
  BY <1>2, <1>3 DEF ValidCfg
<1> QED BY <1>4 DEF Cfgs

LEMMA IntervalTyped ==
  ASSUME NEW c \in Cfgs
  PROVE  IntervalOf(c) \in 0..(IntervalLimit - 1)
<1>1. c[1] \in Nat /\ c[2] \in Nat
  BY Widths DEF Cfgs
<1>2. c[1] * c[2] * 625 \in Nat
  BY <1>1
<1>3. \A n \in Nat \ {0}, x \in Nat : x % n \in 0..(n - 1)
  OBVIOUS
<1>4. IntervalLimit \in Nat \ {0}
  BY DEF IntervalLimit
<1> QED BY <1>2, <1>3, <1>4, Zenon DEF IntervalOf, advIntervalOf, measuredIntervalsOf

---------------------------------------------------------------------------
(* Names *)

\* A set of positions that is not empty has a first one, and Min finds it.
LEMMA MinPosition ==
  ASSUME NEW S, S \subseteq Nat, S # {}
  PROVE  Min(S) \in S /\ \A y \in S : Min(S) <= y
<1>1. PICK x \in S : \A y \in S : ~ (<<y, x>> \in OpToRel(<, Nat))
  BY NatLessThanWellFounded, WFMin, Zenon
<1>2. \A y \in S : ~(y < x)
  BY <1>1 DEF OpToRel
<1>3. \A y \in S : x <= y
  BY <1>2
<1> QED BY <1>3 DEF Min

\* A buffer of the name, with a 0 at its end, and its string of k characters.
Buffers == [1..(MAX_DEV_NAME_LEN + 1) -> Bytes]
EndsAt(buf, k) ==
  k \in 0..MAX_DEV_NAME_LEN /\ buf[k + 1] = 0 /\ \A i \in 1..k : buf[i] # 0

LEMMA BufferIs ==
  ASSUME NEW buf \in Buffers
  PROVE  buf \in Seq(Bytes) /\ Len(buf) = MAX_DEV_NAME_LEN + 1
BY Constants DEF Buffers

\* strlen finds the first 0.
LEMMA StrLenFinds ==
  ASSUME NEW buf \in Buffers, buf[MAX_DEV_NAME_LEN + 1] = 0
  PROVE  EndsAt(buf, StrLen(buf))
<1> DEFINE Z == {i \in 1..Len(buf) : buf[i] = 0}
<1>1. Len(buf) = MAX_DEV_NAME_LEN + 1 /\ MAX_DEV_NAME_LEN \in Nat
  BY BufferIs, Constants
<1>2. MAX_DEV_NAME_LEN + 1 \in Z /\ Z \subseteq Nat
  BY <1>1
<1>3. SelectInSeq(buf, LAMBDA b : b = 0) = Min(Z)
  BY <1>2 DEF SelectInSeq
<1>4. Min(Z) \in Z /\ \A y \in Z : Min(Z) <= y
  BY <1>2, MinPosition
<1>5. PICK m \in Z : m = Min(Z) /\ StrLen(buf) = m - 1
  BY <1>3, <1>4 DEF StrLen
<1>6. \A i \in 1..(m - 1) : i \notin Z
  BY <1>1, <1>4, <1>5
<1>7. \A i \in 1..(m - 1) : i \in 1..Len(buf)
  BY <1>1, <1>5
<1> QED BY <1>1, <1>5, <1>6, <1>7 DEF EndsAt

LEMMA EndsOnce ==
  ASSUME NEW buf, NEW k, NEW l, EndsAt(buf, k), EndsAt(buf, l)
  PROVE  k = l
<1>1. k \in Nat /\ l \in Nat
  BY Constants DEF EndsAt
<1>2. ~(k < l) /\ ~(l < k)
  BY <1>1 DEF EndsAt
<1> QED BY <1>1, <1>2
\* Two buffers that agree up to the 0 hold the same string.
LEMMA SameString ==
  ASSUME NEW a \in Buffers, NEW b \in Buffers, a[MAX_DEV_NAME_LEN + 1] = 0,
         b[MAX_DEV_NAME_LEN + 1] = 0, NEW k, EndsAt(a, k), \A i \in 1..(k + 1) : b[i] = a[i]
  PROVE  EndsAt(b, k) /\ CStr(b) = CStr(a)
<1>1. k \in Nat
  BY Constants DEF EndsAt
<1>2. EndsAt(b, k)
  BY <1>1 DEF EndsAt
<1>3. StrLen(a) = k /\ StrLen(b) = k
  BY <1>2, StrLenFinds, EndsOnce
<1>4. SubSeq(a, 1, k) = SubSeq(b, 1, k)
  BY <1>1
<1> QED BY <1>2, <1>3, <1>4 DEF CStr

\* test_dev_cfg makes a name that is not empty, with a length that covers it and fits.
LEMMA ValidNameIs ==
  ASSUME NEW buf \in Buffers
  PROVE  /\ ValidName(buf).name \in Buffers
         /\ ValidName(buf).name[MAX_DEV_NAME_LEN + 1] = 0
         /\ ValidName(buf).len \in 1..MAX_DEV_NAME_LEN
         /\ \E k \in 1..ValidName(buf).len : EndsAt(ValidName(buf).name, k)
<1> DEFINE b == [buf EXCEPT ![MAX_DEV_NAME_LEN + 1] = 0]
<1>1. b \in Buffers /\ b[MAX_DEV_NAME_LEN + 1] = 0
  <2>1. 0 \in Bytes /\ MAX_DEV_NAME_LEN + 1 \in 1..(MAX_DEV_NAME_LEN + 1)
    BY Constants, Widths
  <2> QED BY <2>1 DEF Buffers
<1>2. EndsAt(b, StrLen(b))
  BY <1>1, StrLenFinds
<1>3. ValidName(buf) = IF StrLen(b) > 0
                       THEN [name |-> b, len |-> StrLen(b)]
                       ELSE [name |-> Memcpy(b, Append(DEV_NAME_STR, 0)),
                             len |-> Len(DEV_NAME_STR) + 1]
  BY DEF ValidName
<1> HIDE DEF b
<1>4. CASE StrLen(b) > 0
  <2>1. ValidName(buf).name = b /\ ValidName(buf).len = StrLen(b)
    BY <1>3, <1>4
  <2>2. StrLen(b) \in 1..StrLen(b) /\ StrLen(b) \in 1..MAX_DEV_NAME_LEN
    BY <1>2, <1>4, Constants DEF EndsAt
  <2> QED BY <1>1, <1>2, <2>1, <2>2
<1>5. CASE ~(StrLen(b) > 0)
  <2> DEFINE d == Append(DEV_NAME_STR, 0)
             n == Len(DEV_NAME_STR)
  <2>1. n \in 1..(MAX_DEV_NAME_LEN - 1) /\ 0 \in Bytes
    BY Constants, Widths
  <2>2. DEV_NAME_STR \in Seq(Bytes) /\ \A i \in 1..n : DEV_NAME_STR[i] # 0
    BY Constants
  <2>3. d \in Seq(Bytes) /\ Len(d) = n + 1 /\ d[n + 1] = 0
        /\ \A i \in 1..n : d[i] = DEV_NAME_STR[i]
    BY <2>1, <2>2
  <2>4. ValidName(buf).name = Memcpy(b, d) /\ ValidName(buf).len = n + 1
    BY <1>3, <1>5
  <2> HIDE DEF d
  <2>5. Memcpy(b, d) \in Buffers
    <3>1. MAX_DEV_NAME_LEN + 1 \in Nat
      BY Constants
    <3> QED BY <1>1, <2>3, <3>1, MemcpyTyped DEF Buffers
  <2>6. DOMAIN d = 1..(n + 1) /\ DOMAIN b = 1..(MAX_DEV_NAME_LEN + 1)
    BY <1>1, <2>3 DEF Buffers
  <2>7. \A i \in 1..(MAX_DEV_NAME_LEN + 1) :
          Memcpy(b, d)[i] = IF i \in 1..(n + 1) THEN d[i] ELSE b[i]
    BY <2>6 DEF Memcpy
  <2> HIDE DEF n
  <2>8. EndsAt(Memcpy(b, d), n)
    BY <2>1, <2>2, <2>3, <2>7, Constants DEF EndsAt
  <2>9. Memcpy(b, d)[MAX_DEV_NAME_LEN + 1] = 0
    BY <1>1, <2>1, <2>7, Constants
  <2>10. n \in 1..(n + 1) /\ n + 1 \in 1..MAX_DEV_NAME_LEN
    BY <2>1, Constants
  <2> QED BY <2>4, <2>5, <2>8, <2>9, <2>10
<1> QED BY <1>4, <1>5

\* It leaves a name that is not empty as it is.
LEMMA ValidNameFixed ==
  ASSUME NEW buf \in Buffers, buf[MAX_DEV_NAME_LEN + 1] = 0,
         NEW k \in 1..MAX_DEV_NAME_LEN, EndsAt(buf, k)
  PROVE  ValidName(buf).name = buf
<1>1. [buf EXCEPT ![MAX_DEV_NAME_LEN + 1] = 0] = buf
  BY DEF Buffers
<1>2. StrLen(buf) = k
  BY StrLenFinds, EndsOnce
<1>3. StrLen(buf) > 0
  BY <1>2, Constants
<1> QED BY <1>1, <1>3 DEF ValidName

LEMMA ZerosTyped == Zeros \in Buffers
BY Constants, Widths DEF Zeros, Buffers

\* A start finds the string that save_dev_name saved.
LEMMA SavedNameFound ==
  ASSUME NEW buf \in Buffers, buf[MAX_DEV_NAME_LEN + 1] = 0,
         NEW len \in 1..MAX_DEV_NAME_LEN, NEW k \in 1..len, EndsAt(buf, k)
  PROVE  LET found == Memcpy(Zeros, SubSeq(buf, 1, len)) IN
           CStr(ValidName(found).name) = CStr(buf)
<1> DEFINE s == SubSeq(buf, 1, len)
           found == Memcpy(Zeros, s)
<1>1. len \in Nat /\ k \in Nat /\ k <= len /\ len <= MAX_DEV_NAME_LEN
  BY Constants
<1>2. s \in Seq(Bytes) /\ Len(s) = len /\ \A i \in 1..len : s[i] = buf[i]
  BY <1>1, BufferIs, Constants
<1> HIDE DEF s
<1>3. found \in Buffers
  <2>1. MAX_DEV_NAME_LEN + 1 \in Nat
    BY Constants
  <2> QED BY <1>2, <2>1, ZerosTyped, MemcpyTyped DEF Buffers
<1>4. DOMAIN s = 1..len /\ DOMAIN Zeros = 1..(MAX_DEV_NAME_LEN + 1)
  BY <1>2 DEF Zeros
<1>5. \A i \in 1..(MAX_DEV_NAME_LEN + 1) : found[i] = IF i \in 1..len THEN s[i] ELSE 0
  BY <1>4 DEF Memcpy, Zeros
<1> HIDE DEF found
<1>6. \A i \in 1..(k + 1) : found[i] = buf[i]
  BY <1>1, <1>2, <1>5, Constants DEF EndsAt
<1>7. found[MAX_DEV_NAME_LEN + 1] = 0
  BY <1>1, <1>5, Constants
<1>8. EndsAt(found, k) /\ CStr(found) = CStr(buf)
  BY <1>3, <1>6, <1>7, SameString
<1>9. ValidName(found).name = found
  BY <1>1, <1>3, <1>7, <1>8, ValidNameFixed, Constants
<1> QED BY <1>8, <1>9 DEF found, s
---------------------------------------------------------------------------
(* The calls of the store *)

WriteOp(id, size, v) == [kind |-> "write", id |-> id, size |-> size, val |-> v]
ReadOp(id, maxsize)  == [kind |-> "read", id |-> id, maxsize |-> maxsize]
EraseOp              == [kind |-> "erase"]

\* The call that was made where the program is.
Request ==
  CASE pc = "version" -> ReadOp(EEP_ID_VER, SizeOf[EEP_ID_VER])
    [] pc \in {"erased", "reset"} -> EraseOp
    [] pc = "version_written" -> WriteOp(EEP_ID_VER, SizeOf[EEP_ID_VER], NEW_VER)
    [] pc = "name" -> ReadOp(EEP_ID_DEV_NAME, MAX_DEV_NAME_LEN)
    [] pc = "temp_cfg" -> ReadOp(EEP_ID_TEMP_CFG, SizeOf[EEP_ID_TEMP_CFG])
    [] pc = "dev_cfg" -> ReadOp(EEP_ID_DEV_CFG, SizeOf[EEP_ID_DEV_CFG])
    [] pc \in {"pincode", "pincode_saved"} ->
         WriteOp(EEP_ID_PINCODE, SizeOf[EEP_ID_PINCODE], pincode)
    [] pc = "bindkey" -> ReadOp(EEP_ID_BKEY, SizeOf[EEP_ID_BKEY])
    [] pc \in {"bindkey_written", "bindkey_saved"} ->
         WriteOp(EEP_ID_BKEY, SizeOf[EEP_ID_BKEY], bindkey)
    [] pc = "name_saved" -> WriteOp(EEP_ID_DEV_NAME, nameLen, SubSeq(name, 1, nameLen))
    [] pc = "cfg_saved" -> WriteOp(EEP_ID_DEV_CFG, SizeOf[EEP_ID_DEV_CFG], dev_cfg)
    [] pc = "temp_cfg_saved" -> WriteOp(EEP_ID_TEMP_CFG, SizeOf[EEP_ID_TEMP_CFG], temp_cfg)
    [] OTHER -> Store!NoOp

\* What the store returned to a call, and what it did.
Answers(o) ==
  /\ o.kind = "read" =>
       IF kv[o.id] = Store!Absent
       THEN ret.code \in {0, Store!FMEM_NOT_FOUND}
       ELSE /\ ret.code = kv[o.id].size
            /\ ret.val = Store!Fetched(kv[o.id], o.maxsize)
  /\ o.kind = "write" =>
       \/ ret.code = o.size /\ kv[o.id] = Store!ObjectOf(o.size, o.val)
       \/ ret.code = Store!FMEM_OVERFLOW
  /\ o.kind = "erase" => \A id \in Ids : kv[id] = Store!Absent

\* The store serves this call, or has answered it.
StoreInv ==
  \/ op = Request /\ ret = Store!NoResult
  \/ op = Store!NoOp /\ Answers(Request)

\* The store has an object, or none, for every id.
KvInv == kv = [id \in Ids |-> kv[id]]

\* A step of the store: the answer, or the objects it wrote or erased.
ServeEffect(o) ==
  \/ kv' = kv
  \/ o.kind = "write" /\ kv' = [kv EXCEPT ![o.id] = Store!ObjectOf(o.size, o.val)]
  \/ o.kind = "erase" /\ kv' = [id \in Ids |-> Store!Absent]

LEMMA RequestIds ==
  Request.kind = "write" => Request.id \in Ids
BY IdsDiffer DEF Request, WriteOp, ReadOp, EraseOp, Store!NoOp

LEMMA ServeStep ==
  ASSUME StoreInv, KvInv, Serve
  PROVE  /\ op = Request /\ ret = Store!NoResult /\ Request' = Request
         /\ ServeEffect(Request)
         /\ StoreInv' /\ KvInv'
<1>1. op.kind \in {"write", "read", "erase"}
  BY DEF Serve, Store!Serve, Store!CompleteWrite, Store!OverflowWrite, Store!CompleteRead,
         Store!Wipe, Store!CompleteErase
<1>2. op = Request /\ ret = Store!NoResult
  BY <1>1 DEF StoreInv, Store!NoOp
<1>3. Request' = Request
  BY DEF Serve, Request, ram, cfg, ble
<1> DEFINE o == Request
<1>4. o' = o /\ op = o
  BY <1>2, <1>3
<1>5. o.kind = "write" => o.id \in Ids
  BY RequestIds
<1> HIDE DEF o
<1>6. CASE Store!CompleteWrite
  <2>1. o.kind = "write" /\ op' = Store!NoOp /\ ret'.code = o.size
        /\ kv' = [kv EXCEPT ![o.id] = Store!ObjectOf(o.size, o.val)]
    BY <1>4, <1>6 DEF Store!CompleteWrite, Store!Return, Store!Result
  <2>2. kv'[o.id] = Store!ObjectOf(o.size, o.val) /\ KvInv'
    BY <1>5, <2>1 DEF KvInv
  <2>3. Answers(o)'
    BY <1>4, <2>1, <2>2 DEF Answers
  <2> QED BY <1>2, <1>3, <2>1, <2>2, <2>3 DEF o, ServeEffect, StoreInv
<1>7. CASE Store!OverflowWrite
  <2>1. o.kind = "write" /\ op' = Store!NoOp /\ ret'.code = Store!FMEM_OVERFLOW /\ kv' = kv
    BY <1>4, <1>7 DEF Store!OverflowWrite, Store!Return, Store!Result
  <2>2. Answers(o)'
    BY <1>4, <2>1 DEF Answers
  <2> QED BY <1>2, <1>3, <2>1, <2>2 DEF o, ServeEffect, StoreInv, KvInv
<1>8. CASE Store!CompleteRead
  <2>1. o.kind = "read" /\ op' = Store!NoOp /\ kv' = kv
    BY <1>4, <1>8 DEF Store!CompleteRead, Store!Return
  <2>2. IF kv[o.id] = Store!Absent
        THEN ret'.code \in {0, Store!FMEM_NOT_FOUND}
        ELSE /\ ret'.code = kv[o.id].size
             /\ ret'.val = Store!Fetched(kv[o.id], o.maxsize)
    BY <1>4, <1>8 DEF Store!CompleteRead, Store!Return, Store!Result
  <2>3. Answers(o)'
    BY <1>4, <2>1, <2>2 DEF Answers
  <2> QED BY <1>2, <1>3, <2>1, <2>3 DEF o, ServeEffect, StoreInv, KvInv
<1>9. CASE Store!Wipe
  <2>1. o.kind = "erase" /\ op' = op /\ ret' = ret /\ kv' = [id \in Ids |-> Store!Absent]
    BY <1>4, <1>9 DEF Store!Wipe
  <2> QED BY <1>2, <1>3, <2>1 DEF o, ServeEffect, StoreInv, KvInv
<1>10. CASE Store!CompleteErase
  <2>1. o.kind = "erase" /\ op' = Store!NoOp /\ kv' = [id \in Ids |-> Store!Absent]
    BY <1>4, <1>10 DEF Store!CompleteErase, Store!Return
  <2>2. Answers(o)'
    BY <1>4, <2>1 DEF Answers
  <2> QED BY <1>2, <1>3, <2>1, <2>2 DEF o, ServeEffect, StoreInv, KvInv
<1> QED BY <1>6, <1>7, <1>8, <1>9, <1>10 DEF Serve, Store!Serve
\* Every call is the one of the place the program goes to.
LEMMA StoreInvNext ==
  ASSUME StoreInv, KvInv, [Next]_vars
  PROVE  StoreInv' /\ KvInv'
<1> USE DEF Goto, ram, cfg, ble, address, store
<1>1. ASSUME NEW o, Store!Start(o), Request' = o
      PROVE  StoreInv' /\ KvInv'
  BY <1>1 DEF Store!Start, StoreInv, KvInv
<1>2. ASSUME Request' = Store!NoOp, op' = Store!NoOp, UNCHANGED kv
      PROVE  StoreInv' /\ KvInv'
  <2>1. Answers(Request)'
    BY <1>2 DEF Answers, Store!NoOp
  <2> QED BY <1>2, <2>1 DEF StoreInv, KvInv
<1>3. CASE UNCHANGED vars
  <2>1. Request' = Request
    BY <1>3 DEF vars, Request
  <2>2. Answers(Request)' <=> Answers(Request)
    BY <1>3, <2>1 DEF vars, Answers
  <2> QED BY <1>3, <2>1, <2>2 DEF vars, StoreInv, KvInv
<1>4. CASE ReadVersion
  <2>1. Request' = ReadOp(EEP_ID_VER, SizeOf[EEP_ID_VER])
    BY <1>4 DEF ReadVersion, Request
  <2> QED BY <1>1, <1>4, <2>1 DEF ReadVersion, Read, ReadOp
<1>5. CASE KeepStore \/ WriteVersionAfterErase
  <2>1. Request' = WriteOp(EEP_ID_VER, SizeOf[EEP_ID_VER], NEW_VER)
    BY <1>5 DEF KeepStore, WriteVersionAfterErase, WriteVersion, Request
  <2> QED BY <1>1, <1>5, <2>1
          DEF KeepStore, WriteVersionAfterErase, WriteVersion, Write, WriteOp
<1>6. CASE EraseForeign \/ FactoryReset
  <2>1. Request' = EraseOp
    BY <1>6 DEF EraseForeign, FactoryReset, Request
  <2> QED BY <1>1, <1>6, <2>1 DEF EraseForeign, FactoryReset, Erase, EraseOp
<1>7. CASE ReadName
  <2>1. Request' = ReadOp(EEP_ID_DEV_NAME, MAX_DEV_NAME_LEN)
    BY <1>7 DEF ReadName, Request
  <2> QED BY <1>1, <1>7, <2>1 DEF ReadName, Read, ReadOp
<1>8. CASE LoadName
  <2>1. Request' = ReadOp(EEP_ID_TEMP_CFG, SizeOf[EEP_ID_TEMP_CFG])
    BY <1>8 DEF LoadName, Request
  <2> QED BY <1>1, <1>8, <2>1 DEF LoadName, Read, ReadOp
<1>9. CASE LoadTempCfg
  <2>1. Request' = ReadOp(EEP_ID_DEV_CFG, SizeOf[EEP_ID_DEV_CFG])
    BY <1>9 DEF LoadTempCfg, Request
  <2> QED BY <1>1, <1>9, <2>1 DEF LoadTempCfg, Read, ReadOp
<1>10. CASE LoadDevCfg
  <2>1. Request' = WriteOp(EEP_ID_PINCODE, SizeOf[EEP_ID_PINCODE], pincode)
    BY <1>10 DEF LoadDevCfg, Request
  <2> QED BY <1>1, <1>10, <2>1 DEF LoadDevCfg, Write, WriteOp
<1>11. CASE LoadPincode
  <2>1. Request' = ReadOp(EEP_ID_BKEY, SizeOf[EEP_ID_BKEY])
    BY <1>11 DEF LoadPincode, Request
  <2> QED BY <1>1, <1>11, <2>1 DEF LoadPincode, Read, ReadOp
<1>12. CASE LoadBindkey
  <2>1. ret.code # 0
    BY <1>12, SizesOf DEF LoadBindkey, Succeeded
  <2>2. op = Store!NoOp
    BY <2>1 DEF StoreInv, Store!NoResult, Store!Result
  <2>3. Request' = Store!NoOp /\ UNCHANGED <<kv, op>>
    BY <1>12 DEF LoadBindkey, Request
  <2> QED BY <1>2, <2>2, <2>3
<1>13. CASE GenerateBindkey
  <2>1. PICK k \in Keys : bindkey' = k /\ Write(EEP_ID_BKEY, SizeOf[EEP_ID_BKEY], k)
    BY <1>13 DEF GenerateBindkey
  <2>2. Request' = WriteOp(EEP_ID_BKEY, SizeOf[EEP_ID_BKEY], k)
    BY <1>13, <2>1 DEF GenerateBindkey, Request
  <2> QED BY <1>1, <2>1, <2>2 DEF Write, WriteOp
<1>14. CASE BindkeyWritten
  <2>1. Request' = Store!NoOp /\ UNCHANGED <<kv, op>> /\ op = Store!NoOp
    BY <1>14 DEF BindkeyWritten, Request
  <2> QED BY <1>2, <2>1
<1>15. ASSUME pc \in {"loaded", "run", "mac_erased", "boot"}, pc' \in {"run", "mac_erased", "boot"},
              UNCHANGED <<kv, op>>
       PROVE  StoreInv' /\ KvInv'
  <2>1. Request = Store!NoOp /\ Request' = Store!NoOp
    BY <1>15 DEF Request
  <2>2. op = Store!NoOp
    BY <2>1 DEF StoreInv
  <2> QED BY <1>2, <1>15, <2>1, <2>2
<1>16. CASE InitBle \/ Connect \/ WriteMac
  BY <1>15, <1>16 DEF InitBle, Connect, WriteMac
<1>17. CASE Terminate
  BY <1>15, <1>17 DEF Terminate, Restart
<1>18. CASE SetCfgDefault \/ SetTempCfgDefault \/ EraseMac
  BY <1>15, <1>18 DEF SetCfgDefault, SetTempCfgDefault, EraseMac, Command
<1>19. ASSUME NEW s \in NewNames, SetName(s)
       PROVE  StoreInv' /\ KvInv'
  <2>1. Request' = WriteOp(EEP_ID_DEV_NAME, nameLen', SubSeq(name', 1, nameLen'))
    BY <1>19 DEF SetName, Request
  <2> QED BY <1>1, <1>19, <2>1 DEF SetName, Write, WriteOp
<1>20. ASSUME NEW c \in NewCfgs, SetCfg(c)
       PROVE  StoreInv' /\ KvInv'
  <2>1. Request' = WriteOp(EEP_ID_DEV_CFG, SizeOf[EEP_ID_DEV_CFG], dev_cfg')
    BY <1>20 DEF SetCfg, Request
  <2> QED BY <1>1, <1>20, <2>1 DEF SetCfg, Write, WriteOp
<1>21. ASSUME NEW c \in NewTempCfgs, SetTempCfg(c)
       PROVE  StoreInv' /\ KvInv'
  <2>1. Request' = WriteOp(EEP_ID_TEMP_CFG, SizeOf[EEP_ID_TEMP_CFG], temp_cfg')
    BY <1>21 DEF SetTempCfg, Request
  <2> QED BY <1>1, <1>21, <2>1 DEF SetTempCfg, Write, WriteOp
<1>22. ASSUME NEW p \in NewPincodes, SetPincode(p)
       PROVE  StoreInv' /\ KvInv'
  <2>1. Request' = WriteOp(EEP_ID_PINCODE, SizeOf[EEP_ID_PINCODE], p)
    BY <1>22 DEF SetPincode, Request
  <2> QED BY <1>1, <1>22, <2>1 DEF SetPincode, Write, WriteOp
<1>23. ASSUME NEW k \in Keys, SetBindkey(k)
       PROVE  StoreInv' /\ KvInv'
  <2>1. Request' = WriteOp(EEP_ID_BKEY, SizeOf[EEP_ID_BKEY], k)
    BY <1>23 DEF SetBindkey, Request
  <2> QED BY <1>1, <1>23, <2>1 DEF SetBindkey, Write, WriteOp
<1>24. CASE NameSaved \/ CfgSaved \/ TempCfgSaved \/ PincodeSaved \/ BindkeySaved
  <2>1. pc' = "run" /\ op = Store!NoOp /\ UNCHANGED <<kv, op>>
    BY <1>24 DEF NameSaved, CfgSaved, TempCfgSaved, PincodeSaved, BindkeySaved, Replied
  <2>2. Request' = Store!NoOp
    BY <2>1 DEF Request
  <2> QED BY <1>2, <2>1, <2>2
<1>25. CASE RebootAfterReset \/ Crash
  <2>1. pc' = "boot" /\ op' = Store!NoOp /\ UNCHANGED kv
    BY <1>25 DEF RebootAfterReset, Crash, Restart, Store!Crash
  <2>2. Request' = Store!NoOp
    BY <2>1 DEF Request
  <2> QED BY <1>2, <2>1, <2>2
<1>26. CASE Serve
  BY <1>26, ServeStep
<1> QED
  BY <1>3, <1>4, <1>5, <1>6, <1>7, <1>8, <1>9, <1>10, <1>11, <1>12, <1>13, <1>14, <1>16,
     <1>17, <1>18, <1>19, <1>20, <1>21, <1>22, <1>23, <1>24, <1>25, <1>26
  DEF Next, Boot, Set, Reply
---------------------------------------------------------------------------
(* The settings in RAM *)

\* The device works: it was started and not asked to reset.
Running == SaveLabels \cup {"run"}

\* The steps that change the name or the configuration of the device.
LEMMA ConfigFrame ==
  ASSUME [Next]_vars
  PROVE  \/ LoadName \/ LoadDevCfg \/ InitBle
         \/ \E s \in NewNames : SetName(s)
         \/ \E c \in NewCfgs : SetCfg(c)
         \/ SetCfgDefault
         \/ Restart
         \/ UNCHANGED cfg /\ (pc' \in Running => pc \in Running)
<1> USE DEF Goto, cfg, ram, ble, Running, SaveLabels
<1>1. UNCHANGED vars => UNCHANGED <<cfg, pc>>
  BY DEF vars
<1>2. ReadVersion \/ KeepStore \/ EraseForeign \/ WriteVersionAfterErase \/ ReadName
      => UNCHANGED cfg /\ pc' \notin Running
  BY DEF ReadVersion, KeepStore, EraseForeign, WriteVersionAfterErase, WriteVersion, ReadName
<1>3. LoadTempCfg \/ LoadPincode \/ LoadBindkey \/ GenerateBindkey \/ BindkeyWritten
      => UNCHANGED cfg /\ pc' \notin Running
  BY DEF LoadTempCfg, LoadPincode, LoadBindkey, GenerateBindkey, BindkeyWritten
<1>4. Connect => UNCHANGED cfg /\ pc = "run"
  BY DEF Connect
<1>5. Terminate => Restart \/ (UNCHANGED cfg /\ pc = "run")
  BY DEF Terminate
<1>6. (\E c \in NewTempCfgs : SetTempCfg(c)) \/ SetTempCfgDefault
      \/ (\E p \in NewPincodes : SetPincode(p)) \/ (\E k \in Keys : SetBindkey(k)) \/ EraseMac
      => UNCHANGED cfg /\ pc = "run"
  BY DEF SetTempCfg, SetTempCfgDefault, SetPincode, SetBindkey, EraseMac, Command
<1>7. Reply => UNCHANGED cfg /\ pc \in Running
  BY DEF Reply, NameSaved, CfgSaved, TempCfgSaved, PincodeSaved, BindkeySaved, Replied, WriteMac
<1>8. FactoryReset => UNCHANGED cfg /\ pc' \notin Running
  BY DEF FactoryReset
<1>9. RebootAfterReset \/ Crash => Restart
  BY DEF RebootAfterReset, Crash
<1>10. Serve => UNCHANGED <<cfg, pc>>
  BY DEF Serve
<1> QED
  BY <1>1, <1>2, <1>3, <1>4, <1>5, <1>6, <1>7, <1>8, <1>9, <1>10 DEF Next, Boot, Set

\* A device that works has a name that test_dev_cfg made,
NameInv ==
  /\ name \in Buffers /\ nameLen \in 0..MAX_DEV_NAME_LEN
  /\ pc \in Running =>
       /\ name[MAX_DEV_NAME_LEN + 1] = 0 /\ nameLen \in 1..MAX_DEV_NAME_LEN
       /\ \E k \in 1..nameLen : EndsAt(name, k)

\* and a configuration that it checked.
CfgInv ==
  /\ dev_cfg \in Cfgs /\ measureInterval \in 0..(IntervalLimit - 1)
  /\ pc \in Running => Usable(dev_cfg) /\ measureInterval = IntervalOf(dev_cfg)

LEMMA Tested ==
  ASSUME NEW buf \in Buffers, NEW c \in Cfgs, TestDevCfg(buf, c)
  PROVE  NameInv' /\ CfgInv'
<1>1. NameInv'
  <2>1. name' = ValidName(buf).name /\ nameLen' = ValidName(buf).len
    BY DEF TestDevCfg
  <2>2. nameLen' \in 0..MAX_DEV_NAME_LEN
    BY <2>1, ValidNameIs, Constants
  <2> QED BY <2>1, <2>2, ValidNameIs DEF NameInv
<1>2. CfgInv'
  <2>1. dev_cfg' = ValidCfg(c) /\ measureInterval' = IntervalOf(ValidCfg(c))
    BY DEF TestDevCfg
  <2> HIDE DEF IntervalLimit
  <2> QED BY <2>1, ValidCfgUsable, IntervalTyped DEF CfgInv
<1> QED BY <1>1, <1>2

\* Where the program reads a setting, the store is one of this board.
OwnInv ==
  /\ kv[EEP_ID_VER].size = SizeOf[EEP_ID_VER] => kv[EEP_ID_VER].val \in Nat
  /\ Own(kv) => Saved(kv)
  /\ pc = "erased" => ~Own(kv)
  /\ Loading =>
       \/ Own(kv)
       \/ pc = "version_written" /\ op # Store!NoOp /\ \A id \in Ids : kv[id] = Store!Absent
       \/ pc = "reset" /\ \A id \in Ids : kv[id] = Store!Absent

\* What load_config read is what the store has.
LEMMA ReadAnswer ==
  ASSUME StoreInv, op = Store!NoOp, NEW id \in Ids, NEW maxsize \in Nat,
         Request = ReadOp(id, maxsize)
  PROVE  IF kv[id] = Store!Absent
         THEN ret.code \in {0, Store!FMEM_NOT_FOUND}
         ELSE /\ ret.code = kv[id].size
              /\ kv[id].size <= maxsize => ret.val = kv[id].val
<1>1. Request.kind = "read" /\ Request.id = id /\ Request.maxsize = maxsize
  BY DEF ReadOp
<1>2. Answers(Request)
  BY <1>1 DEF StoreInv, Store!NoOp
<1> QED BY <1>1, <1>2 DEF Answers, Store!Fetched

LEMMA ReadWhole ==
  ASSUME StoreInv, op = Store!NoOp, NEW id \in Ids \ {EEP_ID_DEV_NAME},
         Request = ReadOp(id, SizeOf[id])
  PROVE  /\ Succeeded(id) <=> Stores(id)
         /\ Stores(id) => ret.val = kv[id].val
<1>1. SizeOf[id] \in Nat \ {0}
  BY SizesOf, IdsDiffer
<1>2. IF kv[id] = Store!Absent
      THEN ret.code \in {0, Store!FMEM_NOT_FOUND}
      ELSE /\ ret.code = kv[id].size
           /\ kv[id].size <= SizeOf[id] => ret.val = kv[id].val
  BY <1>1, ReadAnswer
<1> QED BY <1>1, <1>2 DEF Succeeded, Stores, Store!Absent, Store!FMEM_NOT_FOUND

\* What load_config makes of the name that is stored.
NameFound == LET n == kv[EEP_ID_DEV_NAME] IN
  IF n = Store!Absent THEN Zeros ELSE Memcpy(Zeros, n.val)

LEMMA NameFoundTyped ==
  ASSUME Saved(kv)
  PROVE  NameFound \in Buffers
<1>1. MAX_DEV_NAME_LEN + 1 \in Nat
  BY Constants
<1>2. CASE kv[EEP_ID_DEV_NAME] = Store!Absent
  BY <1>2, ZerosTyped DEF NameFound
<1>3. CASE kv[EEP_ID_DEV_NAME] # Store!Absent
  <2>1. kv[EEP_ID_DEV_NAME].val \in Seq(Bytes)
    BY <1>3 DEF Saved
  <2> QED BY <1>1, <1>3, <2>1, MemcpyTyped, ZerosTyped DEF NameFound, Buffers
<1> QED BY <1>2, <1>3

\* The name that LoadName takes into RAM, where the name was not set yet.
LEMMA NameLoaded ==
  ASSUME StoreInv, OwnInv, name = Zeros, LoadName
  PROVE  name' = NameFound /\ name' \in Buffers
<1>1. Own(kv) /\ Saved(kv)
  BY DEF LoadName, OwnInv, Loading
<1>2. op = Store!NoOp
  BY DEF LoadName, Read, Store!Start
<1>3. Request = ReadOp(EEP_ID_DEV_NAME, MAX_DEV_NAME_LEN) /\ EEP_ID_DEV_NAME \in Ids
  BY DEF LoadName, Request, Ids, Settings
<1>4. IF kv[EEP_ID_DEV_NAME] = Store!Absent
      THEN ret.code \in {0, Store!FMEM_NOT_FOUND}
      ELSE /\ ret.code = kv[EEP_ID_DEV_NAME].size
           /\ kv[EEP_ID_DEV_NAME].size <= MAX_DEV_NAME_LEN => ret.val = kv[EEP_ID_DEV_NAME].val
  BY <1>2, <1>3, ReadAnswer, Constants
<1>5. name' = IF ret.code <= 0 THEN [name EXCEPT ![1] = 0] ELSE Memcpy(name, ret.val)
  BY DEF LoadName
<1>6. CASE kv[EEP_ID_DEV_NAME] = Store!Absent
  <2>1. [Zeros EXCEPT ![1] = 0] = Zeros
    <3>1. \A i \in 1..(MAX_DEV_NAME_LEN + 1) : Zeros[i] = 0
      BY DEF Zeros
    <3>2. \A i \in 1..(MAX_DEV_NAME_LEN + 1) : [Zeros EXCEPT ![1] = 0][i] = Zeros[i]
      BY <3>1 DEF Zeros
    <3>3. Zeros \in Buffers /\ [Zeros EXCEPT ![1] = 0] \in Buffers
      <4>1. 0 \in Bytes
        BY Widths
      <4> QED BY <4>1, ZerosTyped DEF Buffers
    <3> QED BY <3>2, <3>3 DEF Buffers
  <2> QED BY <1>1, <1>4, <1>5, <1>6, <2>1, NameFoundTyped DEF NameFound, Store!FMEM_NOT_FOUND
<1>7. CASE kv[EEP_ID_DEV_NAME] # Store!Absent
  <2>1. kv[EEP_ID_DEV_NAME].size \in 1..MAX_DEV_NAME_LEN
    BY <1>1, <1>7 DEF Saved
  <2>2. ret.code > 0 /\ ret.val = kv[EEP_ID_DEV_NAME].val
    BY <1>4, <1>7, <2>1, Constants
  <2> QED BY <1>1, <1>4, <1>5, <1>7, <2>1, <2>2, NameFoundTyped, Constants DEF NameFound
<1> QED BY <1>6, <1>7
---------------------------------------------------------------------------
(* Loading the settings *)

\* The places behind the step that loads the name, the settings of the temperature, the
\* configuration and the pincode.
AfterPin  == {"bindkey", "bindkey_written", "loaded"}
AfterCfg  == {"pincode"} \cup AfterPin
AfterTemp == {"dev_cfg"} \cup AfterCfg
AfterName == {"temp_cfg"} \cup AfterTemp

CfgFound == IF Stores(EEP_ID_DEV_CFG) THEN kv[EEP_ID_DEV_CFG].val ELSE dev_cfg_def
PinKept  == Stores(EEP_ID_PINCODE) /\ kv[EEP_ID_PINCODE].val = pincode
KeyKept  == Stores(EEP_ID_BKEY) /\ kv[EEP_ID_BKEY].val = bindkey

\* load_config has in RAM what the store has, as far as it got.
LoadInv ==
  /\ pc \in BootLabels \ AfterName => name = Zeros
  /\ pc \in AfterName => name = NameFound
  /\ pc \in AfterTemp => temp_cfg = TempCfgAtRestart
  /\ pc \in AfterCfg => dev_cfg = CfgFound
  /\ pc \in AfterPin /\ EEP_ID_PINCODE \notin unsaved => PinKept
  /\ pc = "loaded" /\ EEP_ID_BKEY \notin unsaved => KeyKept
  /\ pc = "bindkey_written" /\ op # Store!NoOp => ~Stores(EEP_ID_BKEY)
  /\ pc \in BootLabels => unsaved \subseteq {EEP_ID_PINCODE, EEP_ID_BKEY} /\ pincode = 0

\* The other settings; a bind key was found or made up before it is used.
KeyInv ==
  /\ temp_cfg \in TempCfgs
  /\ pincode \in Pincodes /\ passkey \in Pincodes
  /\ bindkey \in Keys \cup {NoKey}
  /\ pc \in Running \cup {"bindkey_written", "loaded"} => bindkey \in Keys

\* An object of its own size that load_config reads, past the check of the version.
LEMMA SettingLoaded ==
  ASSUME StoreInv, OwnInv, op = Store!NoOp, pc \in {"temp_cfg", "dev_cfg", "bindkey"},
         NEW id \in Settings \ {EEP_ID_DEV_NAME}, Request = ReadOp(id, SizeOf[id])
  PROVE  /\ Succeeded(id) <=> Stores(id)
         /\ Stores(id) => ret.val = kv[id].val
         /\ Saved(kv)
BY ReadWhole DEF OwnInv, Loading, Ids

LEMMA MinOfTwo ==
  ASSUME NEW m \in Nat, NEW n \in Nat
  PROVE  Min({m, n}) \in Nat /\ Min({m, n}) <= m /\ Min({m, n}) <= n
<1>1. {m, n} \subseteq Nat /\ {m, n} # {} /\ m \in {m, n} /\ n \in {m, n}
  OBVIOUS
<1> QED BY <1>1, MinPosition

LEMMA DefaultsTyped ==
  dev_cfg_def \in Cfgs /\ temperature_cfg_def \in TempCfgs /\ <<0, 0, 0, 0>> \in Cfgs
<1>1. /\ 8000 \in Words /\ 2 \in Words /\ MY_RF_POWER_INDEX \in Words /\ 0 \in Words
      /\ 10500 \in Words /\ 57400 \in Words
  BY Widths DEF MY_RF_POWER_INDEX
<1> HIDE DEF MY_RF_POWER_INDEX
<1> QED BY <1>1 DEF dev_cfg_def, temperature_cfg_def, Cfgs, TempCfgs

LEMMA ConfigInvNext ==
  ASSUME StoreInv, OwnInv, LoadInv, NameInv, CfgInv, [Next]_vars
  PROVE  NameInv' /\ CfgInv'
<1> USE DEF Goto
<1>1. CASE LoadName
  <2>1. name = Zeros
    BY <1>1 DEF LoadName, LoadInv, BootLabels, AfterName, AfterTemp, AfterCfg, AfterPin
  <2>2. name' \in Buffers /\ UNCHANGED <<nameLen, dev_cfg, measureInterval>> /\ pc' \notin Running
    BY <1>1, <2>1, NameLoaded DEF LoadName, Running, SaveLabels
  <2> QED BY <2>2 DEF NameInv, CfgInv
<1>2. CASE LoadDevCfg
  <2>1. op = Store!NoOp /\ Request = ReadOp(EEP_ID_DEV_CFG, SizeOf[EEP_ID_DEV_CFG])
        /\ pc = "dev_cfg"
    BY <1>2 DEF LoadDevCfg, Write, Store!Start, Request
  <2>2. /\ Succeeded(EEP_ID_DEV_CFG) <=> Stores(EEP_ID_DEV_CFG)
        /\ Stores(EEP_ID_DEV_CFG) => ret.val = kv[EEP_ID_DEV_CFG].val
        /\ Saved(kv)
    BY <2>1, SettingLoaded, IdsDiffer DEF Settings
  <2>3. Succeeded(EEP_ID_DEV_CFG) => ret.val \in Cfgs
    BY <2>2 DEF Saved, Stores
  <2>4. dev_cfg' \in Cfgs /\ UNCHANGED <<name, nameLen, measureInterval>> /\ pc' \notin Running
    BY <1>2, <2>3, DefaultsTyped DEF LoadDevCfg, Running, SaveLabels
  <2> QED BY <2>4 DEF NameInv, CfgInv
<1>3. CASE InitBle
  BY <1>3, Tested DEF InitBle, NameInv, CfgInv
<1>4. ASSUME NEW s \in NewNames, SetName(s)
      PROVE  NameInv' /\ CfgInv'
  <2> DEFINE n == Min({Len(s), MAX_DEV_NAME_LEN})
             sent == SubSeq(s, 1, n)
  <2>1. s \in Seq(Bytes) /\ Len(s) \in Nat
    BY Constants
  <2>2. n \in Nat /\ n <= Len(s)
    BY <2>1, MinOfTwo, Constants
  <2> HIDE DEF n
  <2>3. sent \in Seq(Bytes)
    BY <2>1, <2>2
  <2>4. MAX_DEV_NAME_LEN + 1 \in Nat
    BY Constants
  <2> HIDE DEF sent
  <2>5. Memcpy(name, sent) \in Buffers
    BY <2>3, <2>4, MemcpyTyped DEF NameInv, Buffers
  <2>6. TestDevCfg(Memcpy(name, sent), dev_cfg)
    BY <1>4 DEF SetName, sent, n
  <2> QED BY <2>5, <2>6, Tested DEF CfgInv
<1>5. ASSUME NEW c \in NewCfgs, SetCfg(c)
      PROVE  NameInv' /\ CfgInv'
  <2>1. Memcpy(dev_cfg, c) \in Cfgs
    <3>1. 4 \in Nat /\ c \in Seq(Words) /\ dev_cfg \in [1..4 -> Words]
      BY Constants DEF CfgInv, Cfgs
    <3> QED BY <3>1, MemcpyTyped DEF Cfgs
  <2> QED BY <1>5, <2>1, Tested DEF SetCfg, NameInv
<1>6. CASE SetCfgDefault
  BY <1>6, Tested, DefaultsTyped DEF SetCfgDefault, NameInv
<1>7. CASE Restart
  <2>1. name' \in Buffers /\ nameLen' \in 0..MAX_DEV_NAME_LEN /\ pc' \notin Running
    BY <1>7, ZerosTyped, Constants DEF Restart, Running, SaveLabels
  <2>2. dev_cfg' \in Cfgs /\ measureInterval' \in 0..(IntervalLimit - 1)
    <3>1. \A n \in Nat \ {0} : 0 \in 0..(n - 1)
      OBVIOUS
    <3>2. IntervalLimit \in Nat \ {0}
      BY DEF IntervalLimit
    <3>3. 0 \in 0..(IntervalLimit - 1)
      BY <3>1, <3>2, Zenon
    <3> QED BY <1>7, <3>3, DefaultsTyped DEF Restart
  <2> QED BY <2>1, <2>2 DEF NameInv, CfgInv
<1>8. CASE UNCHANGED cfg /\ (pc' \in Running => pc \in Running)
  BY <1>8 DEF cfg, NameInv, CfgInv
<1> QED BY <1>1, <1>2, <1>3, <1>4, <1>5, <1>6, <1>7, <1>8, ConfigFrame

LEMMA KeyInvNext ==
  ASSUME StoreInv, OwnInv, KeyInv, [Next]_vars
  PROVE  KeyInv'
<1> USE DEF Goto, KeyInv, Running, SaveLabels, store, cfg, ram, ble, address
<1>1. ASSUME UNCHANGED <<temp_cfg, pincode, bindkey, passkey>>,
             \/ pc' \notin Running \cup {"bindkey_written", "loaded"}
             \/ pc \in Running \cup {"bindkey_written", "loaded"}
      PROVE  KeyInv'
  BY <1>1
<1>2. CASE UNCHANGED vars
  BY <1>1, <1>2 DEF vars
<1>3. CASE ReadVersion \/ KeepStore \/ EraseForeign \/ WriteVersionAfterErase \/ ReadName
  BY <1>1, <1>3
  DEF ReadVersion, KeepStore, EraseForeign, WriteVersionAfterErase, WriteVersion, ReadName
<1>4. CASE LoadName \/ LoadDevCfg
  BY <1>1, <1>4 DEF LoadName, LoadDevCfg
<1>5. CASE LoadTempCfg
  <2>1. op = Store!NoOp /\ Request = ReadOp(EEP_ID_TEMP_CFG, SizeOf[EEP_ID_TEMP_CFG])
        /\ pc = "temp_cfg"
    BY <1>5 DEF LoadTempCfg, Read, Store!Start, Request
  <2>2. /\ Succeeded(EEP_ID_TEMP_CFG) <=> Stores(EEP_ID_TEMP_CFG)
        /\ Stores(EEP_ID_TEMP_CFG) => ret.val = kv[EEP_ID_TEMP_CFG].val
        /\ Saved(kv)
    BY <2>1, SettingLoaded, IdsDiffer DEF Settings
  <2>3. Succeeded(EEP_ID_TEMP_CFG) => ret.val \in TempCfgs
    BY <2>2 DEF Saved, Stores
  <2> QED BY <1>5, <2>3, DefaultsTyped DEF LoadTempCfg
<1>6. CASE LoadPincode
  <2>1. 0 \in Pincodes
    BY Widths
  <2> QED BY <1>6, <2>1 DEF LoadPincode
<1>7. CASE LoadBindkey
  <2>1. ret.code # 0
    BY <1>7, SizesOf DEF LoadBindkey, Succeeded
  <2>2. op = Store!NoOp
    BY <2>1 DEF StoreInv, Store!NoResult, Store!Result
  <2>3. Request = ReadOp(EEP_ID_BKEY, SizeOf[EEP_ID_BKEY]) /\ pc = "bindkey"
    BY <1>7 DEF LoadBindkey, Request
  <2>4. /\ Succeeded(EEP_ID_BKEY) <=> Stores(EEP_ID_BKEY)
        /\ Stores(EEP_ID_BKEY) => ret.val = kv[EEP_ID_BKEY].val
        /\ Saved(kv)
    BY <2>2, <2>3, SettingLoaded, IdsDiffer DEF Settings
  <2>5. Succeeded(EEP_ID_BKEY) => ret.val \in Keys
    BY <2>4 DEF Saved, Stores
  <2> QED BY <1>7, <2>5 DEF LoadBindkey
<1>8. CASE GenerateBindkey
  BY <1>8 DEF GenerateBindkey
<1>9. CASE BindkeyWritten
  BY <1>1, <1>9 DEF BindkeyWritten
<1>10. CASE InitBle
  <2>1. passkey' \in Pincodes
    <3>1. 0 \in Pincodes
      BY Widths
    <3> QED BY <1>10, <3>1 DEF InitBle
  <2> QED BY <1>10, <2>1 DEF InitBle
<1>11. CASE Connect \/ EraseMac \/ SetCfgDefault
  BY <1>1, <1>11 DEF Connect, EraseMac, SetCfgDefault, Command
<1>12. ASSUME Restart
       PROVE  KeyInv'
  <2>1. 0 \in Pincodes
    BY Widths
  <2> QED BY <1>12, <2>1, DefaultsTyped DEF Restart
<1>13. CASE Terminate
  BY <1>1, <1>12, <1>13 DEF Terminate
<1>14. CASE RebootAfterReset \/ Crash
  BY <1>12, <1>14 DEF RebootAfterReset, Crash
<1>15. CASE (\E s \in NewNames : SetName(s)) \/ (\E c \in NewCfgs : SetCfg(c))
  BY <1>1, <1>15 DEF SetName, SetCfg, Command
<1>16. ASSUME NEW c \in NewTempCfgs, SetTempCfg(c)
       PROVE  KeyInv'
  <2>1. temp_cfg' \in TempCfgs
    <3>1. 2 \in Nat /\ c \in Seq(Words) /\ temp_cfg \in [1..2 -> Words]
      BY Constants DEF TempCfgs
    <3>2. temp_cfg' = Memcpy(temp_cfg, c)
      BY <1>16 DEF SetTempCfg
    <3> QED BY <3>1, <3>2, MemcpyTyped DEF TempCfgs
  <2> QED BY <1>16, <2>1 DEF SetTempCfg, Command
<1>17. CASE SetTempCfgDefault
  BY <1>17, DefaultsTyped DEF SetTempCfgDefault, Command
<1>18. ASSUME NEW p \in NewPincodes, SetPincode(p)
       PROVE  KeyInv'
  <2>1. p \in Pincodes
    BY <1>18, Constants, Widths DEF SetPincode
  <2> QED BY <1>18, <2>1 DEF SetPincode, Command
<1>19. ASSUME NEW k \in Keys, SetBindkey(k)
       PROVE  KeyInv'
  BY <1>19 DEF SetBindkey, Command
<1>20. CASE Reply
  BY <1>1, <1>20
  DEF Reply, NameSaved, CfgSaved, TempCfgSaved, PincodeSaved, BindkeySaved, Replied, WriteMac
<1>21. CASE FactoryReset
  BY <1>1, <1>21 DEF FactoryReset
<1>22. CASE Serve
  BY <1>1, <1>22 DEF Serve
<1> QED
  BY <1>2, <1>3, <1>4, <1>5, <1>6, <1>7, <1>8, <1>9, <1>10, <1>11, <1>13, <1>14, <1>15,
     <1>16, <1>17, <1>18, <1>19, <1>20, <1>21, <1>22
  DEF Next, Boot, Set
---------------------------------------------------------------------------
(* Where the program is *)

\* The places of the program, the flags of the connection, and the address in the flash.
FlagInv ==
  /\ pc \in BootLabels \cup SaveLabels \cup {"run", "reset"}
  /\ bleConnected \subseteq {"enable", "reset"}
  /\ macSector \in Addresses \cup {NoAddress} /\ mac_public \in Addresses \cup {NoAddress}
  /\ unsaved \subseteq Settings

\* The commands that a start has to carry out, when the client disconnects, have left that
\* mark; all others leave the pincode and the address alone.
StackInv ==
  /\ pc \in (Running \ {"pincode_saved", "mac_erased"}) /\ "reset" \notin bleConnected
     => passkey = pincode /\ mac_public = macSector

\* What is in force is what a restart would find, but for the setting that is being saved.
NameKept ==
  EEP_ID_DEV_NAME \notin unsaved /\ pc # "name_saved" => CStr(name) = NameAtRestart
CfgKept ==
  EEP_ID_DEV_CFG \notin unsaved /\ pc # "cfg_saved" => dev_cfg = CfgAtRestart
TempCfgKept ==
  EEP_ID_TEMP_CFG \notin unsaved /\ pc # "temp_cfg_saved" => temp_cfg = TempCfgAtRestart
PincodeKept ==
  EEP_ID_PINCODE \notin unsaved /\ pc # "pincode_saved" => PinKept
BindkeyKept ==
  EEP_ID_BKEY \notin unsaved /\ pc # "bindkey_saved" => KeyKept

KeptInv ==
  pc \in Running => NameKept /\ CfgKept /\ TempCfgKept /\ PincodeKept /\ BindkeyKept

\* A configuration of this board in the store was checked.
UsableInv ==
  Own(kv) /\ Stores(EEP_ID_DEV_CFG) => Usable(kv[EEP_ID_DEV_CFG].val)
---------------------------------------------------------------------------
(* The store is one of this board *)

LEMMA NothingStored ==
  ASSUME NEW s, \A id \in Ids : s[id] = Store!Absent
  PROVE  ~Own(s) /\ Saved(s)
<1>1. s[EEP_ID_VER].size = 0
  BY IdsDiffer DEF Store!Absent
<1>2. /\ s[EEP_ID_DEV_CFG].size = 0 /\ s[EEP_ID_TEMP_CFG].size = 0 /\ s[EEP_ID_BKEY].size = 0
      /\ s[EEP_ID_DEV_NAME] = Store!Absent
  BY IdsDiffer DEF Store!Absent
<1> QED BY <1>1, <1>2, SizesOf DEF Own, Saved

\* What a command saves is what load_config expects to find.
LEMMA WriteKeepsSaved ==
  ASSUME KvInv, Saved(kv), NameInv, CfgInv, KeyInv, Request.kind = "write",
         kv' = [kv EXCEPT ![Request.id] = Store!ObjectOf(Request.size, Request.val)]
  PROVE  Saved(kv')
<1> DEFINE obj == Store!ObjectOf(Request.size, Request.val)
<1>1. Request.id \in Ids
  BY RequestIds
<1>2. \A id \in Ids : kv'[id] = IF id = Request.id THEN obj ELSE kv[id]
  BY <1>1 DEF KvInv
<1> HIDE DEF obj
<1>3. CASE Request.id \in {EEP_ID_VER, EEP_ID_PINCODE}
  BY <1>2, <1>3, IdsDiffer DEF Saved, Settings
<1>4. CASE Request.id = EEP_ID_DEV_NAME
  <2>1. pc = "name_saved" /\ Request = WriteOp(EEP_ID_DEV_NAME, nameLen, SubSeq(name, 1, nameLen))
    BY <1>4, IdsDiffer DEF Request, WriteOp, ReadOp, EraseOp, Store!NoOp, Settings
  <2>2. name \in Seq(Bytes) /\ Len(name) = MAX_DEV_NAME_LEN + 1 /\ nameLen \in 1..MAX_DEV_NAME_LEN
    BY <2>1, BufferIs DEF NameInv, Running, SaveLabels
  <2> DEFINE saved == SubSeq(name, 1, nameLen)
  <2>3. saved \in Seq(Bytes) /\ Len(saved) = nameLen /\ nameLen # 0
    BY <2>2, Constants
  <2>4. Request.size = nameLen /\ Request.val = saved
    BY <2>1 DEF WriteOp
  <2> HIDE DEF saved
  <2>5. obj = [size |-> nameLen, val |-> saved]
    BY <2>3, <2>4 DEF obj, Store!ObjectOf
  <2>6. kv'[EEP_ID_DEV_NAME] = obj
    BY <1>2, <1>4, IdsDiffer
  <2>7. \A id \in {EEP_ID_DEV_CFG, EEP_ID_TEMP_CFG, EEP_ID_BKEY} : kv'[id] = kv[id]
    BY <1>2, <1>4, IdsDiffer
  <2> QED BY <2>2, <2>3, <2>5, <2>6, <2>7 DEF Saved
<1>5. ASSUME Request.id \in {EEP_ID_DEV_CFG, EEP_ID_TEMP_CFG, EEP_ID_BKEY},
             /\ Request.id = EEP_ID_DEV_CFG => obj.val \in Cfgs
             /\ Request.id = EEP_ID_TEMP_CFG => obj.val \in TempCfgs
             /\ Request.id = EEP_ID_BKEY => obj.val \in Keys
      PROVE  Saved(kv')
  <2>1. kv'[EEP_ID_DEV_NAME] = kv[EEP_ID_DEV_NAME]
    BY <1>2, <1>5, IdsDiffer
  <2>2. \A id \in {EEP_ID_DEV_CFG, EEP_ID_TEMP_CFG, EEP_ID_BKEY} :
          kv'[id] = IF id = Request.id THEN obj ELSE kv[id]
    BY <1>2, IdsDiffer
  <2> QED BY <1>5, <2>1, <2>2 DEF Saved
<1>6. CASE Request.id = EEP_ID_DEV_CFG
  <2>1. Request = WriteOp(EEP_ID_DEV_CFG, SizeOf[EEP_ID_DEV_CFG], dev_cfg)
    BY <1>6, IdsDiffer DEF Request, WriteOp, ReadOp, EraseOp, Store!NoOp, Settings
  <2>2. obj.val = dev_cfg
    BY <2>1, SizesOf DEF obj, WriteOp, Store!ObjectOf
  <2> QED BY <1>5, <1>6, <2>2, IdsDiffer DEF CfgInv
<1>7. CASE Request.id = EEP_ID_TEMP_CFG
  <2>1. Request = WriteOp(EEP_ID_TEMP_CFG, SizeOf[EEP_ID_TEMP_CFG], temp_cfg)
    BY <1>7, IdsDiffer DEF Request, WriteOp, ReadOp, EraseOp, Store!NoOp, Settings
  <2>2. obj.val = temp_cfg
    BY <2>1, SizesOf DEF obj, WriteOp, Store!ObjectOf
  <2> QED BY <1>5, <1>7, <2>2, IdsDiffer DEF KeyInv
<1>8. CASE Request.id = EEP_ID_BKEY
  <2>1. pc \in {"bindkey_written", "bindkey_saved"}
        /\ Request = WriteOp(EEP_ID_BKEY, SizeOf[EEP_ID_BKEY], bindkey)
    BY <1>8, IdsDiffer DEF Request, WriteOp, ReadOp, EraseOp, Store!NoOp, Settings
  <2>2. obj.val = bindkey
    BY <2>1, SizesOf DEF obj, WriteOp, Store!ObjectOf
  <2> QED BY <1>5, <1>8, <2>1, <2>2, IdsDiffer DEF KeyInv, Running, SaveLabels
<1> QED BY <1>1, <1>3, <1>4, <1>6, <1>7, <1>8, IdsDiffer

\* load_config keeps a store of this board, and erases every other one.
LEMMA VersionRead ==
  ASSUME StoreInv, OwnInv, op = Store!NoOp, pc = "version"
  PROVE  Supported <=> Own(kv)
<1>1. Request = ReadOp(EEP_ID_VER, SizeOf[EEP_ID_VER])
  BY DEF Request
<1>2. /\ Succeeded(EEP_ID_VER) <=> Stores(EEP_ID_VER)
      /\ Stores(EEP_ID_VER) => ret.val = kv[EEP_ID_VER].val
  BY <1>1, ReadWhole, IdsDiffer DEF Settings
<1>3. Stores(EEP_ID_VER) => kv[EEP_ID_VER].val \in Nat
  BY DEF OwnInv, Stores
<1>4. \A v \in Nat : v >= v % 65536
  OBVIOUS
<1> QED BY <1>2, <1>3, <1>4, Constants DEF Supported, Own, Stores

LEMMA OwnInvNext ==
  ASSUME StoreInv, KvInv, OwnInv, NameInv, CfgInv, KeyInv, [Next]_vars
  PROVE  OwnInv'
<1> USE DEF Goto, store, ram, cfg, ble
<1>1. ASSUME kv' = kv, pc' = "erased" => ~Own(kv), Loading' => Own(kv)
      PROVE  OwnInv'
  BY <1>1 DEF OwnInv
<1>2. Loading /\ pc \notin {"version_written", "reset"} => Own(kv)
  BY DEF OwnInv
<1>3. CASE UNCHANGED vars
  BY <1>3 DEF vars, OwnInv, Loading
<1>4. CASE ReadVersion
  BY <1>1, <1>4 DEF ReadVersion, Read, Store!Start, Loading
<1>5. CASE KeepStore \/ EraseForeign
  <2>1. op = Store!NoOp /\ pc = "version" /\ kv' = kv
    BY <1>5
    DEF KeepStore, EraseForeign, WriteVersion, Write, Erase, Store!Start
  <2>2. Supported <=> Own(kv)
    BY <2>1, VersionRead
  <2>3. CASE KeepStore
    BY <1>1, <2>1, <2>2, <2>3 DEF KeepStore, WriteVersion
  <2>4. CASE EraseForeign
    BY <1>1, <2>1, <2>2, <2>4 DEF EraseForeign, Loading
  <2> QED BY <1>5, <2>3, <2>4
<1>6. CASE WriteVersionAfterErase
  <2>1. op = Store!NoOp /\ pc = "erased" /\ kv' = kv /\ pc' = "version_written"
        /\ op' = WriteOp(EEP_ID_VER, SizeOf[EEP_ID_VER], NEW_VER)
    BY <1>6 DEF WriteVersionAfterErase, WriteVersion, Write, WriteOp, Store!Start
  <2>2. op' # Store!NoOp
    BY <2>1 DEF WriteOp, Store!NoOp
  <2>3. Request = EraseOp /\ Request.kind = "erase"
    BY <2>1 DEF Request, EraseOp
  <2>4. Answers(Request)
    BY <2>1, <2>3 DEF StoreInv, EraseOp, Store!NoOp
  <2>5. \A id \in Ids : kv'[id] = Store!Absent
    BY <2>1, <2>3, <2>4 DEF Answers
  <2>6. ~Own(kv')
    BY <2>5, NothingStored
  <2>7. kv'[EEP_ID_VER].size # SizeOf[EEP_ID_VER]
    BY <2>5, SizesOf, IdsDiffer DEF Store!Absent
  <2> QED BY <2>1, <2>2, <2>5, <2>6, <2>7 DEF OwnInv
<1>7. CASE ReadName
  <2>1. Own(kv) /\ kv' = kv /\ pc' = "name"
    BY <1>7 DEF ReadName, Read, Store!Start, OwnInv, Loading
  <2> QED BY <1>1, <2>1
<1>8. CASE \/ LoadName \/ LoadTempCfg \/ LoadDevCfg \/ LoadPincode
  <2>1. Loading /\ pc \notin {"version_written", "reset"} /\ kv' = kv /\ pc' # "erased"
    BY <1>8 DEF LoadName, LoadTempCfg, LoadDevCfg, LoadPincode, Read, Write, Store!Start, Loading
  <2> QED BY <1>1, <1>2, <2>1
<1>9. CASE LoadBindkey \/ GenerateBindkey \/ BindkeyWritten \/ InitBle
  <2>1. Loading /\ pc \notin {"version_written", "reset"} /\ kv' = kv /\ pc' # "erased"
    BY <1>9 DEF LoadBindkey, GenerateBindkey, BindkeyWritten, InitBle, Write, Store!Start, Loading
  <2> QED BY <1>1, <1>2, <2>1
<1>10. CASE Connect \/ FactoryReset \/ SetCfgDefault \/ SetTempCfgDefault \/ EraseMac
  <2>1. Loading /\ pc \notin {"version_written", "reset"} /\ kv' = kv /\ pc' # "erased"
    BY <1>10 DEF Connect, FactoryReset, SetCfgDefault, SetTempCfgDefault, EraseMac, Command,
                 Erase, Store!Start, Loading
  <2> QED BY <1>1, <1>2, <2>1
<1>11. CASE \/ \E s \in NewNames : SetName(s)
            \/ \E c \in NewCfgs : SetCfg(c)
            \/ \E c \in NewTempCfgs : SetTempCfg(c)
            \/ \E p \in NewPincodes : SetPincode(p)
            \/ \E k \in Keys : SetBindkey(k)
  <2>1. Command /\ kv' = kv /\ pc' \in SaveLabels
    <3>1. CASE (\E s \in NewNames : SetName(s)) \/ (\E c \in NewCfgs : SetCfg(c))
      BY <3>1 DEF SetName, SetCfg, Write, Store!Start, SaveLabels
    <3>2. CASE \/ \E c \in NewTempCfgs : SetTempCfg(c)
               \/ \E p \in NewPincodes : SetPincode(p)
               \/ \E k \in Keys : SetBindkey(k)
      BY <3>2 DEF SetTempCfg, SetPincode, SetBindkey, Write, Store!Start, SaveLabels
    <3> QED BY <1>11, <3>1, <3>2
  <2> QED BY <1>1, <1>2, <2>1 DEF Command, Loading, SaveLabels
<1>12. CASE Reply
  <2>1. Loading /\ pc \notin {"version_written", "reset"} /\ kv' = kv /\ pc' # "erased"
    BY <1>12 DEF Reply, NameSaved, CfgSaved, TempCfgSaved, PincodeSaved, BindkeySaved, Replied,
                 WriteMac, Loading
  <2> QED BY <1>1, <1>2, <2>1
<1>13. CASE Terminate
  <2>1. Loading /\ pc \notin {"version_written", "reset"} /\ kv' = kv /\ pc' # "erased"
    BY <1>13 DEF Terminate, Restart, Loading
  <2> QED BY <1>1, <1>2, <2>1
<1>14. CASE RebootAfterReset \/ Crash
  <2>1. kv' = kv /\ pc' = "boot"
    BY <1>14 DEF RebootAfterReset, Crash, Restart, Store!Crash
  <2> QED BY <1>1, <2>1 DEF Loading
<1>15. CASE Serve
  <2>1. pc' = pc
    BY <1>15 DEF Serve
  <2>2. op = Request /\ ServeEffect(Request) /\ KvInv'
    BY <1>15, ServeStep
  <2>3. CASE Request.kind = "erase"
    <3>1. pc \in {"erased", "reset"}
      BY <2>3 DEF Request, ReadOp, WriteOp, Store!NoOp
    <3>2. kv' = kv \/ \A id \in Ids : kv'[id] = Store!Absent
      BY <2>2, <2>3 DEF ServeEffect
    <3>3. CASE kv' = kv
      BY <2>1, <3>1, <3>3 DEF OwnInv, Loading
    <3>4. CASE \A id \in Ids : kv'[id] = Store!Absent
      <4>1. ~Own(kv')
        BY <3>4, NothingStored
      <4>2. kv'[EEP_ID_VER].size # SizeOf[EEP_ID_VER]
        BY <3>4, SizesOf, IdsDiffer DEF Store!Absent
      <4> QED BY <2>1, <3>1, <3>4, <4>1, <4>2 DEF OwnInv, Loading
    <3> QED BY <3>2, <3>3, <3>4
  <2>4. CASE Request.kind = "write" /\ pc = "version_written"
    <3>1. Request.id = EEP_ID_VER /\ Request.size = SizeOf[EEP_ID_VER] /\ Request.val = NEW_VER
      BY <2>4 DEF Request, WriteOp
    <3> DEFINE obj == [size |-> SizeOf[EEP_ID_VER], val |-> NEW_VER]
    <3>2. Store!ObjectOf(Request.size, Request.val) = obj
      BY <3>1, SizesOf DEF Store!ObjectOf
    <3>3. Saved(kv)
      BY <2>4, NothingStored DEF OwnInv, Loading
    <3>4. CASE kv' = [kv EXCEPT ![Request.id] = Store!ObjectOf(Request.size, Request.val)]
      <4>1. kv'[EEP_ID_VER] = obj
        BY <3>1, <3>2, <3>4, IdsDiffer DEF KvInv
      <4>2. Own(kv') /\ kv'[EEP_ID_VER].val \in Nat
        BY <4>1, Constants DEF Own
      <4>3. Saved(kv')
        BY <2>4, <3>3, <3>4, WriteKeepsSaved
      <4> QED BY <2>1, <2>4, <4>2, <4>3 DEF OwnInv
    <3>5. CASE Store!OverflowWrite
      <4>1. \E id \in Ids : kv[id] # Store!Absent
        BY <3>5 DEF Store!OverflowWrite
      <4>2. kv' = kv /\ Own(kv)
        BY <2>4, <3>5, <4>1 DEF OwnInv, Loading, Store!OverflowWrite
      <4> QED BY <1>1, <2>1, <2>4, <4>2
    <3> QED BY <1>15, <2>2, <2>4, <3>4, <3>5
            DEF Serve, Store!Serve, Store!CompleteWrite, Store!CompleteRead, Store!Wipe,
                Store!CompleteErase
  <2>5. CASE Request.kind = "write" /\ pc # "version_written"
    <3>1. Request.id \in Settings /\ pc # "reset" /\ pc # "erased" /\ Loading
      BY <2>5 DEF Request, WriteOp, ReadOp, EraseOp, Store!NoOp, Settings, Loading
    <3>2. Own(kv) /\ Saved(kv)
      BY <1>2, <2>5, <3>1 DEF OwnInv
    <3>3. CASE kv' = [kv EXCEPT ![Request.id] = Store!ObjectOf(Request.size, Request.val)]
      <4>1. kv'[EEP_ID_VER] = kv[EEP_ID_VER]
        BY <3>1, <3>3, IdsDiffer DEF KvInv
      <4>2. Saved(kv')
        BY <2>5, <3>2, <3>3, WriteKeepsSaved
      <4> QED BY <2>1, <3>1, <3>2, <4>1, <4>2 DEF OwnInv, Own
    <3>4. CASE kv' = kv
      BY <1>1, <2>1, <3>1, <3>2, <3>4
    <3> QED BY <2>2, <2>5, <3>3, <3>4 DEF ServeEffect
  <2>6. CASE Request.kind \notin {"write", "erase"}
    <3>1. kv' = kv
      BY <2>2, <2>6 DEF ServeEffect
    <3>2. /\ pc = "version_written" => Request = WriteOp(EEP_ID_VER, SizeOf[EEP_ID_VER], NEW_VER)
          /\ pc \in {"erased", "reset"} => Request = EraseOp
      BY DEF Request
    <3>3. pc \notin {"version_written", "erased", "reset"}
      BY <2>6, <3>2 DEF WriteOp, EraseOp
    <3> QED BY <1>1, <1>2, <2>1, <3>1, <3>3 DEF Loading
  <2> QED BY <2>3, <2>4, <2>5, <2>6
<1> QED
  BY <1>3, <1>4, <1>5, <1>6, <1>7, <1>8, <1>9, <1>10, <1>11, <1>12, <1>13, <1>14, <1>15
  DEF Next, Boot, Set
---------------------------------------------------------------------------
(* What load_config found *)

\* The store changes only the object it was called to write.
LEMMA ServeKeeps ==
  ASSUME StoreInv, KvInv, Serve, pc \notin {"erased", "reset"},
         NEW id \in Ids, Request.kind = "write" => Request.id # id
  PROVE  kv'[id] = kv[id]
<1>1. ServeEffect(Request)
  BY ServeStep
<1>2. Request.kind # "erase"
  BY DEF Request, ReadOp, WriteOp, Store!NoOp
<1>3. CASE kv' = kv
  BY <1>3
<1>4. CASE /\ Request.kind = "write"
           /\ kv' = [kv EXCEPT ![Request.id] = Store!ObjectOf(Request.size, Request.val)]
  BY <1>4 DEF KvInv
<1> QED BY <1>1, <1>2, <1>3, <1>4 DEF ServeEffect

\* The written object, at the places of the program that write a setting.
LEMMA WritesOf ==
  Request.kind = "write" =>
    \/ pc = "version_written" /\ Request.id = EEP_ID_VER
    \/ pc \in {"pincode", "pincode_saved"} /\ Request.id = EEP_ID_PINCODE
    \/ pc \in {"bindkey_written", "bindkey_saved"} /\ Request.id = EEP_ID_BKEY
    \/ pc = "name_saved" /\ Request.id = EEP_ID_DEV_NAME
    \/ pc = "cfg_saved" /\ Request.id = EEP_ID_DEV_CFG
    \/ pc = "temp_cfg_saved" /\ Request.id = EEP_ID_TEMP_CFG
BY DEF Request, ReadOp, WriteOp, EraseOp, Store!NoOp

\* A call that writes an object returns when it is done.
LEMMA WriteReturns ==
  ASSUME StoreInv, KvInv, Serve, Request.kind = "write"
  PROVE  op' = Store!NoOp
<1>1. op.kind = "write"
  BY ServeStep
<1> QED BY <1>1 DEF Serve, Store!Serve, Store!CompleteWrite, Store!OverflowWrite,
                    Store!CompleteRead, Store!Wipe, Store!CompleteErase, Store!Return

\* A write succeeded, or was refused.
LEMMA WriteAnswer ==
  ASSUME StoreInv, op = Store!NoOp, NEW id \in Ids, NEW size \in Nat \ {0}, NEW v,
         Request = WriteOp(id, size, v)
  PROVE  IF ret.code < 0 THEN ret.code = Store!FMEM_OVERFLOW
         ELSE ret.code = size /\ kv[id] = [size |-> size, val |-> v]
<1>1. Request.kind = "write" /\ Request.id = id /\ Request.size = size /\ Request.val = v
  BY DEF WriteOp
<1>2. Answers(Request)
  BY <1>1 DEF StoreInv, Store!NoOp
<1> QED BY <1>1, <1>2 DEF Answers, Store!ObjectOf, Store!FMEM_OVERFLOW

LEMMA LoadInvServe ==
  ASSUME StoreInv, KvInv, LoadInv, Serve
  PROVE  LoadInv'
<1> USE DEF BootLabels, AfterName, AfterTemp, AfterCfg, AfterPin
<1>1. UNCHANGED <<ram, pc, unsaved>>
  BY DEF Serve
<1>2. UNCHANGED <<name, temp_cfg, dev_cfg, pincode, bindkey, pc, unsaved>>
  BY <1>1 DEF ram, cfg
<1>3. CASE pc \notin AfterName
  BY <1>2, <1>3 DEF LoadInv
<1>4. CASE pc \in AfterName
  <2>1. pc \notin {"erased", "reset"}
    BY <1>4
  <2>2. \A id \in {EEP_ID_DEV_NAME, EEP_ID_TEMP_CFG, EEP_ID_DEV_CFG} : kv'[id] = kv[id]
    BY <1>4, <2>1, ServeKeeps, WritesOf, IdsDiffer
  <2>3. NameFound' = NameFound /\ TempCfgAtRestart' = TempCfgAtRestart /\ CfgFound' = CfgFound
    BY <2>2 DEF NameFound, TempCfgAtRestart, CfgFound, Stores
  <2>4. pc # "pincode" => kv'[EEP_ID_PINCODE] = kv[EEP_ID_PINCODE]
    BY <1>4, <2>1, ServeKeeps, WritesOf, IdsDiffer
  <2>5. pc # "bindkey_written" => kv'[EEP_ID_BKEY] = kv[EEP_ID_BKEY]
    BY <1>4, <2>1, ServeKeeps, WritesOf, IdsDiffer
  <2>6. pc = "bindkey_written" => op' = Store!NoOp
    <3>1. pc = "bindkey_written"
          => Request = WriteOp(EEP_ID_BKEY, SizeOf[EEP_ID_BKEY], bindkey)
      BY DEF Request
    <3> QED BY <3>1, WriteReturns DEF WriteOp
  <2>7. pc \in AfterPin /\ EEP_ID_PINCODE \notin unsaved => PinKept'
    BY <1>2, <2>4 DEF LoadInv, PinKept, Stores
  <2>8. pc = "loaded" /\ EEP_ID_BKEY \notin unsaved => KeyKept'
    BY <1>2, <2>5 DEF LoadInv, KeyKept, Stores
  <2> QED BY <1>2, <1>4, <2>3, <2>6, <2>7, <2>8 DEF LoadInv
<1> QED BY <1>3, <1>4

\* A command changes the store by its call only, and its mark is set after that.
LEMMA CommandSteps ==
  ASSUME Set
  PROVE  Command /\ kv' = kv /\ pc' \in Running /\ UNCHANGED bleConnected
<1> USE DEF Goto, Write, Store!Start, Running, SaveLabels, store, ble
<1>1. CASE (\E s \in NewNames : SetName(s)) \/ (\E c \in NewCfgs : SetCfg(c))
  BY <1>1 DEF SetName, SetCfg
<1>2. CASE SetCfgDefault \/ SetTempCfgDefault \/ EraseMac
  BY <1>2 DEF SetCfgDefault, SetTempCfgDefault, EraseMac, Command
<1>3. CASE \/ \E c \in NewTempCfgs : SetTempCfg(c)
           \/ \E p \in NewPincodes : SetPincode(p)
           \/ \E k \in Keys : SetBindkey(k)
  BY <1>3 DEF SetTempCfg, SetPincode, SetBindkey
<1> QED BY <1>1, <1>2, <1>3 DEF Set

LEMMA LoadInvNext ==
  ASSUME StoreInv, KvInv, OwnInv, KeyInv, LoadInv, FlagInv, [Next]_vars
  PROVE  LoadInv'
<1> USE DEF Goto, BootLabels, AfterName, AfterTemp, AfterCfg, AfterPin
<1> DEFINE Stored == <<NameFound, TempCfgAtRestart, CfgFound>>
<1>1. ASSUME kv' = kv
      PROVE  /\ Stored' = Stored
             /\ UNCHANGED pincode => PinKept' = PinKept
             /\ UNCHANGED bindkey => KeyKept' = KeyKept
             /\ Stores(EEP_ID_BKEY)' = Stores(EEP_ID_BKEY)
  BY <1>1 DEF NameFound, TempCfgAtRestart, CfgFound, PinKept, KeyKept, Stores
<1>2. CASE pc' \notin BootLabels
  BY <1>2 DEF LoadInv
<1>3. CASE Serve
  BY <1>3, LoadInvServe
<1>4. CASE Restart
  <2>1. pc' = "boot" /\ name' = Zeros /\ unsaved' = {} /\ pincode' = 0
    BY <1>4 DEF Restart
  <2>2. Zeros' = Zeros
    BY DEF Zeros
  <2> QED BY <2>1, <2>2 DEF LoadInv
<1>5. CASE ReadVersion \/ KeepStore \/ EraseForeign \/ WriteVersionAfterErase \/ ReadName
  <2>1. UNCHANGED <<name, unsaved, pincode>> /\ pc \in BootLabels \ AfterName
        /\ pc' \in BootLabels \ AfterName
    BY <1>5 DEF ReadVersion, KeepStore, EraseForeign, WriteVersionAfterErase, WriteVersion,
                ReadName, ram, cfg
  <2> QED BY <2>1 DEF LoadInv
<1>6. CASE LoadName
  <2>1. name = Zeros /\ pc = "name" /\ pc' = "temp_cfg" /\ kv' = kv
    BY <1>6 DEF LoadName, LoadInv, Read, Store!Start
  <2>2. name' = NameFound
    BY <1>6, <2>1, NameLoaded
  <2>3. UNCHANGED <<unsaved, pincode>>
    BY <1>6 DEF LoadName
  <2>4. name' = NameFound'
    BY <1>1, <2>1, <2>2
  <2> QED BY <2>1, <2>3, <2>4 DEF LoadInv
<1>7. CASE LoadTempCfg
  <2>1. op = Store!NoOp /\ Request = ReadOp(EEP_ID_TEMP_CFG, SizeOf[EEP_ID_TEMP_CFG])
        /\ pc = "temp_cfg" /\ pc' = "dev_cfg" /\ kv' = kv
    BY <1>7 DEF LoadTempCfg, Read, Store!Start, Request
  <2>2. /\ Succeeded(EEP_ID_TEMP_CFG) <=> Stores(EEP_ID_TEMP_CFG)
        /\ Stores(EEP_ID_TEMP_CFG) => ret.val = kv[EEP_ID_TEMP_CFG].val
    BY <2>1, SettingLoaded, IdsDiffer DEF Settings
  <2>3. temp_cfg' = TempCfgAtRestart /\ UNCHANGED <<name, unsaved, pincode>>
    BY <1>7, <2>2 DEF LoadTempCfg, TempCfgAtRestart, cfg
  <2> QED BY <1>1, <2>1, <2>3 DEF LoadInv
<1>8. CASE LoadDevCfg
  <2>1. op = Store!NoOp /\ Request = ReadOp(EEP_ID_DEV_CFG, SizeOf[EEP_ID_DEV_CFG])
        /\ pc = "dev_cfg" /\ pc' = "pincode" /\ kv' = kv
    BY <1>8 DEF LoadDevCfg, Write, Store!Start, Request
  <2>2. /\ Succeeded(EEP_ID_DEV_CFG) <=> Stores(EEP_ID_DEV_CFG)
        /\ Stores(EEP_ID_DEV_CFG) => ret.val = kv[EEP_ID_DEV_CFG].val
    BY <2>1, SettingLoaded, IdsDiffer DEF Settings
  <2>3. dev_cfg' = CfgFound /\ UNCHANGED <<name, temp_cfg, unsaved, pincode>>
    BY <1>8, <2>2 DEF LoadDevCfg, CfgFound
  <2> QED BY <1>1, <2>1, <2>3 DEF LoadInv
<1>9. CASE LoadPincode
  <2>1. op = Store!NoOp /\ pc = "pincode" /\ pc' = "bindkey" /\ kv' = kv
        /\ pincode = 0 /\ unsaved \subseteq {EEP_ID_PINCODE, EEP_ID_BKEY}
    BY <1>9 DEF LoadPincode, Read, Store!Start, LoadInv
  <2>2. Request = WriteOp(EEP_ID_PINCODE, SizeOf[EEP_ID_PINCODE], pincode)
    BY <2>1 DEF Request
  <2>3. Succeeded(EEP_ID_PINCODE) => PinKept
    <3>1. SizeOf[EEP_ID_PINCODE] \in Nat \ {0} /\ EEP_ID_PINCODE \in Ids
      BY SizesOf, IdsDiffer
    <3>2. IF ret.code < 0 THEN ret.code = Store!FMEM_OVERFLOW
          ELSE kv[EEP_ID_PINCODE] = [size |-> SizeOf[EEP_ID_PINCODE], val |-> pincode]
      BY <2>1, <2>2, <3>1, WriteAnswer
    <3> QED BY <3>1, <3>2 DEF Succeeded, PinKept, Stores
  <2>4. pincode' = pincode /\ unsaved' \subseteq {EEP_ID_PINCODE, EEP_ID_BKEY}
        /\ UNCHANGED <<name, temp_cfg, dev_cfg>>
    BY <1>9, <2>1 DEF LoadPincode, cfg
  <2>5. EEP_ID_PINCODE \notin unsaved' => PinKept'
    BY <1>1, <1>9, <2>1, <2>3, <2>4 DEF LoadPincode
  <2> QED BY <1>1, <2>1, <2>4, <2>5 DEF LoadInv
<1>10. CASE LoadBindkey
  <2>1. ret.code # 0
    BY <1>10, SizesOf DEF LoadBindkey, Succeeded
  <2>2. op = Store!NoOp
    BY <2>1 DEF StoreInv, Store!NoResult, Store!Result
  <2>3. Request = ReadOp(EEP_ID_BKEY, SizeOf[EEP_ID_BKEY]) /\ pc = "bindkey"
    BY <1>10 DEF LoadBindkey, Request
  <2>4. /\ Succeeded(EEP_ID_BKEY) <=> Stores(EEP_ID_BKEY)
        /\ Stores(EEP_ID_BKEY) => ret.val = kv[EEP_ID_BKEY].val
    BY <2>2, <2>3, SettingLoaded, IdsDiffer DEF Settings
  <2>5. Stores(EEP_ID_BKEY) /\ bindkey' = kv[EEP_ID_BKEY].val /\ kv' = kv /\ pc' = "loaded"
        /\ UNCHANGED <<name, temp_cfg, dev_cfg, unsaved, pincode>>
    BY <1>10, <2>4 DEF LoadBindkey, store, cfg
  <2>6. KeyKept'
    BY <2>5 DEF KeyKept, Stores
  <2> QED BY <1>1, <2>3, <2>5, <2>6 DEF LoadInv
<1>11. CASE GenerateBindkey
  <2>1. op = Store!NoOp /\ Request = ReadOp(EEP_ID_BKEY, SizeOf[EEP_ID_BKEY])
        /\ pc = "bindkey" /\ pc' = "bindkey_written" /\ kv' = kv
    BY <1>11 DEF GenerateBindkey, Write, Store!Start, Request
  <2>2. Succeeded(EEP_ID_BKEY) <=> Stores(EEP_ID_BKEY)
    BY <2>1, SettingLoaded, IdsDiffer DEF Settings
  <2>3. ~Stores(EEP_ID_BKEY)' /\ UNCHANGED <<name, temp_cfg, dev_cfg, unsaved, pincode>>
    BY <1>1, <1>11, <2>1, <2>2 DEF GenerateBindkey, cfg
  <2> QED BY <1>1, <2>1, <2>3 DEF LoadInv
<1>12. CASE BindkeyWritten
  <2>1. op = Store!NoOp /\ pc = "bindkey_written" /\ pc' = "loaded" /\ kv' = kv
        /\ UNCHANGED <<name, temp_cfg, dev_cfg, pincode, bindkey>>
    BY <1>12 DEF BindkeyWritten, store, ram, cfg
  <2>2. Request = WriteOp(EEP_ID_BKEY, SizeOf[EEP_ID_BKEY], bindkey)
    BY <2>1 DEF Request
  <2>3. Succeeded(EEP_ID_BKEY) => KeyKept
    <3>1. SizeOf[EEP_ID_BKEY] \in Nat \ {0} /\ EEP_ID_BKEY \in Ids
      BY SizesOf, IdsDiffer
    <3>2. IF ret.code < 0 THEN ret.code = Store!FMEM_OVERFLOW
          ELSE kv[EEP_ID_BKEY] = [size |-> SizeOf[EEP_ID_BKEY], val |-> bindkey]
      BY <2>1, <2>2, <3>1, WriteAnswer
    <3> QED BY <3>1, <3>2 DEF Succeeded, KeyKept, Stores
  <2>4. unsaved' = IF Succeeded(EEP_ID_BKEY) THEN unsaved ELSE unsaved \cup {EEP_ID_BKEY}
    BY <1>12 DEF BindkeyWritten
  <2>5. EEP_ID_BKEY \notin unsaved' => KeyKept'
    BY <1>1, <2>1, <2>3, <2>4
  <2>6. unsaved \subseteq unsaved' /\ unsaved' \subseteq unsaved \cup {EEP_ID_BKEY}
    BY <2>4
  <2> QED BY <1>1, <2>1, <2>5, <2>6 DEF LoadInv
<1>13. CASE UNCHANGED vars
  BY <1>1, <1>13 DEF vars, store, ram, cfg, LoadInv
<1>14. CASE InitBle \/ Connect \/ Set \/ Reply \/ FactoryReset
  <2>1. CASE InitBle \/ Connect \/ FactoryReset
    BY <1>2, <2>1 DEF InitBle, Connect, FactoryReset
  <2>2. CASE Set
    BY <1>2, <2>2, CommandSteps DEF Running, SaveLabels
  <2>3. CASE Reply
    BY <1>2, <2>3 DEF Reply, NameSaved, CfgSaved, TempCfgSaved, PincodeSaved, BindkeySaved,
                      Replied, WriteMac
  <2> QED BY <1>14, <2>1, <2>2, <2>3
<1>15. CASE Terminate \/ RebootAfterReset \/ Crash
  BY <1>2, <1>4, <1>15 DEF Terminate, RebootAfterReset, Crash
<1> QED
  BY <1>3, <1>5, <1>6, <1>7, <1>8, <1>9, <1>10, <1>11, <1>12, <1>13, <1>14, <1>15
  DEF Next, Boot
---------------------------------------------------------------------------
(* The marks of the connection, and what the stack was given *)

LEMMA PlacesNext ==
  ASSUME pc \in BootLabels \cup SaveLabels \cup {"run", "reset"}, [Next]_vars
  PROVE  pc' \in BootLabels \cup SaveLabels \cup {"run", "reset"}
<1> USE DEF Goto, BootLabels
<1>1. UNCHANGED vars \/ Serve => pc' = pc
  BY DEF vars, Serve
<1>2. ReadVersion \/ KeepStore \/ EraseForeign \/ WriteVersionAfterErase \/ ReadName
      => pc' \in BootLabels
  BY DEF ReadVersion, KeepStore, EraseForeign, WriteVersionAfterErase, WriteVersion, ReadName
<1>3. LoadName \/ LoadTempCfg \/ LoadDevCfg \/ LoadPincode => pc' \in BootLabels
  BY DEF LoadName, LoadTempCfg, LoadDevCfg, LoadPincode
<1>4. LoadBindkey \/ GenerateBindkey \/ BindkeyWritten \/ InitBle => pc' \in BootLabels \cup {"run"}
  BY DEF LoadBindkey, GenerateBindkey, BindkeyWritten, InitBle
<1>5. Connect \/ FactoryReset => pc' \in {"run", "reset"}
  BY DEF Connect, FactoryReset
<1>6. Terminate => pc' \in {"run", "boot"}
  BY DEF Terminate, Restart
<1>7. Set => pc' \in SaveLabels \cup {"run"}
  BY CommandSteps DEF Running
<1>8. Reply => pc' = "run"
  BY DEF Reply, NameSaved, CfgSaved, TempCfgSaved, PincodeSaved, BindkeySaved, Replied, WriteMac
<1>9. RebootAfterReset \/ Crash => pc' = "boot"
  BY DEF RebootAfterReset, Crash, Restart
<1> QED BY <1>1, <1>2, <1>3, <1>4, <1>5, <1>6, <1>7, <1>8, <1>9 DEF Next, Boot

\* The steps that change what the stack was given, what it should have, or a mark.
LEMMA BleFrame ==
  ASSUME [Next]_vars
  PROVE  \/ UNCHANGED <<ble, pincode, pc>>
         \/ UNCHANGED ble /\ pc' \notin Running
         \/ /\ pc = "run" /\ pc' \in SaveLabels \ {"mac_erased"} /\ UNCHANGED ble
            /\ pc' # "pincode_saved" => UNCHANGED pincode
         \/ /\ pc \in SaveLabels \ {"mac_erased", "pincode_saved"} /\ pc' = "run"
            /\ UNCHANGED <<ble, pincode>>
         \/ EraseMac \/ WriteMac \/ PincodeSaved
         \/ InitBle \/ Connect \/ Terminate \/ RebootAfterReset \/ Crash
<1> USE DEF Goto, ram, Running, SaveLabels
<1>1. UNCHANGED vars \/ Serve => UNCHANGED <<ble, pincode, pc>>
  BY DEF vars, Serve
<1>2. ReadVersion \/ KeepStore \/ EraseForeign \/ WriteVersionAfterErase \/ ReadName
      => UNCHANGED ble /\ pc' \notin Running
  BY DEF ReadVersion, KeepStore, EraseForeign, WriteVersionAfterErase, WriteVersion, ReadName
<1>3. LoadName \/ LoadTempCfg \/ LoadDevCfg \/ LoadPincode => UNCHANGED ble /\ pc' \notin Running
  BY DEF LoadName, LoadTempCfg, LoadDevCfg, LoadPincode
<1>4. LoadBindkey \/ GenerateBindkey \/ BindkeyWritten \/ FactoryReset
      => UNCHANGED ble /\ pc' \notin Running
  BY DEF LoadBindkey, GenerateBindkey, BindkeyWritten, FactoryReset
<1>5. SetCfgDefault \/ SetTempCfgDefault => UNCHANGED <<ble, pincode, pc>>
  BY DEF SetCfgDefault, SetTempCfgDefault
<1>6. ASSUME \/ \E s \in NewNames : SetName(s)
             \/ \E c \in NewCfgs : SetCfg(c)
             \/ \E c \in NewTempCfgs : SetTempCfg(c)
      PROVE  pc = "run" /\ pc' \in SaveLabels \ {"mac_erased"} /\ UNCHANGED <<ble, pincode>>
  <2>1. CASE \E s \in NewNames : SetName(s)
    BY <2>1 DEF SetName, Command
  <2>2. CASE \E c \in NewCfgs : SetCfg(c)
    BY <2>2 DEF SetCfg, Command
  <2>3. CASE \E c \in NewTempCfgs : SetTempCfg(c)
    BY <2>3 DEF SetTempCfg, Command
  <2> QED BY <1>6, <2>1, <2>2, <2>3
<1>7. (\E p \in NewPincodes : SetPincode(p))
      => pc = "run" /\ pc' = "pincode_saved" /\ UNCHANGED ble
  BY DEF SetPincode, Command
<1>8. (\E k \in Keys : SetBindkey(k))
      => pc = "run" /\ pc' = "bindkey_saved" /\ UNCHANGED <<ble, pincode>>
  BY DEF SetBindkey, Command
<1>9. NameSaved \/ CfgSaved \/ TempCfgSaved \/ BindkeySaved
      => pc \in SaveLabels \ {"mac_erased", "pincode_saved"} /\ pc' = "run"
         /\ UNCHANGED <<ble, pincode>>
  BY DEF NameSaved, CfgSaved, TempCfgSaved, BindkeySaved, Replied
<1> QED BY <1>1, <1>2, <1>3, <1>4, <1>5, <1>6, <1>7, <1>8, <1>9 DEF Next, Boot, Set, Reply

LEMMA StackInvNext ==
  ASSUME FlagInv, StackInv, KeyInv, [Next]_vars
  PROVE  StackInv'
<1> USE DEF Goto, ble, address, StackInv, Running, SaveLabels
<1>1. CASE EraseMac
  BY <1>1 DEF EraseMac
<1>2. CASE WriteMac \/ PincodeSaved
  BY <1>2 DEF WriteMac, PincodeSaved
<1>3. CASE InitBle
  <2>1. pincode <= 999999
    BY Widths DEF KeyInv
  <2> QED BY <1>3, <2>1 DEF InitBle
<1>4. CASE Connect
  BY <1>4 DEF Connect
<1>5. CASE Terminate
  BY <1>5 DEF Terminate, Restart
<1>6. CASE RebootAfterReset \/ Crash
  BY <1>6 DEF RebootAfterReset, Crash, Restart
<1>7. CASE UNCHANGED <<ble, pincode, pc>>
  BY <1>7
<1>8. CASE UNCHANGED ble /\ pc' \notin Running
  BY <1>8
<1>9. CASE /\ pc = "run" /\ pc' \in SaveLabels \ {"mac_erased"} /\ UNCHANGED ble
           /\ pc' # "pincode_saved" => UNCHANGED pincode
  BY <1>9
<1>10. CASE /\ pc \in SaveLabels \ {"mac_erased", "pincode_saved"} /\ pc' = "run"
            /\ UNCHANGED <<ble, pincode>>
  BY <1>10
<1> QED BY <1>1, <1>2, <1>3, <1>4, <1>5, <1>6, <1>7, <1>8, <1>9, <1>10, BleFrame

\* The steps that may change which settings are not saved.
LEMMA UnsavedFrame ==
  ASSUME [Next]_vars
  PROVE  \/ UNCHANGED unsaved
         \/ LoadPincode \/ BindkeyWritten \/ SetCfgDefault \/ SetTempCfgDefault \/ Reply
         \/ Terminate \/ RebootAfterReset \/ Crash
<1>1. UNCHANGED vars \/ Serve \/ InitBle \/ Connect \/ FactoryReset => UNCHANGED unsaved
  BY DEF vars, Serve, InitBle, Connect, FactoryReset
<1>2. ReadVersion \/ KeepStore \/ EraseForeign \/ WriteVersionAfterErase \/ ReadName
      => UNCHANGED unsaved
  BY DEF ReadVersion, KeepStore, EraseForeign, WriteVersionAfterErase, WriteVersion, ReadName
<1>3. LoadName \/ LoadTempCfg \/ LoadDevCfg \/ LoadBindkey \/ GenerateBindkey
      => UNCHANGED unsaved
  BY DEF LoadName, LoadTempCfg, LoadDevCfg, LoadBindkey, GenerateBindkey
<1>4. (\E s \in NewNames : SetName(s)) \/ (\E c \in NewCfgs : SetCfg(c)) => UNCHANGED unsaved
  BY DEF SetName, SetCfg
<1>5. (\E c \in NewTempCfgs : SetTempCfg(c)) \/ (\E p \in NewPincodes : SetPincode(p))
      => UNCHANGED unsaved
  BY DEF SetTempCfg, SetPincode
<1>6. (\E k \in Keys : SetBindkey(k)) \/ EraseMac => UNCHANGED unsaved
  BY DEF SetBindkey, EraseMac
<1> QED BY <1>1, <1>2, <1>3, <1>4, <1>5, <1>6 DEF Next, Boot, Set

LEMMA FlagInvNext ==
  ASSUME FlagInv, [Next]_vars
  PROVE  FlagInv'
<1> USE DEF Goto, ble, address, FlagInv
<1>1. pc' \in BootLabels \cup SaveLabels \cup {"run", "reset"}
  BY PlacesNext
<1>2. /\ bleConnected' \subseteq {"enable", "reset"}
      /\ macSector' \in Addresses \cup {NoAddress} /\ mac_public' \in Addresses \cup {NoAddress}
  <2>1. CASE EraseMac \/ WriteMac \/ PincodeSaved
    BY <2>1 DEF EraseMac, WriteMac, PincodeSaved
  <2>2. CASE InitBle
    BY <2>2 DEF InitBle
  <2>3. CASE Connect
    BY <2>3 DEF Connect
  <2>4. CASE Terminate
    BY <2>4 DEF Terminate, Restart
  <2>5. CASE RebootAfterReset \/ Crash
    BY <2>5 DEF RebootAfterReset, Crash, Restart
  <2>6. CASE UNCHANGED ble
    BY <2>6
  <2> QED BY <2>1, <2>2, <2>3, <2>4, <2>5, <2>6, BleFrame
<1>3. unsaved' \subseteq Settings
  <2> USE DEF Settings
  <2>1. CASE UNCHANGED unsaved
    BY <2>1
  <2>2. CASE LoadPincode \/ BindkeyWritten \/ SetCfgDefault \/ SetTempCfgDefault
    BY <2>2 DEF LoadPincode, BindkeyWritten, SetCfgDefault, SetTempCfgDefault
  <2>3. CASE Reply
    BY <2>3 DEF Reply, NameSaved, CfgSaved, TempCfgSaved, PincodeSaved, BindkeySaved, Replied,
                WriteMac, SavedOrNot
  <2>4. CASE Terminate \/ RebootAfterReset \/ Crash
    BY <2>4 DEF Terminate, RebootAfterReset, Crash, Restart
  <2> QED BY <2>1, <2>2, <2>3, <2>4, UnsavedFrame
<1> QED BY <1>1, <1>2, <1>3
---------------------------------------------------------------------------
(* What is in force is saved *)

\* The steps after which the device works.
LEMMA WorkFrame ==
  ASSUME [Next]_vars, pc' \in Running
  PROVE  \/ InitBle \/ Set \/ Reply \/ Serve
         \/ UNCHANGED <<kv, name, dev_cfg, temp_cfg, pincode, bindkey, unsaved, pc>>
<1> USE DEF Goto, Running, SaveLabels
<1>1. UNCHANGED vars \/ Connect
      => UNCHANGED <<kv, name, dev_cfg, temp_cfg, pincode, bindkey, unsaved, pc>>
  BY DEF vars, store, ram, cfg, Connect
<1>2. Terminate => UNCHANGED <<kv, name, dev_cfg, temp_cfg, pincode, bindkey, unsaved, pc>>
  BY DEF Terminate, Restart, store, cfg
<1>3. ~(ReadVersion \/ KeepStore \/ EraseForeign \/ WriteVersionAfterErase \/ ReadName)
  BY DEF ReadVersion, KeepStore, EraseForeign, WriteVersionAfterErase, WriteVersion, ReadName
<1>4. ~(LoadName \/ LoadTempCfg \/ LoadDevCfg \/ LoadPincode)
  BY DEF LoadName, LoadTempCfg, LoadDevCfg, LoadPincode
<1>5. ~(LoadBindkey \/ GenerateBindkey \/ BindkeyWritten)
  BY DEF LoadBindkey, GenerateBindkey, BindkeyWritten
<1>6. ~(FactoryReset \/ RebootAfterReset \/ Crash)
  BY DEF FactoryReset, RebootAfterReset, Crash, Restart
<1> QED BY <1>1, <1>2, <1>3, <1>4, <1>5, <1>6 DEF Next, Boot

\* A device that works has settings that test_dev_cfg does not change.
LEMMA TestsFixed ==
  ASSUME NameInv, CfgInv, pc \in Running
  PROVE  ValidName(name).name = name /\ ValidCfg(dev_cfg) = dev_cfg
<1>1. PICK k \in 1..nameLen : EndsAt(name, k)
  BY DEF NameInv
<1>2. k \in 1..MAX_DEV_NAME_LEN
  BY Constants DEF NameInv
<1> QED BY <1>1, <1>2, ValidNameFixed, ValidCfgFixed DEF NameInv, CfgInv

\* A command changes the setting it is about and no other, and goes on to save it, or notes
\* that it is not saved.
LEMMA CommandChanges ==
  ASSUME NameInv, CfgInv, Set
  PROVE  /\ unsaved \subseteq unsaved'
         /\ pc' = "name_saved" \/ UNCHANGED name
         /\ pc' = "cfg_saved" \/ EEP_ID_DEV_CFG \in unsaved' \/ UNCHANGED dev_cfg
         /\ pc' = "temp_cfg_saved" \/ EEP_ID_TEMP_CFG \in unsaved' \/ UNCHANGED temp_cfg
         /\ pc' = "pincode_saved" \/ UNCHANGED pincode
         /\ pc' = "bindkey_saved" \/ UNCHANGED bindkey
<1> USE DEF Goto, TestDevCfg, cfg
<1>1. ValidName(name).name = name /\ ValidCfg(dev_cfg) = dev_cfg
  BY CommandSteps, TestsFixed DEF Command, Running
<1>2. CASE \E s \in NewNames : SetName(s)
  BY <1>1, <1>2 DEF SetName
<1>3. CASE \E c \in NewCfgs : SetCfg(c)
  BY <1>1, <1>3 DEF SetCfg
<1>4. CASE SetCfgDefault
  BY <1>1, <1>4 DEF SetCfgDefault
<1>5. CASE \E c \in NewTempCfgs : SetTempCfg(c)
  BY <1>5 DEF SetTempCfg
<1>6. CASE SetTempCfgDefault \/ EraseMac
  BY <1>6 DEF SetTempCfgDefault, EraseMac
<1>7. CASE (\E p \in NewPincodes : SetPincode(p)) \/ (\E k \in Keys : SetBindkey(k))
  BY <1>7 DEF SetPincode, SetBindkey
<1> QED BY <1>2, <1>3, <1>4, <1>5, <1>6, <1>7 DEF Set

\* The end of a command looks at the result of the call that saved its setting.
LEMMA ReplyChanges ==
  ASSUME Reply
  PROVE  /\ UNCHANGED <<kv, name, dev_cfg, temp_cfg, pincode, bindkey>>
         /\ pc \in {"name_saved", "cfg_saved", "temp_cfg_saved", "pincode_saved",
                    "bindkey_saved"}
            => op = Store!NoOp
         /\ IF pc = "name_saved" THEN SavedOrNot(EEP_ID_DEV_NAME)
            ELSE EEP_ID_DEV_NAME \in unsaved' <=> EEP_ID_DEV_NAME \in unsaved
         /\ IF pc = "cfg_saved" THEN SavedOrNot(EEP_ID_DEV_CFG)
            ELSE EEP_ID_DEV_CFG \in unsaved' <=> EEP_ID_DEV_CFG \in unsaved
         /\ IF pc = "temp_cfg_saved" THEN SavedOrNot(EEP_ID_TEMP_CFG)
            ELSE EEP_ID_TEMP_CFG \in unsaved' <=> EEP_ID_TEMP_CFG \in unsaved
         /\ IF pc = "pincode_saved" THEN SavedOrNot(EEP_ID_PINCODE)
            ELSE EEP_ID_PINCODE \in unsaved' <=> EEP_ID_PINCODE \in unsaved
         /\ IF pc = "bindkey_saved" THEN SavedOrNot(EEP_ID_BKEY)
            ELSE EEP_ID_BKEY \in unsaved' <=> EEP_ID_BKEY \in unsaved
<1> USE DEF store, ram, cfg
<1>1. CASE NameSaved
  BY <1>1, IdsDiffer DEF NameSaved, Replied, SavedOrNot
<1>2. CASE CfgSaved
  BY <1>2, IdsDiffer DEF CfgSaved, Replied, SavedOrNot
<1>3. CASE TempCfgSaved
  BY <1>3, IdsDiffer DEF TempCfgSaved, Replied, SavedOrNot
<1>4. CASE PincodeSaved
  BY <1>4, IdsDiffer DEF PincodeSaved, SavedOrNot
<1>5. CASE BindkeySaved
  BY <1>5, IdsDiffer DEF BindkeySaved, Replied, SavedOrNot
<1>6. CASE WriteMac
  BY <1>6 DEF WriteMac
<1> QED BY <1>1, <1>2, <1>3, <1>4, <1>5, <1>6 DEF Reply

LEMMA PlacesOfReply ==
  Reply => pc \in Running /\ pc' = "run"
BY DEF Reply, NameSaved, CfgSaved, TempCfgSaved, PincodeSaved, BindkeySaved, Replied, WriteMac,
       Goto, Running, SaveLabels

\* The invariants that what is in force rests on.
WorkInv ==
  StoreInv /\ KvInv /\ OwnInv /\ LoadInv /\ NameInv /\ CfgInv /\ KeyInv /\ FlagInv

\* A call in force while the device works writes a setting: Request names it.
LEMMA ServeWork ==
  ASSUME WorkInv, Serve, pc \in Running, NEW id \in Settings,
         Request.kind = "write" => Request.id # id
  PROVE  /\ kv'[id] = kv[id]
         /\ UNCHANGED <<name, dev_cfg, temp_cfg, pincode, bindkey, unsaved, pc>>
<1>1. pc \notin {"erased", "reset"} /\ id \in Ids
  BY DEF Running, SaveLabels, Ids
<1>2. UNCHANGED <<ram, pc, unsaved>>
  BY DEF Serve
<1> QED BY <1>1, <1>2, ServeKeeps DEF WorkInv, ram, cfg

LEMMA NameKeptNext ==
  ASSUME WorkInv, pc \in Running => NameKept, pc' \in Running, [Next]_vars
  PROVE  NameKept'
<1> USE DEF WorkInv, Running
<1>1. ASSUME UNCHANGED <<name, pc>>, kv'[EEP_ID_DEV_NAME] = kv[EEP_ID_DEV_NAME],
             EEP_ID_DEV_NAME \in unsaved' <=> EEP_ID_DEV_NAME \in unsaved
      PROVE  NameKept'
  BY <1>1 DEF NameKept, NameAtRestart
<1>2. CASE InitBle
  <2>1. name = NameFound /\ kv' = kv /\ name' = ValidName(name).name
    BY <1>2 DEF InitBle, TestDevCfg, store, LoadInv, AfterName, AfterTemp, AfterCfg, AfterPin
  <2> QED BY <2>1 DEF NameKept, NameAtRestart, NameFound
<1>3. CASE Set
  BY <1>3, CommandSteps, CommandChanges DEF NameKept, NameAtRestart, Command
<1>4. CASE Reply /\ pc # "name_saved"
  BY <1>4, ReplyChanges, PlacesOfReply DEF NameKept, NameAtRestart
<1>5. CASE Reply /\ pc = "name_saved"
  <2>1. op = Store!NoOp /\ UNCHANGED <<kv, name>> /\ SavedOrNot(EEP_ID_DEV_NAME)
    BY <1>5, ReplyChanges
  <2>2. /\ name \in Buffers /\ name[MAX_DEV_NAME_LEN + 1] = 0
        /\ nameLen \in 1..MAX_DEV_NAME_LEN /\ \E k \in 1..nameLen : EndsAt(name, k)
    BY <1>5 DEF NameInv, SaveLabels
  <2> DEFINE s == SubSeq(name, 1, nameLen)
  <2>3. Request = WriteOp(EEP_ID_DEV_NAME, nameLen, s)
    BY <1>5 DEF Request
  <2>4. nameLen \in Nat \ {0} /\ EEP_ID_DEV_NAME \in Ids
    BY <2>2, Constants, IdsDiffer
  <2>5. IF ret.code < 0 THEN ret.code = Store!FMEM_OVERFLOW
        ELSE kv[EEP_ID_DEV_NAME] = [size |-> nameLen, val |-> s]
    BY <2>1, <2>3, <2>4, WriteAnswer
  <2>6. EEP_ID_DEV_NAME \notin unsaved' => kv[EEP_ID_DEV_NAME] = [size |-> nameLen, val |-> s]
    BY <2>1, <2>5 DEF SavedOrNot
  <2>7. CStr(ValidName(Memcpy(Zeros, s)).name) = CStr(name)
    BY <2>2, SavedNameFound
  <2> HIDE DEF s
  <2>8. kv[EEP_ID_DEV_NAME] = [size |-> nameLen, val |-> s] => NameAtRestart = CStr(name)
    BY <2>4, <2>7 DEF NameAtRestart, Store!Absent
  <2>9. NameAtRestart' = NameAtRestart /\ CStr(name') = CStr(name)
    BY <2>1 DEF NameAtRestart
  <2> QED BY <2>6, <2>8, <2>9 DEF NameKept
<1>6. CASE Serve /\ pc # "name_saved"
  <2>1. Request.kind = "write" => Request.id # EEP_ID_DEV_NAME
    BY <1>6, WritesOf, IdsDiffer DEF Settings
  <2> QED BY <1>1, <1>6, <2>1, ServeWork DEF Settings, Serve, NameKept
<1>7. CASE Serve /\ pc = "name_saved"
  BY <1>7 DEF Serve, NameKept
<1>8. CASE UNCHANGED <<kv, name, dev_cfg, temp_cfg, pincode, bindkey, unsaved, pc>>
  BY <1>1, <1>8
<1> QED BY <1>2, <1>3, <1>4, <1>5, <1>6, <1>7, <1>8, WorkFrame

LEMMA CfgKeptNext ==
  ASSUME WorkInv, pc \in Running => CfgKept, pc' \in Running, [Next]_vars
  PROVE  CfgKept'
<1> USE DEF WorkInv, Running
<1>1. ASSUME UNCHANGED <<dev_cfg, pc>>, kv'[EEP_ID_DEV_CFG] = kv[EEP_ID_DEV_CFG],
             EEP_ID_DEV_CFG \in unsaved' <=> EEP_ID_DEV_CFG \in unsaved
      PROVE  CfgKept'
  BY <1>1 DEF CfgKept, CfgAtRestart, Stores
<1>2. CASE InitBle
  <2>1. dev_cfg = CfgFound /\ kv' = kv /\ dev_cfg' = ValidCfg(dev_cfg)
    BY <1>2 DEF InitBle, TestDevCfg, store, LoadInv, AfterCfg, AfterPin
  <2> QED BY <2>1 DEF CfgKept, CfgAtRestart, CfgFound, Stores
<1>3. CASE Set
  BY <1>3, CommandSteps, CommandChanges DEF CfgKept, CfgAtRestart, Stores, Command
<1>4. CASE Reply /\ pc # "cfg_saved"
  BY <1>4, ReplyChanges, PlacesOfReply DEF CfgKept, CfgAtRestart, Stores
<1>5. CASE Reply /\ pc = "cfg_saved"
  <2>1. op = Store!NoOp /\ UNCHANGED <<kv, dev_cfg>> /\ SavedOrNot(EEP_ID_DEV_CFG)
    BY <1>5, ReplyChanges
  <2>2. Request = WriteOp(EEP_ID_DEV_CFG, SizeOf[EEP_ID_DEV_CFG], dev_cfg)
    BY <1>5 DEF Request
  <2>3. SizeOf[EEP_ID_DEV_CFG] \in Nat \ {0} /\ EEP_ID_DEV_CFG \in Ids
    BY SizesOf, IdsDiffer
  <2>4. IF ret.code < 0 THEN ret.code = Store!FMEM_OVERFLOW
        ELSE kv[EEP_ID_DEV_CFG] = [size |-> SizeOf[EEP_ID_DEV_CFG], val |-> dev_cfg]
    BY <2>1, <2>2, <2>3, WriteAnswer
  <2>5. EEP_ID_DEV_CFG \notin unsaved'
        => Stores(EEP_ID_DEV_CFG) /\ kv[EEP_ID_DEV_CFG].val = dev_cfg
    BY <2>1, <2>4 DEF SavedOrNot, Stores
  <2>6. ValidCfg(dev_cfg) = dev_cfg
    BY <1>5, TestsFixed DEF SaveLabels
  <2> QED BY <2>1, <2>5, <2>6 DEF CfgKept, CfgAtRestart, Stores
<1>6. CASE Serve /\ pc # "cfg_saved"
  <2>1. Request.kind = "write" => Request.id # EEP_ID_DEV_CFG
    BY <1>6, WritesOf, IdsDiffer DEF Settings, SaveLabels, Serve
  <2> QED BY <1>1, <1>6, <2>1, ServeWork DEF Settings, Serve, CfgKept
<1>7. CASE Serve /\ pc = "cfg_saved"
  BY <1>7 DEF Serve, CfgKept
<1>8. CASE UNCHANGED <<kv, name, dev_cfg, temp_cfg, pincode, bindkey, unsaved, pc>>
  BY <1>1, <1>8
<1> QED BY <1>2, <1>3, <1>4, <1>5, <1>6, <1>7, <1>8, WorkFrame

LEMMA TempCfgKeptNext ==
  ASSUME WorkInv, pc \in Running => TempCfgKept, pc' \in Running, [Next]_vars
  PROVE  TempCfgKept'
<1> USE DEF WorkInv, Running
<1>1. ASSUME UNCHANGED <<temp_cfg, pc>>, kv'[EEP_ID_TEMP_CFG] = kv[EEP_ID_TEMP_CFG],
             EEP_ID_TEMP_CFG \in unsaved' <=> EEP_ID_TEMP_CFG \in unsaved
      PROVE  TempCfgKept'
  BY <1>1 DEF TempCfgKept, TempCfgAtRestart, Stores
<1>2. CASE InitBle
  <2>1. temp_cfg = TempCfgAtRestart /\ kv' = kv /\ temp_cfg' = temp_cfg
    BY <1>2 DEF InitBle, store, LoadInv, AfterTemp, AfterCfg, AfterPin
  <2> QED BY <2>1 DEF TempCfgKept, TempCfgAtRestart, Stores
<1>3. CASE Set
  BY <1>3, CommandSteps, CommandChanges DEF TempCfgKept, TempCfgAtRestart, Stores, Command
<1>4. CASE Reply /\ pc # "temp_cfg_saved"
  BY <1>4, ReplyChanges, PlacesOfReply DEF TempCfgKept, TempCfgAtRestart, Stores
<1>5. CASE Reply /\ pc = "temp_cfg_saved"
  <2>1. op = Store!NoOp /\ UNCHANGED <<kv, temp_cfg>> /\ SavedOrNot(EEP_ID_TEMP_CFG)
    BY <1>5, ReplyChanges
  <2>2. Request = WriteOp(EEP_ID_TEMP_CFG, SizeOf[EEP_ID_TEMP_CFG], temp_cfg)
    BY <1>5 DEF Request
  <2>3. SizeOf[EEP_ID_TEMP_CFG] \in Nat \ {0} /\ EEP_ID_TEMP_CFG \in Ids
    BY SizesOf, IdsDiffer
  <2>4. IF ret.code < 0 THEN ret.code = Store!FMEM_OVERFLOW
        ELSE kv[EEP_ID_TEMP_CFG] = [size |-> SizeOf[EEP_ID_TEMP_CFG], val |-> temp_cfg]
    BY <2>1, <2>2, <2>3, WriteAnswer
  <2>5. EEP_ID_TEMP_CFG \notin unsaved'
        => Stores(EEP_ID_TEMP_CFG) /\ kv[EEP_ID_TEMP_CFG].val = temp_cfg
    BY <2>1, <2>4 DEF SavedOrNot, Stores
  <2> QED BY <2>1, <2>5 DEF TempCfgKept, TempCfgAtRestart, Stores
<1>6. CASE Serve /\ pc # "temp_cfg_saved"
  <2>1. Request.kind = "write" => Request.id # EEP_ID_TEMP_CFG
    BY <1>6, WritesOf, IdsDiffer DEF Settings, SaveLabels, Serve
  <2> QED BY <1>1, <1>6, <2>1, ServeWork DEF Settings, Serve, TempCfgKept
<1>7. CASE Serve /\ pc = "temp_cfg_saved"
  BY <1>7 DEF Serve, TempCfgKept
<1>8. CASE UNCHANGED <<kv, name, dev_cfg, temp_cfg, pincode, bindkey, unsaved, pc>>
  BY <1>1, <1>8
<1> QED BY <1>2, <1>3, <1>4, <1>5, <1>6, <1>7, <1>8, WorkFrame

LEMMA PincodeKeptNext ==
  ASSUME WorkInv, pc \in Running => PincodeKept, pc' \in Running, [Next]_vars
  PROVE  PincodeKept'
<1> USE DEF WorkInv, Running
<1>1. ASSUME UNCHANGED <<pincode, pc>>, kv'[EEP_ID_PINCODE] = kv[EEP_ID_PINCODE],
             EEP_ID_PINCODE \in unsaved' <=> EEP_ID_PINCODE \in unsaved
      PROVE  PincodeKept'
  BY <1>1 DEF PincodeKept, PinKept, Stores
<1>2. CASE InitBle
  <2>1. EEP_ID_PINCODE \notin unsaved => PinKept
    BY <1>2 DEF InitBle, LoadInv, AfterPin
  <2>2. UNCHANGED <<kv, pincode, unsaved>>
    BY <1>2 DEF InitBle, store
  <2> QED BY <2>1, <2>2 DEF PincodeKept, PinKept, Stores
<1>3. CASE Set
  BY <1>3, CommandSteps, CommandChanges DEF PincodeKept, PinKept, Stores, Command
<1>4. CASE Reply /\ pc # "pincode_saved"
  BY <1>4, ReplyChanges, PlacesOfReply DEF PincodeKept, PinKept, Stores
<1>5. CASE Reply /\ pc = "pincode_saved"
  <2>1. op = Store!NoOp /\ UNCHANGED <<kv, pincode>> /\ SavedOrNot(EEP_ID_PINCODE)
    BY <1>5, ReplyChanges
  <2>2. Request = WriteOp(EEP_ID_PINCODE, SizeOf[EEP_ID_PINCODE], pincode)
    BY <1>5 DEF Request
  <2>3. SizeOf[EEP_ID_PINCODE] \in Nat \ {0} /\ EEP_ID_PINCODE \in Ids
    BY SizesOf, IdsDiffer
  <2>4. IF ret.code < 0 THEN ret.code = Store!FMEM_OVERFLOW
        ELSE kv[EEP_ID_PINCODE] = [size |-> SizeOf[EEP_ID_PINCODE], val |-> pincode]
    BY <2>1, <2>2, <2>3, WriteAnswer
  <2>5. EEP_ID_PINCODE \notin unsaved'
        => Stores(EEP_ID_PINCODE) /\ kv[EEP_ID_PINCODE].val = pincode
    BY <2>1, <2>4 DEF SavedOrNot, Stores
  <2> QED BY <2>1, <2>5 DEF PincodeKept, PinKept, Stores
<1>6. CASE Serve /\ pc # "pincode_saved"
  <2>1. Request.kind = "write" => Request.id # EEP_ID_PINCODE
    BY <1>6, WritesOf, IdsDiffer DEF Settings, SaveLabels, Serve
  <2> QED BY <1>1, <1>6, <2>1, ServeWork DEF Settings, Serve, PincodeKept
<1>7. CASE Serve /\ pc = "pincode_saved"
  BY <1>7 DEF Serve, PincodeKept
<1>8. CASE UNCHANGED <<kv, name, dev_cfg, temp_cfg, pincode, bindkey, unsaved, pc>>
  BY <1>1, <1>8
<1> QED BY <1>2, <1>3, <1>4, <1>5, <1>6, <1>7, <1>8, WorkFrame

LEMMA BindkeyKeptNext ==
  ASSUME WorkInv, pc \in Running => BindkeyKept, pc' \in Running, [Next]_vars
  PROVE  BindkeyKept'
<1> USE DEF WorkInv, Running
<1>1. ASSUME UNCHANGED <<bindkey, pc>>, kv'[EEP_ID_BKEY] = kv[EEP_ID_BKEY],
             EEP_ID_BKEY \in unsaved' <=> EEP_ID_BKEY \in unsaved
      PROVE  BindkeyKept'
  BY <1>1 DEF BindkeyKept, KeyKept, Stores
<1>2. CASE InitBle
  <2>1. EEP_ID_BKEY \notin unsaved => KeyKept
    BY <1>2 DEF InitBle, LoadInv
  <2>2. UNCHANGED <<kv, bindkey, unsaved>>
    BY <1>2 DEF InitBle, store
  <2> QED BY <2>1, <2>2 DEF BindkeyKept, KeyKept, Stores
<1>3. CASE Set
  BY <1>3, CommandSteps, CommandChanges DEF BindkeyKept, KeyKept, Stores, Command
<1>4. CASE Reply /\ pc # "bindkey_saved"
  BY <1>4, ReplyChanges, PlacesOfReply DEF BindkeyKept, KeyKept, Stores
<1>5. CASE Reply /\ pc = "bindkey_saved"
  <2>1. op = Store!NoOp /\ UNCHANGED <<kv, bindkey>> /\ SavedOrNot(EEP_ID_BKEY)
    BY <1>5, ReplyChanges
  <2>2. Request = WriteOp(EEP_ID_BKEY, SizeOf[EEP_ID_BKEY], bindkey)
    BY <1>5 DEF Request
  <2>3. SizeOf[EEP_ID_BKEY] \in Nat \ {0} /\ EEP_ID_BKEY \in Ids
    BY SizesOf, IdsDiffer
  <2>4. IF ret.code < 0 THEN ret.code = Store!FMEM_OVERFLOW
        ELSE kv[EEP_ID_BKEY] = [size |-> SizeOf[EEP_ID_BKEY], val |-> bindkey]
    BY <2>1, <2>2, <2>3, WriteAnswer
  <2>5. EEP_ID_BKEY \notin unsaved'
        => Stores(EEP_ID_BKEY) /\ kv[EEP_ID_BKEY].val = bindkey
    BY <2>1, <2>4 DEF SavedOrNot, Stores
  <2> QED BY <2>1, <2>5 DEF BindkeyKept, KeyKept, Stores
<1>6. CASE Serve /\ pc # "bindkey_saved"
  <2>1. Request.kind = "write" => Request.id # EEP_ID_BKEY
    BY <1>6, WritesOf, IdsDiffer DEF Settings, SaveLabels, Serve
  <2> QED BY <1>1, <1>6, <2>1, ServeWork DEF Settings, Serve, BindkeyKept
<1>7. CASE Serve /\ pc = "bindkey_saved"
  BY <1>7 DEF Serve, BindkeyKept
<1>8. CASE UNCHANGED <<kv, name, dev_cfg, temp_cfg, pincode, bindkey, unsaved, pc>>
  BY <1>1, <1>8
<1> QED BY <1>2, <1>3, <1>4, <1>5, <1>6, <1>7, <1>8, WorkFrame

LEMMA KeptInvNext ==
  ASSUME WorkInv, KeptInv, [Next]_vars
  PROVE  KeptInv'
BY NameKeptNext, CfgKeptNext, TempCfgKeptNext, PincodeKeptNext, BindkeyKeptNext DEF KeptInv

\* Only the store changes its objects.
LEMMA StoreFrame ==
  ASSUME [Next]_vars, ~Serve
  PROVE  kv' = kv
<1> USE DEF store, Write, Read, Erase, Store!Start
<1>1. UNCHANGED vars => kv' = kv
  BY DEF vars
<1>2. ReadVersion \/ KeepStore \/ EraseForeign \/ WriteVersionAfterErase \/ ReadName => kv' = kv
  BY DEF ReadVersion, KeepStore, EraseForeign, WriteVersionAfterErase, WriteVersion, ReadName
<1>3. LoadName \/ LoadTempCfg \/ LoadDevCfg \/ LoadPincode => kv' = kv
  BY DEF LoadName, LoadTempCfg, LoadDevCfg, LoadPincode
<1>4. LoadBindkey \/ GenerateBindkey \/ BindkeyWritten \/ InitBle => kv' = kv
  BY DEF LoadBindkey, GenerateBindkey, BindkeyWritten, InitBle
<1>5. Connect \/ Terminate \/ FactoryReset \/ RebootAfterReset \/ Crash => kv' = kv
  BY DEF Connect, Terminate, FactoryReset, RebootAfterReset, Crash, Store!Crash
<1>6. Set \/ Reply => kv' = kv
  BY CommandSteps, ReplyChanges
<1> QED BY <1>1, <1>2, <1>3, <1>4, <1>5, <1>6 DEF Next, Boot

\* What is saved as the configuration was checked before.
LEMMA UsableInvNext ==
  ASSUME WorkInv, UsableInv, [Next]_vars
  PROVE  UsableInv'
<1> USE DEF WorkInv
<1>1. ASSUME kv' = kv
      PROVE  UsableInv'
  BY <1>1 DEF UsableInv, Own, Stores
<1>2. CASE Serve
  <2>1. CASE Request.kind = "write" /\ pc = "cfg_saved"
    <3>1. Request = WriteOp(EEP_ID_DEV_CFG, SizeOf[EEP_ID_DEV_CFG], dev_cfg)
      BY <2>1 DEF Request
    <3>2. Store!ObjectOf(Request.size, Request.val)
          = [size |-> SizeOf[EEP_ID_DEV_CFG], val |-> dev_cfg]
      BY <3>1, SizesOf DEF WriteOp, Store!ObjectOf
    <3>3. kv' = kv \/ kv'[EEP_ID_DEV_CFG].val = dev_cfg
      BY <1>2, <2>1, <3>1, <3>2, ServeStep, IdsDiffer DEF ServeEffect, WriteOp, KvInv
    <3>4. Usable(dev_cfg)
      BY <2>1 DEF CfgInv, Running, SaveLabels
    <3> QED BY <1>1, <3>3, <3>4 DEF UsableInv
  <2>2. CASE Request.kind = "write" /\ pc # "cfg_saved"
    <3>1. Request.id # EEP_ID_DEV_CFG /\ pc \notin {"erased", "reset"}
      BY <2>2, WritesOf, IdsDiffer DEF Settings
    <3>2. kv'[EEP_ID_DEV_CFG] = kv[EEP_ID_DEV_CFG]
      BY <1>2, <3>1, ServeKeeps, IdsDiffer
    <3>3. Own(kv) \/ \A id \in Ids : kv[id] = Store!Absent
      BY <2>2, <3>1, WritesOf DEF OwnInv, Loading
    <3>4. CASE Own(kv)
      BY <3>2, <3>4 DEF UsableInv, Stores
    <3>5. CASE \A id \in Ids : kv[id] = Store!Absent
      BY <3>2, <3>5, SizesOf, IdsDiffer DEF UsableInv, Stores, Store!Absent
    <3> QED BY <3>3, <3>4, <3>5
  <2>3. CASE Request.kind # "write"
    <3>1. kv' = kv \/ \A id \in Ids : kv'[id] = Store!Absent
      BY <1>2, <2>3, ServeStep DEF ServeEffect
    <3>2. CASE \A id \in Ids : kv'[id] = Store!Absent
      BY <3>2, SizesOf, IdsDiffer DEF UsableInv, Stores, Store!Absent
    <3> QED BY <1>1, <3>1, <3>2
  <2> QED BY <2>1, <2>2, <2>3
<1>3. CASE ~Serve
  BY <1>1, <1>3, StoreFrame
<1> QED BY <1>2, <1>3
---------------------------------------------------------------------------
(* The theorems *)

ConfigInv == WorkInv /\ StackInv /\ KeptInv

LEMMA ConfigInit ==
  ASSUME Init
  PROVE  ConfigInv
<1> USE DEF Init, RamAtReset
<1>1. Request = Store!NoOp /\ op = Store!NoOp
  BY DEF Request
<1>2. StoreInv
  BY <1>1 DEF StoreInv, Answers, Store!NoOp
<1>3. KvInv /\ OwnInv
  BY InitialStoresAssumption DEF KvInv, OwnInv, Loading
<1>4. LoadInv
  BY DEF LoadInv, BootLabels, AfterName, AfterTemp, AfterCfg, AfterPin
<1>5. NameInv
  BY ZerosTyped, Constants DEF NameInv, Running, SaveLabels
<1>6. CfgInv
  <2>1. \A n \in Nat \ {0} : 0 \in 0..(n - 1)
    OBVIOUS
  <2>2. IntervalLimit \in Nat \ {0}
    BY DEF IntervalLimit
  <2>3. 0 \in 0..(IntervalLimit - 1)
    BY <2>1, <2>2, Zenon
  <2> QED BY <2>3, DefaultsTyped DEF CfgInv, Running, SaveLabels
<1>7. KeyInv
  <2>1. 0 \in Pincodes
    BY Widths
  <2> QED BY <2>1, DefaultsTyped DEF KeyInv, Running, SaveLabels
<1>8. FlagInv /\ StackInv /\ KeptInv
  BY DEF FlagInv, StackInv, KeptInv, BootLabels, Running, SaveLabels
<1> QED BY <1>2, <1>3, <1>4, <1>5, <1>6, <1>7, <1>8 DEF ConfigInv, WorkInv

\* The inductive invariant: what the call of the store is and has answered, that the store
\* is one of this board where its settings are read, how far load_config got, what
\* test_dev_cfg has checked, and which setting is being saved.
THEOREM ConfigInvariant == Spec => []ConfigInv
<1>1. Init => ConfigInv
  BY ConfigInit
<1>2. ConfigInv /\ [Next]_vars => ConfigInv'
  <2> SUFFICES ASSUME ConfigInv, [Next]_vars
               PROVE  ConfigInv'
    OBVIOUS
  <2>1. /\ StoreInv /\ KvInv /\ OwnInv /\ LoadInv /\ NameInv /\ CfgInv /\ KeyInv /\ FlagInv
        /\ StackInv /\ KeptInv /\ WorkInv
    BY DEF ConfigInv, WorkInv
  <2>2. StoreInv' /\ KvInv'
    BY <2>1, StoreInvNext
  <2>3. OwnInv'
    BY <2>1, OwnInvNext
  <2>4. LoadInv'
    BY <2>1, LoadInvNext
  <2>5. NameInv' /\ CfgInv' /\ KeyInv'
    BY <2>1, ConfigInvNext, KeyInvNext
  <2>6. FlagInv' /\ StackInv'
    BY <2>1, FlagInvNext, StackInvNext
  <2>7. KeptInv'
    BY <2>1, KeptInvNext
  <2> QED BY <2>2, <2>3, <2>4, <2>5, <2>6, <2>7 DEF ConfigInv, WorkInv
<1> QED BY <1>1, <1>2, PTL DEF Spec

\* The device is at a step of its start, of a request or of the reset, and its settings have
\* their widths: a name stays in its buffer, with a length that fits it, whatever clients send
\* (user_init_normal, app_onWriteData, test_dev_cfg).
THEOREM TypesKept == Spec => []TypeOK
<1>1. ConfigInv => TypeOK
  <2> SUFFICES ASSUME ConfigInv
               PROVE  TypeOK
    OBVIOUS
  <2>1. FlagInv /\ KvInv /\ NameInv /\ CfgInv /\ KeyInv
    BY DEF ConfigInv, WorkInv
  <2>2. DOMAIN kv = Ids
    BY <2>1 DEF KvInv
  <2>3. DOMAIN Zeros = 1..(MAX_DEV_NAME_LEN + 1)
    BY DEF Zeros
  <2>4. name \in [DOMAIN Zeros -> Bytes] /\ nameLen \in 0..MAX_DEV_NAME_LEN
    BY <2>1, <2>3 DEF NameInv, Buffers
  <2>5. dev_cfg \in Cfgs /\ measureInterval \in 0..(IntervalLimit - 1)
    BY <2>1 DEF CfgInv
  <2>6. temp_cfg \in TempCfgs /\ {pincode, passkey} \subseteq Pincodes
        /\ bindkey \in Keys \cup {NoKey}
    BY <2>1 DEF KeyInv
  <2>7. /\ pc \in BootLabels \cup SaveLabels \cup {"run", "reset"}
        /\ bleConnected \subseteq {"enable", "reset"}
        /\ {macSector, mac_public} \subseteq Addresses \cup {NoAddress}
        /\ unsaved \subseteq Settings
    BY <2>1 DEF FlagInv
  <2> QED BY <2>2, <2>4, <2>5, <2>6, <2>7, Zenon DEF TypeOK
<1> QED BY <1>1, ConfigInvariant, PTL

\* What is in force between two commands is what a restart would find, but for what is
\* known not to be saved (load_config and the commands of app_onWriteData).
THEOREM InForceKept == Spec => []InForceIsSaved
<1>1. ConfigInv => InForceIsSaved
  BY DEF ConfigInv, KeptInv, Running, InForceIsSaved, NameKept, CfgKept, TempCfgKept,
         PincodeKept, BindkeyKept, PinKept, KeyKept
<1> QED BY <1>1, ConfigInvariant, PTL

\* The security manager and the link layer have the pincode and the address that are in
\* force, or the device restarts when the client disconnects (app_ble_init).
THEOREM StackKept == Spec => []StackIsCurrent
<1>1. ConfigInv => StackIsCurrent
  BY DEF ConfigInv, StackInv, Running, SaveLabels, StackIsCurrent
<1> QED BY <1>1, ConfigInvariant, PTL

\* Settings that the firmware of another board wrote are never loaded
\* (flash_supported_eep_ver).
THEOREM OnlyOwnSettings == Spec => []SettingsAreOwn
<1>1. ConfigInv => SettingsAreOwn
  BY DEF ConfigInv, WorkInv, OwnInv, SettingsAreOwn, OwnStore, Ids
<1> QED BY <1>1, ConfigInvariant, PTL

\* Where an earlier version of this board's firmware stored only configurations that
\* test_dev_cfg accepts, the device runs on such a configuration, with the interval
\* that belongs to it, and stores no other one.
THEOREM ConfigsUsable ==
  ASSUME \A s \in InitialStores :
           Own(s) /\ s[EEP_ID_DEV_CFG].size = SizeOf[EEP_ID_DEV_CFG]
           => Usable(s[EEP_ID_DEV_CFG].val)
  PROVE  Spec => []ConfigUsable
<1>1. Init => UsableInv
  BY DEF Init, UsableInv, Stores
<1>2. ConfigInv /\ UsableInv /\ [Next]_vars => UsableInv'
  BY UsableInvNext DEF ConfigInv
<1>3. ConfigInv /\ UsableInv => ConfigUsable
  <2> SUFFICES ASSUME ConfigInv, UsableInv
               PROVE  ConfigUsable
    OBVIOUS
  <2>1. pc = "run" => Usable(dev_cfg) /\ measureInterval = IntervalOf(dev_cfg)
    BY DEF ConfigInv, WorkInv, CfgInv, Running
  <2>2. Loading => Own(kv) \/ \A id \in Ids : kv[id] = Store!Absent
    BY DEF ConfigInv, WorkInv, OwnInv
  <2>3. Stores(EEP_ID_DEV_CFG) => kv[EEP_ID_DEV_CFG] # Store!Absent
    BY SizesOf DEF Stores, Store!Absent
  <2>4. Loading /\ Stores(EEP_ID_DEV_CFG) => Usable(kv[EEP_ID_DEV_CFG].val)
    BY <2>2, <2>3, IdsDiffer DEF UsableInv
  <2> QED BY <2>1, <2>4 DEF ConfigUsable
<1> QED BY <1>1, <1>2, <1>3, ConfigInvariant, PTL DEF Spec

\* A start changes no setting in the store but the pincode, however often the power fails on
\* the way (load_config).
THEOREM BootSettingsKept == Spec => BootKeepsSettings
<1>1. ConfigInv /\ [Next]_vars => [OwnStore /\ pc \in BootLabels => SettingsKept]_vars
  <2> SUFFICES ASSUME ConfigInv, [Next]_vars, Own(kv), pc \in BootLabels
               PROVE  SettingsKept
    BY DEF OwnStore
  <2>1. ASSUME \A id \in {EEP_ID_DEV_NAME, EEP_ID_DEV_CFG, EEP_ID_TEMP_CFG} : kv'[id] = kv[id],
               Stores(EEP_ID_BKEY) => kv'[EEP_ID_BKEY] = kv[EEP_ID_BKEY]
        PROVE  SettingsKept
    BY <2>1 DEF SettingsKept, NameAtRestart, CfgAtRestart, TempCfgAtRestart, Stores
  <2>2. CASE ~Serve
    BY <2>1, <2>2, StoreFrame
  <2>3. CASE Serve
    <3>1. StoreInv /\ KvInv
      BY DEF ConfigInv, WorkInv
    <3>2. pc \notin {"erased", "reset"}
      BY DEF ConfigInv, WorkInv, OwnInv, BootLabels
    <3>3. \A id \in {EEP_ID_DEV_NAME, EEP_ID_DEV_CFG, EEP_ID_TEMP_CFG} : kv'[id] = kv[id]
      BY <2>3, <3>1, <3>2, WritesOf, ServeKeeps, IdsDiffer DEF BootLabels, Settings
    <3>4. CASE pc = "bindkey_written"
      <4>1. Request = WriteOp(EEP_ID_BKEY, SizeOf[EEP_ID_BKEY], bindkey) /\ op = Request
        BY <2>3, <3>1, <3>4, ServeStep DEF Request
      <4>2. ~Stores(EEP_ID_BKEY)
        BY <3>4, <4>1 DEF ConfigInv, WorkInv, LoadInv, WriteOp, Store!NoOp
      <4> QED BY <2>1, <3>3, <4>2
    <3>5. CASE pc # "bindkey_written"
      <4>1. kv'[EEP_ID_BKEY] = kv[EEP_ID_BKEY]
        BY <2>3, <3>1, <3>2, <3>5, WritesOf, ServeKeeps, IdsDiffer DEF BootLabels, Settings
      <4> QED BY <2>1, <3>3, <4>1
    <3> QED BY <3>4, <3>5
  <2> QED BY <2>2, <2>3
<1> QED BY <1>1, ConfigInvariant, PTL DEF Spec, BootKeepsSettings
=============================================================================
