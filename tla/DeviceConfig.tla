---------------------------- MODULE DeviceConfig ----------------------------
(***************************************************************************)
(* The settings of the device: what load_config (app_data.c) makes of the  *)
(* store at power up, how the commands of app_cmd.c change them, and what  *)
(* is left of them after a restart.                                        *)
(*                                                                         *)
(* The store is EepStore, called and returning in steps of its own, so the *)
(* power may fail before, within and after every call.  The program has    *)
(* one thread: a command runs to its end within blc_sdk_main_loop.         *)
(*                                                                         *)
(* A settings structure is the tuple of its fields: memcpy of a shorter    *)
(* message replaces a prefix of them.                                      *)
(***************************************************************************)
EXTENDS SequencesExt, Integers

CONSTANTS
  MAX_DEV_NAME_LEN,
  DEV_NAME_STR,     \* default name
  NEW_VER,          \* version and board of this firmware, (VERSION_BCD<<16) | BOARD
  BOARD,
  NewNames,         \* the names,
  NewCfgs,          \* device configs,
  NewTempCfgs,      \* sensor configs,
  NewPincodes,      \* pincodes
  Keys,             \* and bind keys that clients send; what a random key can be
  Addresses,        \* addresses that clients send; what a random one can be
  InitialStores,    \* what earlier firmware can have left in the store
  NoVal             \* no contents

\* EEP_ID_e
EEP_ID_VER      == 0
EEP_ID_DEV_CFG  == 1
EEP_ID_DEV_NAME == 2
EEP_ID_PINCODE  == 3
EEP_ID_TEMP_CFG == 4
EEP_ID_BKEY     == 5
Settings == {EEP_ID_DEV_CFG, EEP_ID_DEV_NAME, EEP_ID_PINCODE, EEP_ID_TEMP_CFG, EEP_ID_BKEY}
Ids      == {EEP_ID_VER} \cup Settings

\* sizeof of the objects; a name is saved with its own length.
SizeOf == [id \in Ids \ {EEP_ID_DEV_NAME} |->
             CASE id = EEP_ID_DEV_CFG -> 6 [] id = EEP_ID_BKEY -> 16 [] OTHER -> 4]

\* An erased sector, and RAM before the start
NoAddress == 0

\* u8 and u16; pincodes have six digits.
Bytes    == {n \in Nat : n <= 255}
Words    == {n \in Nat : n <= 65535}
Pincodes == {n \in Nat : n <= 999999}

ASSUME DeviceConfigAssumption ==
  /\ MAX_DEV_NAME_LEN \in 1..20
  /\ DEV_NAME_STR \in Seq(Bytes \ {0})
  /\ Len(DEV_NAME_STR) \in 1..(MAX_DEV_NAME_LEN - 1)
  /\ NewNames \subseteq Seq(Bytes) /\ \A s \in NewNames : Len(s) > 0
  /\ NewCfgs \subseteq Seq(Words) /\ NewTempCfgs \subseteq Seq(Words)
  /\ NewPincodes \subseteq Nat
  /\ NoAddress \notin Addresses
  /\ BOARD \in Words \ {0} /\ NEW_VER \in Nat /\ NEW_VER % 65536 = BOARD

VARIABLES
  kv, op, ret,      \* the store: its objects, the call it serves, what that returned
  pc,               \* where load_config, a command or the factory reset is
  name,             \* tbl_scanRsp.name, zeros behind the end of the string
  nameLen,          \* tbl_scanRsp.len
  dev_cfg,          \* <<advInterval, measuredIntervals, rfPower, flags>>
  measureInterval,  \* wrk.measureInterval in units of 16 ticks
  temp_cfg,         \* temperature.cfg, <<coef, zero>>
  pincode,
  bindkey,
  passkey,          \* the passkey app_ble_init gave the security manager, 0: none
  bleConnected,     \* flags of the connection
  macSector,        \* the address in the flash at flash_sector_mac_address
  mac_public,       \* the address app_ble_init gave the link layer
  unsaved           \* settings in force that were never meant to be, or could not be, saved

store == <<kv, op, ret>>
cfg   == <<name, nameLen, dev_cfg, measureInterval>>
address == <<macSector, mac_public>>
ble   == <<passkey, bleConnected, address>>
\* The RAM, and the address in the flash
ram   == <<cfg, temp_cfg, pincode, bindkey, ble>>
vars  == <<store, ram, pc, unsaved>>

---------------------------------------------------------------------------
(* Contents of the settings *)

Store == INSTANCE EepStore WITH MAX_FOBJ_SIZE <- 32, Vals <- {}

\* memcpy(dst, src, Len(src)), cut at the end of dst.
Memcpy(dst, src) == [i \in DOMAIN dst |-> IF i \in DOMAIN src THEN src[i] ELSE dst[i]]

Zeros == [i \in 1..(MAX_DEV_NAME_LEN + 1) |-> 0]

\* Mutant: the length counts the 0.
StrLenWithZero(buf) == SelectInSeq(buf, LAMBDA b : b = 0)

\* strlen
StrLen(buf) == SelectInSeq(buf, LAMBDA b : b = 0) - 1

CStr(buf) == SubSeq(buf, 1, StrLen(buf))

advIntervalOf(c)       == c[1]
measuredIntervalsOf(c) == c[2]

ADV_INTERVAL_50MS   == 80
ADV_INTERVAL_10_24S == 16384
MY_RF_POWER_INDEX   == 3

dev_cfg_def         == <<8000, 2, MY_RF_POWER_INDEX, 0>>
temperature_cfg_def == <<10500, 57400>>
NoKey == <<>>

Clamp(x, lo, hi) == IF x > hi THEN hi ELSE IF x < lo THEN lo ELSE x

\* Mutant: the power is not checked.
ValidCfgButPower(c) == << Clamp(c[1], ADV_INTERVAL_50MS, ADV_INTERVAL_10_24S),
                          IF c[2] < 1 THEN 1 ELSE c[2], c[3], c[4] >>

\* test_dev_cfg, the configuration.
ValidCfg(c) == << Clamp(c[1], ADV_INTERVAL_50MS, ADV_INTERVAL_10_24S),
                  IF c[2] < 1 THEN 1 ELSE c[2],
                  IF c[3] = 0 THEN MY_RF_POWER_INDEX ELSE c[3],
                  c[4] >>

\* test_dev_cfg, the name: its last byte is set to 0, and an empty one is replaced by
\* the default one, whose length then counts the 0 behind it.
ValidName(buf) ==
  LET b == [buf EXCEPT ![MAX_DEV_NAME_LEN + 1] = 0]
  IN  IF StrLen(b) > 0
      THEN [name |-> b, len |-> StrLen(b)]
      ELSE [name |-> Memcpy(b, Append(DEV_NAME_STR, 0)), len |-> Len(DEV_NAME_STR) + 1]

\* 2^32 ticks
IntervalLimit == 268435456

\* advInterval * measuredIntervals * 10000, the 32-bit product, in units of 16 ticks.
IntervalOf(c) == (advIntervalOf(c) * measuredIntervalsOf(c) * 625) % IntervalLimit

---------------------------------------------------------------------------
(* What earlier firmware left *)

\* The version of the firmware that wrote the store is one of this board.
Own(s) ==
  /\ s[EEP_ID_VER].size = SizeOf[EEP_ID_VER]
  /\ s[EEP_ID_VER].val % 65536 = BOARD

Cfgs     == [1..4 -> Words]
TempCfgs == [1..2 -> Words]

\* Firmware of this board saved a name with its length, which fits its buffer, and what
\* has the size of a setting is that setting.
Saved(s) ==
  /\ LET n == s[EEP_ID_DEV_NAME] IN
       \/ n = Store!Absent
       \/ n.val \in Seq(Bytes) /\ n.size = Len(n.val) /\ n.size \in 1..MAX_DEV_NAME_LEN
  /\ s[EEP_ID_DEV_CFG].size = SizeOf[EEP_ID_DEV_CFG] => s[EEP_ID_DEV_CFG].val \in Cfgs
  /\ s[EEP_ID_TEMP_CFG].size = SizeOf[EEP_ID_TEMP_CFG] => s[EEP_ID_TEMP_CFG].val \in TempCfgs
  /\ s[EEP_ID_BKEY].size = SizeOf[EEP_ID_BKEY] => s[EEP_ID_BKEY].val \in Keys

ASSUME InitialStoresAssumption ==
  \A s \in InitialStores :
    /\ s = [id \in Ids |-> s[id]]
    /\ s[EEP_ID_VER].size = SizeOf[EEP_ID_VER] => s[EEP_ID_VER].val \in Nat
    /\ Own(s) => Saved(s)

---------------------------------------------------------------------------
(* Power up *)

RamAtReset ==
  /\ name = Zeros /\ nameLen = 0
  /\ dev_cfg = <<0, 0, 0, 0>> /\ measureInterval = 0
  /\ temp_cfg = temperature_cfg_def
  /\ pincode = 0 /\ bindkey = NoKey /\ passkey = 0
  /\ bleConnected = {}
  /\ mac_public = NoAddress

Init ==
  /\ kv \in InitialStores
  /\ op = Store!NoOp /\ ret = Store!NoResult
  /\ pc = "boot"
  /\ RamAtReset
  /\ macSector \in Addresses \cup {NoAddress}
  /\ unsaved = {}

Goto(label) == pc' = label

Write(id, size, v) ==
  Store!Start([kind |-> "write", id |-> id, size |-> size, val |-> v])

Read(id, maxsize) ==
  Store!Start([kind |-> "read", id |-> id, maxsize |-> maxsize])

Erase == Store!Start([kind |-> "erase"])

\* The last call of the store, of an object with a size of its own, succeeded.
Succeeded(id) == ret.code = SizeOf[id]

---------------------------------------------------------------------------
(* load_config; every step handles a result of the store and makes the next call *)

\* flash_supported_eep_ver reads the version of the firmware that wrote the store.
ReadVersion ==
  /\ pc = "boot"
  /\ Read(EEP_ID_VER, SizeOf[EEP_ID_VER])
  /\ Goto("version")
  /\ UNCHANGED <<ram, unsaved>>

\* Mutant: another version of the same board is not supported.
SupportedSame == Succeeded(EEP_ID_VER) /\ ret.val = NEW_VER

Supported ==
  /\ Succeeded(EEP_ID_VER)
  /\ ret.val % 65536 = NEW_VER % 65536
  /\ ret.val >= BOARD

WriteVersion ==
  /\ Write(EEP_ID_VER, SizeOf[EEP_ID_VER], NEW_VER)
  /\ Goto("version_written")
  /\ UNCHANGED <<ram, unsaved>>

KeepStore == pc = "version" /\ Supported /\ WriteVersion

\* Mutant: only a missing version is erased.
EraseMissing ==
  /\ pc = "version"
  /\ IF Succeeded(EEP_ID_VER)
     THEN WriteVersion
     ELSE Erase /\ Goto("erased") /\ UNCHANGED <<ram, unsaved>>

EraseForeign ==
  /\ pc = "version"
  /\ ~Supported
  /\ Erase
  /\ Goto("erased")
  /\ UNCHANGED <<ram, unsaved>>

WriteVersionAfterErase == pc = "erased" /\ WriteVersion

ReadName ==
  /\ pc = "version_written"
  /\ Read(EEP_ID_DEV_NAME, MAX_DEV_NAME_LEN)
  /\ Goto("name")
  /\ UNCHANGED <<ram, unsaved>>

LoadName ==
  /\ pc = "name"
  /\ name' = IF ret.code <= 0 THEN [name EXCEPT ![1] = 0] ELSE Memcpy(name, ret.val)
  /\ Read(EEP_ID_TEMP_CFG, SizeOf[EEP_ID_TEMP_CFG])
  /\ Goto("temp_cfg")
  /\ UNCHANGED <<nameLen, dev_cfg, measureInterval, temp_cfg, pincode, bindkey, ble, unsaved>>

\* load_temp_cfg
LoadTempCfg ==
  /\ pc = "temp_cfg"
  /\ temp_cfg' = IF Succeeded(EEP_ID_TEMP_CFG) THEN ret.val ELSE temperature_cfg_def
  /\ Read(EEP_ID_DEV_CFG, SizeOf[EEP_ID_DEV_CFG])
  /\ Goto("dev_cfg")
  /\ UNCHANGED <<cfg, pincode, bindkey, ble, unsaved>>

\* Mutant: the default configuration is loaded whatever the store holds.
LoadDevCfgDefault ==
  /\ pc = "dev_cfg"
  /\ dev_cfg' = dev_cfg_def
  /\ Write(EEP_ID_PINCODE, SizeOf[EEP_ID_PINCODE], pincode)
  /\ Goto("pincode")
  /\ UNCHANGED <<name, nameLen, measureInterval, temp_cfg, pincode, bindkey, ble, unsaved>>

\* Then the pincode, which was just reset, is written, not read.
LoadDevCfg ==
  /\ pc = "dev_cfg"
  /\ dev_cfg' = IF Succeeded(EEP_ID_DEV_CFG) THEN ret.val ELSE dev_cfg_def
  /\ Write(EEP_ID_PINCODE, SizeOf[EEP_ID_PINCODE], pincode)
  /\ Goto("pincode")
  /\ UNCHANGED <<name, nameLen, measureInterval, temp_cfg, pincode, bindkey, ble, unsaved>>

LoadPincode ==
  /\ pc = "pincode"
  /\ pincode' = IF Succeeded(EEP_ID_PINCODE) THEN pincode ELSE 0
  /\ unsaved' = IF Succeeded(EEP_ID_PINCODE) THEN unsaved ELSE unsaved \cup {EEP_ID_PINCODE}
  /\ Read(EEP_ID_BKEY, SizeOf[EEP_ID_BKEY])
  /\ Goto("bindkey")
  /\ UNCHANGED <<cfg, temp_cfg, bindkey, ble>>

LoadBindkey ==
  /\ pc = "bindkey"
  /\ Succeeded(EEP_ID_BKEY)
  /\ bindkey' = ret.val
  /\ Goto("loaded")
  /\ UNCHANGED <<store, cfg, temp_cfg, pincode, ble, unsaved>>

GenerateBindkey ==
  /\ pc = "bindkey"
  /\ ~Succeeded(EEP_ID_BKEY)
  /\ \E k \in Keys : bindkey' = k /\ Write(EEP_ID_BKEY, SizeOf[EEP_ID_BKEY], k)
  /\ Goto("bindkey_written")
  /\ UNCHANGED <<cfg, temp_cfg, pincode, ble, unsaved>>

BindkeyWritten ==
  /\ pc = "bindkey_written"
  /\ op = Store!NoOp
  /\ unsaved' = IF Succeeded(EEP_ID_BKEY) THEN unsaved ELSE unsaved \cup {EEP_ID_BKEY}
  /\ Goto("loaded")
  /\ UNCHANGED <<store, ram>>

\* test_dev_cfg
TestDevCfg(buf, c) ==
  /\ name' = ValidName(buf).name
  /\ nameLen' = ValidName(buf).len
  /\ dev_cfg' = ValidCfg(c)
  /\ measureInterval' = IntervalOf(ValidCfg(c))

\* The end of load_config, and app_ble_init, where blc_initMacAddress makes up an address
\* if there is none.
InitBle ==
  /\ pc = "loaded"
  /\ TestDevCfg(name, dev_cfg)
  /\ macSector' \in IF macSector = NoAddress THEN Addresses ELSE {macSector}
  /\ mac_public' = macSector'
  /\ passkey' = IF pincode <= 999999 THEN pincode ELSE 0
  /\ Goto("run")
  /\ UNCHANGED <<store, temp_cfg, pincode, bindkey, bleConnected, unsaved>>

Boot ==
  \/ ReadVersion \/ KeepStore \/ EraseForeign \/ WriteVersionAfterErase
  \/ ReadName \/ LoadName \/ LoadTempCfg \/ LoadDevCfg \/ LoadPincode
  \/ LoadBindkey \/ GenerateBindkey \/ BindkeyWritten \/ InitBle

---------------------------------------------------------------------------
(* The connection; a command may ask for a restart when it ends *)

Connect ==
  /\ pc = "run"
  /\ bleConnected = {}
  /\ bleConnected' = {"enable"}
  /\ UNCHANGED <<store, cfg, temp_cfg, pincode, bindkey, passkey, address, pc, unsaved>>

\* start_reboot, or power up
Restart ==
  /\ name' = Zeros /\ nameLen' = 0
  /\ dev_cfg' = <<0, 0, 0, 0>> /\ measureInterval' = 0
  /\ temp_cfg' = temperature_cfg_def
  /\ pincode' = 0 /\ bindkey' = NoKey /\ passkey' = 0
  /\ bleConnected' = {}
  /\ mac_public' = NoAddress
  /\ Goto("boot")
  /\ unsaved' = {}

Terminate ==
  /\ pc = "run"
  /\ bleConnected # {}
  /\ UNCHANGED store
  /\ \/ "reset" \in bleConnected /\ Restart /\ UNCHANGED macSector
     \/ /\ "reset" \notin bleConnected
        /\ bleConnected' = {}
        /\ UNCHANGED <<cfg, temp_cfg, pincode, bindkey, passkey, address, pc, unsaved>>

---------------------------------------------------------------------------
(* app_onWriteData: the commands that change a setting *)

Command == pc = "run" /\ bleConnected # {}

\* CMD_ID_DNAME, save_dev_name
SetName(s) ==
  LET sent == SubSeq(s, 1, Min({Len(s), MAX_DEV_NAME_LEN}))
  IN  /\ Command
      /\ TestDevCfg(Memcpy(name, sent), dev_cfg)
      /\ Write(EEP_ID_DEV_NAME, nameLen', SubSeq(name', 1, nameLen'))
      /\ Goto("name_saved")
      /\ UNCHANGED <<temp_cfg, pincode, bindkey, ble, unsaved>>

\* The result of the store is not looked at; what it refused stays in force.
SavedOrNot(id) == unsaved' = IF ret.code < 0 THEN unsaved \cup {id} ELSE unsaved \ {id}

\* CMD_ID_CFG, save_dev_cfg
SetCfg(c) ==
  /\ Command
  /\ TestDevCfg(name, Memcpy(dev_cfg, c))
  /\ Write(EEP_ID_DEV_CFG, SizeOf[EEP_ID_DEV_CFG], dev_cfg')
  /\ Goto("cfg_saved")
  /\ UNCHANGED <<temp_cfg, pincode, bindkey, ble, unsaved>>

\* CMD_ID_CFG_DEF: not saved
SetCfgDefault ==
  /\ Command
  /\ TestDevCfg(name, dev_cfg_def)
  /\ unsaved' = unsaved \cup {EEP_ID_DEV_CFG}
  /\ UNCHANGED <<store, temp_cfg, pincode, bindkey, ble, pc>>

\* CMD_ID_CFS, save_temp_cfg
SetTempCfg(c) ==
  /\ Command
  /\ temp_cfg' = Memcpy(temp_cfg, c)
  /\ Write(EEP_ID_TEMP_CFG, SizeOf[EEP_ID_TEMP_CFG], temp_cfg')
  /\ Goto("temp_cfg_saved")
  /\ UNCHANGED <<cfg, pincode, bindkey, ble, unsaved>>

\* CMD_ID_CFS_DEF: not saved
SetTempCfgDefault ==
  /\ Command
  /\ temp_cfg' = temperature_cfg_def
  /\ unsaved' = unsaved \cup {EEP_ID_TEMP_CFG}
  /\ UNCHANGED <<store, cfg, pincode, bindkey, ble, pc>>

\* Mutant: the range of the pincode is not checked.
SetPincodeUnchecked(p) ==
  /\ Command
  /\ pincode # p
  /\ pincode' = p
  /\ Write(EEP_ID_PINCODE, SizeOf[EEP_ID_PINCODE], p)
  /\ Goto("pincode_saved")
  /\ UNCHANGED <<cfg, temp_cfg, bindkey, ble, unsaved>>

\* CMD_ID_PINCODE; the new one asks for a restart
SetPincode(p) ==
  /\ Command
  /\ pincode # p /\ p <= 999999
  /\ pincode' = p
  /\ Write(EEP_ID_PINCODE, SizeOf[EEP_ID_PINCODE], p)
  /\ Goto("pincode_saved")
  /\ UNCHANGED <<cfg, temp_cfg, bindkey, ble, unsaved>>

\* Mutant: the restart is forgotten.
PincodeSavedNoReset ==
  /\ pc = "pincode_saved"
  /\ op = Store!NoOp
  /\ SavedOrNot(EEP_ID_PINCODE)
  /\ Goto("run")
  /\ UNCHANGED <<store, ram>>

PincodeSaved ==
  /\ pc = "pincode_saved"
  /\ op = Store!NoOp
  /\ bleConnected' = bleConnected \cup {"reset"}
  /\ SavedOrNot(EEP_ID_PINCODE)
  /\ Goto("run")
  /\ UNCHANGED <<store, cfg, temp_cfg, pincode, bindkey, passkey, address>>

\* CMD_ID_BKEY
SetBindkey(k) ==
  /\ Command
  /\ bindkey' = k
  /\ Write(EEP_ID_BKEY, SizeOf[EEP_ID_BKEY], k)
  /\ Goto("bindkey_saved")
  /\ UNCHANGED <<cfg, temp_cfg, pincode, ble, unsaved>>

\* The command, with nothing else to do after its write, replies.
Replied(label, id) ==
  /\ pc = label
  /\ op = Store!NoOp
  /\ SavedOrNot(id)
  /\ Goto("run")
  /\ UNCHANGED <<store, ram>>

NameSaved    == Replied("name_saved", EEP_ID_DEV_NAME)
CfgSaved     == Replied("cfg_saved", EEP_ID_DEV_CFG)
TempCfgSaved == Replied("temp_cfg_saved", EEP_ID_TEMP_CFG)
BindkeySaved == Replied("bindkey_saved", EEP_ID_BKEY)

\* CMD_ID_DEV_MAC, with another address, or without one: the sector is erased before the
\* new address, or one that blc_initMacAddress makes up, is written.
EraseMac ==
  /\ Command
  /\ macSector' = NoAddress
  /\ Goto("mac_erased")
  /\ UNCHANGED <<store, cfg, temp_cfg, pincode, bindkey, passkey, bleConnected, mac_public, unsaved>>

WriteMac ==
  /\ pc = "mac_erased"
  /\ macSector' \in Addresses
  /\ bleConnected' = bleConnected \cup {"reset"}
  /\ Goto("run")
  /\ UNCHANGED <<store, cfg, temp_cfg, pincode, bindkey, passkey, mac_public, unsaved>>

Set ==
  \/ \E s \in NewNames : SetName(s)
  \/ \E c \in NewCfgs : SetCfg(c)
  \/ SetCfgDefault
  \/ \E c \in NewTempCfgs : SetTempCfg(c)
  \/ SetTempCfgDefault
  \/ \E p \in NewPincodes : SetPincode(p)
  \/ \E k \in Keys : SetBindkey(k)
  \/ EraseMac

Reply ==
  NameSaved \/ CfgSaved \/ TempCfgSaved \/ PincodeSaved \/ BindkeySaved \/ WriteMac

---------------------------------------------------------------------------
(* The factory reset of main_loop: the button was held; then start_reboot *)

FactoryReset ==
  /\ pc = "run"
  /\ Erase
  /\ Goto("reset")
  /\ UNCHANGED <<ram, unsaved>>

RebootAfterReset ==
  /\ pc = "reset"
  /\ op = Store!NoOp
  /\ Restart
  /\ UNCHANGED <<store, macSector>>

---------------------------------------------------------------------------
(* The store, power failures, and the specification *)

Serve == Store!Serve /\ UNCHANGED <<ram, pc, unsaved>>

\* Loss of power, or a deep sleep on a low battery, which ends in a restart.
\* An address that was being written may be left in part, and be another one.
Crash ==
  /\ Store!Crash /\ Restart
  /\ macSector' \in IF macSector = NoAddress /\ pc \in {"loaded", "mac_erased"}
                    THEN Addresses \cup {NoAddress} ELSE {macSector}

Next ==
  \/ Boot \/ Connect \/ Terminate \/ Set \/ Reply \/ FactoryReset \/ RebootAfterReset
  \/ Serve \/ Crash

Spec == Init /\ [][Next]_vars
---------------------------------------------------------------------------
(* Properties *)

BootLabels == {"boot", "version", "erased", "version_written", "name", "temp_cfg",
               "dev_cfg", "pincode", "bindkey", "bindkey_written", "loaded"}
SaveLabels == {"name_saved", "cfg_saved", "temp_cfg_saved", "pincode_saved", "bindkey_saved",
               "mac_erased"}

\* The device is at a step of its start, of a request or of the reset, with a name that is in
\* its buffer (user_init_normal, app_onWriteData, test_dev_cfg).
TypeOK ==
  /\ pc \in BootLabels \cup SaveLabels \cup {"run", "reset"}
  /\ DOMAIN kv = Ids
  /\ name \in [DOMAIN Zeros -> Bytes]
  /\ nameLen \in 0..MAX_DEV_NAME_LEN
  /\ dev_cfg \in Cfgs
  /\ measureInterval \in 0..(IntervalLimit - 1)
  /\ temp_cfg \in TempCfgs
  /\ {pincode, passkey} \subseteq Pincodes
  /\ bindkey \in Keys \cup {NoKey}
  /\ bleConnected \subseteq {"enable", "reset"}
  /\ {macSector, mac_public} \subseteq Addresses \cup {NoAddress}
  /\ unsaved \subseteq Settings

\* Past the check of the version.
Loading == pc \notin {"boot", "version", "erased"}

Stores(id) == kv[id].size = SizeOf[id]

\* What a restart would find.
NameAtRestart == LET stored == kv[EEP_ID_DEV_NAME] IN
  CStr(ValidName(IF stored = Store!Absent THEN Zeros ELSE Memcpy(Zeros, stored.val)).name)
CfgAtRestart ==
  ValidCfg(IF Stores(EEP_ID_DEV_CFG) THEN kv[EEP_ID_DEV_CFG].val ELSE dev_cfg_def)
TempCfgAtRestart ==
  IF Stores(EEP_ID_TEMP_CFG) THEN kv[EEP_ID_TEMP_CFG].val ELSE temperature_cfg_def

\* What is in force between two commands is what a restart would find, but for the
\* settings a client reset to their default and those the store had no room for:
\* load_config undoes what the commands do, and nothing is in force by accident.
InForceIsSaved ==
  pc = "run" =>
    /\ EEP_ID_DEV_NAME \notin unsaved => CStr(name) = NameAtRestart
    /\ EEP_ID_DEV_CFG \notin unsaved => dev_cfg = CfgAtRestart
    /\ EEP_ID_TEMP_CFG \notin unsaved => temp_cfg = TempCfgAtRestart
    /\ EEP_ID_PINCODE \notin unsaved => Stores(EEP_ID_PINCODE) /\ kv[EEP_ID_PINCODE].val = pincode
    /\ EEP_ID_BKEY \notin unsaved => Stores(EEP_ID_BKEY) /\ kv[EEP_ID_BKEY].val = bindkey

Usable(c) ==
  /\ advIntervalOf(c) \in ADV_INTERVAL_50MS..ADV_INTERVAL_10_24S
  /\ measuredIntervalsOf(c) >= 1
  /\ c[3] # 0

\* The configuration the radio and the measurements run on is in range, the measuring
\* interval was computed from it and not from an earlier one, and what this board
\* stores is in range too: test_dev_cfg comes before every use and every save.
ConfigUsable ==
  /\ pc = "run" => Usable(dev_cfg) /\ measureInterval = IntervalOf(dev_cfg)
  /\ Loading /\ Stores(EEP_ID_DEV_CFG) => Usable(kv[EEP_ID_DEV_CFG].val)

\* What only a start gives the stack, the passkey of the security manager and the address
\* of the link layer, is the pincode in force and the address in the flash, unless the
\* device is going to restart when the client disconnects; also when the power failed
\* while an address was erased or written.
StackIsCurrent ==
  pc = "run" /\ "reset" \notin bleConnected => passkey = pincode /\ mac_public = macSector

OwnStore == Own(kv)

\* Settings written by the firmware of another board are never loaded: past the
\* check of the version a store with a setting in it holds a version of this board.
\* It must hold wherever the power fails between erasing the store and writing
\* the version.
SettingsAreOwn ==
  Loading /\ (\E id \in Settings : kv[id] # Store!Absent)
  => OwnStore

\* Starting again, as often as the power fails on the way, changes no setting of the
\* store that belongs to this board, also when its firmware is another version.
SettingsKept ==
  /\ UNCHANGED <<NameAtRestart, CfgAtRestart, TempCfgAtRestart>>
  /\ Stores(EEP_ID_BKEY) => UNCHANGED kv[EEP_ID_BKEY]

BootKeepsSettings == [][OwnStore /\ pc \in BootLabels => SettingsKept]_vars
---------------------------------------------------------------------------
(* What comments and documents say, and the code does not do *)

\* EEP_ID_PINCODE is the stored pincode ("Connect: Pin-Code supported"): a start does
\* not change it.
BootKeepsPincode ==
  [][OwnStore /\ pc \in BootLabels /\ Stores(EEP_ID_PINCODE)
     => UNCHANGED kv[EEP_ID_PINCODE] ]_vars
===========================================================================
