# B80_key: TLA+ models and proofs

B80_key is the firmware of a BLE button with a thermometer on a Telink TLSR8208B: it
measures its battery and its temperature, advertises them (BTHome), advertises presses of
its button, and lets a client connect, read, configure and update it. This directory models
the firmware's own code (`src/src/`) in TLA+, and of the SDK it is built with the parts that
keep a protocol or a table of their own: the two firmware updates and the software timers. TLC
checks the models, TLAPS proves theorems about them. `PROJECT.json` lists the components, the runs, the mutants,
the source lines behind every definition, the hazards, the findings and the theorems.

Paths below are relative to `src/src/`, unless they begin with `src/`.

## 1. Inventory

| Component | State | Operations | Talks to | Modelled by |
|---|---|---|---|---|
| Settings store (`flash_eep.c/.h`) | two flash sectors of records, nothing in RAM | `flash_write_cfg`, `flash_read_cfg`, `flash_erase_all_cfg`, inside them `get_addr_bscfg`, `pack_eep_fmem` | flash driver; called by settings, commands, main loop | `EepStore`, `FlashEep` |
| Settings and commands (`app_data.c`, `app_cmd.c`, `app_soc_temp.c`, `flash_supported_eep_ver`) | `dev_cfg`, `tbl_scanRsp`, `temp_cfg`, `pincode`, `bindkey`, passkey and address of the stack, the sector of the address | `load_config`, `test_dev_cfg`, the commands of `app_onWriteData` | settings store, BLE stack (restart on disconnect) | `DeviceConfig` |
| Main loop, button, BLE events (`app_main.c`, `app_ble.c`) | `wrk`, `wkup`, `key`, `services`, `adv_buf` | `user_init_normal`, `user_init_deepRetn`, `main_loop`, `app_event_handler`, `app_start_adv` | BLE stack by calls and callbacks, store, beacon, measurements | `DeviceLoop` |
| Beacon (`bthome_beacon.c`) | `adv_buf`, packet id, send count | `set_bthome_data`, `set_bthome_event`, encryption | main loop | in `DeviceLoop`: what a beacon tells |
| Converter (`get_adc`) | ring of 8 words, write pointer, what the converter is set to | `get_adc` | converter, averages | `AdcSampling` |
| Averages (`app_battery.c`, `app_soc_temp.c`) | sum, count and number of samples, one set each | `check_battery_level`, `calk_temp` | converter, main loop | `RunningAverage` |
| Firmware update by radio (`src/sdk_ble/vendor/2_4g_feature/ota`) | `MasterCtrl`, `SlaveCtrl`, a queue of messages each, two image areas with their marks, the lock of the flash | `OTA_MasterStart`, `OTA_SlaveStart`, `OTA_FlashErase`, `MAC_SendData`, `MAC_RecvData`, interrupts | radio, flash, ROM | `RadioOta`, `UpdateFlash`, `FirmwareSlot` |
| Firmware update by UART (`.../uart_fw_update`, `timer_event.c`) | the same, receive buffers, a response timer | `FW_UPDATE_MasterStart`, `FW_UPDATE_SlaveStart`, receive interrupt, `ev_process_timer` | UART, flash, ROM | `UartUpdate`, `UpdateFlash`, `FirmwareSlot` |
| Software timers (`src/sdk_ble/vendor/common/blt_soft_timer.c`) | a sorted table, the wakeup | `blt_soft_timer_add`, `_delete`, `_process` | callbacks, sleep of the stack | `SoftTimer` |
| Flash protection (`app_flash_protect.c`) | status register of the flash | lock, unlock around erases and OTA | SDK | no: switched off in the build; `flash_lock` and `flash_unlock` are in `UpdateFlash` |
| Debug wire (`sws_printf.c`) | two bytes in the analog registers | print a block when the reader took the last one | a reader on the wire | no: switched off in the build |
| Attribute table (`app_att.c`) | characteristic configurations | constant table | SDK | its CCCs, in `DeviceLoop` |
| AES-CCM (`ccm.c`) | none | encrypt, decrypt | beacon | no: pure bit-level data |
| Start (`main.c`, `app_config.h`), `otp.c`, `app_buffer.c` | none | chip set-up | - | no |
| BLE stack and drivers (`src/sdk_ble`) | - | a closed library with its headers; functions that set registers | - | no; assumptions in section 6 |
| SDK samples (`src/sdk_ble/vendor`, but for the above), tools | - | demonstrations; build and flashing scripts | - | no |

Processes: the device has one thread. Callbacks of the BLE stack run inside
`blc_sdk_main_loop`, which `main_loop` calls at two places; so the interleavings are those of
the callbacks with the two halves of a pass, of the sleep of the chip with the clock, and of
power failures with the steps of the store. What is hard, per component:

* **Store.** Flash can only be erased by sectors and programmed once. An object is
  programmed in two steps, a sector switched in two, a sector repacked in dozens; the power may
  fail between any two. Every walk relies on what the previous ones left. What makes it
  correct: a stored object changes only by a whole write of it; flash is only programmed
  where it is erased; every call returns.
* **Settings.** RAM and store are changed separately, `load_config` itself writes, a command
  may ask for a restart that comes much later. What makes it correct: what is in force is
  what a restart would find, is always in range, is never from another board, and a start
  changes nothing.
* **Main loop.** 32-bit ticks wrap every 268 s; deep sleep with retention comes back at the
  top of the loop, not behind the call; connections begin and end between two reads of
  `bleConnected`; the flags of one word serve advertising and notifications. What makes it
  correct: measurements keep coming, what is on the air is current, the factory reset is made
  after a full hold, only then, and once.
* **Converter.** The hardware writes while the program reads, and is set up only when the program
  takes it to be set otherwise. What makes it correct: every sample is of this call and this
  channel, single disturbed ones do not show, the call returns.
* **Firmware updates.** Two devices with state machines, retries and time limits of their own; frames
  get lost, damaged, late or doubled; the power of the slave may fail in any write (modelled for the update
  by radio; the writes are the same in both). What makes
  them correct: blocks arrive in order and once; whatever happens the device starts a whole image,
  and no older one; an update that can complete does; neither end stays in it for ever.
* **Timers.** A sorted table in a wrapping clock, a loop that removes what it stands on. What makes
  it correct: the order holds, the wakeup is that of the first timer, none is lost.
* **Averages.** Two different roundings feed back into one sum. What makes it correct: no
  drift, no overflow, the average in the range of the samples.

## 2. Modules

| Module | What | Composes |
|---|---|---|
| `EepStore` | abstract: what the settings store promises to its callers | |
| `FlashEep` | `flash_eep.c` in detail | implements `EepStore` (`INSTANCE EepStore WITH kv <- Visible`) |
| `DeviceConfig` | settings, commands, start | on top of `EepStore` (`Store == INSTANCE EepStore`) |
| `DeviceLoop` | main loop, button, BLE events | its own view of restart and settings |
| `AdcSampling` | reading the converter | |
| `RunningAverage` | the running averages | |
| `FirmwareSlot` | abstract: what an update promises of the image that is started | |
| `UpdateFlash` | two image areas, marks, block protection, torn writes | |
| `RadioOta` | master, slave and channel of the update by radio | extends `UpdateFlash`, implements `FirmwareSlot` |
| `UartUpdate` | the update by wire | extends `UpdateFlash`, implements `FirmwareSlot` |
| `SoftTimer` | the timers and their wakeup | |
| `..._proofs` of `FlashEep`, `DeviceConfig`, `DeviceLoop`, `SoftTimer`, `RadioOta`, `UartUpdate` | theorems about the module | extend it |
| `Averages_proofs` | theorems about measuring: the converter and the averages | extends `AdcSampling` and `RunningAverage` |
| `UpdateFlash_proofs` | lemmas about the image flash | extends it, used for both updates |
| `MC...` | instances for TLC | |

### EepStore and FlashEep

`EepStore` is a map from ids to objects and one call at a time: `Call`, then `Complete...`
or `OverflowWrite`, or `Crash`. A write is all or nothing, also when the power fails in it;
it may fail for lack of room, but not when it repeats what is stored, and not on an empty store.
`Wipe` lets the two sectors of `flash_erase_all_cfg` be erased one by one.

`FlashEep` keeps each sector as its head word and the sequence of its records; a record is
an address, an id (`0xff` until it is programmed), a size and contents. `pc` names the places of a
call between which flash is programmed. Each `_flash_write_obj` is two steps, `WriteObj` (size
and data) and `WriteId`, as in the code; `Crash` may come between any two steps and may
tear the program in progress (`Tear`): the record stays without an id, and its size byte is the right one or, cut
short, a larger one (`TornSizes`). The code knows of this case: the walks of readers and writers take a size
over `MAX_FOBJ_SIZE` for the largest one (`Width`, hence `FreeAddr`; `LastIdx` never matches such a record). The
loop of the pack does not: it looks at the id first and steps over a record without one by the size it finds
(`SkippedTo`), so that it may go on behind some whole records or inside of one (`Resumed`). `TornRepack` is
what that does to `ImplementsStore`: objects behind such a record may be gone with the repack, and nothing else. `PackSkip`, `PackCopied`, `PackDeleted`,
`PackCopy`/`PackCopyId` and `PackEnd` are the exits of one turn of the loop of
`pack_eep_fmem`; `PackMark` and `PackClose` switch the sectors. The bit array `buf_id` is
modelled bit by bit, because `check_flag_eep_id` clears the other bits of the byte it looks at
(section 5). `Visible` is what a reader would find if the power failed now, the refinement
mapping to `EepStore`.

### DeviceConfig

One action per place of the start or of a command at which the store is called, and one per
return; the store serves between them (`Serve`), so power failures hit every step.
`TestDevCfg` is `test_dev_cfg` with its clamps and the wrapped product of the interval. `LoadDevCfg`
writes the pincode, as line 96 does. `name` is the buffer with its stale bytes; `CStr` cuts it at
the 0. `EraseMac` and `WriteMac` are the two steps of `CMD_ID_DEV_MAC` on its own flash sector; a start
finds in it an address, a part of one, or none and makes one up. `unsaved` is a history: settings set to default by a command that does not save, and those
the store refused. `Restart` is the RAM after a reboot or power loss.

### DeviceLoop

A pass of `main_loop` is `Top` (is a measurement due), the call of the stack when
connected (`pc = "sdk_conn"`), `Notify`, the measurement (`MeasureNothing`, `MeasureBattery`,
`LowBattery`, `MeasureTemp`), the call of the stack when not connected (`"sdk_adv"`) and the
button (`KeyDown`, `KeyHeld`, `KeyReset`, `KeyUp`, `KeyOff`). In the stack, time passes (`Tick`), the
events of `app_event_handler` arrive (`Connect`, `Terminate`, `TerminateReset`, `AdvTimeout`),
the client writes (`AskReset`, `Subscribe`, `SetInterval`), and the call either returns
(`StackReturns`, after a suspend) or is never returned from (`RetentionWake`, after a deep sleep).
Time is modulo `Wrap` in every comparison the code makes modulo 2^32. The stack may refuse a notification, and refuses
all when the connection has just ended (`Refusals`); `Notify` clears the flags all the same. `notified` is what
was notified in this connection, `owed` what was measured in it but for what was refused; both begin anew with each
connection (`ForgetClient`). `owed`, `since`, `held` and `erased` are histories for the properties; no action reads them.

### AdcSampling

`get_adc` sets up the converter if it has to, clears the buffer and resets the pointer; from then on
`Convert` writes the next word whenever it likes, also all the way round. `Follow`, `See`, `Catch` and
`Take` are the reads of the pointer before the loop, in the waiting loop and behind it, and of word `i`, with the
insertion into the sorted samples; `Return` sums the middle four. `Wake` is a deep sleep: the converter may
lose its channel, and `adc_hw_initialized`, which the linker puts among the variables that are loaded again,
loses its value.

### UpdateFlash, RadioOta and UartUpdate

An image is a sequence of blocks, a block a pair of version and position, so that what is mixed, shifted or
torn shows. `Programmed` only clears bits: a block over another one is `Garbled`. Each area has its mark, the
byte the ROM and the program decide by; `Running` is the version a start would run, the refinement mapping to
`FirmwareSlot`, whose only step is from one whole image to the one offered.

In both updates a master and a slave have one action per exit of a pass of their state machines:
the answer waited for (`MasterAnswered`; `SlaveGreets`, `SlaveStores`, `SlaveConcludes`), a repeat
(`SlaveRepeats`), anything else (`...Retries`), the time limit (`...Expires`), and the steps on
the flash: `SlaveErases`, `SlaveMarks`, `SlaveSwitches`. In `RadioOta` a frame has a length, because
an answer that is sent again takes the length of what was just received; a device listens only at times
(`radio`), and a frame that finds nobody listening is lost. In `UartUpdate` a device always hears; what waits in
the queue is a pointer to one of the receive buffers (`Overwritten`), and the timer of the answer
(`TimerExpires`) puts its message into the same queue, also when the answer is on its way. The check sum of a
frame is tested in the interrupt only (`fw_update.c:135`); its message is handled later, from whatever the buffer
holds by then (252, 541, 646). That is another frame, or, with a damaged frame in it (`Damaged`) or while the DMA
writes the next one from its first byte on (`fw_update_phy.c:125`), bytes that nobody has checked: the buffer is not
`Intact`, and what is `Seen` in it is any member of `Unchecked`. `misread` is the history of that.

### SoftTimer

The table is a sequence; `Sort` is the bubble sort with the comparison of the code, modulo `Wrap`: a fold of
`Round`, the outer loop, over a fold of `Bubble`, the inner one. The loop of `blt_soft_timer_process` goes one timer at a time (`Pass`, `CallEnds`, `CallAgain`), so
that what it skips when a timer ends is what the code skips. The clock advances between passes only.

### RunningAverage

`Collect` is the average while fewer than `COUNT` samples are there, `Slide` the one afterwards; the
first divides (`/`, toward zero), the second shifts (`>>`, down). One step per sample, of any
value in `Lo..Hi`.

## 3. Runs

| Run | States | Question |
|---|---|---|
| `FlashEep` (0.2 M) | two settings in one byte of `buf_id`, one with two contents and one deleted at times, sectors that fill up, calls that are refused, records torn in the data or in the size | is every history of calls, repackings and power failures one of `EepStore`; is flash programmed only where erased; does repacking fit; does every call return (`FairSpec`) |
| `Config` (1.7 M) | names longer than the buffer and empty, with bytes behind the 0; configurations out of range, short messages, pincodes, keys, addresses | in force = stored, usable, own; passkey and address of the stack are those stored; a start keeps settings |
| `LoopTime` (1.5 M) | clock of 6 ticks, hold of 3, window of 2, intervals 1 and 3, sleeps of 2 | reset after a hold, only then, in time, once; bounded time between measurements; fast advertising ends (`FairSpec`) |
| `LoopValues` (4.5 M) | two values each of battery and temperature, any subscription, notifications refused | beacon and notifications current |
| `AdcSampling` (0.9 M) | two channels, two disturbed conversions (negative, too high), laps of any number | fresh samples, disturbances do not show, the call returns (`FairSpec`) |
| `RunningAverage` | 4 samples of -5..4 | no drift, in range, converges |
| `RadioOta` (0.2 M) | images of 2 blocks, 1 of them erased, a frame lost or damaged, a power failure, both areas, locked or not | blocks in order, a whole image always, completion, both ends stop (`FairSpec`) |
| `UartUpdate` (0.3 M) | slaves with older and newer firmware, a frame lost or damaged, a timeout that races, buffers overwritten while they wait and handled unchecked | blocks in order until bytes are misread, a whole image always, no older image unless misread, completion (`FairSpec`) |
| `SoftTimer` (0.9 M) | three timers of two callbacks, two intervals, a clock of 44 ticks | order, wakeup, none lost |
| `FlashEepNames`, `ConfigPincode`, `RadioVersion` | | findings, section 5 |

Properties, with what would break them:

* `ImplementsStore`: a half-written record is read, an older version wins after a repack, both
  sectors are current with different contents, a copy is lost.
* `WritesErasedFlash`: a torn size misplaces the end of the log; a copy is written beyond
  the sector. `PackNeverGrows` is why the copies fit, although the code does not look.
* `CallsReturn`: a record that is not copied is not stepped over either.
* `InForceIsSaved`: `load_config` does not undo what the commands do; `unsaved` is the
  precise exception.
* `BootKeepsSettings`, `SettingsAreOwn`: a power failure between erasing and writing the version,
  or inside `load_config`.
* `ConfigUsable`: `dev_cfg`, `measureInterval` and the store change together. `StackIsCurrent`:
  the passkey and the address are given to the stack at a start only, and the power may fail between
  erasing and writing the address.
* `HoldResets`, `ResetOnlyAfterHold`, `OneResetPerHold`: the time in `wkup.timerWakeUpTick`
  is computed from the top of the pass, the reset is made in a window of 4 s only, and a hold lasts
  through the restart it causes.
* `MeasuredInTime`: ticks wrap. `BeaconCurrent`, `EventShowsKey`, `NotifiedNewest`: the flag of
  one receiver is cleared with that of another, or an event or a connection swallows a value, or a second client
  is not told what was measured since it came. What the stack refuses is excepted: it is never tried again.
* `FastAdvEnds`: each timeout of a limited advertising starts the next kind.
* `SumBounded`, `AverageInRange`, `Converges`: the two roundings.
* `SamplesAreFresh`: the pointer has gone round, or the converter lost its channel in a deep sleep.
  `Returns`: the loop waits for a pointer value that is gone. `MiddleResists`: the sort.
* `ReceivedInOrder`, `StopAndWait`: a repeat is stored twice, a frame out of its turn is taken, a buffer was
  overwritten by another frame while its message waited. By wire it ends at the first misread buffer: a corrupt block is
  taken then, and only the CRC at the end is left. `ImplementsSlot`: the marks change in the wrong order, a torn or unchecked
  image is started, the flash was locked all the time. `OnlyForward`: an image replaces a newer one (unless the version was misread).
* `UpdateCompletes`: master and slave are in states from which each one's repeats do not help the other.
  `BothStop`: retries that are reset again and again keep a device in the update.
* `InTurn`: the sort over a wrap of the clock. `Armed`: a timer deleted or ended leaves its wakeup behind.
  `NeverLost`: the loop skips a timer so often that it counts as one to come.

Each has a mutant in `PROJECT.json` that breaks it under its run.

### Bounds, and why they are enough

* *Sectors of 14 bytes with objects of 0 and 1, of 21 bytes with objects of 6 in the run of the names.* A sector holds three records or more, so
  it is full after a few writes and is repacked with every mix of new, old, deleted and torn records.
  The two ids of `FlashEep` share a byte of `buf_id`, and a sector has room for one, the other and the first again:
  flags are cleared and objects copied twice. More ids would repeat those pairs. The run looks at the states through
  the `VIEW` `LiveFlash`, which forgets the records of a sector that is neither the one a reader would find nor part of a
  repacking, and the last result: no step reads them before it erases or sets them. A torn size is 1, as it should
  be, 3, which is over `MAX_FOBJ_SIZE` and leads into the middle of the next record, or 6, which leads behind it. The limits of its reads are the size of the objects and one
  over `MAX_FOBJ_SIZE`. The proofs have none of these bounds.
* *Three initial stores* (never used, an older version of this board, another board with an
  unusable configuration): all the cases of `flash_supported_eep_ver`.
* *`MAX_DEV_NAME_LEN` = 3* instead of the code's: the default name is shorter, one name is longer, and one is empty for `strlen` but not for `memcpy`.
* *Two bind keys, two addresses*, interchangeable, so the run uses them as symmetric model values.
* *`Wrap` 4 to 6, `MaxPresses` 1 or 2.* Every comparison is of a difference with a constant
  below `Wrap`; the clock wraps several times between two events of each kind. `MaxPresses` bounds
  the counter of presses, 32 bits wide in the code; `FastAdvEnds` needs the presses to end.
* *`COUNT` = 4, samples -5..4.* The range has negative values that `/` and `>>` round
  differently. The proofs hold for all.
* *Eight words, one good voltage, two disturbed conversions.* The ring and the samples have the size of the code;
  two is what the middle four of eight can resist, on one side or on both.
* *Images of 2 blocks, one of them in the sectors that are erased; by radio 2 retries instead of 10, queue of 4 as in
  the code; by wire 1 retry instead of 3, a queue of 3 instead of 4 and 2 receive buffers instead of 3.* With fewer buffers one is
  overwritten the sooner; the run by wire takes no new attempt of a master once bytes were misread (`AfterMisread`); the
  proofs have none of these bounds. There is a first, a last and a block that is not erased; a loss of
  one frame, with a damage, a power failure or a race at any point of it, makes each retry and repeat
  happen, and `MasterRetries` still runs out of them when the slave does not answer.
* *`SoftTimer`: 3 timers, `Wrap` 44, `POST` 6, gaps between passes of 3.* A quarter of the wrap is longer than the
  longest interval and `POST`, as in the code; three timers are the fewest of which the loop can skip one and still
  have another behind it. The values are just within `InTime`, the condition of the theorems, which TLC
  evaluates with them; and that is tight: with a `POST` of 5 `NeverLost` fails, since the loop can skip a timer in
  two passes one after the other.

## 4. What is proved

With TLAPS, for every value of the constants that the named assumptions allow. Each theorem states the
property that the runs check on small instances (`[]` for an invariant), under the name in the second column.

| Theorem | Property |
|---|---|
| `FlashEep_proofs!TypeCorrect` | `TypeOK` |
| `FlashEep_proofs!SpaceSafe`, `PackFits` | `OneSizePerId` implies `WritesErasedFlash`, `PackNeverGrows` |
| `FlashEep_proofs!StoreImplemented` | `OneSizePerId` implies `ImplementsStore`: `FlashEep` refines `EepStore`, but for `TornRepack` |
| `DeviceConfig_proofs!TypesKept`, `InForceKept`, `StackKept`, `OnlyOwnSettings` | `TypeOK`, `InForceIsSaved`, `StackIsCurrent`, `SettingsAreOwn` |
| `DeviceConfig_proofs!ConfigsUsable` | `ConfigUsable`, if what earlier firmware of this board stored is usable |
| `DeviceConfig_proofs!BootSettingsKept` | `BootKeepsSettings` |
| `DeviceLoop_proofs!TypesKept`, `BeaconsAreCurrent`, `EventsShowKey`, `ClientIsNotified` | `TypeOK`, `BeaconCurrent`, `EventShowsKey`, `NotifiedNewest` |
| `DeviceLoop_proofs!MeasuresInTime` | `IntervalsFit` implies `MeasuredInTime` |
| `DeviceLoop_proofs!HoldEndsInReset` | `HoldResets` |
| `DeviceLoop_proofs!ResetNeedsHold`, `HoldErasesOnce` | `ResetOnlyAfterHold`, `OneResetPerHold` |
| `Averages_proofs!SamplesFresh` | `SamplesAreFresh` |
| `Averages_proofs!MiddleKept` | `MiddleResists`, for up to two disturbed conversions and six words more than that |
| `Averages_proofs!AverageTypesKept`, `SumSafe`, `AverageSafe` | `TypeOK`, `SumBounded`, `AverageInRange` |
| `SoftTimer_proofs!TypesKept` | `TypeOK` |
| `SoftTimer_proofs!StayInTurn`, `AlwaysArmed`, `NoneLost` | `InTime` implies `InTurn`, `Armed`, `NeverLost` |
| `SoftTimer_proofs!SortRearranges`, `SortOrders` | of `Sort` alone: it rearranges any table, and orders one whose times can be compared |
| `RadioOta_proofs!TakenInOrder`, `OneBlockApart` | `ReceivedInOrder`, `StopAndWait` |
| `RadioOta_proofs!SlotImplemented` | `ImplementsSlot`: `RadioOta` refines `FirmwareSlot` |
| `UartUpdate_proofs!TakenInOrder`, `NeverOlder` | `ReceivedInOrder`, `OnlyForward` |
| `UartUpdate_proofs!SlotImplemented` | `ImplementsSlot`: `UartUpdate` refines `FirmwareSlot` |

`ConfigInvariant`, `DeviceInvariant`, `SamplingInvariant`, `TimesKept`, `OtaInvariant` and `UartInvariant` state the inductive
invariants themselves. None of the properties is inductive as it stands; what each argument adds:

*FlashEep.* `PackSkip` needs the record it looks at to exist, which
follows from where `pc` can be. `TypeInv` adds those facts (`CallMatches`: the places of a
call belong to its kind; `AtRecord`: `rd` is at a record where one is looked at). For the space, the invariant
(`SpaceInv`) says at every `pc` how the write address relates to the end of the log, that records
lie one behind the other, that a record that was begun has its room, and that the part of
the new sector that is written is no longer than the part of the old one that was read. Torn sizes are in all of
this: the end of the log behind one is where `get_addr_wrobj` takes it to be, maybe past the sector, where nothing is
written; and a pack that steps over records by a torn size has only read more of the old sector. That
last one needs `OneSizePerId`: the copy is of the *newest* record of an id, the room is that of the
record just read, so the two must have one size. All settings but the device name do; without the
assumption the theorem is false (`FlashEepNames`).

For the refinement, `StoreInv` says which sector a reader would take at every `pc` (`ChosenInv`), what a write has found
out about the object before it looks for room (`WriteInv`), and in `CopyInv` what the pack has copied: an id
has its newest object in the new sector or none, and the newest one if its records in the old sector were met and no
torn size (`TornSrc`) has led past them. In a sector without torn sizes the switch therefore leaves `Visible` alone; in one
with them it is `TornRepack`. Also a flag of
`buf_id` is only set for an id that was met. The code clears flags it should keep (section 5), and the invariant shows why that does not matter: a second copy is of
the same newest object. A step is then a step of `EepStore` or leaves `Visible` alone; the only ones that
change it are `WriteId` and the erases of `flash_erase_all_cfg`, or a power failure in one of them.

*DeviceConfig.* `StoreInv` says what the store is asked for at each place of the program and what it can have answered, `OwnInv` that
it is this board's from the check of the version on, `NameInv` and `CfgInv` what `test_dev_cfg` has left, `LoadInv`
how much of the RAM is loaded at each place of the start. `KeptInv` excepts the one setting that is being
saved, and `StackInv` the two commands that a restart has to carry out. With these, every place of a start
or a command at which the power may fail is covered, and a write that is refused leaves its id in
`unsaved`. The proof showed what `ConfigUsable` needs of the past: an unusable configuration *of this board* in
the store would be loaded by `load_config`, repaired in RAM and left in the store.

*DeviceLoop.* Differences of clock values modulo `Wrap` become times by the lemmas on `Diff`. `PassInv` bounds how long
a pass has lasted at each place. `HoldInv` says that the time held and the time left are together `HOLD`, but for
the stall by which the clock has gone on when the button is read; with the wakeup armed, no sleep passes the due time. `ResetInv` carries the
erased hold over the restart. `TimeInv` follows a due measurement through the call of the stack in this pass, and in the next one
after a deep sleep: hence the two sleeps of `MeasuredInTime`. `BeaconInv` and `NotifyInv` say, of each flag,
what its absence promises; `NotifyInv` to the client of this connection, of what it is owed.

*AdcSampling.* `PointerInv`: until the pointer has gone round, it is the number of conversions, and the loop is behind
it. `ChannelInv`: what `adc_hw_initialized` names is what the converter is set to. For the middle four, `GoodInv` says that with `q`
disturbed words among the samples, one of the first and one of the last `q + 1` is a good voltage, and counts the disturbed
words the loop has still to take, with a lemma that the insertion keeps the samples sorted and its
places in order.

*RunningAverage.* The inductive invariant is the three together. The sum is
between `cnt * Lo` and `cnt * Hi + Residue`: while samples are collected nothing was taken off and
`Residue` is 0; afterwards each step takes off the quotient, rounded down, and leaves the rest
of the division, at most `COUNT - 1`. Without that term the bound is not inductive.
`DivBounds` and `QuotientBounds` are the lemmas on the two divisions.

*SoftTimer.* The sort first. `FoldLeft` is defined by a function on sets that is chosen; `FoldExists` builds that function up a
step at a time, so that `InnerLoop` and `OuterLoop` can say that the value of the fold is the last state of the loop it stands for.
What a loop keeps is then shown by `Induction`, over a set of numbers, from the least one that is not in it. After `k` steps of a round
the timer at `k + 1` is the last one up to there (`Risen`), and after a round one timer more is where it belongs
(`Placed`); no step loses a timer or makes one up (`Rearranged`, by an injection of the places).

For the times, `Place(k)` is how far timer `k` is from `POST` ticks ago, without any modulo as long as it
is more than `PRE` and not more than a quarter of the wrap further. That is `NearIs`, and it follows
from the rest of the invariant, `TimeInv`. The loop skips the timer behind one that ends, so a timer can be passed by for
several passes. Each time it moves at least one place nearer to the start, and only a timer before it can
cause that: from place `p` it happens `Skips(p)` times at most, half the size of the table from the first place.
`LateInv` says that the timer at place `p` is at most that many gaps behind `Top`, and `LoopInv` says what that
becomes while the loop runs: the `r` timers skipped so far have one rank each of `1..r`. At the end of the pass
the sort turns the ranks into places, `SortBound`: if the timer sorted to place `p` were nearer than its bound, so
were the `p` timers up to there, and they would need `p` ranks below `p`. TLC checked `TimeInv` with three and
four timers before it was proved.

*UpdateFlash.* Lemmas on what a torn program and a torn erase can leave of a block, of an image and of its mark, on which area is
started, and on what an equal CRC says of the blocks that were added to it.

*RadioOta.* A device hears only while it listens, and the order of the dialogue follows from that: `TurnInv` says that one
side has something to handle or on the air at a time. `RequestInv`, `AnswerInv` and `ReplyInv` say of each frame, in
the air, in a queue or kept to be sent again, that it belongs to the place the two are at, `StepInv` that these
are one apart at most. For the flash, `FirmInv` says that the target area is the one that does not run and has no mark
from its first erase on, so that whatever is in it, torn or not, is not started; and in `"MARKED"` that both areas hold whole
images, so that it does not matter which one a start takes. `VERSION_RSP` is left out: it may be cut off (`RadioVersion`).

*UartUpdate.* Frames cross, buffers are overwritten while their message waits, late timeouts are taken for
others, so no turn can be kept: here the invariant is that every frame, wherever it is, is *true*
(`TrueFrames`), until bytes are handled that no check sum was tested of (`misread`). That exception is in each part that
a misread answer could spoil, and nowhere else: what the flash holds and which image is started (`FirmInv`) does
not rest on any frame, so `SlotImplemented` holds with misread bytes too. A block is what its number says, a version less than the one offered was sent by a slave that runs nothing
newer, and a request that is sent only to such a slave says so too. Then it does not matter which of two
frames a pointer shows, and `OnlyForward` follows, which by radio is false without any misread byte.

Only model-checked:

* the liveness properties `CallsReturn`, `FastAdvEnds`, `Converges`, `Returns`, `UpdateCompletes` and `BothStop`: this
  prover has no rules for fairness and `ENABLED`.

Every other property of a passing run is stated by a theorem.

## 5. Where the code and its documents disagree

| Run | What |
|---|---|
| `ConfigPincode` | `load_config` *writes* the pincode (`app_data.c:96`) where it reads every other setting: a start resets it to 0. The run begins with a store that holds one, and finds it gone behind the first start. So the pincode command, which restarts the device to take effect, has none. |
| `FlashEepNames` | With an object of changing length, the duplicates can fill the new sector; the loop of the pack ends and the objects behind are lost (`flash_eep.c:267`). |
| `RadioVersion` | A `VERSION_REQ` that comes again is answered with the length of the request (`ota.c:531`): the version is cut off, the master reads 0 and sends an older image to a slave with a newer one. The update by UART sends its answers whole, and `OnlyForward` holds there until bytes are misread. |

Seen while modelling, without a run:

* `save_dev_name` copies a name without a 0 (`app_data.c:66`): behind a shorter name the tail of the longer one
  stays, in force and in the store (`Memcpy` in `SetName`).
* `check_flag_eep_id` clears the other seven bits of the byte (`flash_eep.c:181`, `&=`): the pack forgets which objects it
  copied and copies some twice. What is read stays right (`ImplementsStore`), but the sector stays fuller.
* The measuring interval is a 32-bit product of ticks that wraps for configurations in range, for
  instance 27 times 10.24 s (`app_data.c:62`); an interval less than one sleep below 2^32 ticks can be passed by
  unnoticed (`app_main.c:225`).
* The reply to the name command omits the last character of any name but the default one (`app_data.c:58`,
  `app_cmd.c:54`).
* The flags of a notification are cleared whether or not the stack takes it (`app_main.c:236`): a value that it
  refuses is not notified before the next measurement (`owed` in `NotifiedNewest`).
* A repack may lose objects behind a record with a torn size: `pack_eep_fmem` steps over a record without an id by its size
  (`flash_eep.c:224-227`) before it looks whether that size can be (229-233), and `get_addr_wrobj` and `get_addr_idobj`
  step over the same record by the largest size (142-146, 166-173). `ImplementsStore` has this exception, `TornRepack`;
  the branch at 229-233 is left to records with an id, and no program leaves such a size there.
* A frame by wire is checked when it arrives and read when it is handled (`fw_update.c:135`, 252, 646): a damaged
  `VERSION_RSP` over one that waits can name a lower version, and the master sends an older image. `OnlyForward` has
  this exception, `misread`.
* The percentage of the battery is a product with a truncated coefficient (`app_battery.c:166`).
* `END_RSP` is sent before the slave has checked the CRC (`ota.c:691`), so the master may count a success
  there was none of; only a counter of the sample depends on it.
* The limit of 5 s is for the whole of the data, not for a block (`fw_update.c:339`): at 115200 baud
  that is about 45 KB.
* `adc_dat_buf` is not volatile although the converter writes it; the model takes every read to be made.

## 6. Assumptions and fairness

* *Flash.* The bytes of one `flash_write_page` are programmed in order, the size byte before the data; it can be torn, since
  bits are cleared one after the other, and then reads as a larger one. The program of an id or of a mark, one byte each, and
  the erase of one sector are atomic. What the pack makes of the middle of a record is a record to be skipped, or the
  next one: an object made out of data that is taken for a head is not modelled. Programs past the end of a sector are not followed (the theorem
  says there are none). `DeviceConfig` relies on `EepStore`, which `FlashEep` implements as long as
  objects keep their size; it does not see the loss `FlashEepNames` shows. A sector has room for its head,
  the largest object and the head behind it (`FlashAssumption`).
* *What earlier firmware left.* The store is a map of objects; its version number is a number; a store of this
  board has a name, a configuration and coefficients of the types of the code (`InitialStoresAssumption`).
  Nothing is assumed of a store of another board. Clients may send any bytes.
* *BLE stack* (closed): it sleeps at most `MaxSleep`, not past the wakeup that
  `bls_pm_setAppWakeupLowPower` set, not while the level of the button differs from the one
  armed for wakeup, and not twice without returning to the loop. Suspends of at most
  `Stall` return in place; after a deep sleep the chip comes through `user_init_deepRetn` to the top
  of the loop.
* *Intervals.* `MeasuredInTime` needs them to be shorter than the wrap of the clock by a sleep (`IntervalsFit`):
  with the limits of the stack, `(measuredIntervals + 1) * advInterval` no more than 429496. `test_dev_cfg` does not
  enforce it, so this is the condition of the theorem and not an assumption of the module. A suspend is shorter than the longest sleep, that is shorter than the
  hold of the button, and the hold with the window behind it is shorter than the wrap: in the code
  10.24 s, 15 s, 4 s more and 268 s. The 128 us by which a wakeup may be early (`BLT_TIMER_SAFE_MARGIN_PRE`,
  `app_main.c:309`) are less than a tick of the model.
* *Samples* lie within 16 bits.
* *Converter.* It goes on converting until it is disabled; a word is written in one step.
* *Radio* (`Prompt`, `Quiet` in `RadioOta`). A pass of a main loop takes microseconds, a frame a third of a
  millisecond, the shortest wait of an answer 50 ms, an erase and a restart tens of milliseconds: a message
  is handled before the radio has the next one, and a frame has ended before an erase has.
* *UART* (`Due`, `races` in `UartUpdate`). Both timers last a second and end in the order of their start; an answer
  takes milliseconds, so a timer races with one only when the other device was busy: `MaxRaces` times.
* *CRC.* It finds every difference. So does, in the interrupt, the check sum of a frame by wire, which is an exclusive or
  of its bytes; the length of a misread frame is taken to be right.
* *Image flash.* The mark is programmed in one step; a block or an erase may be torn. `flash_unlock` and
  `flash_lock` give up silently, so whether the flash is locked behind them is either.
* *Timers.* The stack wakes the device `MaxGap` ticks after the last pass at the latest. Callbacks
  neither add nor delete timers. `InTime` is what the theorems on order, wakeup and lateness ask of the program
  that uses the timers; nothing in `blt_soft_timer.c` sees to it. The firmware itself compiles them out
  (`BLT_SOFTWARE_TIMER_ENABLE` is 0, `blt_soft_timer.h:33`); `feature_soft_timer/app.c`, which has them, advertises
  every 30 to 35 ms. With sleeps of several seconds and the wakeup disabled for a far first timer, timers do get
  lost. With its 4 s and a table of 4 timers, the gap between two passes is a third of that at most
  (1.33 s); an interval is longer than `PRE` and, with the 4 s, no more than a quarter of the wrap (67 s at 16 MHz).
* *Button.* A press that lasts through the start is no hold: `user_init_normal` takes the level as seen,
  so a factory reset takes a fresh press.

Fairness, only where a liveness property is checked: `WF(Step)` in `FlashEep`, the processor goes on with the
call it is in; `WF(Boot)`, `WF(Pass)` in `DeviceLoop`, likewise; `SF(StackReturns)`, since
otherwise every turn could be a deep sleep, and in deep sleep the loop behind the call never runs;
the stack returns in place after each radio event it serves awake; `SF(AdvTimeout)`, the stack
ends an advertising whose duration it was given, although connections may come between. Presses,
clients and power failures have no fairness. In `AdcSampling` the converter
goes on (`WF(Convert)`), and since the loop reads the pointer many times between two conversions, it
finds it moved at some time although it may be held up (`SF`). In the updates both devices run their
loops (`SF(MasterWorks)`, `SF(SlaveWorks)`: enabled again and again, between frames), what is sent ends and timeouts
come; losses, power failures and time limits have no fairness, but for the second part of `BothStop`, which is about
the time limit. In `RunningAverage` samples keep coming, and the
input need not ever settle: `Converges` speaks of the case that it does.

## 7. What is not modelled

Wording of replies and the commands that only read; erasing pairing data; the suspend mask during an OTA
(`otaIsWorking` is set and never cleared); the LED; the packet id, the send counter and the encryption of
the beacon; parameter updates of a connection; the scaling to mV, degrees and percent; a timer callback that
changes the table; the interrupt inside `FW_UPDATE_MsgQueuePop`; a power failure during the update by UART (the flash is
written there as by radio, where it is modelled); a wrong length of misread bytes; the components marked so in section 1.

Most of `src/sdk_ble` cannot be modelled faithfully: the BLE stack is a binary library (`proj_lib`) whose
headers declare functions and packet formats without their bodies; `drivers` are register definitions and
functions that set a few of them, whose effect is the hardware's; the rest of `vendor` are sample programs,
each a copy of the same start and loop around one call of the closed stack. They hold the greater part of the
lines of the repository and no state machine of their own but those modelled here. What the firmware
relies on of them is stated in section 6.

## 8. Plan

Done, in that order: `EepStore`, `FlashEep`, `DeviceConfig`, `DeviceLoop`, `RunningAverage`, since what
the device stores is what it can lose for good; then `UpdateFlash` with `RadioOta` and `UartUpdate`, `SoftTimer`,
`AdcSampling`; then the proofs of section 4: every safety property of every module, and the three refinements.

Next:

1. The theorems that have a hypothesis on the past or on the constants: `StoreImplemented` for objects of changing
   size that cannot fill a sector between two repackings.
2. Models, if any: the scaling from samples to percent, against a reference definition; `sws_printf.c`.

## 9. Running

    tlc -config FlashEep.cfg MCFlashEep      # any run: its module and cfg are in PROJECT.json
    tlapm RadioOta_proofs.tla                # likewise the other ..._proofs modules
