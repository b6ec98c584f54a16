# Formal models of the ECU program

The program under `src/1.Fisrt Editon/` is the control unit of a hybrid train (fuel cell, battery,
DC/DC converters). It is one Linux process on the A9 core of a ZYNQ; an FPGA on the same chip
connects it, through block RAM, to the BLVDS back plane (the MAX10 board), the TMS570 controllers,
the MVB gateway and the CAN channels. This directory holds TLA+ models of its parts, TLC
configurations that check them on small instances, and TLAPS proofs of the results that hold for
every value of the parameters. `PROJECT.json` is the index: components, runs, the lines of the source
behind every definition, the findings, the hazards and the theorems.

All source references below are to files in `src/1.Fisrt Editon/`.

## 1. Inventory

The build (`BaseDefine.h:68-76`) defines only `BLVDS_READ_FUNCITON`. It runs seven threads: `main`,
`RealWaveThreadFunc`, `ModbusThreadFunc`, `FileSaveThreaFunc`, `LEDPthreadFunc`, `DirTarThreadFunc` and
`BlvdsThreadFunc`. The others (UDP, CAN0, CAN1, MVB, redundancy) exist in the source and are compiled
in by switches; CanLink, Gateway and Hybrid model them as they would run in such a build (`ecu.c` does not
compile as it stands: it names members of a structure as elements of arrays, and is read as meaning the members of that
number; nothing else of it is read otherwise than it stands). `Makefile:8` compiles with `-g` and no optimisation, so every access to a variable in
the source is a load or a store of its own.

| component | state | operations | interacts with | hard behaviour |
|---|---|---|---|---|
| FPGA write link (`BramDataInter.c`) | channel in block RAM, write flag bits, CRC error bits, static retry counter | `BramWriteWithChek` and what it calls | Blvds, MVB, CAN, TMS570 threads; the FPGA | handshake with hardware, time-outs, retries, a counter shared without a lock |
| FPGA read link (`BramDataInter.c`) | channel, FPGA write flag, A9 read flag, static retry counter | `BramReadWithChek` and what it calls | the same threads; the FPGA | torn frames, retries, the shared counter |
| Event files (`FileSave.c`, `main.c`) | two streams, the number of saved records, two error bits | `EventFileCreateByNum`, `FileSaveThreaFunc`, `ECU_EventDataSave`, `MAX10_EventDataSave` | main's `PowDownFun`, the log file, the eMMC | replacement of a file another thread syncs, loss at a power cut, failing `fopen` |
| Power-down sync (`main.c:449-523`) | two filter counters, `power_err` | `PowDownFun` | GPIO, event files, log file | debounce, emergency sync, bad streams |
| Error word and LED (`BaseDefine.h:242`, `main.c:1148`) | sixteen one-bit fields, LED state | assignments by six threads, `LEDPthreadFunc` | all threads | read-modify-write without a lock |
| BLVDS data (`BramDataProc.c:483-756`, `FileSave.c:679-810`) | receive buffer, CRC and life latches, the prepared record | `BLVDSDataReadFunc`, `BLVDSDataWriteFunc`, `ExtraBoardData`, `MAX10_RD_DataProc`, `MAX10_EventDataSave` | both links, error word, `RealDatalock` | stale frames, latches, records written while the next is prepared |
| Data locks (`main.c`) | `RealDatalock`, `BramDatalock` | read and write sections of the data threads | Blvds, FileSave, RealWave | starvation, data guarded by the wrong lock |
| Real wave server (`main.c:535`, `Socket.c`) | sockets, channel selection | accept, select, send loop | `RealDatalock`, error word | reconnection, failed accept |
| Record storage (`DircMng.c`, `FileSave.c`) | a directory and an archive per day, the saver's last day | make, pack, remove, delete the earliest | FileSave and DirTar threads, which share no lock | midnight, deletion against packing, a start after half a removal |
| Log file (`WriteLog.c`) | one stream | `WriteLogFile`, `LogFileSync`, `LogFileCreate` | every thread | replacement without a lock |
| CAN (`BramDataProc.c:762-1541`, `main.c:1326-1506`) | a slot per frame of a round, a life count per device, the write error count | `CAN_Read_Option`, `CAN_Life_Judge`, `CAN_ReadData_Pro`, `CAN_WriteData_Pro`, `CAN_Write_Option` | the bus, the TMS570 | stale slots, time-outs, order of slots, supervision that stalls |
| MVB gateway (`BramDataProc.c:1795-2025`, `main.c:1518-1553`) | the frames, life latches, `mvb_err`, the record | `MVB_Bram_Read_Func`, `MVB_RD_Data_Proc`, `MVB_WR_Data_Proc`, `ECU_Record_Data_Pro_Fun` | both links, the TMS570, `BramDatalock`, FileSave | latches, records half made, operator precedence |
| TMS570 (`BramDataProc.c:1596-1786`) | life latches per channel | `TMS570_Bram_Read_Func`, `TMS570_Bram_Write_Func` | MVB, CAN, redundancy threads | a count that is never cleared, index errors |
| Hybrid control (`ecu.c`, `main.c:1565-1712`) | fault levels, filters, outputs, the start's result | `FCU_Start_Stage`, `ECU_Diagnose`, `Hybrid_Power_ctrl`, the fault judges | the driver, BMS, FCU, DC/DC, the other channels' verdicts | stale results, filters, waits without an exit, a write to address 0 |
| Modbus, PHY, GPIO, timers, XML, CRC, BCD, mapping | little or none | wrappers of library and system calls | | |

What makes the parts correct, and where it can go wrong, is listed as `hazards` in `PROJECT.json`, each at
its line.

## 2. Modules

    BramWrite  <- MCBramWrite, BramWriteProofs     the write half of BramDataInter.c
    BramRead   <- MCBramRead, BramReadProofs       the read half of BramDataInter.c
    ReadLink                                       what the read half promises: BramRead implements it
    BlvdsData  <- BlvdsDataProofs                  the BLVDS thread and its records; EXTENDS ReadLink
    EventFile  <- EventFileProofs                  FileSaveThreaFunc, file creation, PowDownFun
    ErrWord    <- EventFileProofs                  the error word and the LED
    CanLink    <- CanLinkProofs                    a CAN thread and its bus
    SharedRecord                                   what the two data locks promise: Gateway and BlvdsData implement it
    Gateway    <- GatewayProofs                    the MVB thread, the TMS570's channel 8, BramDatalock, the saver
    Storage    <- StorageProofs                    the day directories: saver and archiver
    Hybrid     <- HybridProofs                     the redundancy thread and ecu.c

`MC...` modules give the parameters of an instance names and definitions; the others need none and are
checked directly. Operators commented "Mutant of X" are deliberately wrong forms of the
definition X that follows them. They are used by no specification; they record which error in the code
each property detects (`mutants` in `PROJECT.json`).

### BramWrite

`BramWriteWithChek` (line 709) builds a frame, calls `BramBlockWrite`, and repeats that while
`0 < s_bram_WriteCRCErrNum_U8 < WR_CRCERR_NUM`. `BramBlockWrite` waits for a clear write flag
(`FlagWaitPass`, `FlagWaitTimeout`), copies the frame (`WriteFrame`), sets the flag (`SetFlag`), polls it
(`FlagCleared`, `PollTimeout`) and reads the FPGA's CRC bit (`CrcRight`, `CrcError`). A thread `t` has a
program counter `pc[t]`; the static counter is `num`, its `++` is `IncLoad` and `IncStore`, and each test
of it is a step of its own (`TestCounter`, `LoopMore`, `LoopBelow`, `FinalTest`). A poll loop of 450
reads is one step that passes when the bit is clear, or one that gives up while it is set: the FPGA may
act at any moment, so the number of reads adds nothing. The FPGA (`FpgaAccept`, `FpgaRefuse`) is external
and known only from how the code uses its flags: it serves a set flag, leaves its verdict in the CRC bit
and clears the flag. The frame is abstracted to whether the channel holds the frame of the current
call (`fresh`). Variables marked history record what happened to the current call and guard nothing.

### BramRead

The same for `BramReadWithChek` (line 525). Data matters here, so a frame is two halves: the first holds the
header with the length, the second the CRC word. `ReadFirst` and `ReadSecond` copy them with the FPGA free
to act between; `CrcResult` is `BramReadDataWithCRC` on what was copied. `FpgaBegin` and `FpgaEnd` refresh a
channel when neither side's flag forbids it; since the A9 waits and sets its flag in two steps, and goes on
reading after a wait that gave up, torn frames do occur in the model.

`Outbuf` is the caller's. `BLVDSDataReadFunc` zeroes it for every call (`BramDataProc.c:620`); `MVB_Bram_Read_Func` (1836) and
`TMS570_Bram_Read_Func` (1601) zero it once and pass it for one channel after the other, so that a call begins with the frame of another channel in it. `Zeroes`
is the set of threads of the first kind, and a call of any other may find anything in its buffer (`Leftover`).

### ReadLink and BlvdsData

`ReadLink` is the read link as a caller sees it: `Call`, any number of `Sample`s of what the channel holds at
that moment, and `Return`, with CODE_OK only if the last sample was a frame. `BramRead` is shown to implement
it (`ImplementsReadLink`): a sample is the copying of the CRC word, the content published is the half the FPGA
writes last, and flags, retries and counters disappear. So a caller may rely on it that a good frame is
whole and was current during this very call, and on nothing else (not, for one, that an error is the
frame's fault). In particular it is not one the buffer still held: until a call has copied its first frame (`Taken`) it has taken nothing in the mapping, whatever is in
`Outbuf`, and a link that skipped the copy would not implement `ReadLink` (mutant `FlagWaitTimeoutSkips`).

`BlvdsData` builds on that. `BlvdsThreadFunc` takes `RealDatalock` for writing (`WrLock`), reads (`CallRead`,
`ReadReturns`), and judges the result: `JudgeError`, `JudgeGood` and, for CODE_WARN, which no branch of the code
takes, `JudgeWarn`. `JudgeGood` contains `ExtraBoardData` (`TakeData`, `LifeStands`) and the latch for the life signal
(`JudgeLife`), then the error bit is assigned. `ProcDigital` and `ProcAnalog` are the two halves of
`MAX10_RD_DataProc`; `SaveDigital` and `SaveAnalog` those of `MAX10_EventDataSave`, either of which may fail. A frame is a name:
the properties ask which frame a half of a record is from, and whether the frame's CRC word is 0. A frame with
no data (12 bytes) leaves the receive buffer alone. Before its loop the thread calls `BLVDS_Init_Func`, which sends
one frame and sets nothing that is modelled here.

`StandstillHidden` says what the life signal of the board is worth: of a good frame whose CRC word is not 0 the error bit never says anything,
however often it comes again.

### SharedRecord

What `FileSaveThreaFunc` may rely on when it takes the lock of a record, `BramDatalock` in Gateway and `RealDatalock` in BlvdsData: `Publish` (never
while a save goes on), `BeginSave`, `SaveHalf`, `EndSave`. What is written is what was published last. The refinement mapping takes a record as
published when its analogue half is filled, the digital half having been filled before it; so a step that fills the digital half is a stutter. If one were
taken while the saver is inside, the half written next would not be the one published, and the refinement would fail. A write that fails is a stutter, since the half stays missing. Who takes the lock
when, and how many steps a record takes, does not show; nor does whether it is ever saved, the promise being one of safety.

### EventFile

Two threads. `Saver` is `FileSaveThreaFunc` with `EventFileCreateByNum` and `LogFileCreate` inlined; `Main` is
`PowDownFun` as main's loop calls it. Each access to a stream variable is a step. A stream is null, open
or closed-but-still-referenced; contents are counted as the number of writes not yet on the eMMC. The first
creation is made by main before the threads exist, hence `mpc = "boot"` until the first `WriteHeader`. Use of
a closed stream is undefined in C: the model takes both outcomes that matter, no effect and the end of
the process. `PowDowIOValue` is 0 or 1, or the initial 2 when the GPIO could not be read
(`GPIO_PowDowRead` leaves it alone). `PowerErrDebounced` and `PowerErrPrompt` together say when `power_err` changes: never before more than `POWDOW_FILT`
equal readings in a row, and with the reading that makes them so.

### ErrWord

`Assign`, `LoadUnit`, `StoreUnit` are the parts of an assignment to a one-bit field. `UnitOf` says how the
compiler groups the fields: `ByteOf` (what GCC does for ARM at `-O0`) or `HalfWordOf` (the declared type).
When a thread reports is an input; what it may report, and that a thread ends after some reports, is the
code's. `PowerJudge` looks at the shared word first, as `main.c:468` and 512 do.

### CanLink

One round of `CAN1ThreadFunc` is `SelectReady` (or `SelectFails`: the -1 is held in a `uint8_t` and taken for a
frame), `SLOTS` reads (`ReadFrame`, `ReadBad`, `ReadTimeout`), `CAN_Life_Judge` slot by slot (`JudgeSlot`), the copy to the
TMS570's block (`CopySlot`, with the conversion of analogue values in place) and `FRAMES` writes (`SendOk`, `SendFails`,
`SendGivesUp`). `SelectTimeout` is the `continue` that skips all of it. A frame is an identifier, its life value, which
stands for its data, and how often it was converted. What the socket's filter lets through is any set of identifiers, since `setsockopt` is
called before the array is filled; the socket drops what it has no room for. The same loop is `CAN0ThreadFunc`.

What it shows: a life error is reported only of a device of which no frame held has changed in the round, so one stale slot with an
old value clears an alarm (`AlarmMeansNoChange`). It takes that the device fills at most `ERRNUM` of the slots: the code has 10 for `ERRNUM` and 15 or 20
slots, so a device that sends 11 or more frames of a round may be reported though one of them moved, which the instance has too. A dead device
is reported when all its slots hold the same value, but two slots with different old values hide it for ever, which is why `DeadShows` needs `OneLife`. In a round without time-outs the TMS570 gets the newest
frames, converted once (`FullRoundNewest`), while in others a stale analogue frame is converted again and may be copied over a newer one.

### Gateway

`MVBThreadFunc` takes `BramDatalock` for writing, reads the two frames (`ReadMvb`), judges them (`JudgeMvb`), exchanges data with the
TMS570 (`ExchangeTms`), does `MVB_WR_Data_Proc` (`ToCcu`), and prepares the record in three steps. The reading of a frame is `BramRead`'s
and is one step with three outcomes: bad or empty, good, good without life. Of a frame the model keeps its first word, whose
halves the code compares; of the blocks and the record, which turn of the loop they are from. The copy direction of
`MVB_WR_Data_Proc` is as in the code: from the block for the CCU, which stays zero, into the TMS570's answer.
`FileSave` is `ECU_EventDataSave` under the lock for reading; either of its writes may fail.

`MvbErrRow` and `MvbDeadShows` state what `MVB_RD_Data_Proc` computes with `==` binding tighter than `&`: either frame standing is enough,
and only while the upper half of its first word is 0. `MvbErrRow` says that `mvb_err` is never early, `MvbErrPrompt` that it is never late, although the count it
comes from starts again every `ERRNUM` turns.

### Storage

`Saver` is `EventFileCreateByNum` between closing one file and opening the next: the date (`NewFile`), `FileSpaceProc` with at most ten deletions,
the last check of the space (`CheckLimit`), `MultiDircCreate` and `fopen` (`OpenFile`, or `OpenFails` when all its tries fail). A deletion is `FileDirJudge` and then, by its result,
`DeleteEarliestFile` or `DeleteEarliestDir`, which look at the disk again. `DeleteEarliestDir` chooses its `victim`, whose files go one by one
(`DeleteDirFile`) and then the directory (`DeleteDirEnd`), unless one cannot be removed (`DeleteDirFails`). `Archiver` is `DirFileTar`: it takes the date (`tarNow`), gives every other
directory to `tar` (`TarStart`, `TarOk`, `TarFails`), and removes what was packed file by file (`RemoveFile`, `RemoveDir`, `RemoveFails`). `readdir`
may give or miss a directory made after `opendir`. `Boot` restarts both at any statement, `Midnight` advances the date. Whether there is space is an
outcome of each check. `mkdir`, `fopen`, `tar` and the removal of a file may fail; an empty directory can always be removed.

`NothingLost` takes what a call has done as done: an archive is on the disk when `tar` has ended. The code brings nothing to the disk between `tar` and the removal of what it packed
(`DircMng.c:644-651`), so a power cut shortly after may lose the archive after its directory; that is left out.

The exceptions in the properties are what the code really allows: a day may lose records for good if its directory was
removed in part when the power failed, since the next start packs the rest over the complete archive (`torn` in `NothingLost`); an archiver that
began on another date than the saver may remove the directory in use (`OpenDirKept`); a directory that could not be made
costs the rest of the day (`noDir` in `DirExplained`). `DirExplained` speaks of the directory only: in it the event file may still be missing because `fopen` failed, which
EventFile has with its error bit. `TodayKept` speaks of directories and the event files in them; archives are not spared, since `DeleteEarliestFile` takes
any, one of the saver's own date too, if an archiver of another date has made it.

### Hybrid

`RedundancyThreadFunc` with its calls inlined. `pc` names the statement; `ECU_Diagnose(DIAGNOSE_STANDBY)` is called from three places (`site`): without a
request, before the start (at most `TRIES` times) and after each turn of the loop. A turn is `Turn` (the two filters), `ShutDown` or `FCU_Start_Stage` with its
wait, then the hybrid control while `fcu_state_flag` is taken for true, and `TurnEnd`. Readings are inputs: concentration bands per sensor, sets of levels of
the BMS, a level of the FCU, what the DC/DC's status says. A local variable that the code reads
without having set it may have any value.

`Hybrid_Power_ctrl` is modelled as it stands. With a fault of level 2 (`level2_err`) it does nothing. Without one it passes `memcpy` the value of
a byte of its buffer, which is 0, where the address was meant (`ecu.c:700-703`): it writes to address 0. Under Linux that ends the process (`pc = "ended"`); where address 0 is mapped, the
call returns with the measures of the BMS, the DC/DC and the FCU at zero. Both outcomes are in the model. With those zeroes the limits of the power (712-750) are never taken, and nothing that
the function computes is read by the rest of the model, so it is left out, and no property is about it.

What the run and the proofs establish of this code as it stands, some of it surely not meant: `FCU_Start_Stage`'s CODE_OK (0) ends the turn, so the
power is controlled only after a start that was refused (`ControlUnstarted`), although the text it logs on leaving (`main.c:1657`), of quitting the hybrid mode and shutting down the
fuel cell, shows that the loop was meant for a start that succeeded; the level 3 of an FCU fault is never taken from the frame (`FcuFaultNeverShown`);
the last hydrogen sensor that counts hides those before it (`LeakFound` says exactly when); a level 2 of the BMS without level 1 is
dropped (`Level2NeedsLevel1`); the MVB's verdict does not end the hybrid
mode (`CommChanges` with "mvb" has no effect), a CAN channel's does (`DeadChannelEnds`). What does hold as one would wish: `ShutDownFiltered`, `ShutDownFinal`,
`NoStaleEntry`.

## 3. What is checked

| run | instance | properties | result |
|---|---|---|---|
| write_sole | one writer, limit 5, counter of 256 values | ErrorEarned, NoSilentRefusal, AttemptsBounded, CallReturns | hold |
| write_two | two writers in different flag bytes, limit 2, counter of 4 values | FrameStable, FlagClearedByFpga | hold |
| read_sole | one reader, two frames, short and corrupt contents, limit 5, counter of 256 values | ErrorEarned, AttemptsBounded, CallReturns | hold |
| read_two | two readers, one of which zeroes its buffer for every call, limit 2, counter of 3 values | OkMeansIntact, ImplementsReadLink | hold |
| event_power | supply watched, `fopen` may fail, 5 records per file, sync every 2, filter 2 | SyncBound, PowerSyncCovers, SaverDiesWarned, PowerErrDebounced, PowerErrFollows | hold |
| err_word | main and LED in one byte, Blvds in another | WordHonest, PowerHeals | hold |
| blvds_data | four frames (one without data, one with CRC word 0), an empty and a corrupt content, `BRAMERR_NUM` 2, counter of 4 values | WholeRecord, RdErrTells, ImplementsSharedRecord | hold |
| blvds_standstill | the same contents, `BRAMERR_NUM` 5, counter of 256 values | StandstillShows | violated |
| can_link | one device with a life signal, one with analogue values, 3 slots, 2 frames to send, error limits 2, 2 life values, a queue of 1 | AlarmMeansNoChange, FullRoundNewest, DeadShows | hold |
| gateway | `BRAMERR_NUM` 1, error limit 2, 2 values of a half word, turns modulo 2 | MvbErrRow, RecordWhole, MvbLatchRow, ImplementsSharedRecord, MvbDeadShows | hold |
| storage | three days, two files a day, one deletion at a time, one restart | NothingLost, DirExplained, AllArchived, OpenDirKept, TodayKept | hold |
| hybrid | two sensors, level 1 after 2 diagnoses, 3 tries, filters of 3 | ShutDownFiltered, ShutDownFinal, NoStaleEntry, ControlUnstarted, LeakFound, DeadChannelEnds | hold |

No run checks a type invariant: section 4 proves them all. Other definitions that no run checks are lemmas of the proofs (`CountsThisCall`); what is proved
without a run of its own (`ReadFlagHeld`, `ErrBitsTellMissing`, `PowerErrPrompt`, `StandstillHidden`, `LatchFresh`, `MvbErrPrompt`,
`FcuFaultNeverShown`, `Level2NeedsLevel1`, `ShutDownBrief`); a plain consequence of a lemma (`CounterStartsClean`); and the three of the next paragraph but
one. TLC finds those of the first three kinds true on the instances above, and every inductive invariant of section 4
was checked on them before it was proved.

The violated run is a disagreement between the code and a comment in it; `findings` in `PROJECT.json` quotes the line. `BlvdsStandstillHidden` in section 4
says the same for all frames, limits and counter widths.

Three definitions state what the code does not give, and are properties of no run. `OkMeansTaken` (BramWrite): CODE_OK is also returned when a wait
or a poll timed out and the FPGA took nothing, since the verdict is the CRC error counter's alone (`BramDataInter.c:715`; its header, line 701,
promises 0 for success). `StaysAlive` (EventFile): a file that could not be created is skipped when saving but handed to `fileno` by the sync (`main.c:994`), and
`PowDownFun` tests the stream and then uses it while the saver closes it (`main.c:476`, 979). `LedOffHonest` (ErrWord): overlapping assignments to one byte
of the error word leave the LED off with an error standing (`main.c:1157`). TLC finds each violated on the instances of the passing runs, with
`OpenFails` or `PowDebug` on, and with RealWave as a thread of ErrWord. `ErrWordLed` shows that the shared byte is the only reason for the last: with a unit for each
thread `LedOffHonest` holds.

`AttemptsBounded` says for reading that a call reads at most 5 times. For writing it says so only of calls in which
no wait or poll gave up: a time-out in the retry loop changes no counter, so after one refusal such a call may write any
number of times, more than the "total number 5 write" of `BramDataInter.h:42`.

`NoSilentRefusal` and `AttemptsBounded` are checked and proved for the one thread per link
of the default build only: with a second one, whose good frames clear the shared counter, they do not hold.
`FlagClearedByFpga` needs flags in different bytes, since a flag is set by a store of its whole byte.
The theorems state these conditions (`SoleWriter`, `SoleReader`, `OwnByteFlags`). `StaysAlive` is a property of no passing run;
what holds with failing `fopen`s is `SaverDiesWarned`, and without them the theorem `EventStaysAlive`.

**Bounds.** The single-actor runs use the code's own limits (5 attempts, a `uint8_t`). In the two-actor runs
the limit is 2 and the counter has 3 or 4 values, the least with which a loop is entered, repeated and left at the
limit and the counter wraps; everything the two actors can do to each other happens at any limit. History
counters stop at one more than the limit they are compared with. `RecToTalNum`, `FILE_SYNC_NUM` and
`POWDOW_FILT` (60000, 600 and 10 in the code) are 5, 2 and 2: a file is synced at more than one point,
replaced at a point that is not one of them, and a streak of readings can be interrupted on either side of
the limit. The counters and record numbers of `EventFile` are bounded by the code itself.
In blvds_data, 2 and 4 for `BRAMERR_NUM` and `U8` let the latch be set, the counter wrap while it is set, and a life signal come
back at every counter value. In read_two the two readers differ, for only one zeroes its buffer. Its `VIEW` (`MCView`) leaves the history variables out of what makes two
states different: no guard reads them, and neither of the run's properties does.

In can_link three slots let a stale frame lie before, between or behind new ones, and a round be full; a limit of 2 is reached, missed by one and begun again, and is
less than the number of slots, as in the code. The queue holds one frame, and another may come after every read. In gateway two turns tell a record of this turn from one of another, and `BRAMERR_NUM` 1 distinguishes losses in a row from losses added up. In storage
three days are a past, a present and a next day for either thread, whatever date the other took, and one restart can follow any statement; `TRIES` bounds the
code's own loop of ten. In hybrid two sensors are a hidden and a hiding one, and filters of 3 can be interrupted after one and after two reports. These
runs have no constraint on the states: counters are the code's own or history capped at the limit they are compared with. `BOOTS` and `DAYS` bound `Boot` and `Midnight`.

**Fairness.** `Write(t)`, `Read(t)`, `Saver` and `Main` are weakly fair: the threads are ordinary Linux threads
that the scheduler runs again and again, and no modelled statement blocks on another thread. In `BramWrite` the
FPGA serves a flag that stays set (weak fairness of `Fpga(t)`), and `CallReturns` also assumes that from some
point on the polls no longer time out: without that assumption the retry loop really need not end, since a
time-out is not counted. In `BramRead` the FPGA is not fair at all, and calls still return. Nothing is
assumed of the supply, of `fopen` or of the clients. `ErrWord` assumes that a thread that began an assignment
completes it and that main keeps polling. `CanLink`: the thread goes on when a frame is there and its select and read return (weak fairness of `Thread`,
without `SelectTimeout` and `SelectFails`); nothing is assumed of the bus, and `DeadShows` is about executions in which frames do keep coming.
`Gateway`: the saver leaves the lock it holds (weak), and the MVB thread gets the lock at last although the saver comes back to it again and again (strong): of the
lock's policy this is the one thing assumed, and only `MvbDeadShows` uses it. `Hybrid`: the thread sleeps for bounded times and waits for no other thread (weak); its wait for
the request of the FCU is an action that may leave everything as it is, so it may last for ever.

`BlvdsData` claims no liveness: its thread takes the lock again right after releasing it, and whether a waiting reader gets
in depends on the library's lock, not on this code.

Deadlock checking is off in the `EventFile` run because the process may end (`alive = FALSE`); it is on in all
others.

## 4. What is proved

All proofs are checked by TLAPS with its SMT, Zenon and LS4 back ends and hold for every value of the
constants that satisfies the named assumption of each module.

- `BramWriteProofs`: `WriteTypeOK`. `SoleWriterCounts`: with at most one writer (`SoleWriter`), `CountsThisCall` is
  inductive together with the types; it says that the counter is the number of this call's refusals
  not yet forgiven by an acceptance, statement by statement. `ErrorEarned` and `NoSilentRefusal` alone are not
  inductive (nothing in them says what a counter value means at the moment it is tested) and follow from it.
  `OwnByteFlags`: with any number of writers, if no two share a flag byte, only the FPGA takes a flag back.
  `WriteFrameStable` needs no such condition: between the wait and the store of its own flag a thread's flag stays clear, since a store
  for another channel can clear it but not set it.
  `SoleWriterAttempts` adds to the count that, while nothing has timed out, the attempts are the refusals counted and the
  attempt being made (`TriesCount`).
- `BramReadProofs`: `ReadTypeOK`; `ReadOkMeansIntact` for any number of readers: the strengthening says that an
  `errCode` of "ok" past the CRC check stands for an intact `outbuf`, which no other thread can write, so the shared counter
  can change how often a call reads but not what it calls good; `SoleReaderCounts`,
  `SoleReaderErrorEarned`, `SoleReaderAttempts` as for writing. `ReadImplementsLink`: every step of any number of readers and of the
  FPGA is a step of `ReadLink` or a stutter; that a returned CODE_OK is a frame comes from the same strengthening. It needs
  nothing of `Zeroes`: what a buffer holds at the call is never checked before it is overwritten (`Taken`).
  `OwnByteReadFlags`: if no two readers share a feedback byte, `ReadFlagHeld` is inductive by itself.
- `EventFileProofs`: `EventTypeOK` needs `TryInv`, which bounds the attempt counter the two retry loops share.
  `EventPowerErrDebounced` rests on `FilterInv` (a counter never exceeds the run of equal readings).
  `EventPowerSyncCovers` rests on `CoverInv`: a stream that is not open has nothing unsynced, and a
  descriptor number that is dead belonged to a file synced before it was closed. `EventStaysAlive` assumes
  `~PowDebug /\ ~OpenFails` and rests on `AloneInv`, which says for each statement of the saver which streams are open.
  `EventSyncBound` rests on `SyncInv`: `SyncBound` alone is not inductive, for nothing in it says how far the number of saved records is from the
  next sync. `SyncInv` counts the unsynced writes against that number modulo `FILE_SYNC_NUM` (lemma `SinceRange`), statement by statement, and says that
  a file under replacement has none. `EventSaverDiesWarned` and `EventErrBitsTellMissing` both follow from `TellInv`: a
  file that is not being replaced is open, or null with its error bit set. `EventPowerErrPrompt` rests on `PromptInv`, which ties each filter counter to the run of
  readings as long as the verdict is out.
- `BlvdsDataProofs`: `BlvdsTypeOK`; `BlvdsRdErrTells` from `LatchInv`, which ties the two latches and the counter that wraps to the
  history of results (once the latch is set the counter no longer matters); `BlvdsWholeRecord` from `RecInv`: the lock is held
  for writing or for reading, never both, both halves are of one frame whenever nobody holds it for writing, and a half that is already
  written is that frame's. The arguments use `ReadLink` only, not how it is implemented.
  `BlvdsImplementsSharedRecord`: every step is a step of `SharedRecord` or a stutter, by the same invariant with one clause more (while the saver is inside, what it
  has written is the first half or nothing). `BlvdsStandstillHidden`: a count of life signals that stood still begins only with a CRC word of 0.
- `EventFileProofs` also holds the proofs about ErrWord, since the two model the threads of one error word. `ErrWordTypeOK`; `ErrWordHonest` for any threads and
  any packing, from `HonestInv`: fields whose last store was not overlapped are the same in the word and in every register about to be stored. With the threads'
  fields in units of their own (`Separate`) no store is ever overlapped; then the word is what its owners last assigned (`ErrWordSeparate`) and the LED goes
  out only without an error (`ErrWordLed`).
- `CanLinkProofs`, for any identifiers, numbers of slots and frames, limits and life values. `CanTypeOK` from `CanInv`, which bounds each pass over the frames.
  `CanAlarm`: `AlarmMeansNoChange` speaks of the end of the judgement only, and `AlarmInv` follows it slot by slot with three cases for each device: all its frames so
  far carry the value the judgement began with; or one moved, which cleared the verdict, and the count has started again since and is below
  the number of its frames; or there are more than `ERRNUM` of them. `CanFullRoundNewest` rests on `NewestInv`: the last slot read with an identifier holds its newest
  frame (`LastNewest`), through the judgement and the part of the copy still to come, and what no later slot holds is copied for good (`Copied`).
- `GatewayProofs`: `GatewayTypeOK` (lemmas `LifeStep`, `LatchSteps`: one judgement of a life signal). `GatewayRecordWhole` rests on `RecInv`: the two program counters
  agree with the lock, and outside the section that prepares the record its halves are of one turn and in the file's order. `RecordWhole`
  speaks of what the saver wrote; what the halves are before it takes the lock has to be known. `GatewayMvbErrRow` rests on `VerdictInv`: the
  counter may lag behind the turns without life, since it is set back with the verdict, but never leads them. `GatewayLatchFresh` and
  `GatewayMvbLatchRow` (`RowInv`) speak of the latches; the second is a statement about the MVB's frames only, since the TMS570's count is never
  cleared by a good life signal and may well lead the losses in a row. `GatewayMvbErrPrompt` is the converse of `GatewayMvbErrRow`, from `PromptInv`: until the verdict is given the count
  is the number of turns in a row itself. `GatewayImplementsSharedRecord`: the refinement of `SharedRecord`, by `RecInv`.
- `HybridProofs`: `HybridTypeOK`; `HybridShutDownFiltered` from `FilterInv` (the count is below `FILTER` everywhere but at the shut-down, and never above
  the reports in a row); `HybridNoStaleEntry` from `EntryInv` (the flag that keeps the EV mode going is set only with a diagnosis that passed);
  `HybridShutDownFinal` from `DownInv` (the level 3 of the BMS stands after a shut-down, and with it no statement is reached that clears it);
  `HybridControlUnstarted` from `StartInv` (the start signal is on only between the start and the diagnosis that ends its turn). Three facts that come from slips of the code are proved too:
  `HybridFcuFaultNeverShown` (`FcuInv`), `HybridLevel2NeedsLevel1`, and `HybridLeakFound`, which takes the last sensor that counts
  among any number of them (lemma `LargestSensor`, by the well-founded order of the numbers). `HybridShutDownBrief`: `ShutDownBrief` is inductive by itself.
- `StorageProofs`, for any number of days, files, deletions and restarts. `StorageTypeOK` is inductive with `DateInv` (no directory is of a day to come) and `CurInv` (the
  archiver's directory is one that `readdir` gave, and not of its own date). `StorageOpenDirKept` needs `OpenInv`: the saver deletes only with its
  file closed. `StorageAllArchived` rests on `ArchiveInv`: what the saver deletes under the archiver is of before its date and
  never comes back. `StorageDirExplained` rests on `MissingInv`, which follows the one time in a day that the directory is made.
  `StorageNothingLost` rests on `KeptInv`: a directory holds all that was written of its day unless it is being removed (`WholeInv`), a day without a
  directory is over for the saver (`GoneInv`), and a directory is removed only when its archive is complete (`PackInv`); the proof has one lemma per
  kind of step (`KeptByDeletion` to `KeptByRemoval`). `StorageTodayKept` rests on `DateInv`, which holds the
  directory under deletion to a day gone by (lemma `VictimIsPast`), whatever archiver, midnight or restart do before its removal ends.

None of these theorems has a hypothesis beyond the module's named assumption on its constants, but for those named `Sole...` and `OwnByte...`,
`EventStaysAlive`, `ErrWordSeparate` and `ErrWordLed`, which state theirs. `Separate` is not true of the default build, whose `LEDPthreadFunc` shares a byte with main: the two theorems
say what the packing costs, and what fields apart would give.

Model-checked only: the liveness properties (`CallReturns`, `PowerErrFollows`, `PowerHeals`, `DeadShows`, `MvbDeadShows`, `DeadChannelEnds`), since liveness under
fairness is out of the prover's reach. Every other property of a passing run is stated by a theorem.

## 5. What is not modelled

Not modelled, and why:

- `RealWaveThreadFunc` and `Socket.c`: its lock section is in BlvdsData and its failure report in ErrWord; its accept, select and send loop keeps no
  state another part reads. It reads single values of the MVB data under the wrong lock (`main.c:637`) and keeps none of them.
- The other channels of the TMS570 (9 to 13): the same reading function with other offsets; the error bits it takes from one past the end of the latches are undefined.
- Of `ecu.c`: what `Hybrid_Power_ctrl` computes (limits, set power and state of charge, from measures that are never filled, see Hybrid), the fault bits for the display.
- `Udp_Intool_ThreadFunc`: sends a frame after every receive, under `RealDatalock` (read); no state but a life counter that it sends.

Out of scope: libmodbus and libmxml, XML and configuration parsing, the text of log entries, register-level
GPIO, PHY and I2C access, `mmap`, the arithmetic of CRC and BCD conversion. They keep no state that
other parts depend on beyond the inputs already modelled (a CRC matches or does not, a GPIO reads 0, 1 or fails).
