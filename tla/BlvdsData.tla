----------------------------- MODULE BlvdsData ------------------------------
(***************************************************************************)
(* The data of the MAX10 board on their way from the block RAM to the      *)
(* event file: BlvdsThreadFunc reads a frame, keeps its data and the error *)
(* latches, and prepares the record; FileSaveThreaFunc writes the record.  *)
(* RealDatalock, a read-write lock, is all that keeps them apart.          *)
(*                                                                         *)
(* The reading of a frame is that of ReadLink, which BramRead implements.  *)
(* The frame's CRC word is also its life signal: the board is alive when   *)
(* the word changes.                                                       *)
(***************************************************************************)
EXTENDS ReadLink, Naturals

CONSTANTS
  Bare,        \* frames of 12 bytes: a header, no data; the others carry all of them
  ZeroCrc,     \* frames whose CRC word is 0
  BRAMERR_NUM, \* BramDataProc.h:36
  U8           \* values of a uint8_t: 256 in the code, fewer for TLC

ASSUME BlvdsDataAssumption ==
  /\ Thread = {"blvds"}
  /\ Bare \subseteq Frame /\ ZeroCrc \subseteq Frame
  /\ BRAMERR_NUM \in Nat
  /\ U8 \in Nat /\ U8 > BRAMERR_NUM + 1

VARIABLES
  writer, readers,   \* RealDatalock: held for writing; the threads that hold it
                     \*               for reading
  bpc,         \* BlvdsThreadFunc: next statement
  buffer,      \* Bram_Blvds_Read_Data: the frame its data are from
  errflag,     \* CRC errors since the last good frame
  lifeErrNum, lifeErrFlag,   \* life errors in a row, and whether too many
  bram_blvds_rd_err,
  digital, analog,   \* s_save_to_intool: the frames its two halves are from
  spc,         \* FileSaveThreaFunc's call of MAX10_EventDataSave: next statement
  record,      \* history: the halves of the record written last, or "lost"
  told,        \* history: the last result that was not CODE_WARN
  zeros,       \* history: good frames in a row whose CRC word is 0, up to BRAMERR_NUM + 1
  last,        \* history: the last good frame
  same         \* history: good frames in a row that were the frame before, up to
               \*          BRAMERR_NUM + 1

lock == <<writer, readers>>
latches == <<errflag, lifeErrNum, lifeErrFlag, bram_blvds_rd_err, told, zeros, last, same>>
data == <<buffer, digital, analog>>
saver == <<spc, record>>
vars == <<linkVars, lock, bpc, latches, data, saver>>

AtMost(n, bound) == IF n > bound THEN bound ELSE n

Init ==
  /\ LinkInit
  /\ writer = FALSE /\ readers = {}
  /\ bpc = "lock" /\ spc = "lock"
  /\ buffer = Blank /\ digital = Blank /\ analog = Blank
  /\ errflag = FALSE
  /\ lifeErrNum = 0 /\ lifeErrFlag = FALSE
  /\ bram_blvds_rd_err = FALSE
  /\ record = <<"lost", "lost">>
  /\ told = "ok" /\ zeros = 0 /\ last = Blank /\ same = 0
-----------------------------------------------------------------------------
(* BlvdsThreadFunc.                                                        *)

\* pthread_rwlock_wrlock.
WrLock ==
  /\ bpc = "lock"
  /\ ~writer /\ readers = {}
  /\ writer' = TRUE /\ bpc' = "call"
  /\ UNCHANGED <<linkVars, readers, latches, data, saver>>

\* BLVDSDataReadFunc calls BoardDataRead with a zeroed local buffer.
CallRead ==
  /\ bpc = "call"
  /\ Call("blvds")
  /\ bpc' = "read"
  /\ UNCHANGED <<lock, latches, data, saver>>

ReadReturns ==
  /\ bpc = "read"
  /\ \E r \in {"ok", "warn", "err"} : Return("blvds", r)
  /\ bpc' = "judge"
  /\ UNCHANGED <<lock, latches, data, saver>>

\* The result is CODE_ERR: the data stay, the latch is set.
JudgeError ==
  /\ bpc = "judge"
  /\ result["blvds"] = "err"
  /\ errflag' = TRUE
  /\ bram_blvds_rd_err' = TRUE
  /\ told' = "err"
  /\ bpc' = "digital"
  /\ UNCHANGED <<linkVars, lock, lifeErrNum, lifeErrFlag, zeros, last, same, data, saver>>

\* CODE_WARN, an empty channel: neither branch takes it.
JudgeWarn ==
  /\ bpc = "judge"
  /\ result["blvds"] = "warn"
  /\ bram_blvds_rd_err' = (errflag \/ lifeErrFlag)
  /\ bpc' = "digital"
  /\ UNCHANGED <<linkVars, lock, errflag, lifeErrNum, lifeErrFlag, told, zeros, last, same,
                 data, saver>>

\* ExtraBoardData copies the data, if there are any.
TakeData(f) == IF f \in Bare THEN buffer ELSE f

\* ExtraBoardData compares the life signal with s_BramLife_U32, an array of its
\* own that is 0 in every call.
LifeStands(f) == f \in ZeroCrc

\* Mutant of JudgeLife: a life signal that changes does not clear the latch.
JudgeLifeSticky(f) ==
  LET n == (lifeErrNum + 1) % U8
      tooMany == n > BRAMERR_NUM /\ ~lifeErrFlag
  IN IF LifeStands(f)
       THEN lifeErrNum' = (IF tooMany THEN 0 ELSE n) /\ lifeErrFlag' = (lifeErrFlag \/ tooMany)
       ELSE lifeErrNum' = 0 /\ UNCHANGED lifeErrFlag

\* More than BRAMERR_NUM life errors set the latch, a life signal clears it.
JudgeLife(f) ==
  LET n == (lifeErrNum + 1) % U8
      tooMany == n > BRAMERR_NUM /\ ~lifeErrFlag
  IN IF LifeStands(f)
       THEN lifeErrNum' = (IF tooMany THEN 0 ELSE n) /\ lifeErrFlag' = (lifeErrFlag \/ tooMany)
       ELSE lifeErrNum' = 0 /\ lifeErrFlag' = FALSE

\* CODE_OK: the latch is cleared, ExtraBoardData takes the data and judges the
\* life signal.
JudgeGood ==
  /\ bpc = "judge"
  /\ result["blvds"] = "ok"
  /\ LET f == got["blvds"]
     IN /\ buffer' = TakeData(f)
        /\ JudgeLife(f)
        /\ zeros' = IF f \in ZeroCrc THEN AtMost(zeros + 1, BRAMERR_NUM + 1) ELSE 0
        /\ last' = f
        /\ same' = IF f = last THEN AtMost(same + 1, BRAMERR_NUM + 1) ELSE 0
  /\ errflag' = FALSE
  /\ bram_blvds_rd_err' = lifeErrFlag'
  /\ told' = "ok"
  /\ bpc' = "digital"
  /\ UNCHANGED <<linkVars, lock, digital, analog, saver>>

\* MAX10_RD_DataProc: the digital values first, then the analog ones.
ProcDigital ==
  /\ bpc = "digital"
  /\ digital' = buffer
  /\ bpc' = "analog"
  /\ UNCHANGED <<linkVars, lock, latches, buffer, analog, saver>>

ProcAnalog ==
  /\ bpc = "analog"
  /\ analog' = buffer
  /\ bpc' = "send"
  /\ UNCHANGED <<linkVars, lock, latches, buffer, digital, saver>>

\* MAX10_WR_DataProc and BLVDSDataWriteFunc send a frame of constant data; the
\* result changes nothing, so here the call is one step (BramWrite has it).
\* Then pthread_rwlock_unlock, and the loop starts again at once.
SendAndUnlock ==
  /\ bpc = "send"
  /\ writer' = FALSE /\ bpc' = "lock"
  /\ UNCHANGED <<linkVars, readers, latches, data, saver>>

BlvdsThreadFunc ==
  \/ WrLock \/ CallRead \/ ReadReturns \/ JudgeError \/ JudgeWarn \/ JudgeGood
  \/ bpc = "read" /\ Sample("blvds") /\ UNCHANGED <<lock, bpc, latches, data, saver>>
  \/ ProcDigital \/ ProcAnalog \/ SendAndUnlock
-----------------------------------------------------------------------------
(* The threads that hold RealDatalock for reading.                         *)

\* Mutant of RdLock: the lock is not waited for.
RdLockNoWait(t) == readers' = readers \cup {t} /\ UNCHANGED writer

\* pthread_rwlock_rdlock and pthread_rwlock_unlock.
RdLock(t) == ~writer /\ readers' = readers \cup {t} /\ UNCHANGED writer
RdUnlock(t) == readers' = readers \ {t} /\ UNCHANGED writer

\* It tries to write FILETRY_NUM times, then what it was to write is lost.
FileWriteWithTry(h) == {h, "lost"}

SaveLock ==
  /\ spc = "lock"
  /\ RdLock("saver")
  /\ spc' = "digital"
  /\ UNCHANGED <<linkVars, bpc, latches, data, record>>

\* MAX10_EventDataSave: there may be no file, and either half may be lost.
SaveDigital ==
  /\ spc = "digital"
  /\ \/ spc' = "unlock" /\ record' = <<"lost", "lost">>
     \/ /\ spc' = "analog"
        /\ \E h \in FileWriteWithTry(digital) : record' = <<h, "lost">>
  /\ UNCHANGED <<linkVars, lock, bpc, latches, data>>

SaveAnalog ==
  /\ spc = "analog"
  /\ spc' = "unlock"
  /\ \E h \in FileWriteWithTry(analog) : record' = <<record[1], h>>
  /\ UNCHANGED <<linkVars, lock, bpc, latches, data>>

SaveUnlock ==
  /\ spc = "unlock"
  /\ RdUnlock("saver")
  /\ spc' = "lock"
  /\ UNCHANGED <<linkVars, bpc, latches, data, record>>

\* RealWaveThreadFunc holds the lock as well, for data that are not modelled.
RealWave ==
  /\ IF "realwave" \in readers THEN RdUnlock("realwave") ELSE RdLock("realwave")
  /\ UNCHANGED <<linkVars, bpc, latches, data, saver>>

FileSave == SaveLock \/ SaveDigital \/ SaveAnalog \/ SaveUnlock
-----------------------------------------------------------------------------
\* The FPGA refreshes the channel at any time.
Fpga == Publish("blvds") /\ UNCHANGED <<lock, bpc, latches, data, saver>>

Next == BlvdsThreadFunc \/ FileSave \/ RealWave \/ Fpga

Spec == Init /\ [][Next]_vars
-----------------------------------------------------------------------------
TypeOK ==
  /\ busy \in [Thread -> BOOLEAN]
  /\ chan \in [Thread -> Content] /\ got \in [Thread -> Content]
  /\ result \in [Thread -> {"none", "ok", "warn", "err"}]
  /\ writer \in BOOLEAN /\ readers \subseteq {"saver", "realwave"}
  /\ bpc \in {"lock", "call", "read", "judge", "digital", "analog", "send"}
  /\ spc \in {"lock", "digital", "analog", "unlock"}
  /\ last \in Content /\ buffer \in Content /\ digital \in Content /\ analog \in Content
  /\ errflag \in BOOLEAN /\ lifeErrFlag \in BOOLEAN /\ bram_blvds_rd_err \in BOOLEAN
  /\ lifeErrNum \in 0..(U8 - 1)
  /\ record \in (Content \cup {"lost"}) \X (Content \cup {"lost"})
  /\ told \in {"ok", "err"}
  /\ zeros \in 0..(BRAMERR_NUM + 1) /\ same \in 0..(BRAMERR_NUM + 1)

\* A record in the event file is of one frame: its digital and its analog half
\* are from the same one, unless a half could not be written, although the
\* thread that prepares records goes on while they are saved.
WholeRecord == record[1] = record[2] \/ "lost" \in {record[1], record[2]}

\* The record as the saver is promised it: published when its analog half is filled.
Shared == INSTANCE SharedRecord WITH
  Record <- Content,
  Missing <- "lost",
  current <- analog,
  saving <- spc # "lock",
  halves <- IF spc \in {"analog", "unlock"} THEN record ELSE <<"lost", "lost">>

\* BlvdsThreadFunc and FileSaveThreaFunc implement SharedRecord: a record is published
\* only while none is saved, and a call of MAX10_EventDataSave (FileSave.c:775) writes
\* the one published last and no other.
ImplementsSharedRecord == Shared!SharedSpec

\* What the error bit says when BLVDSDataReadFunc is done: the last frame that
\* was not empty was corrupt, or too many had no life signal.  A latch that
\* stuck, or that the uint8_t counter set or cleared by wrapping, would break it.
RdErrTells == bram_blvds_rd_err <=> (told = "err" \/ zeros > BRAMERR_NUM)

\* When more than BRAMERR_NUM good frames in a row have the CRC word of the one
\* before, the error bit shows it ("use crc as life_signal", BramDataInter.c:96).
StandstillShows == same > BRAMERR_NUM => bram_blvds_rd_err

\* The opposite of the last: of a good frame whose CRC word is not 0 the error bit never
\* says anything, however often it comes again, since the word is compared with one that
\* is 0 in every call (ExtraBoardData, BramDataProc.c:483).
StandstillHidden == told = "ok" /\ last \notin ZeroCrc => ~bram_blvds_rd_err
=============================================================================
