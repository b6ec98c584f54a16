----------------------------- MODULE EventFile -----------------------------
(***************************************************************************)
(* The two event files of FileSave.c and the two threads that handle them: *)
(* FileSaveThreaFunc writes, syncs and replaces the files, and PowDownFun, *)
(* called by main's loop, puts them on the eMMC when the supply fails.     *)
(* g_FileFd_ST and s_LogFile_fd, which both threads use, have no lock.     *)
(*                                                                         *)
(* A stream variable is "null", "open", or "closed": fclose has returned   *)
(* and the variable still holds the old pointer.  fileno(NULL) ends the    *)
(* process; what a call does with a closed stream is undefined, and it is  *)
(* modelled by the two outcomes that matter, the end of the process and no *)
(* effect.  Contents are counted: unsynced[f] is the number of writes      *)
(* (header or records) that a power cut would lose.                        *)
(*                                                                         *)
(* power_err and the filesave bits are kept as separate variables here;    *)
(* what sharing one word does to them is the subject of ErrWord.           *)
(***************************************************************************)
EXTENDS Naturals

CONSTANTS
  PowDebug,       \* g_PowDebug = 1: main watches the supply
  OpenFails,      \* fopen may fail
  RecToTalNum,    \* records per file, from the configuration
  FILE_SYNC_NUM,  \* FileSave.h:47
  FILETRY_NUM,    \* BaseDefine.h:106
  POWDOW_FILT     \* BaseDefine.h:105

ASSUME EventFileAssumption ==
  /\ PowDebug \in BOOLEAN /\ OpenFails \in BOOLEAN
  /\ RecToTalNum \in Nat \ {0} /\ FILE_SYNC_NUM \in Nat \ {0}
  /\ FILETRY_NUM \in Nat \ {0} /\ POWDOW_FILT \in Nat

VARIABLES
  alive,       \* the process has not been ended by a bad stream
  fd,          \* fd[s]: EventFile_fd, EventBLVDS_fd and s_LogFile_fd
  unsynced,    \* unsynced[f]: writes to f that are not on the eMMC yet
  saveErr,     \* saveErr[f]: filesave_EVENT_err, filesave_BLVDS_err
  spc, sat,    \* FileSaveThreaFunc: next statement, and the file it is about
  saveNum,     \* s_EventFileSaveNum_U32
  tryNum,      \* TryNum of EventFileCreateByNum
  mpc, mat,    \* PowDownFun: next statement, and the file it is about
  liveNum,     \* the descriptor number main holds is still that of its file
  powDownNum, clearPowNum,   \* s_PowDownNum, s_ClearPowNum
  power_err,
  owed,        \* history: f had unsynced writes when the outage was detected,
               \*          and has not been synced since
  streak       \* history: readings in a row, the last included, that say the
               \*          supply is down (lo) or not (hi), up to POWDOW_FILT + 1

File == {"event", "blvds"}
Stream == File \cup {"log"}

main == <<mpc, mat, liveNum, powDownNum, clearPowNum, power_err, owed, streak>>
saver == <<spc, sat, saveNum, tryNum, saveErr>>
vars == <<alive, fd, unsynced, main, saver>>

SaverLabel == {"top", "persync", "rotsync", "rotclose", "rotnull", "day", "logclose",
               "lognull", "logopen", "fopen", "judge", "again", "header", "save", "done"}
MainLabel == {"boot", "off", "read", "log", "check", "flush", "fsync", "finish", "recover"}

AtMost(n, bound) == IF n > bound THEN bound ELSE n

Init ==
  /\ alive = TRUE
  /\ fd \in [Stream -> {"null", "open"}]
  /\ fd["event"] = "null" /\ fd["blvds"] = "null" /\ (fd["log"] = "null" => OpenFails)
  /\ unsynced = [f \in File |-> 0]
  /\ saveErr = [f \in File |-> FALSE]
  /\ spc = "fopen" /\ sat = "event"
  /\ saveNum = 0
  /\ tryNum = 0
  /\ mpc = "boot" /\ mat = "event"
  /\ liveNum = FALSE
  /\ powDownNum = 0 /\ clearPowNum = 0
  /\ power_err = FALSE
  /\ owed = [f \in File |-> FALSE]
  /\ streak = [lo |-> 0, hi |-> 0]

\* fsync by either thread: everything written to f so far is on the eMMC.
Synced(f) ==
  /\ unsynced' = [unsynced EXCEPT ![f] = 0]
  /\ owed' = [owed EXCEPT ![f] = FALSE]

\* The statement after the one about file sat: the same for the second file,
\* then label next.
SaverNext(label, next) ==
  IF sat = "event" THEN spc' = label /\ sat' = "blvds" ELSE spc' = next /\ sat' = "event"
-----------------------------------------------------------------------------
(* FileSaveThreaFunc.                                                      *)

\* One turn of the loop: replace the files, sync them, or only save.
SaveTop ==
  /\ spc = "top"
  /\ spc' = IF saveNum >= RecToTalNum THEN "rotsync"
            ELSE IF saveNum % FILE_SYNC_NUM = 0 THEN "persync" ELSE "save"
  /\ UNCHANGED <<alive, fd, unsynced, main, sat, saveNum, tryNum, saveErr>>

\* Mutants of SaverSync: the second file is forgotten in the periodic sync;
\* files are closed without having been synced.
SaverSyncFirstOnly ==
  /\ spc \in {"persync", "rotsync"}
  /\ fd[sat] = "open"
  /\ Synced(sat)
  /\ IF spc = "rotsync" THEN spc' = "rotclose" /\ sat' = sat ELSE spc' = "save" /\ UNCHANGED sat
  /\ UNCHANGED <<alive, fd, saveNum, tryNum, saveErr>>
  /\ UNCHANGED <<mpc, mat, liveNum, powDownNum, clearPowNum, power_err, streak>>

SaverSyncNotRotated ==
  /\ spc \in {"persync", "rotsync"}
  /\ fd[sat] = "open"
  /\ IF spc = "rotsync" THEN spc' = "rotclose" /\ UNCHANGED <<sat, unsynced, owed>>
     ELSE Synced(sat) /\ SaverNext("persync", "save")
  /\ UNCHANGED <<alive, fd, saveNum, tryNum, saveErr>>
  /\ UNCHANGED <<mpc, mat, liveNum, powDownNum, clearPowNum, power_err, streak>>

\* fflush, fileno and fsync, in the 600 frame sync or before a replacement;
\* there is no test for NULL.
SaverSync ==
  /\ spc \in {"persync", "rotsync"}
  /\ \/ /\ fd[sat] = "open"
        /\ Synced(sat)
        /\ IF spc = "rotsync" THEN spc' = "rotclose" /\ sat' = sat
           ELSE SaverNext("persync", "save")
        /\ UNCHANGED alive
     \/ /\ fd[sat] # "open"
        /\ alive' = FALSE
        /\ UNCHANGED <<spc, sat, unsynced, owed>>
  /\ UNCHANGED <<fd, saveNum, tryNum, saveErr>>
  /\ UNCHANGED <<mpc, mat, liveNum, powDownNum, clearPowNum, power_err, streak>>

\* fclose; the number of the descriptor may be reused from now on.
RotClose ==
  /\ spc = "rotclose"
  /\ spc' = "rotnull"
  /\ fd' = [fd EXCEPT ![sat] = "closed"]
  /\ liveNum' = (liveNum /\ mat # sat)
  /\ UNCHANGED <<alive, unsynced, sat, saveNum, tryNum, saveErr>>
  /\ UNCHANGED <<mpc, mat, powDownNum, clearPowNum, power_err, owed, streak>>

\* Mutant of RotNull: no new files are created.
RotNullNoCreate ==
  /\ spc = "rotnull"
  /\ SaverNext("rotsync", "save")
  /\ fd' = [fd EXCEPT ![sat] = "null"]
  /\ UNCHANGED <<alive, unsynced, main, saveNum, saveErr, tryNum>>

\* The variable is set to NULL; after both files EventFileCreateByNum starts.
RotNull ==
  /\ spc = "rotnull"
  /\ SaverNext("rotsync", "day")
  /\ fd' = [fd EXCEPT ![sat] = "null"]
  /\ tryNum' = 0
  /\ UNCHANGED <<alive, unsynced, main, saveNum, saveErr>>

\* EventFileCreateByNum: on a new day the log file is replaced as well, by
\* LogFileCreate.
NewDay ==
  /\ spc = "day"
  /\ \E newDay \in BOOLEAN :
       spc' = IF ~newDay THEN "fopen" ELSE IF fd["log"] = "null" THEN "logopen" ELSE "logclose"
  /\ UNCHANGED <<alive, fd, unsynced, main, sat, saveNum, tryNum, saveErr>>

LogFclose ==
  /\ spc = "logclose"
  /\ spc' = "lognull"
  /\ fd' = [fd EXCEPT !["log"] = "closed"]
  /\ UNCHANGED <<alive, unsynced, main, sat, saveNum, tryNum, saveErr>>

LogNull ==
  /\ spc = "lognull"
  /\ spc' = "logopen"
  /\ fd' = [fd EXCEPT !["log"] = "null"]
  /\ UNCHANGED <<alive, unsynced, main, sat, saveNum, tryNum, saveErr>>

\* One of FILETRY_NUM fopens of the log file succeeds, or none does.
LogOpen ==
  /\ spc = "logopen"
  /\ spc' = "fopen"
  /\ \/ fd' = [fd EXCEPT !["log"] = "open"]
     \/ OpenFails /\ UNCHANGED fd
  /\ UNCHANGED <<alive, unsynced, main, sat, saveNum, tryNum, saveErr>>

\* fopen of file sat: only then is the variable set.
OpenFile ==
  \/ fd' = [fd EXCEPT ![sat] = "open"]
  \/ OpenFails /\ UNCHANGED fd

\* Both files are opened before either result is looked at.
FirstOpen ==
  /\ spc = "fopen"
  /\ OpenFile
  /\ SaverNext("fopen", "judge")
  /\ UNCHANGED <<alive, unsynced, main, saveNum, tryNum, saveErr>>

\* The result is looked at: a file that is open clears its error bit, one
\* that is not counts its first attempt.
Judge ==
  /\ spc = "judge"
  /\ \/ /\ fd[sat] = "open"
        /\ saveErr' = [saveErr EXCEPT ![sat] = FALSE]
        /\ SaverNext("judge", "header")
        /\ UNCHANGED tryNum
     \/ /\ fd[sat] = "null"
        /\ tryNum' = tryNum + 1
        /\ spc' = "again"
        /\ UNCHANGED <<sat, saveErr>>
  /\ UNCHANGED <<alive, fd, unsynced, main, saveNum>>

\* while (TryNum < FILETRY_NUM): fopen again.  The two files share TryNum.
OpenAgain ==
  /\ spc = "again"
  /\ tryNum < FILETRY_NUM
  /\ OpenFile
  /\ IF fd'[sat] = "open"
       THEN /\ tryNum' = 0
            /\ saveErr' = [saveErr EXCEPT ![sat] = FALSE]
            /\ SaverNext("judge", "header")
       ELSE tryNum' = tryNum + 1 /\ UNCHANGED <<spc, sat, saveErr>>
  /\ UNCHANGED <<alive, unsynced, main, saveNum>>

GiveUp ==
  /\ spc = "again"
  /\ tryNum >= FILETRY_NUM
  /\ saveErr' = [saveErr EXCEPT ![sat] = TRUE]
  /\ SaverNext("judge", "header")
  /\ UNCHANGED <<alive, fd, unsynced, main, saveNum, tryNum>>

\* EventFileTopSave of the files that are open (a write that fails three
\* times leaves nothing).  main makes the first creation and then enters its
\* loop; FileSaveThreaFunc goes on to save.
WriteHeader ==
  /\ spc = "header"
  /\ \E written \in SUBSET {f \in File : fd[f] = "open"} :
       unsynced' = [f \in File |-> IF f \in written THEN unsynced[f] + 1 ELSE unsynced[f]]
  /\ saveNum' = 0
  /\ IF mpc = "boot" THEN spc' = "top" /\ mpc' = (IF PowDebug THEN "read" ELSE "off")
     ELSE spc' = "save" /\ UNCHANGED mpc
  /\ UNCHANGED <<alive, fd, sat, tryNum, saveErr>>
  /\ UNCHANGED <<mat, liveNum, powDownNum, clearPowNum, power_err, owed, streak>>

\* ECU_EventDataSave, then MAX10_EventDataSave: a missing file is reported and
\* skipped, and a record may fail to be written.
SaveRecord ==
  /\ spc = "save"
  /\ \/ fd[sat] = "open" /\ unsynced' = [unsynced EXCEPT ![sat] = @ + 1]
     \/ UNCHANGED unsynced
  /\ SaverNext("save", "done")
  /\ UNCHANGED <<alive, fd, main, saveNum, tryNum, saveErr>>

\* s_EventFileSaveNum_U32++
CountRecord ==
  /\ spc = "done"
  /\ spc' = "top"
  /\ saveNum' = saveNum + 1
  /\ UNCHANGED <<alive, fd, unsynced, main, sat, tryNum, saveErr>>

Saver ==
  /\ alive
  /\ \/ SaveTop \/ SaverSync \/ RotClose \/ RotNull \/ NewDay \/ LogFclose \/ LogNull
     \/ LogOpen \/ FirstOpen \/ Judge \/ OpenAgain \/ GiveUp \/ WriteHeader
     \/ SaveRecord \/ CountRecord
-----------------------------------------------------------------------------
(* PowDownFun, called in every turn of main's loop.                        *)

\* Mutants of PowDownRead: a reading of the other level does not clear the
\* counter of failing ones; the counter is cleared before it can pass the limit.
PowDownReadNoReset(v) ==
  /\ mpc = "read"
  /\ LET down == v = 0
         over == (IF down THEN powDownNum ELSE clearPowNum) + 1 > POWDOW_FILT
     IN /\ powDownNum' = IF ~down THEN powDownNum ELSE IF over THEN 0 ELSE powDownNum + 1
        /\ clearPowNum' = IF down \/ over THEN 0 ELSE clearPowNum + 1
        /\ power_err' = IF over THEN down ELSE power_err
        /\ mpc' = IF over /\ down /\ ~power_err THEN "log" ELSE "read"
        /\ owed' = IF mpc' = "log" THEN [f \in File |-> unsynced[f] > 0] ELSE owed
        /\ streak' = IF down THEN [lo |-> AtMost(streak.lo + 1, POWDOW_FILT + 1), hi |-> 0]
                     ELSE [lo |-> 0, hi |-> AtMost(streak.hi + 1, POWDOW_FILT + 1)]
  /\ UNCHANGED <<alive, fd, unsynced, saver, mat, liveNum>>

PowDownReadEarlyReset(v) ==
  /\ mpc = "read"
  /\ powDownNum' = IF v = 0 /\ powDownNum < POWDOW_FILT THEN powDownNum + 1 ELSE 0
  /\ streak' = IF v = 0 THEN [lo |-> AtMost(streak.lo + 1, POWDOW_FILT + 1), hi |-> 0]
               ELSE [lo |-> 0, hi |-> AtMost(streak.hi + 1, POWDOW_FILT + 1)]
  /\ UNCHANGED <<alive, fd, unsynced, saver, mpc, mat, liveNum, clearPowNum, power_err, owed>>

\* GPIO_PowDowRead: 0 and 1 are the levels of the line; a read that fails
\* leaves the initial 2, which is handled as 1.
PowDownRead(v) ==
  /\ mpc = "read"
  /\ LET down == v = 0
         over == (IF down THEN powDownNum ELSE clearPowNum) + 1 > POWDOW_FILT
     IN /\ powDownNum' = IF ~down \/ over THEN 0 ELSE powDownNum + 1
        /\ clearPowNum' = IF down \/ over THEN 0 ELSE clearPowNum + 1
        /\ power_err' = IF over THEN down ELSE power_err
        /\ mpc' = IF over /\ down /\ ~power_err THEN "log"
                  ELSE IF over /\ ~down /\ power_err THEN "recover" ELSE "read"
        /\ owed' = IF mpc' = "log" THEN [f \in File |-> unsynced[f] > 0] ELSE owed
        /\ streak' = IF down THEN [lo |-> AtMost(streak.lo + 1, POWDOW_FILT + 1), hi |-> 0]
                     ELSE [lo |-> 0, hi |-> AtMost(streak.hi + 1, POWDOW_FILT + 1)]
  /\ UNCHANGED <<alive, fd, unsynced, saver, mat, liveNum>>

\* The use of a stream that is fine, absent, or closed behind the pointer.
Use(s, absent) ==
  \/ fd[s] = "open" /\ UNCHANGED alive
  \/ fd[s] = "null" /\ alive' = absent
  \/ fd[s] = "closed" /\ alive' \in BOOLEAN

\* WRITELOGFILE, which skips an absent log, and LogFileSync, which does not;
\* before the event files and after them.
PowLogSync ==
  /\ mpc \in {"log", "finish"}
  /\ Use("log", FALSE)
  /\ mpc' = IF mpc = "log" THEN "check" ELSE "read"
  /\ UNCHANGED <<fd, unsynced, saver, mat, liveNum, powDownNum, clearPowNum, power_err,
                 owed, streak>>

\* "PowerOff recover" is logged.
PowRecover ==
  /\ mpc = "recover"
  /\ Use("log", TRUE)
  /\ mpc' = "read"
  /\ UNCHANGED <<fd, unsynced, saver, mat, liveNum, powDownNum, clearPowNum, power_err,
                 owed, streak>>

\* if (NULL != fd); the pointer is loaded again by every call that follows.
PowCheck ==
  /\ mpc = "check"
  /\ \/ fd[mat] # "null" /\ mpc' = "flush" /\ UNCHANGED mat
     \/ /\ fd[mat] = "null"
        /\ mpc' = IF mat = "event" THEN "check" ELSE "finish"
        /\ mat' = IF mat = "event" THEN "blvds" ELSE "event"
  /\ UNCHANGED <<alive, fd, unsynced, saver, liveNum, powDownNum, clearPowNum, power_err,
                 owed, streak>>

\* fflush and fileno.
PowFlush ==
  /\ mpc = "flush"
  /\ Use(mat, FALSE)
  /\ mpc' = "fsync"
  /\ liveNum' = (fd[mat] = "open")
  /\ UNCHANGED <<fd, unsynced, saver, mat, powDownNum, clearPowNum, power_err, owed, streak>>

\* fsync of the number: of the file, or, once that has been closed, of
\* nothing or of the file that has the number now.
PowFsync ==
  /\ mpc = "fsync"
  /\ \/ fd[mat] = "open" /\ Synced(mat)
     \/ ~liveNum /\ UNCHANGED <<unsynced, owed>>
  /\ mpc' = IF mat = "event" THEN "check" ELSE "finish"
  /\ mat' = IF mat = "event" THEN "blvds" ELSE "event"
  /\ liveNum' = FALSE
  /\ UNCHANGED <<alive, fd, saver, powDownNum, clearPowNum, power_err, streak>>

Main ==
  /\ alive
  /\ \/ \E v \in 0..2 : PowDownRead(v)
     \/ PowLogSync \/ PowRecover \/ PowCheck \/ PowFlush \/ PowFsync
-----------------------------------------------------------------------------
Next == Saver \/ Main

Spec == Init /\ [][Next]_vars

\* Both threads keep running; the line may do anything.
FairSpec == Spec /\ WF_vars(Saver) /\ WF_vars(Main)
-----------------------------------------------------------------------------
TypeOK ==
  /\ alive \in BOOLEAN
  /\ fd \in [Stream -> {"null", "open", "closed"}]
  /\ unsynced \in [File -> Nat]
  /\ saveErr \in [File -> BOOLEAN]
  /\ spc \in SaverLabel /\ sat \in File
  /\ saveNum \in Nat
  /\ tryNum \in 0..(FILETRY_NUM + 1)
  /\ mpc \in MainLabel /\ mat \in File
  /\ liveNum \in BOOLEAN
  /\ powDownNum \in 0..POWDOW_FILT /\ clearPowNum \in 0..POWDOW_FILT
  /\ power_err \in BOOLEAN
  /\ owed \in [File -> BOOLEAN]
  /\ streak \in [lo : 0..(POWDOW_FILT + 1), hi : 0..(POWDOW_FILT + 1)]

\* A power cut costs at most the header and one sync interval of records of
\* each file ("1min", main.c:991), across replacements of the files too.
SyncBound == \A f \in File : unsynced[f] <= FILE_SYNC_NUM + 1

\* When "sync File finish" is logged, whatever had been saved before the
\* outage was detected is on the eMMC, even if FileSaveThreaFunc replaced the
\* files meanwhile and PowDownFun skipped them or synced a reused number.
PowerSyncCovers == mpc = "finish" => \A f \in File : ~owed[f]

\* The power error is set only by more than POWDOW_FILT readings in a row of a
\* failing supply, and cleared only by as many of the opposite; the counters
\* are reset in four places to make it so.
PowerErrDebounced ==
  [][power_err' # power_err =>
       (IF power_err' THEN streak'.lo ELSE streak'.hi) > POWDOW_FILT]_vars

\* It is also never late: the power error is set by the reading that makes more than
\* POWDOW_FILT of a failing supply in a row, and gone with as many of the opposite
\* (main.c:465, 508), though a counter starts again whenever it passes the limit.
PowerErrPrompt ==
  /\ streak.lo > POWDOW_FILT => power_err
  /\ streak.hi > POWDOW_FILT => ~power_err

\* Once the creation of the files is over, the error bits tell which of them
\* do not exist, although the two retry loops share a counter.
ErrBitsTellMissing ==
  spc \in {"header", "save", "done", "top", "persync"} =>
    \A f \in File : saveErr[f] <=> fd[f] = "null"

\* FileSaveThreaFunc ends the process only by syncing a file whose error bit is
\* set: across replacements and new days it never trips over a file that it
\* has closed and not created again, or whose failure it did not report.
SaverDiesWarned == [][SaverSync /\ ~alive' => saveErr[sat]]_vars

\* The event file code never hands a missing or closed stream to the library.
StaysAlive == alive

Reads(V) == \E v \in V : PowDownRead(v)

\* If the supply stays down the power error is set for good, and if it stays
\* up the error goes away, unless the process has ended: the filter cannot
\* hang between its two counters, nor PowDownFun in its syncs.
PowerErrFollows ==
  PowDebug =>
    /\ (<>[][~Reads({1, 2})]_vars) => <>[](~alive \/ power_err)
    /\ (<>[][~Reads({0})]_vars) => <>[](~alive \/ ~power_err)
=============================================================================
