-------------------------- MODULE EventFileProofs --------------------------
(***************************************************************************)
(* Proofs about EventFile, for all values of its parameters, and about     *)
(* ErrWord, which has the word that EventFile's error bits are fields of,  *)
(* for every set of threads and every assignment of the fields to storage  *)
(* units.                                                                  *)
(***************************************************************************)
EXTENDS EventFile, ErrWord, TLAPS

\* Passed(f): PowDownFun is behind its treatment of file f.
Passed(f) ==
  \/ mpc = "finish"
  \/ mpc \in {"check", "flush", "fsync"} /\ mat = "blvds" /\ f = "event"

\* What PowerSyncCovers rests on: only an open file has unsynced writes, a
\* file about to be closed has none, and a descriptor number that is dead
\* belonged to a file that was synced before it was closed.
CoverInv ==
  /\ \A f \in File :
       /\ fd[f] # "open" => unsynced[f] = 0 /\ ~owed[f]
       /\ Passed(f) => ~owed[f]
  /\ spc \in {"rotclose", "rotnull"} => unsynced[sat] = 0 /\ ~owed[sat]
  /\ mpc = "fsync" /\ ~liveNum => ~owed[mat]
  /\ mpc \notin {"check", "flush", "fsync"} => mat = "event"

\* What PowerErrDebounced rests on: the counters count readings in a row.
FilterInv == powDownNum <= streak.lo /\ clearPowNum <= streak.hi

\* What PowerErrPrompt rests on: until the limit is passed a counter is the number of
\* equal readings itself, not fewer.
PromptInv ==
  /\ streak.lo <= POWDOW_FILT => powDownNum = streak.lo
  /\ streak.hi <= POWDOW_FILT => clearPowNum = streak.hi
  /\ PowerErrPrompt

\* What bounds TryNum: it is zero when a creation starts, and the second loop
\* can find what the first one left, FILETRY_NUM, but not more.
TryInv ==
  /\ spc \in {"day", "logclose", "lognull", "logopen", "fopen"} => tryNum = 0
  /\ spc = "judge" => tryNum <= FILETRY_NUM /\ (sat = "event" => tryNum = 0)
  /\ spc = "again" /\ sat = "event" => tryNum <= FILETRY_NUM

\* What StaysAlive rests on when nothing fails and main does not interfere:
\* where FileSaveThreaFunc is tells which files are open.
AloneInv ==
  /\ alive
  /\ mpc \in {"boot", "off"}
  /\ spc \in {"top", "persync", "header", "save", "done", "judge"} => \A f \in File : fd[f] = "open"
  /\ spc = "rotsync" => fd["blvds"] = "open" /\ (sat = "event" => fd["event"] = "open")
  /\ spc \in {"rotclose", "rotnull"} /\ sat = "event" => fd["blvds"] = "open"
  /\ spc = "fopen" /\ sat = "blvds" => fd["event"] = "open"
  /\ spc \in {"day", "logclose", "lognull", "logopen"} => sat = "event"
  /\ spc # "again"

\* Where the creation of the files is: from the replacement of both to the headers.
Creation == {"day", "logclose", "lognull", "logopen", "fopen", "judge", "again", "header"}

\* Records of one sync interval saved so far.
Since == saveNum % FILE_SYNC_NUM

\* What SyncBound rests on: a file has at most its header and the records since the last
\* multiple of FILE_SYNC_NUM unsynced, one more while the second file's record is still
\* to be saved; a new file has nothing, nor has one that was replaced.
SyncInv ==
  /\ \A f \in File : unsynced[f] <= FILE_SYNC_NUM + 1
  /\ spc \in Creation => \A f \in File : unsynced[f] = 0
  /\ spc = "top" => Since = 0 \/ \A f \in File : unsynced[f] <= Since + 1
  /\ spc = "save" => /\ unsynced[sat] <= Since + 1
                     /\ \A f \in File : unsynced[f] <= Since + (IF sat = "event" THEN 1 ELSE 2)
  /\ spc = "done" => \A f \in File : unsynced[f] <= Since + 2
  /\ spc = "persync" => Since = 0
  /\ spc \in {"top", "done", "header"} => sat = "event"
  /\ spc \in {"persync", "rotsync", "rotclose", "rotnull"} /\ sat = "blvds" => unsynced["event"] = 0
  /\ spc \in {"rotclose", "rotnull"} => unsynced[sat] = 0

\* What SaverDiesWarned rests on: a file not closed for its replacement is open, or was
\* reported when it could not be created.
Told(f) == fd[f] \in {"open", "null"} /\ (saveErr[f] <=> fd[f] = "null")

TellInv ==
  /\ spc \in {"header", "save", "done", "top", "persync"} => \A f \in File : Told(f)
  /\ spc \in {"rotsync", "rotclose", "rotnull"} /\ sat = "event" => Told("blvds")
  /\ spc = "rotsync" => Told(sat)
  /\ spc \in {"rotsync", "rotclose", "rotnull"} /\ sat = "blvds" => fd["event"] = "null"
  /\ spc \in {"top", "done", "header"} => sat = "event"
  /\ spc \in {"day", "logclose", "lognull", "logopen"} => sat = "event" /\ \A f \in File : fd[f] = "null"
  /\ spc = "fopen" => fd["blvds"] = "null" /\ (sat = "event" => fd["event"] = "null")
  /\ spc \in {"fopen", "judge", "again"} => \A f \in File : fd[f] \in {"open", "null"}
  /\ spc \in {"judge", "again"} /\ sat = "blvds" => Told("event")
  /\ spc = "again" => fd[sat] = "null"
-----------------------------------------------------------------------------
\* A capped successor stays in range, and does not fall below a number that
\* the cap bounds.
LEMMA AtMostRange ==
  ASSUME NEW bound \in Nat, NEW n \in 0..bound
  PROVE  /\ AtMost(n + 1, bound) \in 0..bound
         /\ \A m \in 0..bound : m <= n + 1 => m <= AtMost(n + 1, bound)
  BY DEF AtMost

\* The next statement is typed.
LEMMA SaverNextType ==
  ASSUME sat \in File, NEW label \in SaverLabel, NEW next \in SaverLabel,
         SaverNext(label, next)
  PROVE  spc' \in SaverLabel /\ sat' \in File
  BY DEF SaverNext, File

\* So is what a sync leaves.
LEMMA SyncedType ==
  ASSUME TypeOK, NEW f \in File, Synced(f)
  PROVE  unsynced' \in [File -> Nat] /\ owed' \in [File -> BOOLEAN]
<1>1. unsynced' \in [File -> Nat]
  BY DEF TypeOK, Synced
<1>2. owed' \in [File -> BOOLEAN]
  BY DEF TypeOK, Synced
<1>3. QED
  BY <1>1, <1>2

\* And what an fopen leaves.
LEMMA OpenFileType ==
  ASSUME TypeOK, OpenFile
  PROVE  fd' \in [Stream -> {"null", "open", "closed"}]
  BY DEF TypeOK, OpenFile

\* The reading of the line keeps the filter's counters and its history typed
\* and in step.
LEMMA ReadCounts ==
  ASSUME TypeOK, NEW v \in 0..2, PowDownRead(v)
  PROVE  /\ powDownNum' \in 0..POWDOW_FILT /\ clearPowNum' \in 0..POWDOW_FILT
         /\ streak' \in [lo : 0..(POWDOW_FILT + 1), hi : 0..(POWDOW_FILT + 1)]
         /\ FilterInv => FilterInv'
         /\ FilterInv /\ power_err' # power_err
              => (IF power_err' THEN streak'.lo ELSE streak'.hi) > POWDOW_FILT
<1>1. /\ POWDOW_FILT \in Nat /\ POWDOW_FILT + 1 \in Nat
      /\ streak.lo \in 0..(POWDOW_FILT + 1) /\ streak.hi \in 0..(POWDOW_FILT + 1)
      /\ powDownNum \in 0..POWDOW_FILT /\ clearPowNum \in 0..POWDOW_FILT
      /\ power_err \in BOOLEAN
  BY EventFileAssumption DEF TypeOK
<1> DEFINE lo == AtMost(streak.lo + 1, POWDOW_FILT + 1)
           hi == AtMost(streak.hi + 1, POWDOW_FILT + 1)
<1>2. /\ lo \in 0..(POWDOW_FILT + 1) /\ hi \in 0..(POWDOW_FILT + 1)
      /\ powDownNum <= streak.lo => powDownNum + 1 <= lo
      /\ clearPowNum <= streak.hi => clearPowNum + 1 <= hi
  BY <1>1, AtMostRange
<1>3. CASE v = 0
  <2>1. streak' = [lo |-> lo, hi |-> 0] /\ clearPowNum' = 0
    BY <1>3 DEF PowDownRead
  <2>2. /\ powDownNum' = IF powDownNum + 1 > POWDOW_FILT THEN 0 ELSE powDownNum + 1
        /\ power_err' = IF powDownNum + 1 > POWDOW_FILT THEN TRUE ELSE power_err
    BY <1>3 DEF PowDownRead
  <2> HIDE DEF lo, hi
  <2>3. /\ streak'.lo = lo /\ streak'.hi = 0
        /\ streak' \in [lo : 0..(POWDOW_FILT + 1), hi : 0..(POWDOW_FILT + 1)]
    BY <1>1, <1>2, <2>1
  <2>4. /\ powDownNum' \in 0..POWDOW_FILT /\ clearPowNum' \in 0..POWDOW_FILT
        /\ FilterInv => FilterInv'
    BY <1>1, <1>2, <2>1, <2>2, <2>3 DEF FilterInv
  <2>5. FilterInv /\ powDownNum + 1 > POWDOW_FILT => lo > POWDOW_FILT
    BY <1>1, <1>2 DEF FilterInv
  <2>6. FilterInv /\ power_err' # power_err => power_err' /\ streak'.lo > POWDOW_FILT
    BY <2>2, <2>3, <2>5, Zenon
  <2>7. QED
    BY <2>3, <2>4, <2>6
<1>4. CASE v # 0
  <2>1. streak' = [lo |-> 0, hi |-> hi] /\ powDownNum' = 0
    BY <1>4 DEF PowDownRead
  <2>2. /\ clearPowNum' = IF clearPowNum + 1 > POWDOW_FILT THEN 0 ELSE clearPowNum + 1
        /\ power_err' = IF clearPowNum + 1 > POWDOW_FILT THEN FALSE ELSE power_err
    BY <1>4 DEF PowDownRead
  <2> HIDE DEF lo, hi
  <2>3. /\ streak'.lo = 0 /\ streak'.hi = hi
        /\ streak' \in [lo : 0..(POWDOW_FILT + 1), hi : 0..(POWDOW_FILT + 1)]
    BY <1>1, <1>2, <2>1
  <2>4. /\ powDownNum' \in 0..POWDOW_FILT /\ clearPowNum' \in 0..POWDOW_FILT
        /\ FilterInv => FilterInv'
    BY <1>1, <1>2, <2>1, <2>2, <2>3 DEF FilterInv
  <2>5. FilterInv /\ clearPowNum + 1 > POWDOW_FILT => hi > POWDOW_FILT
    BY <1>1, <1>2 DEF FilterInv
  <2>6. FilterInv /\ power_err' # power_err => ~power_err' /\ streak'.hi > POWDOW_FILT
    BY <2>2, <2>3, <2>5, Zenon
  <2>7. QED
    BY <2>3, <2>4, <2>6
<1>5. QED
  BY <1>3, <1>4
-----------------------------------------------------------------------------
\* Every variable keeps its type: in particular TryNum, which two retry loops
\* share, never exceeds FILETRY_NUM + 1.
THEOREM EventTypeOK == Spec => []TypeOK
<1>1. Init => TypeOK /\ TryInv
  <2>1. Init => fd \in [Stream -> {"null", "open", "closed"}]
    BY DEF Init
  <2>2. Init => /\ saveErr \in [File -> BOOLEAN] /\ owed \in [File -> BOOLEAN]
                /\ unsynced \in [File -> Nat]
    BY DEF Init
  <2>3. Init => streak \in [lo : 0..(POWDOW_FILT + 1), hi : 0..(POWDOW_FILT + 1)]
    BY EventFileAssumption DEF Init
  <2>4. Init => /\ spc \in SaverLabel /\ sat \in File /\ mpc \in MainLabel /\ mat \in File
                /\ alive \in BOOLEAN /\ liveNum \in BOOLEAN /\ power_err \in BOOLEAN
    BY DEF Init, File, SaverLabel, MainLabel
  <2>5. Init => /\ saveNum \in Nat /\ tryNum \in 0..(FILETRY_NUM + 1)
                /\ powDownNum \in 0..POWDOW_FILT /\ clearPowNum \in 0..POWDOW_FILT
    BY EventFileAssumption DEF Init
  <2>6. Init => TryInv
    BY DEF Init, TryInv
  <2>7. QED
    BY <2>1, <2>2, <2>3, <2>4, <2>5, <2>6 DEF TypeOK
<1>2. TypeOK /\ TryInv /\ [Next]_vars => TypeOK' /\ TryInv'
  <2> SUFFICES ASSUME TypeOK, TryInv, [Next]_vars PROVE TypeOK' /\ TryInv'
    OBVIOUS
  <2> USE EventFileAssumption
  <2>1. CASE SaveTop \/ CountRecord
    BY <2>1 DEF TypeOK, TryInv, SaveTop, CountRecord, SaverLabel, main
  <2>2. CASE SaverSync
    <3>1. spc' \in SaverLabel /\ sat' \in File
      BY <2>2, SaverNextType DEF TypeOK, SaverSync, SaverLabel
    <3>2. unsynced' \in [File -> Nat] /\ owed' \in [File -> BOOLEAN] /\ alive' \in BOOLEAN
      BY <2>2, SyncedType DEF TypeOK, SaverSync
    <3>3. TypeOK'
      BY <2>2, <3>1, <3>2 DEF TypeOK, SaverSync
    <3>4. TryInv'
      BY <2>2 DEF TryInv, SaverSync, SaverNext
    <3>5. QED
      BY <3>3, <3>4
  <2>3. CASE RotClose
    <3>1. liveNum' \in BOOLEAN
      BY <2>3 DEF RotClose
    <3>2. QED
      BY <2>3, <3>1 DEF TypeOK, TryInv, RotClose, SaverLabel
  <2>4. CASE RotNull
    <3>1. spc' \in SaverLabel /\ sat' \in File
      BY <2>4, SaverNextType DEF TypeOK, RotNull, SaverLabel
    <3>2. tryNum' = 0
      BY <2>4 DEF RotNull
    <3>3. TryInv'
      BY <2>4, <3>2 DEF TryInv, RotNull, SaverNext
    <3>4. fd' \in [Stream -> {"null", "open", "closed"}]
      BY <2>4 DEF TypeOK, RotNull
    <3>5. QED
      BY <2>4, <3>1, <3>2, <3>3, <3>4 DEF TypeOK, RotNull, main
  <2>5. CASE NewDay \/ LogFclose \/ LogNull \/ LogOpen
    BY <2>5 DEF TypeOK, TryInv, NewDay, LogFclose, LogNull, LogOpen, SaverLabel, main
  <2>6. CASE FirstOpen
    <3>1. spc' \in SaverLabel /\ sat' \in File
      BY <2>6, SaverNextType DEF TypeOK, FirstOpen, SaverLabel
    <3>2. TypeOK'
      BY <2>6, <3>1, OpenFileType DEF TypeOK, FirstOpen, main
    <3>3. TryInv'
      BY <2>6 DEF TryInv, FirstOpen, SaverNext
    <3>4. QED
      BY <3>2, <3>3
  <2>7. CASE Judge
    <3>1. spc' \in SaverLabel /\ sat' \in File
      BY <2>7, SaverNextType DEF TypeOK, Judge, SaverLabel
    <3>2. saveErr' \in [File -> BOOLEAN]
      BY <2>7 DEF TypeOK, Judge
    <3>3. tryNum' \in 0..(FILETRY_NUM + 1) /\ TryInv'
      BY <2>7 DEF TypeOK, TryInv, Judge, SaverNext
    <3>4. QED
      BY <2>7, <3>1, <3>2, <3>3 DEF TypeOK, Judge, main
  <2>8. CASE OpenAgain
    <3>1. spc' \in SaverLabel /\ sat' \in File
      BY <2>8, SaverNextType DEF TypeOK, OpenAgain, SaverLabel
    <3>2. saveErr' \in [File -> BOOLEAN]
      BY <2>8 DEF TypeOK, OpenAgain
    <3>3. tryNum' \in 0..(FILETRY_NUM + 1) /\ TryInv'
      BY <2>8 DEF TypeOK, TryInv, OpenAgain, SaverNext
    <3>4. QED
      BY <2>8, <3>1, <3>2, <3>3, OpenFileType DEF TypeOK, OpenAgain, main
  <2>9. CASE GiveUp
    <3>1. spc' \in SaverLabel /\ sat' \in File
      BY <2>9, SaverNextType DEF TypeOK, GiveUp, SaverLabel
    <3>2. saveErr' \in [File -> BOOLEAN]
      BY <2>9 DEF TypeOK, GiveUp
    <3>3. TryInv'
      BY <2>9 DEF TypeOK, TryInv, GiveUp, SaverNext
    <3>4. QED
      BY <2>9, <3>1, <3>2, <3>3 DEF TypeOK, GiveUp, main
  <2>10. CASE WriteHeader
    BY <2>10 DEF TypeOK, TryInv, WriteHeader, SaverLabel, MainLabel
  <2>11. CASE SaveRecord
    BY <2>11 DEF TypeOK, TryInv, SaveRecord, SaverNext, SaverLabel, File, main
  <2>12. ASSUME NEW v \in 0..2, PowDownRead(v) PROVE TypeOK' /\ TryInv'
    <3>1. mpc' \in MainLabel
      BY <2>12 DEF PowDownRead, MainLabel
    <3>2. power_err' \in BOOLEAN
      BY <2>12, Zenon DEF TypeOK, PowDownRead
    <3>3. owed' \in [File -> BOOLEAN]
      BY <2>12 DEF TypeOK, PowDownRead
    <3>4. QED
      BY <2>12, <3>1, <3>2, <3>3, ReadCounts DEF TypeOK, TryInv, PowDownRead, saver
  <2>13. CASE PowLogSync \/ PowRecover
    BY <2>13 DEF TypeOK, TryInv, PowLogSync, PowRecover, Use, MainLabel, saver
  <2>14. CASE PowCheck
    BY <2>14 DEF TypeOK, TryInv, PowCheck, MainLabel, File, saver
  <2>15. CASE PowFlush
    BY <2>15 DEF TypeOK, TryInv, PowFlush, Use, MainLabel, saver
  <2>16. CASE PowFsync
    <3>1. unsynced' \in [File -> Nat] /\ owed' \in [File -> BOOLEAN]
      BY <2>16, SyncedType DEF TypeOK, PowFsync
    <3>2. QED
      BY <2>16, <3>1 DEF TypeOK, TryInv, PowFsync, MainLabel, File, saver
  <2>17. CASE UNCHANGED vars
    BY <2>17 DEF TypeOK, TryInv, vars, main, saver
  <2>18. QED
    BY <2>1, <2>2, <2>3, <2>4, <2>5, <2>6, <2>7, <2>8, <2>9, <2>10, <2>11, <2>12,
       <2>13, <2>14, <2>15, <2>16, <2>17 DEF Next, Saver, Main
<1>3. QED
  BY <1>1, <1>2, PTL DEF Spec
-----------------------------------------------------------------------------
\* The power error follows POWDOW_FILT readings in a row, never fewer, for
\* every POWDOW_FILT.
THEOREM EventPowerErrDebounced == Spec => PowerErrDebounced
<1> DEFINE Debounced == power_err' # power_err =>
                          (IF power_err' THEN streak'.lo ELSE streak'.hi) > POWDOW_FILT
<1>1. Init => FilterInv
  BY DEF Init, FilterInv
<1>2. TypeOK /\ FilterInv /\ [Next]_vars => FilterInv' /\ (UNCHANGED vars \/ Debounced)
  <2> SUFFICES ASSUME TypeOK, FilterInv, [Next]_vars
               PROVE  FilterInv' /\ (UNCHANGED vars \/ Debounced)
    OBVIOUS
  <2>1. ASSUME NEW v \in 0..2, PowDownRead(v) PROVE FilterInv' /\ Debounced
    BY <2>1, ReadCounts
  <2>2. CASE UNCHANGED <<powDownNum, clearPowNum, streak, power_err>>
    BY <2>2 DEF FilterInv
  <2>3. CASE Saver
    BY <2>2, <2>3 DEF Saver, main, SaveTop, SaverSync, RotClose, RotNull, NewDay, LogFclose,
       LogNull, LogOpen, FirstOpen, Judge, OpenAgain, GiveUp, WriteHeader, SaveRecord,
       CountRecord
  <2>4. CASE Main
    BY <2>1, <2>2, <2>4 DEF Main, PowLogSync, PowRecover, PowCheck, PowFlush, PowFsync
  <2>5. CASE UNCHANGED vars
    BY <2>2, <2>5 DEF vars, main
  <2>6. QED
    BY <2>3, <2>4, <2>5 DEF Next
<1>3. TypeOK /\ FilterInv /\ [Next]_vars => [Debounced]_vars
  BY <1>2
<1>4. QED
  BY <1>1, <1>2, <1>3, EventTypeOK, PTL DEF Spec, PowerErrDebounced

\* The power error is never late either: PowDownFun (main.c:449) sets or clears it with
\* the very reading that makes more than POWDOW_FILT in a row.
THEOREM EventPowerErrPrompt == Spec => []PowerErrPrompt
<1>1. Init => PromptInv
  BY EventFileAssumption DEF Init, PromptInv, PowerErrPrompt
<1>2. ASSUME TypeOK, PromptInv, NEW v \in 0..2, PowDownRead(v) PROVE PromptInv'
  <2>1. /\ POWDOW_FILT \in Nat
        /\ streak.lo \in 0..(POWDOW_FILT + 1) /\ streak.hi \in 0..(POWDOW_FILT + 1)
        /\ powDownNum \in 0..POWDOW_FILT /\ clearPowNum \in 0..POWDOW_FILT
        /\ power_err \in BOOLEAN
    BY <1>2, EventFileAssumption DEF TypeOK
  <2>2. /\ streak.lo <= POWDOW_FILT => powDownNum = streak.lo
        /\ streak.hi <= POWDOW_FILT => clearPowNum = streak.hi
        /\ streak.lo > POWDOW_FILT => power_err
        /\ streak.hi > POWDOW_FILT => ~power_err
    BY <1>2 DEF PromptInv, PowerErrPrompt
  <2>3. CASE v = 0
    <3>1. /\ streak' = [lo |-> AtMost(streak.lo + 1, POWDOW_FILT + 1), hi |-> 0]
          /\ clearPowNum' = 0
          /\ powDownNum' = IF powDownNum + 1 > POWDOW_FILT THEN 0 ELSE powDownNum + 1
          /\ power_err' = IF powDownNum + 1 > POWDOW_FILT THEN TRUE ELSE power_err
      BY <1>2, <2>3 DEF PowDownRead
    <3>2. /\ streak'.lo = IF streak.lo + 1 > POWDOW_FILT + 1 THEN POWDOW_FILT + 1
                          ELSE streak.lo + 1
          /\ streak'.hi = 0
      BY <3>1 DEF AtMost
    <3>3. streak'.lo <= POWDOW_FILT => powDownNum' = streak'.lo
      BY <2>1, <2>2, <3>1, <3>2
    <3>4. streak'.lo > POWDOW_FILT => power_err'
      BY <2>1, <2>2, <3>1, <3>2
    <3>5. QED
      BY <2>1, <3>1, <3>2, <3>3, <3>4 DEF PromptInv, PowerErrPrompt
  <2>4. CASE v # 0
    <3>1. /\ streak' = [lo |-> 0, hi |-> AtMost(streak.hi + 1, POWDOW_FILT + 1)]
          /\ powDownNum' = 0
          /\ clearPowNum' = IF clearPowNum + 1 > POWDOW_FILT THEN 0 ELSE clearPowNum + 1
          /\ power_err' = IF clearPowNum + 1 > POWDOW_FILT THEN FALSE ELSE power_err
      BY <1>2, <2>4 DEF PowDownRead
    <3>2. /\ streak'.hi = IF streak.hi + 1 > POWDOW_FILT + 1 THEN POWDOW_FILT + 1
                          ELSE streak.hi + 1
          /\ streak'.lo = 0
      BY <3>1 DEF AtMost
    <3>3. streak'.hi <= POWDOW_FILT => clearPowNum' = streak'.hi
      BY <2>1, <2>2, <3>1, <3>2
    <3>4. streak'.hi > POWDOW_FILT => ~power_err'
      BY <2>1, <2>2, <3>1, <3>2
    <3>5. QED
      BY <2>1, <3>1, <3>2, <3>3, <3>4 DEF PromptInv, PowerErrPrompt
  <2>5. QED
    BY <2>3, <2>4
<1>3. TypeOK /\ PromptInv /\ [Next]_vars => PromptInv'
  <2> SUFFICES ASSUME TypeOK, PromptInv, [Next]_vars PROVE PromptInv'
    OBVIOUS
  <2>1. CASE UNCHANGED <<powDownNum, clearPowNum, streak, power_err>>
    BY <2>1 DEF PromptInv, PowerErrPrompt
  <2>2. CASE Saver
    BY <2>1, <2>2 DEF Saver, main, SaveTop, SaverSync, RotClose, RotNull, NewDay, LogFclose,
       LogNull, LogOpen, FirstOpen, Judge, OpenAgain, GiveUp, WriteHeader, SaveRecord,
       CountRecord
  <2>3. CASE Main
    BY <1>2, <2>1, <2>3 DEF Main, PowLogSync, PowRecover, PowCheck, PowFlush, PowFsync
  <2>4. CASE UNCHANGED vars
    BY <2>1, <2>4 DEF vars, main
  <2>5. QED
    BY <2>2, <2>3, <2>4 DEF Next
<1>4. PromptInv => PowerErrPrompt
  BY DEF PromptInv
<1>5. QED
  BY <1>1, <1>3, <1>4, EventTypeOK, PTL DEF Spec
-----------------------------------------------------------------------------
\* A sync of f leaves f covered and takes nothing from the other file.
LEMMA SyncedCovers ==
  ASSUME TypeOK, NEW f \in File, Synced(f)
  PROVE  /\ unsynced'[f] = 0 /\ ~owed'[f]
         /\ \A g \in File \ {f} : unsynced'[g] = unsynced[g] /\ owed'[g] = owed[g]
  BY DEF TypeOK, Synced

\* When "sync File finish" is logged, everything saved before the outage was
\* detected is on the eMMC, however FileSaveThreaFunc's steps fall between
\* those of PowDownFun: a file that was skipped, or whose number was reused,
\* had been synced before it was closed.
THEOREM EventPowerSyncCovers == Spec => []PowerSyncCovers
<1>1. Init => CoverInv
  BY DEF Init, CoverInv, Passed
<1>2. TypeOK /\ CoverInv /\ [Next]_vars => CoverInv'
  <2> SUFFICES ASSUME TypeOK, CoverInv, [Next]_vars PROVE CoverInv'
    OBVIOUS
  <2> USE DEF CoverInv, Passed
  <2>1. CASE SaveTop \/ CountRecord \/ NewDay
    BY <2>1 DEF SaveTop, CountRecord, NewDay, main
  <2>2. CASE SaverSync
    <3>1. CASE fd[sat] = "open" /\ Synced(sat)
      BY <2>2, <3>1, SyncedCovers DEF TypeOK, SaverSync, SaverNext
    <3>2. CASE UNCHANGED <<spc, sat, unsynced, owed>>
      BY <2>2, <3>2 DEF SaverSync
    <3>3. QED
      BY <2>2, <3>1, <3>2 DEF SaverSync
  <2>3. CASE RotClose
    BY <2>3 DEF TypeOK, RotClose, File, Stream
  <2>4. CASE RotNull
    BY <2>4 DEF TypeOK, RotNull, SaverNext, File, Stream, main
  <2>5. CASE LogFclose \/ LogNull \/ LogOpen
    BY <2>5 DEF TypeOK, LogFclose, LogNull, LogOpen, File, Stream, main
  <2>6. CASE FirstOpen \/ OpenAgain
    BY <2>6 DEF TypeOK, FirstOpen, OpenAgain, OpenFile, SaverNext, File, Stream, main
  <2>7. CASE Judge \/ GiveUp
    BY <2>7 DEF TypeOK, Judge, GiveUp, SaverNext, main
  <2>8. CASE WriteHeader
    BY <2>8 DEF TypeOK, WriteHeader, File
  <2>9. CASE SaveRecord
    BY <2>9 DEF TypeOK, SaveRecord, SaverNext, File, main
  <2>10. ASSUME NEW v \in 0..2, PowDownRead(v) PROVE CoverInv'
    <3>1. mpc' \in {"read", "log", "recover"}
      BY <2>10 DEF PowDownRead
    <3>2. \A f \in File : unsynced[f] = 0 /\ ~owed[f] => ~owed'[f]
      BY <2>10 DEF TypeOK, PowDownRead
    <3>3. UNCHANGED <<fd, unsynced, spc, sat, mat, liveNum>> /\ mpc = "read"
      BY <2>10 DEF PowDownRead, saver
    <3>4. sat \in File
      BY DEF TypeOK
    <3>5. QED
      BY <3>1, <3>2, <3>3, <3>4
  <2>11. CASE PowLogSync \/ PowRecover
    <3>1. (mpc = "log" /\ mpc' = "check") \/ mpc' = "read"
      BY <2>11 DEF PowLogSync, PowRecover
    <3>2. QED
      BY <2>11, <3>1 DEF PowLogSync, PowRecover, saver
  <2>12. CASE PowCheck
    BY <2>12 DEF TypeOK, PowCheck, File, saver
  <2>13. CASE PowFlush
    BY <2>13 DEF TypeOK, PowFlush, saver
  <2>14. CASE PowFsync
    BY <2>14, SyncedCovers DEF TypeOK, PowFsync, File, saver
  <2>15. CASE UNCHANGED vars
    BY <2>15 DEF vars, main, saver
  <2>16. QED
    BY <2>1, <2>2, <2>3, <2>4, <2>5, <2>6, <2>7, <2>8, <2>9, <2>10, <2>11, <2>12,
       <2>13, <2>14, <2>15 DEF Next, Saver, Main
<1>3. CoverInv => PowerSyncCovers
  BY DEF CoverInv, PowerSyncCovers, Passed
<1>4. QED
  BY <1>1, <1>2, <1>3, EventTypeOK, PTL DEF Spec
-----------------------------------------------------------------------------
\* With the power watch off and a disk that works, FileSaveThreaFunc never
\* hands the library a missing or closed stream, for any file length and sync
\* interval.  Each assumption is needed: a file that could not be created is
\* synced all the same, and PowDownFun may find a stream closed behind its
\* pointer.
THEOREM EventStaysAlive == ~PowDebug /\ ~OpenFails => (Spec => []StaysAlive)
<1> SUFFICES ASSUME ~PowDebug, ~OpenFails PROVE Spec => []StaysAlive
  OBVIOUS
<1>1. Init => AloneInv
  BY DEF Init, AloneInv
<1>2. TypeOK /\ AloneInv /\ [Next]_vars => AloneInv'
  <2> SUFFICES ASSUME TypeOK, AloneInv, [Next]_vars PROVE AloneInv'
    OBVIOUS
  <2> USE DEF AloneInv
  <2>1. CASE SaveTop \/ CountRecord \/ NewDay \/ SaveRecord \/ WriteHeader
    <3>1. CASE SaveTop
      BY <3>1 DEF SaveTop, File, main
    <3>2. CASE CountRecord \/ NewDay
      BY <3>2 DEF CountRecord, NewDay, main
    <3>3. CASE SaveRecord
      BY <3>3 DEF SaveRecord, SaverNext, main
    <3>4. CASE WriteHeader
      BY <3>4 DEF WriteHeader
    <3>5. QED
      BY <2>1, <3>1, <3>2, <3>3, <3>4
  <2>2. CASE SaverSync
    BY <2>2 DEF TypeOK, SaverSync, SaverNext, File
  <2>3. CASE RotClose \/ RotNull
    BY <2>3 DEF TypeOK, RotClose, RotNull, SaverNext, File, Stream, main
  <2>4. CASE LogFclose \/ LogNull \/ LogOpen
    BY <2>4 DEF TypeOK, LogFclose, LogNull, LogOpen, File, Stream, main
  <2>5. CASE FirstOpen \/ OpenAgain
    BY <2>5 DEF TypeOK, FirstOpen, OpenAgain, OpenFile, SaverNext, File, Stream, main
  <2>6. CASE Judge \/ GiveUp
    BY <2>6 DEF TypeOK, Judge, GiveUp, SaverNext, File, main
  <2>7. CASE Main
    BY <2>7 DEF Main, PowDownRead, PowLogSync, PowRecover, PowCheck, PowFlush, PowFsync
  <2>8. CASE UNCHANGED vars
    BY <2>8 DEF vars, main, saver
  <2>9. QED
    BY <2>1, <2>2, <2>3, <2>4, <2>5, <2>6, <2>7, <2>8 DEF Next, Saver
<1>3. AloneInv => StaysAlive
  BY DEF AloneInv, StaysAlive
<1>4. QED
  BY <1>1, <1>2, <1>3, EventTypeOK, PTL DEF Spec
-----------------------------------------------------------------------------
\* The number of records since the last multiple of FILE_SYNC_NUM is below it,
\* and grows by one until it is zero again.
LEMMA SinceRange ==
  ASSUME NEW n \in Nat, NEW K \in Nat \ {0}
  PROVE  /\ n % K \in 0..(K - 1)
         /\ (n + 1) % K = 0 \/ (n + 1) % K = (n % K) + 1
<1> DEFINE q == n \div K
           r == n % K
           p == (n + 1) \div K
           s == (n + 1) % K
<1>1. /\ q \in Nat /\ r \in 0..(K - 1) /\ n = K * q + r
      /\ p \in Nat /\ s \in 0..(K - 1) /\ n + 1 = K * p + s
  OBVIOUS
<1> HIDE DEF q, r, p, s
<1>2. s # 0 => s = r + 1
  <2> SUFFICES ASSUME s # 0 PROVE s = r + 1
    OBVIOUS
  <2>1. p = q
    <3>1. CASE p >= q + 1
      <4>1. K * p >= K * q + K
        BY <1>1, <3>1
      <4>2. QED
        BY <1>1, <4>1
    <3>2. CASE q >= p + 1
      <4>1. K * q >= K * p + K
        BY <1>1, <3>2
      <4>2. QED
        BY <1>1, <4>1
    <3>3. QED
      BY <1>1, <3>1, <3>2
  <2>2. QED
    BY <1>1, <2>1
<1>3. QED
  BY <1>1, <1>2 DEF r, s

\* A power cut costs at most the header and one sync interval of records of
\* each file (main.c:991), for every file length and sync interval: the sync of
\* every FILE_SYNC_NUM records is not put off by a replacement, a failed
\* creation or the record of the other file, and a new file owes nothing.
THEOREM EventSyncBound == Spec => []SyncBound
<1>0. FILE_SYNC_NUM \in Nat \ {0} /\ RecToTalNum \in Nat \ {0}
  BY EventFileAssumption
<1>1. Init => SyncInv
  BY <1>0 DEF Init, SyncInv, Creation
<1>2. TypeOK /\ SyncInv /\ [Next]_vars => SyncInv'
  <2> SUFFICES ASSUME TypeOK, SyncInv, [Next]_vars PROVE SyncInv'
    OBVIOUS
  <2>a. /\ unsynced \in [File -> Nat] /\ saveNum \in Nat /\ sat \in File
        /\ Since \in 0..(FILE_SYNC_NUM - 1)
    BY <1>0, SinceRange DEF TypeOK, Since
  <2> USE <1>0, <2>a DEF SyncInv, Creation
  <2>1. CASE SaveTop
    <3>1. /\ UNCHANGED <<unsynced, sat>> /\ Since' = Since /\ spc = "top"
          /\ spc' = "rotsync" \/ (spc' = "persync" /\ Since = 0) \/ (spc' = "save" /\ Since # 0)
      BY <2>1 DEF SaveTop, Since
    <3>2. QED
      BY <3>1
  <2>2. CASE CountRecord
    <3>1. Since' = 0 \/ Since' = Since + 1
      BY <2>2, SinceRange DEF CountRecord, Since
    <3>2. UNCHANGED <<unsynced, sat>> /\ spc' = "top" /\ spc = "done"
      BY <2>2 DEF CountRecord
    <3>3. QED
      BY <3>1, <3>2
  <2>3. CASE SaverSync
    <3>1. Since' = Since
      BY <2>3 DEF SaverSync, Since
    <3>2. CASE fd[sat] = "open" /\ Synced(sat)
      <4>1. unsynced'[sat] = 0 /\ \A g \in File \ {sat} : unsynced'[g] = unsynced[g]
        BY <3>2, SyncedCovers
      <4>2. \/ spc = "rotsync" /\ spc' = "rotclose" /\ sat' = sat
            \/ spc = "persync" /\ spc' = "persync" /\ sat = "event" /\ sat' = "blvds"
            \/ spc = "persync" /\ spc' = "save" /\ sat = "blvds" /\ sat' = "event"
            \/ UNCHANGED <<spc, sat, unsynced>>
        BY <2>3, <2>a DEF SaverSync, SaverNext, File
      <4>3. QED
        BY <3>1, <4>1, <4>2 DEF File
    <3>3. CASE UNCHANGED <<spc, sat, unsynced, owed>>
      BY <3>1, <3>3
    <3>4. QED
      BY <2>3, <3>2, <3>3 DEF SaverSync
  <2>4. CASE RotClose
    BY <2>4 DEF RotClose, Since
  <2>5. CASE RotNull
    BY <2>5 DEF RotNull, SaverNext, Since, File, main
  <2>6. CASE NewDay \/ LogFclose \/ LogNull \/ LogOpen
    BY <2>6 DEF NewDay, LogFclose, LogNull, LogOpen, Since, main
  <2>7. CASE FirstOpen \/ Judge \/ OpenAgain \/ GiveUp
    <3>1. spc \in Creation /\ spc' \in Creation /\ UNCHANGED <<unsynced, saveNum>>
      BY <2>7 DEF FirstOpen, Judge, OpenAgain, GiveUp, SaverNext, main
    <3>2. spc' = "header" => sat' = "event"
      BY <2>7 DEF FirstOpen, Judge, OpenAgain, GiveUp, SaverNext
    <3>3. QED
      BY <3>1, <3>2
  <2>8. CASE WriteHeader
    <3>1. \A f \in File : unsynced'[f] <= 1 /\ unsynced'[f] \in Nat
      BY <2>8 DEF WriteHeader
    <3>2. Since' = 0 /\ spc' \in {"top", "save"} /\ sat' = "event"
      BY <2>8 DEF WriteHeader, Since
    <3>3. QED
      BY <3>1, <3>2 DEF File
  <2>9. CASE SaveRecord
    <3>1. /\ \A f \in File \ {sat} : unsynced'[f] = unsynced[f]
          /\ unsynced'[sat] \in {unsynced[sat], unsynced[sat] + 1}
          /\ Since' = Since /\ spc = "save"
          /\ \/ sat = "event" /\ spc' = "save" /\ sat' = "blvds"
             \/ sat = "blvds" /\ spc' = "done" /\ sat' = "event"
      BY <2>9 DEF SaveRecord, SaverNext, Since, File
    <3>2. QED
      BY <3>1 DEF File
  <2>10. CASE PowFsync
    <3>1. UNCHANGED <<spc, sat, saveNum>> /\ Since' = Since
      BY <2>10 DEF PowFsync, Since, saver
    <3>2. mat \in File
      BY DEF TypeOK
    <3>3. \A f \in File : unsynced'[f] = unsynced[f] \/ unsynced'[f] = 0
      BY <2>10, <3>2, SyncedCovers DEF PowFsync
    <3>4. QED
      BY <3>1, <3>3 DEF File
  <2>11. CASE UNCHANGED <<unsynced, spc, sat, saveNum>>
    BY <2>11 DEF Since
  <2>12. CASE Main
    BY <2>10, <2>11, <2>12 DEF Main, PowDownRead, PowLogSync, PowRecover, PowCheck, PowFlush, saver
  <2>13. CASE UNCHANGED vars
    BY <2>11, <2>13 DEF vars, saver
  <2>14. QED
    BY <2>1, <2>2, <2>3, <2>4, <2>5, <2>6, <2>7, <2>8, <2>9, <2>12, <2>13 DEF Next, Saver
<1>3. SyncInv => SyncBound
  BY DEF SyncInv, SyncBound
<1>4. QED
  BY <1>1, <1>2, <1>3, EventTypeOK, PTL DEF Spec
-----------------------------------------------------------------------------
\* What FileSaveThreaFunc knows of its two files, in Init and after every step
\* of either thread.
LEMMA EventTold == Spec => []TellInv
<1>1. Init => TellInv
  BY DEF Init, TellInv, Told, File
<1>2. TypeOK /\ TellInv /\ [Next]_vars => TellInv'
  <2> SUFFICES ASSUME TypeOK, TellInv, [Next]_vars PROVE TellInv'
    OBVIOUS
  <2>a. /\ fd \in [Stream -> {"null", "open", "closed"}] /\ sat \in File
        /\ saveErr \in [File -> BOOLEAN]
    BY DEF TypeOK
  <2> USE <2>a DEF TellInv, Told
  <2>1. CASE SaveTop \/ CountRecord \/ NewDay
    BY <2>1 DEF SaveTop, CountRecord, NewDay, File, main
  <2>2. CASE SaverSync
    BY <2>2 DEF SaverSync, SaverNext, File
  <2>3. CASE RotClose
    BY <2>3 DEF RotClose, File, Stream
  <2>4. CASE RotNull
    BY <2>4 DEF RotNull, SaverNext, File, Stream
  <2>5. CASE LogFclose \/ LogNull \/ LogOpen
    BY <2>5 DEF LogFclose, LogNull, LogOpen, File, Stream
  <2>6. CASE FirstOpen
    BY <2>6 DEF FirstOpen, OpenFile, SaverNext, File, Stream
  <2>7. CASE Judge
    BY <2>7 DEF Judge, SaverNext, File, Stream
  <2>8. CASE OpenAgain
    BY <2>8 DEF OpenAgain, OpenFile, SaverNext, File, Stream
  <2>9. CASE GiveUp
    BY <2>9 DEF GiveUp, SaverNext, File, Stream
  <2>10. CASE WriteHeader \/ SaveRecord
    BY <2>10 DEF WriteHeader, SaveRecord, SaverNext, main
  <2>11. CASE UNCHANGED <<fd, saver>>
    BY <2>11 DEF saver
  <2>12. CASE Main
    BY <2>11, <2>12 DEF Main, PowDownRead, PowLogSync, PowRecover, PowCheck, PowFlush, PowFsync
  <2>13. CASE UNCHANGED vars
    BY <2>11, <2>13 DEF vars
  <2>14. QED
    BY <2>1, <2>2, <2>3, <2>4, <2>5, <2>6, <2>7, <2>8, <2>9, <2>10, <2>12, <2>13
       DEF Next, Saver
<1>3. QED
  BY <1>1, <1>2, EventTypeOK, PTL DEF Spec

\* FileSaveThreaFunc ends the process only by syncing a file whose error bit is
\* set: never a file that it closed and did not create again, or whose failure
\* it did not report, whichever of the fopens fail and on whichever days.
THEOREM EventSaverDiesWarned == Spec => SaverDiesWarned
<1>1. TypeOK /\ TellInv /\ SaverSync /\ ~alive' => saveErr[sat] \/ ~alive
  <2> SUFFICES ASSUME TypeOK, TellInv, SaverSync, ~alive', alive PROVE saveErr[sat]
    OBVIOUS
  <2>1. spc \in {"persync", "rotsync"} /\ fd[sat] # "open" /\ sat \in File
    BY DEF SaverSync, TypeOK
  <2>2. QED
    BY <2>1 DEF TellInv, Told
<1>2. TypeOK /\ TellInv /\ [Next]_vars => [SaverSync /\ ~alive' => saveErr[sat]]_vars
  <2>1. Saver => alive
    BY DEF Saver
  <2>2. Main /\ SaverSync => alive
    BY DEF Main
  <2>3. QED
    BY <1>1, <2>1, <2>2 DEF Next
<1>3. QED
  BY <1>2, EventTypeOK, EventTold, PTL DEF Spec, SaverDiesWarned

\* Once the creation of the files is over, the error bits tell exactly which of
\* them do not exist, although the two retry loops share one counter.
THEOREM EventErrBitsTellMissing == Spec => []ErrBitsTellMissing
<1>1. TellInv => ErrBitsTellMissing
  BY DEF TellInv, Told, ErrBitsTellMissing
<1>2. QED
  BY <1>1, EventTold, PTL
-----------------------------------------------------------------------------
(* The error word.                                                         *)

\* The fields that are named are fields.
LEMMA ErrBitFacts == "power_err" \in Bit /\ "bram_init_err" \in Bit
  BY DEF Bit, OwnerOf

\* A turn of a thread is an assignment's beginning, load or store, or the
\* LED's reading of the word.
LEMMA ErrTurnCases ==
  ASSUME ErrTypeOK, NEW t \in Thread, Turn(t)
  PROVE  \/ \E b \in Bit, v \in BOOLEAN : Assign(t, b, v)
         \/ LoadUnit(t) \/ StoreUnit(t) \/ LedTurn
<1>1. CASE t = "main" /\ PowerJudge
  BY <1>1, ErrBitFacts DEF PowerJudge, ErrTypeOK
<1>2. CASE ReportState(t)
  BY <1>2 DEF ReportState
<1>3. CASE ReportFailure(t)
  BY <1>3 DEF ReportFailure
<1>4. QED
  BY <1>1, <1>2, <1>3 DEF Turn

\* The types hold initially.
LEMMA ErrInitType == ASSUME ErrInit PROVE ErrTypeOK
<1>1. \A b \in {"bram_init_err", "filesave_EVENT_err", "filesave_BLVDS_err"} : b \in Bit
  BY DEF Bit, OwnerOf
<1>2. told \in [Bit -> BOOLEAN] /\ over \in [Bit -> BOOLEAN]
  <2>1. told \in [Bit -> BOOLEAN]
    BY SMT DEF ErrInit
  <2>2. over \in [Bit -> BOOLEAN]
    BY Zenon DEF ErrInit
  <2>3. QED
    BY <2>1, <2>2
<1>3. pc \in [Thread -> {"idle", "load", "store", "gone"}] /\ bit \in [Thread -> Bit]
      /\ reg \in [Thread -> SUBSET Bit]
  BY ErrBitFacts DEF ErrInit
<1>4. val \in [Thread -> BOOLEAN]
  BY Zenon DEF ErrInit
<1>5. word \subseteq Bit /\ \A t \in Thread : \A b \in reg[t] : InWindow(t, UnitOf[b])
  BY <1>1 DEF ErrInit
<1>6. QED
  BY <1>2, <1>3, <1>4, <1>5 DEF ErrInit, ErrTypeOK

\* Every step keeps the types, and a thread's register to the unit it loaded.
LEMMA ErrStepType == ASSUME ErrTypeOK, [ErrNext]_errVars PROVE ErrTypeOK'
<1> USE DEF ErrTypeOK
<1>1. CASE UNCHANGED errVars
  BY <1>1 DEF errVars, InWindow
<1>2. CASE SupplyChanges
  BY <1>2 DEF SupplyChanges, InWindow
<1>3. ASSUME NEW t \in Thread, NEW b \in Bit, NEW v \in BOOLEAN, Assign(t, b, v)
      PROVE  ErrTypeOK'
  <2>1. pc' \in [Thread -> {"idle", "load", "store", "gone"}] /\ bit' \in [Thread -> Bit]
        /\ val' \in [Thread -> BOOLEAN]
    BY <1>3 DEF Assign
  <2>2. \A s \in Thread : \A c \in reg'[s] : InWindow(s, UnitOf[c])'
    BY <1>3 DEF Assign, InWindow
  <2>3. QED
    BY <1>3, <2>1, <2>2 DEF Assign
<1>4. ASSUME NEW t \in Thread, LoadUnit(t) PROVE ErrTypeOK'
  <2>1. pc' \in [Thread -> {"idle", "load", "store", "gone"}] /\ reg' \in [Thread -> SUBSET Bit]
    BY <1>4 DEF LoadUnit
  <2>2. \A s \in Thread : \A c \in reg'[s] : InWindow(s, UnitOf[c])'
    BY <1>4 DEF LoadUnit, InWindow
  <2>3. QED
    BY <1>4, <2>1, <2>2 DEF LoadUnit
<1>5. ASSUME NEW t \in Thread, StoreUnit(t) PROVE ErrTypeOK'
  <2>1. pc' \in [Thread -> {"idle", "load", "store", "gone"}]
    BY <1>5 DEF StoreUnit, AfterStore
  <2>2. word' \subseteq Bit
    <3>1. reg[t] \subseteq Bit /\ bit[t] \in Bit
      OBVIOUS
    <3>2. QED
      BY <1>5, <3>1 DEF StoreUnit
  <2>6. reg' \in [Thread -> SUBSET Bit]
    BY <1>5 DEF StoreUnit
  <2>3. told' \in [Bit -> BOOLEAN] /\ over' \in [Bit -> BOOLEAN]
    BY <1>5 DEF StoreUnit
  <2>4. \A s \in Thread : \A c \in reg'[s] : InWindow(s, UnitOf[c])'
    BY <1>5 DEF StoreUnit, InWindow
  <2>5. QED
    BY <1>5, <2>1, <2>2, <2>3, <2>4, <2>6 DEF StoreUnit
<1>6. CASE LedTurn
  BY <1>6 DEF LedTurn, InWindow
<1>7. QED
  BY <1>1, <1>2, <1>3, <1>4, <1>5, <1>6, ErrTurnCases DEF ErrNext

\* The error word is well formed, and a register holds one unit only.
THEOREM ErrWordTypeOK == ErrSpec => []ErrTypeOK
<1>1. QED
  BY ErrInitType, ErrStepType, PTL DEF ErrSpec
-----------------------------------------------------------------------------
\* The assignments under way belong to the threads that own the fields: two
\* threads never assign the same field.
OwnBit == \A t \in Thread : pc[t] \in {"load", "store"} => OwnerOf[bit[t]] = t

\* The inductive invariant: what the word shows, what the registers hold, and
\* who assigns what.
HonestInv == ErrTypeOK /\ OwnBit /\ WordHonest /\ RegHonest

\* The first two of them hold initially.
LEMMA InitHonest == ASSUME ErrInit PROVE HonestInv
<1>1. OwnBit
  BY DEF ErrInit, OwnBit
<1>2. WordHonest
  BY Zenon DEF ErrInit, WordHonest
<1>3. RegHonest
  BY DEF ErrInit, RegHonest, InWindow
<1>4. QED
  BY <1>1, <1>2, <1>3, ErrInitType DEF HonestInv

\* A thread that begins an assignment has nothing in its register yet.
LEMMA AssignHonest ==
  ASSUME HonestInv, NEW t \in Thread, NEW b \in Bit, NEW v \in BOOLEAN, Assign(t, b, v)
  PROVE  OwnBit' /\ WordHonest' /\ RegHonest'
<1> USE DEF HonestInv, ErrTypeOK, Assign
<1>1. OwnBit'
  BY DEF OwnBit
<1>2. WordHonest'
  BY DEF WordHonest
<1>3. RegHonest'
  BY DEF RegHonest, InWindow
<1>4. QED
  BY <1>1, <1>2, <1>3

\* A load makes the register agree with the word.
LEMMA LoadHonest ==
  ASSUME HonestInv, NEW t \in Thread, LoadUnit(t)
  PROVE  OwnBit' /\ WordHonest' /\ RegHonest'
<1> USE DEF HonestInv, ErrTypeOK, LoadUnit
<1>1. OwnBit'
  BY DEF OwnBit
<1>2. WordHonest'
  BY DEF WordHonest
<1>3. RegHonest'
  BY DEF RegHonest, InWindow
<1>4. QED
  BY <1>1, <1>2, <1>3

\* A store changes the field it is about.  Fields of other threads that are
\* not overlapped are written back as they are; and if no other thread was in
\* its window, no register is left with an old value of the field.
LEMMA StoreHonest ==
  ASSUME HonestInv, NEW t \in Thread, StoreUnit(t)
  PROVE  OwnBit' /\ WordHonest' /\ RegHonest'
<1> DEFINE b == bit[t]
<1> USE DEF HonestInv, ErrTypeOK
<1>1. b \in Bit /\ pc[t] = "store" /\ OwnerOf[b] = t
  BY DEF StoreUnit, OwnBit
<1>2. \A s \in Thread : s # t => pc'[s] = pc[s] /\ bit'[s] = bit[s] /\ reg'[s] = reg[s]
  BY DEF StoreUnit
<1>3. pc'[t] \notin {"load", "store"}
  BY DEF StoreUnit, AfterStore
<1>4. \A c \in Bit : c # b =>
        /\ told'[c] = told[c] /\ over'[c] = over[c]
        /\ ~over[c] => (c \in word' <=> c \in word)
  <2>1. \A c \in Bit : c # b /\ UnitOf[c] = UnitOf[b] => (c \in word' <=> c \in reg[t])
    BY DEF StoreUnit
  <2>2. \A c \in Bit : UnitOf[c] # UnitOf[b] => (c \in word' <=> c \in word)
    BY <1>1 DEF StoreUnit, InWindow
  <2>3. \A c \in Bit : c # b => told'[c] = told[c] /\ over'[c] = over[c]
    BY DEF StoreUnit
  <2>4. QED
    BY <1>1, <2>1, <2>2, <2>3 DEF RegHonest, InWindow
<1>5. told'[b] = val[t] /\ (b \in word' <=> val[t])
  <2>1. told'[b] = val[t]
    BY <1>1 DEF StoreUnit
  <2>2. b \in word' <=> val[t]
    BY <1>1 DEF StoreUnit
  <2>3. QED
    BY <2>1, <2>2
<1>6. ~over'[b] => \A s \in Thread \ {t} : ~InWindow(s, UnitOf[b])
  BY <1>1, Zenon DEF StoreUnit
<1>7. OwnBit'
  BY <1>2, <1>3 DEF OwnBit
<1>8. WordHonest'
  <2>1. ASSUME NEW c \in Bit, ~over'[c] PROVE c \in word' <=> told'[c]
    BY <1>4, <1>5, <2>1 DEF WordHonest
  <2>2. QED
    BY <2>1 DEF WordHonest
<1>9. RegHonest'
  <2>1. SUFFICES ASSUME NEW s \in Thread, NEW c \in Bit,
                        InWindow(s, UnitOf[c])', bit'[s] # c, ~over'[c]
                 PROVE  c \in reg'[s] <=> c \in word'
    BY DEF RegHonest, InWindow
  <2>2. s # t /\ InWindow(s, UnitOf[c])
    BY <1>2, <1>3, <2>1 DEF InWindow
  <2>3. c # b
    BY <1>6, <2>1, <2>2
  <2>4. QED
    BY <1>2, <1>4, <2>1, <2>2, <2>3 DEF RegHonest
<1>10. QED
  BY <1>7, <1>8, <1>9

\* Every step keeps the invariant.
LEMMA StepHonest == ASSUME HonestInv, [ErrNext]_errVars PROVE HonestInv'
<1>1. ErrTypeOK'
  BY ErrStepType DEF HonestInv
<1>2. ASSUME UNCHANGED <<word, pc, bit, reg, told, over>>
      PROVE  OwnBit' /\ WordHonest' /\ RegHonest'
  BY <1>2 DEF HonestInv, OwnBit, WordHonest, RegHonest, InWindow
<1>3. CASE UNCHANGED errVars \/ SupplyChanges \/ LedTurn
  BY <1>1, <1>2, <1>3 DEF HonestInv, errVars, SupplyChanges, LedTurn
<1>4. ASSUME NEW t \in Thread, Turn(t) PROVE HonestInv'
  <2>1. \/ \E b \in Bit, v \in BOOLEAN : Assign(t, b, v)
        \/ LoadUnit(t) \/ StoreUnit(t) \/ LedTurn
    BY <1>4, ErrTurnCases DEF HonestInv
  <2>2. QED
    BY <1>1, <1>3, <2>1, AssignHonest, LoadHonest, StoreHonest DEF HonestInv
<1>5. QED
  BY <1>3, <1>4 DEF ErrNext

\* Whatever threads run and however the fields are packed, a field of the error
\* word is wrong only if its owner's last store overlapped another thread's
\* access to the same unit.
THEOREM ErrWordHonest == ErrSpec => []WordHonest
<1>1. HonestInv => WordHonest
  BY DEF HonestInv
<1>2. QED
  BY <1>1, InitHonest, StepHonest, PTL DEF ErrSpec
-----------------------------------------------------------------------------
\* The fields of different threads lie in different storage units: so it is with byte
\* accesses for main and BlvdsThreadFunc alone, and not when LEDPthreadFunc or
\* RealWaveThreadFunc run with main, or FileSaveThreaFunc with BlvdsThreadFunc.
Separate ==
  \A b, c \in Bit :
    /\ OwnerOf[b] \in Thread /\ OwnerOf[c] \in Thread
    /\ OwnerOf[b] # OwnerOf[c]
    => UnitOf[b] # UnitOf[c]

\* Then no store overlaps another thread's access.
NeverOver == \A b \in Bit : ~over[b]

LEMMA StepNeverOver ==
  ASSUME Separate, HonestInv, NeverOver, [ErrNext]_errVars
  PROVE  NeverOver'
<1>1. CASE UNCHANGED over
  BY <1>1 DEF NeverOver
<1>2. ASSUME NEW t \in Thread, StoreUnit(t) PROVE NeverOver'
  <2>1. bit[t] \in Bit /\ OwnerOf[bit[t]] = t
    BY <1>2 DEF StoreUnit, HonestInv, OwnBit, ErrTypeOK
  <2>2. ASSUME NEW s \in Thread \ {t} PROVE ~InWindow(s, UnitOf[bit[t]])
    <3>1. SUFFICES ASSUME pc[s] = "store" PROVE UnitOf[bit[s]] # UnitOf[bit[t]]
      BY DEF InWindow
    <3>2. bit[s] \in Bit /\ OwnerOf[bit[s]] = s
      BY <3>1 DEF HonestInv, OwnBit, ErrTypeOK
    <3>3. QED
      BY <2>1, <3>2 DEF Separate
  <2>3. ~over'[bit[t]] /\ \A b \in Bit : b # bit[t] => over'[b] = over[b]
    <3>1. over \in [Bit -> BOOLEAN]
      BY DEF HonestInv, ErrTypeOK
    <3>2. over' = [over EXCEPT ![bit[t]] =
                     \E s \in Thread \ {t} : InWindow(s, UnitOf[bit[t]])]
      BY <1>2 DEF StoreUnit
    <3>3. QED
      BY <2>1, <2>2, <3>1, <3>2, Zenon
  <2>4. QED
    BY <2>3 DEF NeverOver
<1>3. [ErrNext]_errVars => UNCHANGED over \/ \E t \in Thread : StoreUnit(t)
  BY ErrTurnCases DEF HonestInv, ErrNext, errVars, SupplyChanges, Assign,
     LoadUnit, LedTurn
<1>4. QED
  BY <1>1, <1>2, <1>3

\* With the fields of the threads in units of their own, the error word is at every moment
\* what its owners last assigned: the shared unit is the only cause of a lost error.
THEOREM ErrWordSeparate ==
  ASSUME Separate
  PROVE  ErrSpec => [](word = {b \in Bit : told[b]})
<1>1. ErrInit => NeverOver
  BY Zenon DEF ErrInit, NeverOver
<1>2. HonestInv /\ NeverOver => word = {b \in Bit : told[b]}
  BY DEF HonestInv, NeverOver, WordHonest, ErrTypeOK
<1>3. QED
  BY <1>1, <1>2, InitHonest, StepHonest, StepNeverOver, PTL DEF ErrSpec

\* And the error LED goes out only when no error stands (main.c:1157), which does not hold
\* when LEDPthreadFunc shares its byte of ecu_app_err with main.
THEOREM ErrWordLed == ASSUME Separate PROVE ErrSpec => LedOffHonest
<1>1. ASSUME word = {b \in Bit : told[b]}, HonestInv, [ErrNext]_errVars,
             s_errledflag, ~s_errledflag'
      PROVE  \A b \in Bit : ~told[b]
  <2>1. LedTurn
    BY <1>1, ErrTurnCases DEF HonestInv, ErrNext, errVars, SupplyChanges, Assign,
       LoadUnit, StoreUnit
  <2>2. QED
    BY <1>1, <2>1 DEF LedTurn
<1>2. (word = {b \in Bit : told[b]}) /\ HonestInv /\ [ErrNext]_errVars
      => [(s_errledflag /\ ~s_errledflag') => \A b \in Bit : ~told[b]]_errVars
  BY <1>1
<1>3. QED
  BY <1>2, ErrWordSeparate, InitHonest, StepHonest, PTL DEF ErrSpec, LedOffHonest
=============================================================================
