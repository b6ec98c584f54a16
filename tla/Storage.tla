------------------------------ MODULE Storage -------------------------------
(***************************************************************************)
(* The directories of the record files, one for each day.  The saver       *)
(* (EventFileCreateByNum) makes the directory of a new day and, short of   *)
(* space, deletes the earliest archive or directory; the archiver          *)
(* (DirTarThreadFunc), which runs once after every start, packs every      *)
(* directory but today's and then removes it.  No lock keeps them apart.   *)
(*                                                                         *)
(* The event path and the BLVDS path are treated alike, one after the      *)
(* other: there is one path here.  How much space is left is not modelled: *)
(* each check may find too little.  statfs and opendir fail where the path *)
(* is missing, and then nothing is deleted.                                *)
(*                                                                         *)
(* The calls that may fail here: mkdir, fopen, tar, and the removal of a   *)
(* file.  An empty directory can always be removed, and what a call has    *)
(* done stays done: nothing stands between tar and the removal of what it  *)
(* packed that would bring the archive to the disk (DircMng.c:644-651), so *)
(* that a power failure shortly after could cost it.  That is left out.    *)
(***************************************************************************)
EXTENDS Naturals

CONSTANTS
  DAYS,        \* days, 1 .. DAYS; the clock does not go back
  FILES,       \* event files of a day, 1 .. FILES; the last one is then used again
  TRIES,       \* deletions of one FileSpaceProc: 10 in the code
  BOOTS        \* restarts

ASSUME StorageAssumption ==
  /\ DAYS \in Nat \ {0} /\ FILES \in Nat \ {0} /\ TRIES \in Nat /\ BOOTS \in Nat

Day == 1 .. DAYS
File == 1 .. FILES
NoDay == 0

VARIABLES
  day,         \* the date
  boots,       \* restarts so far
  dirs,        \* the days that have a directory
  tars,        \* the days that have a file: an archive, complete or not
  inDir, inTar,  \* the event files in them
  spc,         \* the saver: next statement
  today,       \* the date EventFileCreateByNum took when it began
  lastDay,     \* s_EventPowOnDataString: the last new day, or NoDay
  tries,       \* FileSpaceProc: deletions so far
  phase,       \* which check the deletion is for: FileSpaceProc's or the last one
  kind,        \* the result of FileDirJudge
  victim,      \* the directory DeleteEarliestDir removes, or NoDay
  open,        \* the day in whose directory the event file is open, or NoDay
  apc,         \* the archiver: next statement
  tarNow,      \* NowFilePah: the date DirFileTar took when it began
  seen,        \* the directories readdir has given
  cur,         \* the directory being packed or removed
  todo,        \* history: the directories there were when the archiver opened the path,
               \*          but those it removed
  failed,      \* history: the directories this run could not pack or remove
  written,     \* history: the event files of each day
  deleted,     \* history: the days of which the saver deleted something, or began to
  torn,        \* history: the days whose directory was removed in part, or packed or
               \*          removed while it was the saver's present one
  noDir        \* history: the day whose directory could not be made, or NoDay

disk == <<dirs, tars, inDir, inTar>>
saver == <<spc, today, lastDay, tries, phase, kind, victim, open, written, deleted, noDir>>
archiver == <<apc, tarNow, seen, cur, todo, failed, torn>>
vars == <<day, boots, disk, saver, archiver>>

Earliest(S) == CHOOSE d \in S : \A e \in S : d <= e

Init ==
  /\ day = 1 /\ boots = 0
  /\ dirs = {} /\ tars = {}
  /\ inDir = [d \in Day |-> {}] /\ inTar = [d \in Day |-> {}]
  /\ spc = "idle" /\ today = NoDay /\ lastDay = NoDay /\ tries = 0
  /\ phase = "space" /\ kind = "none" /\ victim = NoDay /\ open = NoDay
  /\ apc = "sleep" /\ tarNow = NoDay /\ seen = {} /\ cur = NoDay
  /\ todo = {} /\ failed = {}
  /\ written = [d \in Day |-> {}] /\ deleted = {} /\ torn = {} /\ noDir = NoDay
-----------------------------------------------------------------------------
(* The saver: EventFileCreateByNum, when the files of before are closed.   *)

\* Mutant of NewFile: the directory is made only when a day follows another.
NewFileLater ==
  /\ spc = "idle"
  /\ today' = day /\ open' = NoDay /\ tries' = 0 /\ phase' = "space"
  /\ spc' = IF lastDay # NoDay /\ lastDay < day THEN "space" ELSE "open"
  /\ lastDay' = IF lastDay = NoDay THEN day ELSE lastDay
  /\ UNCHANGED <<day, boots, disk, kind, victim, written, deleted, noDir, archiver>>

\* A new day, or the first file after the start; a day that follows another first has
\* its space made.  On the same day the directory is taken to be there.
NewFile ==
  /\ spc = "idle"
  /\ today' = day /\ open' = NoDay /\ tries' = 0 /\ phase' = "space"
  /\ spc' = IF lastDay >= day THEN "open" ELSE IF lastDay # NoDay THEN "space" ELSE "limit"
  /\ UNCHANGED <<day, boots, disk, lastDay, kind, victim, written, deleted, noDir, archiver>>

\* FileSpaceProc: while there is too little space, and at most TRIES times, one deletion.
FileSpaceProc ==
  /\ spc = "space"
  /\ \/ tries < TRIES /\ tries' = tries + 1 /\ spc' = "judge"
     \/ tries' = tries /\ spc' = "limit"
  /\ UNCHANGED <<day, boots, disk, today, lastDay, phase, kind, victim, open, written,
                 deleted, noDir, archiver>>

\* The day counts as begun, and its larger reserve is checked once.
CheckLimit ==
  /\ spc = "limit"
  /\ lastDay' = today /\ phase' = "limit"
  /\ spc' \in {"judge", "mkdir"}
  /\ UNCHANGED <<day, boots, disk, today, tries, kind, victim, open, written, deleted,
                 noDir, archiver>>

\* FileDirJudge: archives go first; of the directories one is left.
FileDirJudge ==
  /\ spc = "judge"
  /\ kind' = IF tars # {} THEN "file"
             ELSE IF \E d, e \in dirs : d # e THEN "dir" ELSE "none"
  /\ spc' = "delete"
  /\ UNCHANGED <<day, boots, disk, today, lastDay, tries, phase, victim, open, written,
                 deleted, noDir, archiver>>

AfterDelete == spc' = IF phase = "space" THEN "space" ELSE "mkdir"

\* DeleteEarliestFile, of any kind of file, an archive still being written too.
DeleteEarliestFile ==
  /\ spc = "delete" /\ kind = "file"
  /\ IF tars = {} THEN UNCHANGED <<tars, deleted>>
     ELSE tars' = tars \ {Earliest(tars)} /\ deleted' = deleted \cup {Earliest(tars)}
  /\ AfterDelete
  /\ UNCHANGED <<day, boots, dirs, inDir, inTar, today, lastDay, tries, phase, kind,
                 victim, open, written, noDir, archiver>>

\* Mutant of DeleteEarliestDir: the latest directory goes.
DeleteLatestDir ==
  /\ spc = "delete" /\ kind = "dir"
  /\ \/ /\ \E d, e \in dirs : d # e
        /\ victim' = (CHOOSE d \in dirs : \A e \in dirs : e <= d)
        /\ deleted' = deleted \cup {victim'} /\ spc' = "rm"
     \/ ~(\E d, e \in dirs : d # e) /\ UNCHANGED <<victim, deleted>> /\ AfterDelete
  /\ UNCHANGED <<day, boots, disk, today, lastDay, tries, phase, kind, open, written, noDir,
                 archiver>>

\* DeleteEarliestDir counts again, and leaves the last one.  The later one it counted may
\* be gone before the earlier is.
DeleteEarliestDir ==
  /\ spc = "delete" /\ kind = "dir"
  /\ \/ /\ \E d, e \in dirs : d # e
        /\ victim' = Earliest(dirs) /\ deleted' = deleted \cup {victim'} /\ spc' = "rm"
     \/ ~(\E d, e \in dirs : d # e) /\ UNCHANGED <<victim, deleted>> /\ AfterDelete
  /\ UNCHANGED <<day, boots, disk, today, lastDay, tries, phase, kind, open, written, noDir,
                 archiver>>

\* RemoveDirWithFile, called by the saver: the files one by one, then the empty directory;
\* files that cannot be removed stay, and the directory with them.
DeleteDirFile ==
  /\ spc = "rm"
  /\ \E f \in inDir[victim] : inDir' = [inDir EXCEPT ![victim] = @ \ {f}]
  /\ UNCHANGED <<day, boots, dirs, tars, inTar, saver, archiver>>

DeleteDirEnd ==
  /\ spc = "rm" /\ inDir[victim] = {}
  /\ dirs' = dirs \ {victim} /\ victim' = NoDay
  /\ AfterDelete
  /\ UNCHANGED <<day, boots, tars, inDir, inTar, today, lastDay, tries, phase, kind, open,
                 written, deleted, noDir, archiver>>

DeleteDirFails ==
  /\ spc = "rm" /\ inDir[victim] # {}
  /\ victim' = NoDay
  /\ AfterDelete
  /\ UNCHANGED <<day, boots, disk, today, lastDay, tries, phase, kind, open, written, deleted,
                 noDir, archiver>>

DeleteNothing ==
  /\ spc = "delete" /\ kind = "none"
  /\ AfterDelete
  /\ UNCHANGED <<day, boots, disk, today, lastDay, tries, phase, kind, victim, open,
                 written, deleted, noDir, archiver>>

\* MultiDircCreate: the result of the last mkdir is not looked at.
MultiDircCreate ==
  /\ spc = "mkdir"
  /\ \/ dirs' = dirs \cup {today} /\ UNCHANGED noDir
     \/ today \notin dirs /\ noDir' = today /\ UNCHANGED dirs
  /\ spc' = "open"
  /\ UNCHANGED <<day, boots, tars, inDir, inTar, today, lastDay, tries, phase, kind,
                 victim, open, written, deleted, archiver>>

\* Where its directory is, the event file can be opened.
OpenFile ==
  /\ spc = "open" /\ today \in dirs
  /\ \E f \in File :
       /\ \/ f \notin written[today] /\ \A g \in File : g < f => g \in written[today]
          \/ f = FILES /\ written[today] = File
       /\ inDir' = [inDir EXCEPT ![today] = @ \cup {f}]
       /\ written' = [written EXCEPT ![today] = @ \cup {f}]
  /\ open' = today
  /\ torn' = IF today = cur /\ apc \in {"tar", "remove"} THEN torn \cup {cur} ELSE torn
  /\ spc' = "idle"
  /\ UNCHANGED <<day, boots, dirs, tars, inTar, today, lastDay, tries, phase, kind, victim,
                 deleted, noDir, apc, tarNow, seen, cur, todo, failed>>

\* But all FILETRY_NUM tries of fopen may fail, with its directory or without.
OpenFails ==
  /\ spc = "open"
  /\ spc' = "idle"
  /\ UNCHANGED <<day, boots, disk, today, lastDay, tries, phase, kind, victim, open, written,
                 deleted, noDir, archiver>>

Saver ==
  \/ NewFile \/ FileSpaceProc \/ CheckLimit
  \/ FileDirJudge \/ DeleteEarliestFile \/ DeleteEarliestDir \/ DeleteDirFile
  \/ DeleteDirEnd \/ DeleteDirFails \/ DeleteNothing
  \/ MultiDircCreate \/ OpenFile \/ OpenFails
-----------------------------------------------------------------------------
(* The archiver: DirFileTar, 10 s after the start, and TarDir.             *)

DirFileTar ==
  /\ apc = "sleep"
  /\ tarNow' = day /\ todo' = dirs /\ seen' = {}
  /\ apc' = "scan"
  /\ UNCHANGED <<day, boots, disk, saver, cur, failed, torn>>

\* Mutant of TarStart: today's directory is packed too.
TarStartAny ==
  /\ apc = "scan"
  /\ \E d \in dirs \ seen :
       /\ cur' = d /\ seen' = seen \cup {d}
       /\ tars' = tars \cup {d} /\ inTar' = [inTar EXCEPT ![d] = {}]
  /\ apc' = "tar"
  /\ UNCHANGED <<day, boots, dirs, inDir, saver, tarNow, todo, failed, torn>>

\* readdir gives a directory that is still there, perhaps one made since; tar begins
\* the archive anew, over one of that name.
TarStart ==
  /\ apc = "scan"
  /\ \E d \in dirs \ (seen \cup {tarNow}) :
       /\ cur' = d /\ seen' = seen \cup {d}
       /\ tars' = tars \cup {d} /\ inTar' = [inTar EXCEPT ![d] = {}]
  /\ apc' = "tar"
  /\ UNCHANGED <<day, boots, dirs, inDir, saver, tarNow, todo, failed, torn>>

\* system() returns 0.
TarOk ==
  /\ apc = "tar" /\ cur \in dirs
  /\ inTar' = [inTar EXCEPT ![cur] = IF cur \in tars THEN inDir[cur] ELSE {}]
  /\ apc' = "remove"
  /\ UNCHANGED <<day, boots, dirs, tars, inDir, saver, tarNow, seen, cur, todo, failed, torn>>

\* Mutant of TarFails: the directory goes whatever tar returned.
TarFailsRemoves ==
  /\ apc = "tar"
  /\ apc' = "remove"
  /\ UNCHANGED <<day, boots, disk, saver, tarNow, seen, cur, todo, failed, torn>>

\* Mutant of TarFails: the loop is left.
TarFailsStops ==
  /\ apc = "tar"
  /\ apc' = "done"
  /\ failed' = failed \cup {cur}
  /\ UNCHANGED <<day, boots, disk, saver, tarNow, seen, cur, todo, torn>>

\* It does not: the directory stays, beside what there is of the archive.
TarFails ==
  /\ apc = "tar"
  /\ failed' = failed \cup {cur}
  /\ apc' = "scan"
  /\ UNCHANGED <<day, boots, disk, saver, tarNow, seen, cur, todo, torn>>

\* RemoveDirWithFile: the files one by one, then the empty directory.
RemoveFile ==
  /\ apc = "remove" /\ cur \in dirs
  /\ \E f \in inDir[cur] : inDir' = [inDir EXCEPT ![cur] = @ \ {f}]
  /\ torn' = IF cur = today THEN torn \cup {cur} ELSE torn
  /\ UNCHANGED <<day, boots, dirs, tars, inTar, saver, apc, tarNow, seen, cur, todo, failed>>

RemoveDir ==
  /\ apc = "remove"
  /\ inDir[cur] = {}
  /\ dirs' = dirs \ {cur} /\ todo' = todo \ {cur}
  /\ apc' = "scan"
  /\ UNCHANGED <<day, boots, tars, inDir, inTar, saver, tarNow, seen, cur, failed, torn>>

\* A file cannot be removed: what is left stays, and only the last result is told.
RemoveFails ==
  /\ apc = "remove" /\ inDir[cur] # {}
  /\ failed' = failed \cup {cur}
  /\ torn' = IF inDir[cur] # written[cur] THEN torn \cup {cur} ELSE torn
  /\ apc' = "scan"
  /\ UNCHANGED <<day, boots, disk, saver, tarNow, seen, cur, todo>>

\* readdir has no more: it has given every directory that was there and is there still.
TarEnd ==
  /\ apc = "scan"
  /\ todo \cap dirs \subseteq seen \cup {tarNow}
  /\ apc' = "done"
  /\ UNCHANGED <<day, boots, disk, saver, tarNow, seen, cur, todo, failed, torn>>

Archiver ==
  \/ DirFileTar \/ TarStart \/ TarOk \/ TarFails
  \/ RemoveFile \/ RemoveDir \/ RemoveFails \/ TarEnd
-----------------------------------------------------------------------------
\* A directory is torn when the power fails part way through its removal.
Boot ==
  /\ boots < BOOTS
  /\ boots' = boots + 1
  /\ spc' = "idle" /\ today' = NoDay /\ lastDay' = NoDay /\ tries' = 0
  /\ phase' = "space" /\ kind' = "none" /\ victim' = NoDay /\ open' = NoDay
  /\ noDir' = NoDay
  /\ apc' = "sleep" /\ tarNow' = NoDay /\ seen' = {} /\ cur' = NoDay
  /\ todo' = {} /\ failed' = {}
  /\ torn' = IF apc = "remove" /\ inDir[cur] # written[cur] THEN torn \cup {cur} ELSE torn
  /\ UNCHANGED <<day, disk, written, deleted>>

Midnight ==
  /\ day < DAYS
  /\ day' = day + 1
  /\ UNCHANGED <<boots, disk, saver, archiver>>

Next == Saver \/ Archiver \/ Boot \/ Midnight

Spec == Init /\ [][Next]_vars
-----------------------------------------------------------------------------
(* Properties.                                                             *)

\* Type invariant.
TypeOK ==
  /\ day \in Day /\ boots \in 0 .. BOOTS
  /\ dirs \subseteq Day /\ tars \subseteq Day
  /\ inDir \in [Day -> SUBSET File] /\ inTar \in [Day -> SUBSET File]
  /\ \A d \in Day : inDir[d] # {} => d \in dirs
  /\ spc \in {"idle", "space", "limit", "judge", "delete", "rm", "mkdir", "open"}
  /\ today \in Day \cup {NoDay} /\ lastDay \in Day \cup {NoDay} /\ tries \in 0 .. TRIES
  /\ phase \in {"space", "limit"} /\ kind \in {"file", "dir", "none"}
  /\ victim \in Day \cup {NoDay}
  /\ open \in Day \cup {NoDay} /\ noDir \in Day \cup {NoDay}
  /\ apc \in {"sleep", "scan", "tar", "remove", "done"}
  /\ tarNow \in Day \cup {NoDay} /\ seen \subseteq Day /\ cur \in Day \cup {NoDay}
  /\ todo \subseteq Day /\ failed \subseteq Day
  /\ written \in [Day -> SUBSET File] /\ deleted \subseteq Day /\ torn \subseteq Day

\* An event file once written is in its directory or in a complete archive, through
\* restarts and failed archiving (DircMng.c:649), unless the saver deleted something of
\* its day for space, or the day is torn.  A torn day loses records for good: the next
\* archiver packs what is left of the directory over the complete archive.
NothingLost ==
  \A d \in Day \ (deleted \cup torn) : \A f \in written[d] :
    \/ f \in inDir[d]
    \/ d \in tars /\ f \in inTar[d]

\* Action property: the directory the event file is open in is not removed by the
\* saver's deletions, and by the archiver only when it took another date than the saver
\* (FileSave.c:94, 360): one that runs past midnight, or a start just before it.
OpenDirKept ==
  [][open # NoDay /\ open \in dirs /\ open \notin dirs' =>
       apc = "remove" /\ cur = open /\ tarNow # open]_vars

\* Action property: a directory, or an event file in one, goes only when its day is before
\* the date the saver works for, or as an archiver that took another date removes what it
\* packed.  The saver's deletions spare its own day, though archiver and midnight change
\* what there is between the choice of a directory and the end of its removal
\* (DircMng.c:409).  Archives are not spared: DeleteEarliestFile takes any.
TodayKept ==
  [][\A d \in Day : d \in dirs \ dirs' \/ ~(inDir[d] \subseteq inDir'[d]) =>
       d < today \/ (apc = "remove" /\ cur = d /\ tarNow # d)]_vars

\* The directory of the day is missing, when the event file is to be opened in it and
\* after, only when it could not be made, which is not tried again that day
\* (FileSave.c:372), or when an archiver that took another date packed it.
DirExplained ==
  spc \in {"open", "idle"} /\ today # NoDay /\ today \notin dirs =>
    noDir = today \/ (tarNow # today /\ today \in seen)

\* When the archiver has ended, no directory of before its date is left but those it
\* could not pack or remove, whatever the saver deleted under it.
AllArchived ==
  apc = "done" => \A d \in dirs \cap todo : d < tarNow => d \in failed
=============================================================================
