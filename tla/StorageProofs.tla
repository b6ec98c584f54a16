---------------------------- MODULE StorageProofs ---------------------------
(* Proofs about Storage, for every number of days, of files of a day, of   *)
(* deletions and of restarts.                                              *)
EXTENDS Storage, WellFoundedInduction, TLAPS

\* The dates: nothing is of a day to come, and what the saver works on is of no earlier
\* day than any directory; the directory it removes is of an earlier one.
DateInv ==
  /\ dirs \subseteq 1 .. day /\ today <= day /\ lastDay <= day
  /\ spc # "idle" => today \in Day /\ dirs \subseteq 1 .. today
  /\ spc = "rm" => victim \in Day /\ victim < today /\ victim \in deleted

\* The directory in hand: it is one readdir gave, and not the archiver's present one.
CurInv ==
  /\ apc \in {"tar", "remove"} => cur \in Day /\ cur \in seen /\ cur # tarNow
  /\ apc = "sleep" => seen = {}
  /\ apc # "sleep" => /\ tarNow \in Day /\ tarNow <= day
                      /\ \A d \in dirs : d <= tarNow \/ d <= today

\* The event file is open only between two calls of the saver.
OpenInv == open # NoDay => spc = "idle"

\* The directories the archiver has dealt with are gone or have failed; one the saver
\* deleted under it is of before the saver's date and does not come back.
ArchiveInv ==
  /\ \A d \in todo \ dirs : d < today
  /\ \A d \in dirs \cap todo \cap seen : d \in failed \/ (apc \in {"tar", "remove"} /\ d = cur)
  /\ apc = "done" => dirs \cap todo \subseteq seen \cup {tarNow}

\* Why day t can be without its directory.
Explained(t) == noDir = t \/ (tarNow # t /\ t \in seen)

\* From the making of the day's directory on, the directory is there or is explained.
MissingInv ==
  /\ spc \in {"idle", "mkdir", "open"} => lastDay = today
  /\ spc \in {"judge", "delete", "rm"} /\ phase = "limit" => lastDay = today
  /\ spc = "space" => phase = "space"
  /\ spc \in {"idle", "open"} /\ lastDay # NoDay => lastDay \in dirs \/ Explained(lastDay)
  /\ DirExplained

Spared == Day \ (deleted \cup torn)

\* A directory holds all that was written of its day, but while it is being removed.
WholeInv ==
  \A d \in dirs \cap Spared : ~(apc = "remove" /\ d = cur) => inDir[d] = written[d]

\* A day that lost its directory is past, and not the one the saver works for.
GoneInv == \A d \in Spared \ dirs : written[d] # {} => d < day /\ d # today

\* The directory in hand has its archive, and is removed only once that is complete.
PackInv ==
  /\ apc = "tar" => cur \in tars \cup deleted
  /\ apc \in {"tar", "remove"} => cur < day \/ cur = today
  /\ apc = "remove" /\ cur \in Spared =>
       /\ cur \in tars /\ written[cur] \subseteq inTar[cur]
       /\ inDir[cur] # written[cur] => cur < day /\ cur # today

KeptInv == WholeInv /\ GoneInv /\ PackInv /\ NothingLost
-----------------------------------------------------------------------------
\* The earliest of a nonempty set of days is one of them.
LEMMA EarliestDay ==
  ASSUME NEW S \in SUBSET Day, S # {}
  PROVE  Earliest(S) \in S /\ \A e \in S : Earliest(S) <= e
<1>1. S \subseteq Nat
  BY DEF Day
<1>2. PICK x \in S : \A y \in S : ~(<<y, x>> \in OpToRel(<, Nat))
  BY <1>1, NatLessThanWellFounded, WFMin, Zenon
<1>3. \A y \in S : x <= y
  <2> SUFFICES ASSUME NEW y \in S PROVE x <= y
    OBVIOUS
  <2>1. x \in Nat /\ y \in Nat
    BY <1>1
  <2>2. ~(y < x)
    BY <1>2, <2>1 DEF OpToRel
  <2>3. QED
    BY <2>1, <2>2
<1>4. QED
  BY <1>3 DEF Earliest

\* The saver chooses the earliest directory, and only where there is a later one
\* (DircMng.c:409): it is of before the saver's date.
LEMMA VictimIsPast ==
  ASSUME TypeOK, DateInv, DeleteEarliestDir, spc' = "rm"
  PROVE  victim' \in dirs /\ victim' \in Day /\ victim' < today /\ victim' \in deleted'
<1>1. PICK a \in dirs, b \in dirs : a # b
  BY DEF DeleteEarliestDir, AfterDelete
<1>2. victim' = Earliest(dirs) /\ deleted' = deleted \cup {victim'}
  BY DEF DeleteEarliestDir, AfterDelete
<1>3. dirs \subseteq Day /\ dirs \subseteq Nat /\ today \in Nat /\ dirs \subseteq 1 .. today
  BY DEF TypeOK, DateInv, DeleteEarliestDir, Day
<1>4. victim' \in dirs /\ \A e \in dirs : victim' <= e
  BY <1>1, <1>2, <1>3, EarliestDay
<1>5. PICK e \in dirs : e # victim'
  BY <1>1
<1>6. victim' < e /\ e <= today
  BY <1>3, <1>4, <1>5
<1>7. victim' < today
  BY <1>3, <1>4, <1>6
<1>8. QED
  BY <1>2, <1>3, <1>4, <1>7

\* Every step keeps the types: what is deleted, packed or made is a day.
LEMMA TypesStep ==
  ASSUME TypeOK, DateInv, CurInv, [Next]_vars
  PROVE  TypeOK'
<1> USE DEF disk, saver, archiver
<1>1. CASE NewFile
  BY <1>1, StorageAssumption DEF NewFile, TypeOK
<1>2. CASE FileSpaceProc
  <2>1. tries' \in 0 .. TRIES
    BY <1>2, StorageAssumption DEF FileSpaceProc, TypeOK
  <2>2. QED
    BY <1>2, <2>1 DEF FileSpaceProc, TypeOK
<1>3. CASE CheckLimit
  BY <1>3 DEF CheckLimit, TypeOK
<1>4. CASE FileDirJudge
  BY <1>4 DEF FileDirJudge, TypeOK
<1>5. CASE DeleteEarliestFile
  <2>1. tars # {} => Earliest(tars) \in tars
    BY EarliestDay DEF TypeOK
  <2>2. tars' \subseteq Day /\ deleted' \subseteq Day
    BY <1>5, <2>1 DEF DeleteEarliestFile, TypeOK
  <2>3. QED
    BY <1>5, <2>2 DEF DeleteEarliestFile, AfterDelete, TypeOK
<1>6. CASE DeleteEarliestDir
  <2>1. CASE spc' = "rm"
    <3>1. victim' \in Day /\ deleted' \subseteq Day
      <4>1. victim' \in Day
        BY <1>6, <2>1, VictimIsPast
      <4>2. deleted' = deleted \cup {victim'}
        BY <1>6, <2>1 DEF DeleteEarliestDir, AfterDelete
      <4>3. QED
        BY <4>1, <4>2 DEF TypeOK
    <3>2. QED
      BY <1>6, <2>1, <3>1 DEF DeleteEarliestDir, TypeOK
  <2>2. CASE spc' # "rm"
    BY <1>6, <2>2 DEF DeleteEarliestDir, AfterDelete, TypeOK
  <2>3. QED
    BY <2>1, <2>2
<1>6a. CASE DeleteDirFile
  <2>1. PICK f \in inDir[victim] : inDir' = [inDir EXCEPT ![victim] = @ \ {f}]
    BY <1>6a DEF DeleteDirFile
  <2>2. /\ inDir' \in [Day -> SUBSET File] /\ \A d \in Day : inDir'[d] # {} => d \in dirs
    BY <1>6a, <2>1 DEF DeleteDirFile, DateInv, TypeOK
  <2>3. QED
    BY <1>6a, <2>2 DEF DeleteDirFile, TypeOK
<1>6b. CASE DeleteDirEnd \/ DeleteDirFails
  BY <1>6b DEF DeleteDirEnd, DeleteDirFails, AfterDelete, TypeOK
<1>7. CASE DeleteNothing
  BY <1>7 DEF DeleteNothing, AfterDelete, TypeOK
<1>8. CASE MultiDircCreate
  BY <1>8 DEF MultiDircCreate, TypeOK, DateInv
<1>9. CASE OpenFile
  <2>1. PICK f \in File : /\ inDir' = [inDir EXCEPT ![today] = @ \cup {f}]
                          /\ written' = [written EXCEPT ![today] = @ \cup {f}]
    BY <1>9 DEF OpenFile
  <2>2. /\ inDir' \in [Day -> SUBSET File] /\ written' \in [Day -> SUBSET File]
        /\ \A d \in Day : inDir'[d] # {} => d \in dirs
    BY <1>9, <2>1 DEF OpenFile, TypeOK
  <2>3. torn' \subseteq Day /\ open' \in Day
    BY <1>9 DEF OpenFile, TypeOK
  <2>4. QED
    BY <1>9, <2>2, <2>3 DEF OpenFile, TypeOK
<1>9a. CASE OpenFails
  BY <1>9a DEF OpenFails, TypeOK
<1>10. CASE DirFileTar
  BY <1>10 DEF DirFileTar, TypeOK
<1>11. CASE TarStart
  <2>1. PICK d \in dirs \ (seen \cup {tarNow}) :
          /\ cur' = d /\ seen' = seen \cup {d}
          /\ tars' = tars \cup {d} /\ inTar' = [inTar EXCEPT ![d] = {}]
    BY <1>11 DEF TarStart
  <2>2. /\ cur' \in Day /\ seen' \subseteq Day /\ tars' \subseteq Day
        /\ inTar' \in [Day -> SUBSET File]
    BY <2>1 DEF TypeOK
  <2>3. QED
    BY <1>11, <2>2 DEF TarStart, TypeOK
<1>12. CASE TarOk
  <2>1. inTar' \in [Day -> SUBSET File]
    BY <1>12 DEF TarOk, TypeOK
  <2>2. QED
    BY <1>12, <2>1 DEF TarOk, TypeOK
<1>13. CASE TarFails
  BY <1>13 DEF TarFails, TypeOK, CurInv
<1>14. CASE RemoveFile
  <2>1. PICK f \in inDir[cur] : inDir' = [inDir EXCEPT ![cur] = @ \ {f}]
    BY <1>14 DEF RemoveFile
  <2>2. /\ inDir' \in [Day -> SUBSET File] /\ \A d \in Day : inDir'[d] # {} => d \in dirs
    BY <1>14, <2>1 DEF RemoveFile, TypeOK
  <2>3. torn' \subseteq Day
    BY <1>14 DEF RemoveFile, TypeOK
  <2>4. QED
    BY <1>14, <2>2, <2>3 DEF RemoveFile, TypeOK
<1>15. CASE RemoveDir
  BY <1>15 DEF RemoveDir, TypeOK
<1>16. CASE RemoveFails
  BY <1>16 DEF RemoveFails, TypeOK, CurInv
<1>17. CASE TarEnd
  BY <1>17 DEF TarEnd, TypeOK
<1>18. CASE Boot
  <2>1. boots' \in 0 .. BOOTS
    BY <1>18, StorageAssumption DEF Boot, TypeOK
  <2>2. torn' \subseteq Day
    BY <1>18 DEF Boot, TypeOK, CurInv
  <2>3. tries' \in 0 .. TRIES
    BY <1>18, StorageAssumption DEF Boot
  <2>4. QED
    BY <1>18, <2>1, <2>2, <2>3 DEF Boot, TypeOK
<1>19. CASE Midnight
  <2>1. day' \in Day
    BY <1>19, StorageAssumption DEF Midnight, TypeOK, Day
  <2>2. QED
    BY <1>19, <2>1 DEF Midnight, TypeOK
<1>20. CASE UNCHANGED vars
  BY <1>20 DEF vars, TypeOK
<1>21. QED
  BY <1>1, <1>2, <1>3, <1>4, <1>5, <1>6, <1>7, <1>8, <1>9, <1>10, <1>11, <1>12, <1>13, <1>14,
     <1>15, <1>16, <1>17, <1>18, <1>19, <1>20, <1>6a, <1>6b, <1>9a DEF Next, Saver, Archiver

\* Every step keeps the dates in their order: the clock does not go back, and the saver's
\* date is taken from it when its call begins.
LEMMA DatesStep ==
  ASSUME TypeOK, DateInv, [Next]_vars
  PROVE  DateInv'
<1> USE DEF disk, saver, archiver
<1>t. /\ day \in Day /\ DAYS \in Nat \ {0} /\ today \in Day \cup {0} /\ lastDay \in Day \cup {0}
      /\ \A d \in Day : d \in Nat /\ d >= 1
      /\ dirs \subseteq Day
  BY StorageAssumption DEF TypeOK, Day, NoDay
<1>1. CASE NewFile
  <2>1. today' = day /\ dirs' = dirs /\ day' = day /\ lastDay' = lastDay /\ spc' # "rm"
    BY <1>1 DEF NewFile
  <2>2. QED
    BY <1>t, <2>1 DEF DateInv
<1>2. CASE CheckLimit
  BY <1>2 DEF CheckLimit, DateInv
<1>3. CASE MultiDircCreate
  <2>1. /\ today \in Day /\ dirs' \subseteq dirs \cup {today} /\ today' = today
        /\ lastDay' = lastDay /\ day' = day /\ spc' # "rm"
    BY <1>3 DEF MultiDircCreate, DateInv
  <2>2. dirs' \subseteq 1 .. today /\ today <= day
    BY <1>3, <1>t, <2>1 DEF MultiDircCreate, DateInv
  <2>3. dirs' \subseteq 1 .. day
    BY <1>t, <2>1, <2>2
  <2>4. QED
    BY <2>1, <2>2, <2>3 DEF DateInv
<1>4. CASE Boot
  <2>1. 0 <= day
    BY <1>t
  <2>2. QED
    BY <1>4, <2>1 DEF Boot, DateInv, NoDay
<1>5. CASE Midnight
  <2>1. day' = day + 1 /\ UNCHANGED <<dirs, today, lastDay, spc, victim, deleted>>
    BY <1>5 DEF Midnight
  <2>2. dirs' \subseteq 1 .. day' /\ today' <= day' /\ lastDay' <= day'
    BY <1>t, <2>1 DEF DateInv, Day
  <2>3. QED
    BY <2>1, <2>2 DEF DateInv
<1>6. CASE /\ dirs' \subseteq dirs /\ UNCHANGED <<day, today, lastDay>>
           /\ spc' # "idle" => spc # "idle"
           /\ spc' = "rm" => spc = "rm" /\ UNCHANGED <<victim, deleted>>
  BY <1>6 DEF DateInv
<1>6a. CASE DeleteEarliestDir
  <2>1. /\ UNCHANGED <<dirs, day, today, lastDay>>
        /\ spc = "delete"
    BY <1>6a DEF DeleteEarliestDir
  <2>2. QED
    BY <1>6a, <2>1, VictimIsPast DEF DateInv
<1>7. ASSUME ~NewFile, ~CheckLimit, ~MultiDircCreate, ~Boot, ~Midnight, ~DeleteEarliestDir
      PROVE  /\ dirs' \subseteq dirs /\ UNCHANGED <<day, today, lastDay>>
             /\ spc' # "idle" => spc # "idle"
             /\ spc' = "rm" => spc = "rm" /\ UNCHANGED <<victim, deleted>>
  <2>1. CASE FileSpaceProc \/ FileDirJudge \/ DeleteEarliestFile \/ DeleteDirFile
             \/ DeleteDirEnd \/ DeleteDirFails \/ DeleteNothing
    BY <2>1 DEF FileSpaceProc, FileDirJudge, DeleteEarliestFile, DeleteDirFile, DeleteDirEnd,
                DeleteDirFails, DeleteNothing, AfterDelete
  <2>2. CASE OpenFile \/ OpenFails
    BY <2>2 DEF OpenFile, OpenFails
  <2>3. CASE Archiver \/ UNCHANGED vars
    BY <2>3 DEF Archiver, DirFileTar, TarStart, TarOk, TarFails, RemoveFile, RemoveDir,
                RemoveFails, TarEnd, vars
  <2>4. QED
    BY <1>7, <2>1, <2>2, <2>3 DEF Next, Saver
<1>8. QED
  BY <1>1, <1>2, <1>3, <1>4, <1>5, <1>6, <1>7, <1>6a

\* Every step keeps what is known of the directory in hand.
LEMMA CurStep ==
  ASSUME TypeOK, DateInv, CurInv, [Next]_vars
  PROVE  CurInv'
<1> USE DEF disk, saver, archiver
<1>t. /\ day \in Day /\ DAYS \in Nat \ {0} /\ today \in Day \cup {0} /\ today <= day
      /\ \A d \in Day : d \in Nat /\ d >= 1
      /\ dirs \subseteq 1 .. day /\ dirs \subseteq Day
  BY StorageAssumption DEF TypeOK, DateInv, Day, NoDay
<1>1. CASE DirFileTar
  <2>1. tarNow' = day /\ apc' = "scan" /\ dirs' = dirs /\ day' = day
    BY <1>1 DEF DirFileTar
  <2>2. \A d \in dirs' : d <= tarNow'
    BY <1>t, <2>1
  <2>3. QED
    BY <1>t, <2>1, <2>2 DEF CurInv
<1>2. CASE TarStart
  <2>1. PICK d \in dirs \ (seen \cup {tarNow}) : cur' = d /\ seen' = seen \cup {d}
    BY <1>2 DEF TarStart
  <2>2. cur' \in Day /\ cur' \in seen' /\ cur' # tarNow'
    BY <1>2, <1>t, <2>1 DEF TarStart
  <2>3. QED
    BY <1>2, <2>2 DEF TarStart, CurInv
<1>3. CASE Boot
  BY <1>3 DEF Boot, CurInv
<1>4. CASE TarOk \/ TarFails \/ RemoveFile \/ RemoveDir \/ RemoveFails \/ TarEnd
  <2>1. /\ dirs' \subseteq dirs /\ UNCHANGED <<day, today, tarNow, seen, cur>>
        /\ apc' # "sleep" /\ apc # "sleep"
        /\ apc' \in {"tar", "remove"} => apc \in {"tar", "remove"}
    BY <1>4 DEF TarOk, TarFails, RemoveFile, RemoveDir, RemoveFails, TarEnd
  <2>2. QED
    BY <2>1 DEF CurInv
<1>5. CASE NewFile
  <2>1. today' = day /\ UNCHANGED <<day, dirs, apc, tarNow, seen, cur>>
    BY <1>5 DEF NewFile
  <2>2. \A d \in dirs' : d <= today'
    BY <1>t, <2>1
  <2>3. QED
    BY <2>1, <2>2 DEF CurInv
<1>6. CASE MultiDircCreate
  <2>1. dirs' \subseteq dirs \cup {today} /\ UNCHANGED <<day, today, apc, tarNow, seen, cur>>
    BY <1>6 DEF MultiDircCreate
  <2>2. today <= today
    BY <1>t DEF Day
  <2>3. QED
    BY <2>1, <2>2 DEF CurInv
<1>7. CASE Midnight
  <2>1. day' = day + 1 /\ UNCHANGED <<dirs, today, apc, tarNow, seen, cur>>
    BY <1>7 DEF Midnight
  <2>2. tarNow \in Day /\ tarNow <= day => tarNow <= day + 1
    BY <1>t
  <2>3. QED
    BY <2>1, <2>2 DEF CurInv
<1>8. CASE dirs' \subseteq dirs /\ UNCHANGED <<day, today, apc, tarNow, seen, cur>>
  BY <1>8 DEF CurInv
<1>9. ASSUME \/ FileSpaceProc \/ CheckLimit \/ FileDirJudge \/ DeleteEarliestFile
             \/ DeleteEarliestDir \/ DeleteDirFile \/ DeleteDirEnd \/ DeleteDirFails
             \/ DeleteNothing \/ OpenFile \/ OpenFails \/ UNCHANGED vars
      PROVE  dirs' \subseteq dirs /\ UNCHANGED <<day, today, apc, tarNow, seen, cur>>
  BY <1>9 DEF FileSpaceProc, CheckLimit, FileDirJudge, DeleteEarliestFile, DeleteEarliestDir,
              DeleteDirFile, DeleteDirEnd, DeleteDirFails, DeleteNothing, OpenFile, OpenFails, vars
<1>10. QED
  BY <1>1, <1>2, <1>3, <1>4, <1>5, <1>6, <1>7, <1>8, <1>9 DEF Next, Saver, Archiver

\* The three together are inductive.
LEMMA TypesAndDates == Spec => [](TypeOK /\ DateInv /\ CurInv)
<1>1. Init => TypeOK /\ DateInv /\ CurInv
  <2> SUFFICES ASSUME Init PROVE TypeOK /\ DateInv /\ CurInv
    OBVIOUS
  <2>1. 1 \in Day /\ 0 <= 1 /\ 0 \in 0 .. TRIES /\ 0 \in 0 .. BOOTS
    BY StorageAssumption DEF Day
  <2>2. /\ inDir \in [Day -> SUBSET File] /\ inTar \in [Day -> SUBSET File]
        /\ written \in [Day -> SUBSET File] /\ \A d \in Day : inDir[d] = {}
    BY DEF Init
  <2>3. TypeOK
    BY <2>1, <2>2 DEF Init, TypeOK, NoDay
  <2>4. QED
    BY <2>1, <2>3 DEF Init, DateInv, CurInv, NoDay
<1>2. TypeOK /\ DateInv /\ CurInv /\ [Next]_vars => (TypeOK /\ DateInv /\ CurInv)'
  BY TypesStep, DatesStep, CurStep
<1>3. QED
  BY <1>1, <1>2, PTL DEF Spec

\* Every variable keeps its type: what the saver and the archiver make, pack and delete
\* are days, whatever they do between each other's steps.
THEOREM StorageTypeOK == Spec => []TypeOK
  BY TypesAndDates, PTL
-----------------------------------------------------------------------------
\* The steps that take a directory away, or a file in one.
LEMMA DirsGoBy ==
  ASSUME [Next]_vars
  PROVE  \/ dirs \subseteq dirs' /\ (UNCHANGED inDir \/ OpenFile)
         \/ DeleteDirFile \/ DeleteDirEnd \/ RemoveFile \/ RemoveDir
BY DEF Next, Saver, Archiver, NewFile, FileSpaceProc, CheckLimit, FileDirJudge,
       DeleteEarliestFile, DeleteEarliestDir, DeleteDirFails, DeleteNothing, MultiDircCreate,
       OpenFile, OpenFails, DirFileTar, TarStart, TarOk, TarFails, RemoveFails, TarEnd, Boot,
       Midnight, vars, disk

\* The saver makes space at the expense of the days before its own (DircMng.c:409), whatever
\* the archiver and midnight do between its choice of a directory and the end of the
\* removal; and the archiver takes no directory of its own date.
THEOREM StorageTodayKept == Spec => TodayKept
<1>1. TypeOK /\ DateInv /\ CurInv /\ [Next]_vars =>
        \A d \in Day : d \in dirs \ dirs' \/ ~(inDir[d] \subseteq inDir'[d]) =>
          d < today \/ (apc = "remove" /\ cur = d /\ tarNow # d)
  <2> SUFFICES ASSUME TypeOK, DateInv, CurInv, [Next]_vars, NEW d \in Day,
                      d \in dirs \ dirs' \/ ~(inDir[d] \subseteq inDir'[d])
               PROVE  d < today \/ (apc = "remove" /\ cur = d /\ tarNow # d)
    OBVIOUS
  <2>1. CASE OpenFile
    BY <2>1 DEF OpenFile, TypeOK
  <2>2. CASE DeleteDirFile \/ DeleteDirEnd
    <3>1. spc = "rm" /\ victim \in Day /\ victim < today
      BY <2>2 DEF DeleteDirFile, DeleteDirEnd, DateInv
    <3>2. d = victim
      BY <2>2, <3>1 DEF DeleteDirFile, DeleteDirEnd, TypeOK
    <3>3. QED
      BY <3>1, <3>2
  <2>3. CASE RemoveFile \/ RemoveDir
    <3>1. apc = "remove" /\ cur \in Day /\ cur # tarNow
      BY <2>3 DEF RemoveFile, RemoveDir, CurInv
    <3>2. d = cur
      BY <2>3, <3>1 DEF RemoveFile, RemoveDir, TypeOK
    <3>3. QED
      BY <3>1, <3>2
  <2>4. QED
    BY <2>1, <2>2, <2>3, DirsGoBy
<1>2. QED
  BY <1>1, TypesAndDates, PTL DEF Spec, TodayKept

\* The directory the event file is open in goes only by an archiver that took another
\* date than the saver (FileSave.c:94, 360): the saver deletes only with its file closed.
THEOREM StorageOpenDirKept == Spec => OpenDirKept
<1>1. Init => OpenInv
  BY DEF Init, OpenInv
<1>2. OpenInv /\ [Next]_vars => OpenInv'
  BY DEF OpenInv, Next, Saver, Archiver, NewFile, FileSpaceProc, CheckLimit, FileDirJudge,
         DeleteEarliestFile, DeleteEarliestDir, DeleteDirFile, DeleteDirEnd, DeleteDirFails,
         DeleteNothing, AfterDelete, MultiDircCreate, OpenFile, OpenFails, DirFileTar, TarStart,
         TarOk, TarFails, RemoveFile, RemoveDir, RemoveFails, TarEnd, Boot, Midnight, vars, saver
<1>3. TypeOK /\ CurInv /\ OpenInv /\ [Next]_vars =>
        (open # NoDay /\ open \in dirs /\ open \notin dirs' =>
           apc = "remove" /\ cur = open /\ tarNow # open)
  <2> SUFFICES ASSUME CurInv, OpenInv, [Next]_vars, open # NoDay, open \in dirs,
                      open \notin dirs'
               PROVE  apc = "remove" /\ cur = open /\ tarNow # open
    OBVIOUS
  <2>1. ~DeleteDirEnd
    BY DEF OpenInv, DeleteDirEnd
  <2>2. RemoveDir
    BY <2>1, DirsGoBy DEF DeleteDirFile, RemoveFile
  <2>3. QED
    BY <2>2 DEF RemoveDir, CurInv
<1>4. QED
  BY <1>1, <1>2, <1>3, TypesAndDates, PTL DEF Spec, OpenDirKept

\* When the archiver has ended, no directory of before its date is left but those it could
\* not pack or remove (DircMng.c:649), whatever the saver deleted under it: what the saver
\* deletes is of before its date, and so is never made again.
THEOREM StorageAllArchived == Spec => []AllArchived
<1>1. Init => ArchiveInv
  BY DEF Init, ArchiveInv
<1>2. TypeOK /\ DateInv /\ CurInv /\ ArchiveInv /\ [Next]_vars => ArchiveInv'
  <2> SUFFICES ASSUME TypeOK, DateInv, CurInv, ArchiveInv, [Next]_vars PROVE ArchiveInv'
    OBVIOUS
  <2> USE DEF disk, saver, archiver
  <2>1. CASE DirFileTar
    BY <2>1 DEF DirFileTar, ArchiveInv
  <2>2. CASE TarStart
    BY <2>2 DEF TarStart, ArchiveInv
  <2>3. CASE TarOk \/ RemoveFile
    BY <2>3 DEF TarOk, RemoveFile, ArchiveInv
  <2>4. CASE TarFails \/ RemoveFails
    BY <2>4 DEF TarFails, RemoveFails, ArchiveInv
  <2>5. CASE RemoveDir
    BY <2>5 DEF RemoveDir, ArchiveInv
  <2>6. CASE TarEnd
    BY <2>6 DEF TarEnd, ArchiveInv
  <2>7. CASE Boot
    BY <2>7 DEF Boot, ArchiveInv
  <2>8. CASE DeleteDirEnd
    <3>1. /\ UNCHANGED <<today, todo, seen, failed, cur, apc, tarNow>>
          /\ dirs' = dirs \ {victim} /\ victim < today
      BY <2>8 DEF DeleteDirEnd, DateInv
    <3>2. QED
      BY <3>1 DEF ArchiveInv
  <2>9. CASE MultiDircCreate
    <3>1. UNCHANGED <<today, todo, seen, failed, cur, apc, tarNow>>
          /\ dirs \subseteq dirs' /\ dirs' \subseteq dirs \cup {today} /\ today \in Day
      BY <2>9 DEF MultiDircCreate, DateInv
    <3>2. dirs' \cap todo \subseteq dirs \cap todo
      <4>1. ~(today < today)
        BY <3>1 DEF Day
      <4>2. QED
        BY <3>1, <4>1 DEF ArchiveInv
    <3>3. QED
      BY <3>1, <3>2 DEF ArchiveInv
  <2>10. CASE NewFile
    <3>1. today' = day /\ UNCHANGED <<dirs, todo, seen, failed, cur, apc, tarNow>>
      BY <2>10 DEF NewFile
    <3>2. \A d \in todo \ dirs : d < day
      BY DEF ArchiveInv, DateInv, TypeOK, Day, NoDay
    <3>3. QED
      BY <3>1, <3>2 DEF ArchiveInv
  <2>11. CASE UNCHANGED <<dirs, today, todo, seen, failed, cur, apc, tarNow>>
    BY <2>11 DEF ArchiveInv
  <2>12. ASSUME \/ FileSpaceProc \/ CheckLimit \/ FileDirJudge \/ DeleteEarliestFile
                \/ DeleteEarliestDir \/ DeleteDirFile \/ DeleteDirFails \/ DeleteNothing
                \/ OpenFile \/ OpenFails \/ Midnight \/ UNCHANGED vars
         PROVE  UNCHANGED <<dirs, today, todo, seen, failed, cur, apc, tarNow>>
    BY <2>12 DEF FileSpaceProc, CheckLimit, FileDirJudge, DeleteEarliestFile,
                 DeleteEarliestDir, DeleteDirFile, DeleteDirFails, DeleteNothing, OpenFile,
                 OpenFails, Midnight, vars
  <2>13. QED
    BY <2>1, <2>2, <2>3, <2>4, <2>5, <2>6, <2>7, <2>8, <2>9, <2>10, <2>11, <2>12
    DEF Next, Saver, Archiver
<1>3. TypeOK /\ CurInv /\ ArchiveInv => AllArchived
  BY DEF TypeOK, CurInv, ArchiveInv, AllArchived, Day
<1>4. QED
  BY <1>1, <1>2, <1>3, TypesAndDates, PTL DEF Spec

\* The directory of the day is missing, when the event file is to be opened in it and
\* after, only when it could not be made, which is not tried again that day
\* (FileSave.c:372), or when an archiver that took another date packed it: the one time
\* the directory is made is at the first file of a day.
THEOREM StorageDirExplained == Spec => []DirExplained
<1>1. Init => MissingInv
  BY DEF Init, MissingInv, DirExplained
<1>2. TypeOK /\ DateInv /\ CurInv /\ MissingInv /\ [Next]_vars => MissingInv'
  <2> SUFFICES ASSUME TypeOK, DateInv, CurInv, MissingInv, [Next]_vars PROVE MissingInv'
    OBVIOUS
  <2> USE DEF disk, saver, archiver
  <2>t. /\ day \in Nat /\ lastDay \in Nat /\ today \in Nat
        /\ lastDay <= day /\ today <= day
    BY DEF TypeOK, DateInv, Day, NoDay
  <2>1. CASE NewFile
    <3>1. lastDay >= day => lastDay = day
      BY <2>t
    <3>2. /\ today' = day /\ spc' \in {"open", "space", "limit"} /\ phase' = "space"
          /\ spc' = "open" => lastDay = day
      BY <2>1, <3>1 DEF NewFile
    <3>3. UNCHANGED <<dirs, lastDay, noDir, tarNow, seen>> /\ spc = "idle"
      BY <2>1 DEF NewFile
    <3>4. QED
      BY <3>2, <3>3 DEF MissingInv, DirExplained, Explained
  <2>2. CASE CheckLimit
    BY <2>2 DEF CheckLimit, MissingInv, DirExplained
  <2>3. CASE FileSpaceProc \/ FileDirJudge
    BY <2>3 DEF FileSpaceProc, FileDirJudge, MissingInv, DirExplained
  <2>4. CASE DeleteEarliestFile \/ DeleteEarliestDir \/ DeleteDirFile \/ DeleteDirEnd
             \/ DeleteDirFails \/ DeleteNothing
    <3>1. /\ spc \in {"delete", "rm"} /\ UNCHANGED <<lastDay, today, phase>>
          /\ spc' \in {IF phase = "space" THEN "space" ELSE "mkdir", "rm"}
      BY <2>4 DEF DeleteEarliestFile, DeleteEarliestDir, DeleteDirFile, DeleteDirEnd,
                  DeleteDirFails, DeleteNothing, AfterDelete
    <3>2. phase \in {"space", "limit"}
      BY DEF TypeOK
    <3>3. QED
      BY <3>1, <3>2 DEF MissingInv, DirExplained
  <2>5. CASE MultiDircCreate
    <3>1. lastDay = today /\ spc' = "open" /\ UNCHANGED <<lastDay, today>>
          /\ (today \in dirs' \/ noDir' = today)
      BY <2>5 DEF MultiDircCreate, MissingInv
    <3>2. QED
      BY <3>1 DEF MissingInv, DirExplained, Explained
  <2>6. CASE OpenFile \/ OpenFails
    <3>1. /\ spc = "open" /\ spc' = "idle" /\ lastDay = today
          /\ UNCHANGED <<dirs, lastDay, today, noDir, tarNow, seen>>
      BY <2>6 DEF OpenFile, OpenFails, MissingInv
    <3>2. QED
      BY <3>1 DEF MissingInv, DirExplained, Explained
  <2>7. CASE DirFileTar
    <3>1. seen = {} /\ seen' = {}
      BY <2>7 DEF DirFileTar, CurInv
    <3>2. UNCHANGED <<spc, phase, lastDay, today, noDir, dirs>>
      BY <2>7 DEF DirFileTar
    <3>3. QED
      BY <3>1, <3>2 DEF MissingInv, DirExplained, Explained
  <2>8. CASE TarStart
    <3>1. seen \subseteq seen'
      BY <2>8 DEF TarStart
    <3>2. UNCHANGED <<spc, phase, lastDay, today, noDir, dirs, tarNow>>
      BY <2>8 DEF TarStart
    <3>3. QED
      BY <3>1, <3>2 DEF MissingInv, DirExplained, Explained
  <2>9. CASE RemoveDir
    <3>1. dirs' = dirs \ {cur} /\ Explained(cur)
      BY <2>9 DEF RemoveDir, CurInv, Explained
    <3>2. UNCHANGED <<spc, phase, lastDay, today, noDir, tarNow, seen>>
      BY <2>9 DEF RemoveDir
    <3>3. QED
      BY <3>1, <3>2 DEF MissingInv, DirExplained, Explained
  <2>10. CASE Boot
    BY <2>10 DEF Boot, MissingInv, DirExplained
  <2>11. CASE UNCHANGED <<spc, phase, lastDay, today, noDir, dirs, tarNow, seen>>
    BY <2>11 DEF MissingInv, DirExplained, Explained
  <2>12. ASSUME \/ TarOk \/ TarFails \/ RemoveFile \/ RemoveFails \/ TarEnd \/ Midnight
                \/ UNCHANGED vars
         PROVE  UNCHANGED <<spc, phase, lastDay, today, noDir, dirs, tarNow, seen>>
    BY <2>12 DEF TarOk, TarFails, RemoveFile, RemoveFails, TarEnd, Midnight, vars
  <2>13. QED
    BY <2>1, <2>2, <2>3, <2>4, <2>5, <2>6, <2>7, <2>8, <2>9, <2>10, <2>11, <2>12
    DEF Next, Saver, Archiver
<1>3. MissingInv => DirExplained
  BY DEF MissingInv
<1>4. QED
  BY <1>1, <1>2, <1>3, TypesAndDates, PTL DEF Spec
-----------------------------------------------------------------------------
\* NothingLost.  Its induction goes through KeptInv, whose parts say what a directory, a
\* missing directory and an archive hold; each step is taken part by part.

\* The saver's deletions take a day out of those that are spared.
LEMMA KeptByDeletion ==
  ASSUME TypeOK, DateInv, CurInv, KeptInv,
         DeleteEarliestFile \/ DeleteEarliestDir \/ DeleteDirFile \/ DeleteDirEnd
  PROVE  KeptInv'
<1> USE DEF KeptInv
<1>1. CASE DeleteEarliestFile \/ DeleteEarliestDir
  <2>1. /\ UNCHANGED <<day, dirs, inDir, inTar, written, torn, today, apc, cur>>
        /\ deleted \subseteq deleted' /\ tars \ tars' \subseteq deleted' /\ tars' \subseteq tars
    BY <1>1 DEF DeleteEarliestFile, DeleteEarliestDir, disk, archiver
  <2>2. WholeInv' /\ GoneInv'
    BY <2>1 DEF WholeInv, GoneInv, Spared
  <2>3. PackInv'
    BY <2>1 DEF PackInv, Spared
  <2>4. NothingLost'
    BY <2>1 DEF NothingLost
  <2>5. QED
    BY <2>2, <2>3, <2>4
<1>2. CASE DeleteDirFile \/ DeleteDirEnd
  <2>1. /\ UNCHANGED <<day, tars, inTar, written, torn, deleted, today, apc, cur>>
        /\ victim \in Day /\ victim \in deleted
    BY <1>2 DEF DeleteDirFile, DeleteDirEnd, DateInv, saver, archiver
  <2>2. \A d \in Day \ {victim} : inDir'[d] = inDir[d] /\ (d \in dirs' <=> d \in dirs)
    BY <1>2 DEF DeleteDirFile, DeleteDirEnd, TypeOK
  <2>3. dirs' \subseteq dirs
    BY <1>2 DEF DeleteDirFile, DeleteDirEnd
  <2>4. WholeInv'
    BY <2>1, <2>2, <2>3 DEF WholeInv, Spared
  <2>5. GoneInv' /\ NothingLost'
    BY <2>1, <2>2 DEF GoneInv, NothingLost, Spared
  <2>6. PackInv'
    BY <2>1, <2>2 DEF PackInv, Spared
  <2>7. QED
    BY <2>4, <2>5, <2>6
<1>3. QED
  BY <1>1, <1>2

\* A directory is made only where nothing of its day was written and then lost.
LEMMA KeptByMkdir ==
  ASSUME TypeOK, DateInv, KeptInv, MultiDircCreate
  PROVE  KeptInv'
<1>1. /\ UNCHANGED <<day, tars, inDir, inTar, written, torn, deleted, today, apc, cur>>
      /\ dirs \subseteq dirs' /\ dirs' \subseteq dirs \cup {today}
  BY DEF MultiDircCreate, archiver
<1>2. today \in Spared \ dirs => inDir[today] = {} /\ written[today] = {}
  BY DEF TypeOK, KeptInv, GoneInv, Spared
<1>3. WholeInv'
  BY <1>1, <1>2 DEF KeptInv, WholeInv, Spared
<1>4. GoneInv' /\ PackInv' /\ NothingLost'
  BY <1>1 DEF KeptInv, GoneInv, PackInv, NothingLost, Spared
<1>5. QED
  BY <1>3, <1>4 DEF KeptInv

\* An event file made in the directory the archiver has in hand tears the day.
LEMMA KeptByOpen ==
  ASSUME TypeOK, DateInv, KeptInv, OpenFile
  PROVE  KeptInv'
<1>1. /\ UNCHANGED <<day, dirs, tars, inTar, deleted, today, apc, cur>>
      /\ torn \subseteq torn'
      /\ today = cur /\ apc \in {"tar", "remove"} => today \in torn'
  BY DEF OpenFile
<1>2. PICK f \in File : /\ inDir' = [inDir EXCEPT ![today] = @ \cup {f}]
                        /\ written' = [written EXCEPT ![today] = @ \cup {f}]
  BY DEF OpenFile
<1>3. /\ today \in dirs /\ today \in Day
      /\ inDir'[today] = inDir[today] \cup {f} /\ written'[today] = written[today] \cup {f}
      /\ \A d \in Day \ {today} : inDir'[d] = inDir[d] /\ written'[d] = written[d]
  BY <1>2 DEF OpenFile, TypeOK
<1>4. WholeInv'
  BY <1>1, <1>3 DEF KeptInv, WholeInv, Spared
<1>5. GoneInv'
  BY <1>1, <1>3 DEF KeptInv, GoneInv, Spared
<1>6. PackInv'
  <2>1. apc = "remove" /\ cur \in Spared' => cur # today
    BY <1>1 DEF Spared
  <2>2. QED
    BY <1>1, <1>3, <2>1 DEF KeptInv, PackInv, Spared
<1>7. NothingLost'
  BY <1>1, <1>3 DEF KeptInv, NothingLost
<1>8. QED
  BY <1>4, <1>5, <1>6, <1>7 DEF KeptInv

\* The saver's next call and midnight only move the dates on.
LEMMA KeptByDates ==
  ASSUME TypeOK, DateInv, KeptInv, NewFile \/ Midnight
  PROVE  KeptInv'
<1>1. /\ UNCHANGED <<dirs, tars, inDir, inTar, written, torn, deleted, apc, cur>>
      /\ \/ today' = day /\ day' = day
         \/ today' = today /\ day' = day + 1
  BY DEF NewFile, Midnight, disk, saver, archiver
<1>2. /\ day \in Nat /\ today \in Nat /\ today <= day
  BY DEF TypeOK, DateInv, Day, NoDay
<1>3. \A d \in Day : d < day => d < day' /\ (d # today => d # today')
  BY <1>1, <1>2 DEF Day
<1>4. WholeInv' /\ NothingLost'
  BY <1>1 DEF KeptInv, WholeInv, NothingLost, Spared
<1>5. GoneInv'
  BY <1>1, <1>3 DEF KeptInv, GoneInv, Spared
<1>6. PackInv'
  <2>1. apc = "tar" => cur \in tars \cup deleted
    BY DEF KeptInv, PackInv
  <2>2. ASSUME apc \in {"tar", "remove"} PROVE cur < day' \/ cur = today'
    BY <1>1, <1>2, <2>2 DEF KeptInv, PackInv, TypeOK, Day, NoDay
  <2>3. ASSUME apc = "remove", cur \in Spared
        PROVE  /\ cur \in tars /\ written[cur] \subseteq inTar[cur]
               /\ inDir[cur] # written[cur] => cur < day' /\ cur # today'
    BY <1>3, <2>3 DEF KeptInv, PackInv, Spared
  <2>4. QED
    BY <1>1, <2>1, <2>2, <2>3 DEF PackInv, Spared
<1>7. QED
  BY <1>4, <1>5, <1>6 DEF KeptInv

\* A restart in the middle of a removal tears the day.
LEMMA KeptByBoot ==
  ASSUME TypeOK, KeptInv, Boot
  PROVE  KeptInv'
<1>1. /\ UNCHANGED <<day, dirs, tars, inDir, inTar, written, deleted>>
      /\ apc' = "sleep" /\ today' = NoDay /\ torn \subseteq torn'
      /\ apc = "remove" /\ inDir[cur] # written[cur] => cur \in torn'
  BY DEF Boot, disk
<1>2. \A d \in Day : d # today'
  BY <1>1 DEF Day, NoDay
<1>3. WholeInv'
  BY <1>1 DEF KeptInv, WholeInv, Spared
<1>4. GoneInv'
  BY <1>1, <1>2 DEF KeptInv, GoneInv, Spared
<1>5. PackInv' /\ NothingLost'
  BY <1>1 DEF KeptInv, PackInv, NothingLost
<1>6. QED
  BY <1>3, <1>4, <1>5 DEF KeptInv

\* An archive is begun anew only beside a directory that holds everything.
LEMMA KeptByTarStart ==
  ASSUME TypeOK, DateInv, CurInv, KeptInv, TarStart
  PROVE  KeptInv'
<1>1. PICK d \in dirs \ (seen \cup {tarNow}) :
        /\ cur' = d /\ tars' = tars \cup {d} /\ inTar' = [inTar EXCEPT ![d] = {}]
  BY DEF TarStart
<1>2. /\ UNCHANGED <<day, dirs, inDir, written, deleted, torn, today>>
      /\ apc = "scan" /\ apc' = "tar"
  BY DEF TarStart, saver
<1>3. WholeInv' /\ GoneInv'
  BY <1>2 DEF KeptInv, WholeInv, GoneInv, Spared
<1>4. d < day \/ d = today
  <2>1. /\ d \in Nat /\ tarNow \in Nat /\ day \in Nat /\ today \in Nat
        /\ d <= day /\ tarNow <= day /\ today <= day /\ d # tarNow
        /\ d <= tarNow \/ d <= today
    BY <1>1, <1>2 DEF TypeOK, DateInv, CurInv, Day, NoDay
  <2>2. QED
    BY <2>1
<1>5. PackInv'
  BY <1>1, <1>2, <1>4 DEF PackInv
<1>6. NothingLost'
  <2>1. d \in Spared => written[d] = inDir[d]
    BY <1>1, <1>2 DEF KeptInv, WholeInv
  <2>2. d \in Day /\ \A e \in Day \ {d} : inTar'[e] = inTar[e]
    BY <1>1 DEF TypeOK
  <2>3. QED
    BY <1>1, <1>2, <2>1, <2>2 DEF KeptInv, NothingLost, Spared
<1>7. QED
  BY <1>3, <1>5, <1>6 DEF KeptInv

\* When tar has succeeded the archive holds what the directory does, and that is all.
LEMMA KeptByTarOk ==
  ASSUME TypeOK, CurInv, KeptInv, TarOk
  PROVE  KeptInv'
<1>1. /\ UNCHANGED <<day, dirs, tars, inDir, written, deleted, torn, today, cur>>
      /\ apc = "tar" /\ apc' = "remove" /\ cur \in dirs /\ cur \in Day
      /\ inTar' = [inTar EXCEPT ![cur] = IF cur \in tars THEN inDir[cur] ELSE {}]
  BY DEF TarOk, saver, CurInv
<1>2. cur \in Spared => inDir[cur] = written[cur] /\ cur \in tars
  BY <1>1 DEF KeptInv, WholeInv, PackInv, Spared
<1>3. /\ cur \in tars => inTar'[cur] = inDir[cur]
      /\ \A e \in Day \ {cur} : inTar'[e] = inTar[e]
  BY <1>1 DEF TypeOK
<1>4. WholeInv' /\ GoneInv'
  BY <1>1 DEF KeptInv, WholeInv, GoneInv, Spared
<1>5. PackInv'
  BY <1>1, <1>2, <1>3 DEF KeptInv, PackInv, Spared
<1>6. NothingLost'
  BY <1>1, <1>2, <1>3 DEF KeptInv, NothingLost, Spared
<1>7. QED
  BY <1>4, <1>5, <1>6 DEF KeptInv

\* The removal, file by file and then the directory, of what its archive holds.
LEMMA KeptByRemoval ==
  ASSUME TypeOK, CurInv, KeptInv, RemoveFile \/ RemoveDir \/ RemoveFails
  PROVE  KeptInv'
<1>1. /\ UNCHANGED <<day, tars, inTar, written, deleted, today, cur>>
      /\ apc = "remove" /\ cur \in Day /\ torn \subseteq torn'
  BY DEF RemoveFile, RemoveDir, RemoveFails, saver, disk, CurInv
<1>2. CASE RemoveFile
  <2>1. /\ dirs' = dirs /\ apc' = "remove"
        /\ \A d \in Day \ {cur} : inDir'[d] = inDir[d]
        /\ cur = today => cur \in torn'
    BY <1>2 DEF RemoveFile, TypeOK
  <2>2. WholeInv' /\ GoneInv'
    BY <1>1, <2>1 DEF KeptInv, WholeInv, GoneInv, Spared
  <2>3. PackInv'
    BY <1>1, <2>1 DEF KeptInv, PackInv, Spared
  <2>4. NothingLost'
    BY <1>1, <2>1 DEF KeptInv, NothingLost, PackInv, Spared
  <2>5. QED
    BY <2>2, <2>3, <2>4 DEF KeptInv
<1>3. CASE RemoveDir
  <2>1. dirs' = dirs \ {cur} /\ apc' = "scan" /\ inDir[cur] = {} /\ UNCHANGED <<inDir, torn>>
    BY <1>3 DEF RemoveDir
  <2>2. GoneInv'
    BY <1>1, <2>1 DEF KeptInv, GoneInv, PackInv, Spared
  <2>3. WholeInv'
    BY <1>1, <2>1 DEF KeptInv, WholeInv, Spared
  <2>4. PackInv' /\ NothingLost'
    BY <1>1, <2>1 DEF KeptInv, PackInv, NothingLost
  <2>5. QED
    BY <2>2, <2>3, <2>4 DEF KeptInv
<1>4. CASE RemoveFails
  <2>1. /\ UNCHANGED <<dirs, inDir>> /\ apc' = "scan"
        /\ inDir[cur] # written[cur] => cur \in torn'
    BY <1>4 DEF RemoveFails, disk
  <2>2. WholeInv'
    BY <1>1, <2>1 DEF KeptInv, WholeInv, Spared
  <2>3. GoneInv' /\ PackInv' /\ NothingLost'
    BY <1>1, <2>1 DEF KeptInv, GoneInv, PackInv, NothingLost, Spared
  <2>4. QED
    BY <2>2, <2>3 DEF KeptInv
<1>5. QED
  BY <1>2, <1>3, <1>4

\* An event file once written is in its directory or in a complete archive (DircMng.c:649),
\* unless the saver deleted something of its day or the day is torn: through restarts,
\* failed archiving and midnight, whatever the two threads do between each other's steps.
\* NothingLost is not inductive: that a directory is whole when its archive is begun anew
\* over an old one, and that the saver never makes a directory again of which an archive
\* was made, must be known.
THEOREM StorageNothingLost == Spec => []NothingLost
<1>1. Init => KeptInv
  BY DEF Init, KeptInv, WholeInv, GoneInv, PackInv, NothingLost, Spared
<1>2. TypeOK /\ DateInv /\ CurInv /\ KeptInv /\ [Next]_vars => KeptInv'
  <2> SUFFICES ASSUME TypeOK, DateInv, CurInv, KeptInv, [Next]_vars PROVE KeptInv'
    OBVIOUS
  <2>1. CASE /\ UNCHANGED <<day, dirs, tars, inDir, inTar, written, deleted, torn, today, cur>>
             /\ (apc # "remove" /\ apc' \notin {"tar", "remove"}) \/ UNCHANGED apc
    BY <2>1 DEF KeptInv, WholeInv, GoneInv, PackInv, NothingLost, Spared
  <2>2. ASSUME \/ DirFileTar \/ TarFails \/ TarEnd \/ FileSpaceProc \/ CheckLimit
               \/ FileDirJudge \/ DeleteDirFails \/ DeleteNothing \/ OpenFails
               \/ UNCHANGED vars
        PROVE  /\ UNCHANGED <<day, dirs, tars, inDir, inTar, written, deleted, torn, today, cur>>
               /\ (apc # "remove" /\ apc' \notin {"tar", "remove"}) \/ UNCHANGED apc
    BY <2>2 DEF DirFileTar, TarFails, TarEnd, FileSpaceProc, CheckLimit, FileDirJudge,
                DeleteDirFails, DeleteNothing, OpenFails, vars, disk, saver, archiver
  <2>3. QED
    BY <2>1, <2>2, KeptByDeletion, KeptByMkdir, KeptByOpen, KeptByDates, KeptByBoot,
       KeptByTarStart, KeptByTarOk, KeptByRemoval
    DEF Next, Saver, Archiver
<1>3. KeptInv => NothingLost
  BY DEF KeptInv
<1>4. QED
  BY <1>1, <1>2, <1>3, TypesAndDates, PTL DEF Spec
=============================================================================
