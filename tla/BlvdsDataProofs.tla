-------------------------- MODULE BlvdsDataProofs ---------------------------
(* Proofs about BlvdsData, for every set of frames, limit and counter      *)
(* width.                                                                  *)
EXTENDS BlvdsData, TLAPS

Half == Content \cup {"lost"}

\* The lock and the program counters agree; outside the section that prepares
\* the record its two halves are of the same frame.
RecInv ==
  /\ writer <=> bpc # "lock"
  /\ "saver" \in readers <=> spc # "lock"
  /\ writer => readers = {}
  /\ digital = IF bpc = "analog" THEN buffer ELSE analog
  /\ spc = "analog" => record \in {<<digital, "lost">>, <<"lost", "lost">>}
  /\ WholeRecord

\* Each latch is a function of the frames read so far.
LatchInv ==
  /\ errflag <=> told = "err"
  /\ lifeErrFlag <=> zeros > BRAMERR_NUM
  /\ ~lifeErrFlag => lifeErrNum = zeros
  /\ bram_blvds_rd_err <=> (errflag \/ lifeErrFlag)
-----------------------------------------------------------------------------
\* The life latch and its counter, after a good frame.
LEMMA JudgeLifeStep ==
  ASSUME TypeOK, LatchInv, NEW f, JudgeLife(f),
         zeros' = IF f \in ZeroCrc THEN AtMost(zeros + 1, BRAMERR_NUM + 1) ELSE 0
  PROVE  /\ lifeErrNum' \in 0..(U8 - 1) /\ lifeErrFlag' \in BOOLEAN
         /\ zeros' \in 0..(BRAMERR_NUM + 1)
         /\ lifeErrFlag' <=> zeros' > BRAMERR_NUM
         /\ ~lifeErrFlag' => lifeErrNum' = zeros'
<1> DEFINE n == (lifeErrNum + 1) % U8
           tooMany == n > BRAMERR_NUM /\ ~lifeErrFlag
<1>t. /\ BRAMERR_NUM \in Nat /\ U8 \in Nat /\ U8 > BRAMERR_NUM + 1
      /\ lifeErrNum \in 0..(U8 - 1) /\ zeros \in 0..(BRAMERR_NUM + 1) /\ lifeErrFlag \in BOOLEAN
  BY BlvdsDataAssumption DEF TypeOK
<1>l. (lifeErrFlag <=> zeros > BRAMERR_NUM) /\ (~lifeErrFlag => lifeErrNum = zeros)
  BY DEF LatchInv
<1>1. CASE f \in ZeroCrc
  <2>1. n \in 0..(U8 - 1)
    BY <1>t
  <2>2. ~lifeErrFlag => n = zeros + 1
    BY <1>t, <1>l
  <2>3. lifeErrNum' = IF tooMany THEN 0 ELSE n
    BY <1>1 DEF JudgeLife, LifeStands
  <2>4. lifeErrFlag' = (lifeErrFlag \/ tooMany)
    BY <1>1 DEF JudgeLife, LifeStands
  <2>5. lifeErrFlag' \in BOOLEAN /\ (lifeErrFlag' <=> (lifeErrFlag \/ tooMany))
    BY <2>4, Zenon
  <2>6. zeros' = IF zeros + 1 > BRAMERR_NUM + 1 THEN BRAMERR_NUM + 1 ELSE zeros + 1
    BY <1>1 DEF AtMost
  <2> HIDE DEF n
  <2>7. lifeErrNum' \in 0..(U8 - 1) /\ zeros' \in 0..(BRAMERR_NUM + 1)
    BY <2>1, <2>3, <2>6, <1>t
  <2>8. (lifeErrFlag \/ tooMany) <=> zeros' > BRAMERR_NUM
    BY <2>2, <2>6, <1>t, <1>l
  <2>9. ~(lifeErrFlag \/ tooMany) => lifeErrNum' = zeros'
    BY <2>2, <2>3, <2>6, <1>t, <1>l
  <2> HIDE DEF tooMany
  <2>10. QED
    BY <2>5, <2>7, <2>8, <2>9
<1>2. CASE f \notin ZeroCrc
  <2>1. lifeErrNum' = 0 /\ zeros' = 0
    BY <1>2 DEF JudgeLife, LifeStands
  <2>2. lifeErrFlag' = FALSE
    BY <1>2 DEF JudgeLife, LifeStands
  <2>3. 0 \in 0..(U8 - 1) /\ 0 \in 0..(BRAMERR_NUM + 1) /\ ~(0 > BRAMERR_NUM)
    BY <1>t
  <2>4. QED
    BY <2>1, <2>2, <2>3
<1>3. QED
  BY <1>1, <1>2
-----------------------------------------------------------------------------
\* What the steps of the link keep typed.
LEMMA LinkTypes ==
  ASSUME TypeOK, Call("blvds") \/ Sample("blvds") \/ Publish("blvds")
                 \/ \E r \in {"ok", "warn", "err"} : Return("blvds", r)
  PROVE  /\ busy' \in [Thread -> BOOLEAN]
         /\ chan' \in [Thread -> Content] /\ got' \in [Thread -> Content]
         /\ result' \in [Thread -> {"none", "ok", "warn", "err"}]
<1>1. "blvds" \in Thread /\ Blank \in Content
  BY BlvdsDataAssumption, ReadLinkAssumption
<1>2. chan["blvds"] \in Content
  BY <1>1 DEF TypeOK
<1>3. busy' \in [Thread -> BOOLEAN]
  BY DEF TypeOK, Call, Sample, Publish, Return
<1>4. chan' \in [Thread -> Content]
  BY DEF TypeOK, Call, Sample, Publish, Return
<1>5. got' \in [Thread -> Content]
  BY <1>1, <1>2 DEF TypeOK, Call, Sample, Publish, Return
<1>6. result' \in [Thread -> {"none", "ok", "warn", "err"}]
  BY DEF TypeOK, Call, Sample, Publish, Return
<1>7. QED
  BY <1>3, <1>4, <1>5, <1>6

\* Most steps leave the latches alone.
LEMMA LatchesStay == LatchInv /\ UNCHANGED latches => LatchInv'
<1> SUFFICES ASSUME LatchInv, UNCHANGED latches PROVE LatchInv'
  OBVIOUS
<1>1. UNCHANGED <<errflag, lifeErrNum, lifeErrFlag, bram_blvds_rd_err, told, zeros>>
  BY DEF latches
<1>2. QED
  BY <1>1 DEF LatchInv

\* The types and the latches: every counter in its range, every latch a
\* function of what was read.
LEMMA TypesAndLatches == Spec => [](TypeOK /\ LatchInv)
<1>1. Init => TypeOK /\ LatchInv
  <2> SUFFICES ASSUME Init PROVE TypeOK /\ LatchInv
    OBVIOUS
  <2>1. Blank \in Content /\ BRAMERR_NUM \in Nat /\ U8 \in Nat /\ U8 > BRAMERR_NUM + 1
    BY BlvdsDataAssumption, ReadLinkAssumption
  <2>2. /\ busy \in [Thread -> BOOLEAN]
        /\ chan \in [Thread -> Content] /\ got \in [Thread -> Content]
        /\ result \in [Thread -> {"none", "ok", "warn", "err"}]
    BY <2>1 DEF Init, LinkInit
  <2>3. TypeOK
    <3>1. lifeErrNum \in 0..(U8 - 1) /\ zeros \in 0..(BRAMERR_NUM + 1) /\ same \in 0..(BRAMERR_NUM + 1)
      BY <2>1 DEF Init
    <3>2. record \in Half \X Half
      BY DEF Init, Half
    <3>3. /\ writer \in BOOLEAN /\ readers \subseteq {"saver", "realwave"}
          /\ bpc = "lock" /\ spc = "lock" /\ told = "ok"
          /\ last \in Content /\ buffer \in Content /\ digital \in Content /\ analog \in Content
      BY <2>1 DEF Init
    <3>4. errflag \in BOOLEAN /\ lifeErrFlag \in BOOLEAN /\ bram_blvds_rd_err \in BOOLEAN
      BY DEF Init
    <3>5. QED
      BY <2>2, <3>1, <3>2, <3>3, <3>4 DEF TypeOK, Half
  <2>4. LatchInv
    BY <2>1 DEF Init, LatchInv
  <2>5. QED
    BY <2>3, <2>4
<1>2. TypeOK /\ LatchInv /\ [Next]_vars => TypeOK' /\ LatchInv'
  <2> SUFFICES ASSUME TypeOK, LatchInv, [Next]_vars PROVE TypeOK' /\ LatchInv'
    OBVIOUS
  <2>t. "blvds" \in Thread /\ BRAMERR_NUM \in Nat
    BY BlvdsDataAssumption
  <2>1. CASE WrLock \/ SendAndUnlock \/ ProcDigital \/ ProcAnalog
    <3>1. TypeOK'
      BY <2>1 DEF TypeOK, WrLock, SendAndUnlock, ProcDigital, ProcAnalog, lock, latches,
         data, saver, linkVars
    <3>2. UNCHANGED latches
      BY <2>1 DEF WrLock, SendAndUnlock, ProcDigital, ProcAnalog
    <3>3. QED
      BY <3>1, <3>2, LatchesStay
  <2>2. CASE CallRead \/ ReadReturns \/ Fpga
             \/ (bpc = "read" /\ Sample("blvds") /\ UNCHANGED <<lock, bpc, latches, data, saver>>)
    <3>1. /\ busy' \in [Thread -> BOOLEAN]
          /\ chan' \in [Thread -> Content] /\ got' \in [Thread -> Content]
          /\ result' \in [Thread -> {"none", "ok", "warn", "err"}]
      BY <2>2, LinkTypes DEF CallRead, ReadReturns, Fpga
    <3>2. UNCHANGED <<lock, latches, data, saver>>
      BY <2>2 DEF CallRead, ReadReturns, Fpga
    <3>3. bpc' \in {bpc, "read", "judge"}
      BY <2>2 DEF CallRead, ReadReturns, Fpga
    <3>4. TypeOK'
      BY <3>1, <3>2, <3>3 DEF TypeOK, lock, latches, data, saver
    <3>5. QED
      BY <3>2, <3>4, LatchesStay
  <2>3. CASE JudgeError
    <3>1. TypeOK'
      BY <2>3 DEF TypeOK, JudgeError, lock, data, saver, linkVars
    <3>2. /\ UNCHANGED <<lifeErrNum, lifeErrFlag, zeros>>
          /\ errflag' = TRUE /\ bram_blvds_rd_err' = TRUE /\ told' = "err"
      BY <2>3 DEF JudgeError
    <3>3. LatchInv'
      BY <3>2 DEF LatchInv
    <3>4. QED
      BY <3>1, <3>3
  <2>4. CASE JudgeWarn
    <3>1. bram_blvds_rd_err' = (errflag \/ lifeErrFlag)
      BY <2>4 DEF JudgeWarn
    <3>2. bram_blvds_rd_err' \in BOOLEAN /\ (bram_blvds_rd_err' <=> (errflag \/ lifeErrFlag))
      BY <3>1, Zenon
    <3>3. UNCHANGED <<errflag, lifeErrNum, lifeErrFlag, told, zeros>>
      BY <2>4 DEF JudgeWarn
    <3>4. TypeOK'
      BY <2>4, <3>2 DEF TypeOK, JudgeWarn, lock, data, saver, linkVars
    <3>5. LatchInv'
      BY <3>2, <3>3 DEF LatchInv
    <3>6. QED
      BY <3>4, <3>5
  <2>5. CASE JudgeGood
    <3> DEFINE f == got["blvds"]
    <3>1. f \in Content
      BY <2>t DEF TypeOK
    <3>2. /\ lifeErrNum' \in 0..(U8 - 1) /\ lifeErrFlag' \in BOOLEAN
          /\ zeros' \in 0..(BRAMERR_NUM + 1)
          /\ lifeErrFlag' <=> zeros' > BRAMERR_NUM
          /\ ~lifeErrFlag' => lifeErrNum' = zeros'
      BY <2>5, JudgeLifeStep DEF TakeData, JudgeGood
    <3>3. buffer' \in Content /\ last' \in Content
      BY <2>5, <3>1 DEF TakeData, JudgeGood, TypeOK
    <3>4. same' \in 0..(BRAMERR_NUM + 1)
      BY <2>5, <2>t DEF TakeData, JudgeGood, TypeOK, AtMost
    <3>5. TypeOK'
      <4>1. UNCHANGED <<linkVars, lock, digital, analog, saver>>
        BY <2>5 DEF TakeData, JudgeGood
      <4>2. /\ errflag' \in BOOLEAN /\ bram_blvds_rd_err' \in BOOLEAN /\ told' \in {"ok", "err"}
            /\ bpc' = "digital"
        BY <2>5, <3>2 DEF TakeData, JudgeGood
      <4> HIDE DEF f
      <4>3. QED
        BY <3>2, <3>3, <3>4, <4>1, <4>2 DEF TypeOK, linkVars, lock, saver
    <3>6. errflag' = FALSE /\ told' = "ok" /\ bram_blvds_rd_err' = lifeErrFlag'
      BY <2>5 DEF TakeData, JudgeGood
    <3>7. LatchInv'
      BY <3>2, <3>6 DEF LatchInv
    <3>8. QED
      BY <3>5, <3>7
  <2>6. CASE SaveLock \/ SaveUnlock
    <3>1. TypeOK'
      BY <2>6 DEF TypeOK, SaveLock, SaveUnlock, RdLock, RdUnlock, linkVars, latches, data
    <3>2. QED
      BY <2>6, <3>1, LatchesStay DEF SaveLock, SaveUnlock
  <2>7. CASE RealWave
    <3>1. TypeOK'
      BY <2>7 DEF TypeOK, RealWave, RdLock, RdUnlock, linkVars, latches, data, saver
    <3>2. QED
      BY <2>7, <3>1, LatchesStay DEF RealWave
  <2>8. CASE SaveDigital \/ SaveAnalog
    <3>1. record' \in Half \X Half
      BY <2>8 DEF FileWriteWithTry, TypeOK, SaveDigital, SaveAnalog, Half
    <3>2. UNCHANGED <<linkVars, lock, bpc, latches, data>> /\ spc' \in {"analog", "unlock"}
      BY <2>8 DEF FileWriteWithTry, SaveDigital, SaveAnalog
    <3>3. TypeOK'
      BY <3>1, <3>2 DEF TypeOK, linkVars, lock, latches, data, Half
    <3>4. QED
      BY <3>2, <3>3, LatchesStay
  <2>9. CASE UNCHANGED vars
    BY <2>9, LatchesStay DEF TypeOK, vars, linkVars, lock, latches, data, saver
  <2>10. QED
    BY <2>1, <2>2, <2>3, <2>4, <2>5, <2>6, <2>7, <2>8, <2>9
       DEF Next, BlvdsThreadFunc, FileSave
<1>3. QED
  BY <1>1, <1>2, PTL DEF Spec

\* Every variable of the data path keeps its type, for any frames and limits.
THEOREM BlvdsTypeOK == Spec => []TypeOK
  BY TypesAndLatches, PTL

\* The error bit tells the truth about the frames read, for every BRAMERR_NUM
\* and every counter width above it: the byte that counts life errors cannot
\* wrap into or out of the latch.
THEOREM BlvdsRdErrTells == Spec => []RdErrTells
<1>1. LatchInv => RdErrTells
  BY DEF LatchInv, RdErrTells
<1>2. QED
  BY <1>1, TypesAndLatches, PTL

\* What it does not tell, for any frames, limit and counter width: a board that repeats
\* one frame whose CRC word is not 0 is never reported (ExtraBoardData, BramDataProc.c:483).
THEOREM BlvdsStandstillHidden == Spec => []StandstillHidden
<1> DEFINE Inv == last \notin ZeroCrc => zeros = 0
<1>1. Init => Inv
  BY DEF Init
<1>2. Inv /\ [Next]_vars => Inv'
  <2> SUFFICES ASSUME Inv, [Next]_vars PROVE Inv'
    OBVIOUS
  <2>1. CASE JudgeGood
    BY <2>1 DEF JudgeGood
  <2>2. JudgeGood \/ UNCHANGED <<last, zeros>>
    BY DEF Next, BlvdsThreadFunc, FileSave, RealWave, Fpga, WrLock, CallRead, ReadReturns,
       JudgeError, JudgeWarn, ProcDigital, ProcAnalog, SendAndUnlock, SaveLock, SaveDigital,
       SaveAnalog, SaveUnlock, latches, vars
  <2>3. QED
    BY <2>1, <2>2
<1>3. TypeOK /\ LatchInv /\ Inv => StandstillHidden
  BY BlvdsDataAssumption DEF LatchInv, StandstillHidden
<1>4. QED
  BY <1>1, <1>2, <1>3, TypesAndLatches, PTL DEF Spec
-----------------------------------------------------------------------------
\* RecInv is inductive: one step per statement of the threads that hold the lock.
LEMMA RecInvHolds == Spec => []RecInv
<1> USE DEF RecInv, WholeRecord
<1>1. Init => RecInv
  BY DEF Init
<1>2. TypeOK /\ RecInv /\ [Next]_vars => RecInv'
  <2> SUFFICES ASSUME TypeOK, RecInv, [Next]_vars PROVE RecInv'
    OBVIOUS
  <2>1. CASE WrLock \/ SendAndUnlock
    BY <2>1 DEF WrLock, SendAndUnlock, data, saver
  <2>2. CASE CallRead \/ ReadReturns \/ Fpga \/ JudgeError \/ JudgeWarn
             \/ (Sample("blvds") /\ UNCHANGED <<lock, bpc, latches, data, saver>>)
    BY <2>2 DEF CallRead, ReadReturns, Fpga, JudgeError, JudgeWarn, lock, data, saver
  <2>3. CASE JudgeGood
    BY <2>3 DEF TakeData, JudgeGood, lock, saver
  <2>4. CASE ProcDigital \/ ProcAnalog
    <3>1. writer /\ spc = "lock"
      BY <2>4 DEF ProcDigital, ProcAnalog
    <3>2. UNCHANGED <<writer, readers, spc, record>>
      BY <2>4 DEF ProcDigital, ProcAnalog, lock, saver
    <3>3. bpc' # "lock" /\ digital' = IF bpc' = "analog" THEN buffer' ELSE analog'
      BY <2>4 DEF ProcDigital, ProcAnalog
    <3>4. QED
      BY <3>1, <3>2, <3>3
  <2>5. CASE SaveLock \/ SaveUnlock
    BY <2>5 DEF SaveLock, SaveUnlock, RdLock, RdUnlock, data
  <2>6. CASE RealWave
    BY <2>6 DEF RealWave, RdLock, RdUnlock, data, saver
  <2>7. CASE SaveDigital
    BY <2>7 DEF FileWriteWithTry, SaveDigital, lock, data
  <2>8. CASE SaveAnalog
    <3>1. digital = analog
      BY <2>8 DEF FileWriteWithTry, SaveAnalog
    <3>2. QED
      BY <2>8, <3>1 DEF FileWriteWithTry, SaveAnalog, lock, data
  <2>9. CASE UNCHANGED vars
    BY <2>9 DEF vars, lock, data, saver
  <2>10. QED
    BY <2>1, <2>2, <2>3, <2>4, <2>5, <2>6, <2>7, <2>8, <2>9
       DEF Next, BlvdsThreadFunc, FileSave
<1>3. QED
  BY <1>1, <1>2, BlvdsTypeOK, PTL DEF Spec

\* A saved record is of one frame, for any frames and any order of the threads.
THEOREM BlvdsWholeRecord == Spec => []WholeRecord
<1>1. RecInv => WholeRecord
  BY DEF RecInv
<1>2. QED
  BY <1>1, RecInvHolds, PTL

\* The threads implement SharedRecord: RealDatalock keeps the filling of the analog half
\* (MAX10_RD_DataProc, main.c:1738) out of the saver's section (main.c:1007), and each half
\* that is saved is of the record published last.
THEOREM BlvdsImplementsSharedRecord == Spec => ImplementsSharedRecord
<1>1. Init => Shared!SharedInit
  BY ReadLinkAssumption DEF Init, Shared!SharedInit, Shared!Nothing
<1>2. ASSUME TypeOK, RecInv, [Next]_vars
      PROVE  Shared!SharedNext \/ UNCHANGED Shared!sharedVars
  <2> USE DEF lock, data, saver
  <2>1. CASE ProcAnalog
    <3>1. spc = "lock"
      BY <1>2, <2>1 DEF ProcAnalog, RecInv
    <3>2. analog' \in Content
      BY <1>2, <2>1 DEF ProcAnalog, TypeOK
    <3>3. Shared!Publish
      BY <2>1, <3>1, <3>2 DEF ProcAnalog, Shared!Publish
    <3>4. QED
      BY <3>3 DEF Shared!SharedNext
  <2>2. CASE SaveLock
    <3>1. Shared!BeginSave
      BY <2>2 DEF SaveLock, Shared!BeginSave
    <3>2. QED
      BY <3>1 DEF Shared!SharedNext
  <2>3. CASE SaveDigital
    <3>1. /\ spc = "digital" /\ spc' \in {"analog", "unlock"} /\ UNCHANGED analog
          /\ digital = analog
          /\ record' \in {<<digital, "lost">>, <<"lost", "lost">>}
      BY <1>2, <2>3 DEF SaveDigital, FileWriteWithTry, RecInv
    <3>2. CASE record' = <<digital, "lost">>
      <4>1. Shared!SaveHalf(1)
        BY <3>1, <3>2 DEF Shared!SaveHalf
      <4>2. QED
        BY <4>1 DEF Shared!SharedNext
    <3>3. CASE record' = <<"lost", "lost">>
      BY <3>1, <3>3 DEF Shared!sharedVars
    <3>4. QED
      BY <3>1, <3>2, <3>3
  <2>4. CASE SaveAnalog
    <3>1. /\ spc = "analog" /\ spc' = "unlock" /\ UNCHANGED analog
          /\ record \in {<<digital, "lost">>, <<"lost", "lost">>}
          /\ record' \in {<<record[1], analog>>, <<record[1], "lost">>}
      BY <1>2, <2>4 DEF SaveAnalog, FileWriteWithTry, RecInv
    <3>2. CASE record' = <<record[1], analog>>
      <4>1. Shared!SaveHalf(2)
        BY <3>1, <3>2 DEF Shared!SaveHalf
      <4>2. QED
        BY <4>1 DEF Shared!SharedNext
    <3>3. CASE record' = <<record[1], "lost">>
      BY <3>1, <3>3 DEF Shared!sharedVars
    <3>4. QED
      BY <3>1, <3>2, <3>3
  <2>5. CASE SaveUnlock
    <3>1. Shared!EndSave
      BY <2>5 DEF SaveUnlock, Shared!EndSave, Shared!Nothing
    <3>2. QED
      BY <3>1 DEF Shared!SharedNext
  <2>6. CASE \/ WrLock \/ CallRead \/ ReadReturns \/ JudgeError \/ JudgeWarn \/ JudgeGood
             \/ (bpc = "read" /\ Sample("blvds") /\ UNCHANGED <<lock, bpc, latches, data, saver>>)
             \/ ProcDigital \/ SendAndUnlock \/ RealWave \/ Fpga \/ UNCHANGED vars
    <3>1. UNCHANGED <<analog, spc, record>>
      BY <2>6 DEF WrLock, CallRead, ReadReturns, JudgeError, JudgeWarn, JudgeGood, ProcDigital,
         SendAndUnlock, RealWave, Fpga, vars
    <3>2. QED
      BY <3>1 DEF Shared!sharedVars
  <2>7. QED
    BY <1>2, <2>1, <2>2, <2>3, <2>4, <2>5, <2>6 DEF Next, BlvdsThreadFunc, FileSave
<1>3. QED
  BY <1>1, <1>2, BlvdsTypeOK, RecInvHolds, PTL
     DEF Spec, ImplementsSharedRecord, Shared!SharedSpec
=============================================================================
