--------------------------- MODULE GatewayProofs ----------------------------
(* Proofs about Gateway, for every limit, every width of the life word and *)
(* every number of turns told apart.                                       *)
EXTENDS Gateway, TLAPS

\* The lock and the two program counters agree; outside the section that prepares the
\* record its halves are of one turn and in the file's byte order, and what the saver has
\* written of the record is what it holds.
RecInv ==
  /\ writer <=> pc # "lock"
  /\ reader <=> spc # "lock"
  /\ ~(writer /\ reader)
  /\ digital = IF pc = "analog" THEN toTms ELSE analog.turn
  /\ pc # "swap" => analog.order = "little"
  /\ spc = "analog" => saved[1] \in {digital, Failed}
  /\ RecordWhole

\* The verdict on the frames of the CCU: the count never runs ahead of the turns in
\* which a frame stood still.
VerdictInv ==
  /\ errnum <= stood
  /\ judge_val = 1 => stood = ERRNUM
  /\ mvb_err = judge_val

\* And until the verdict is given the count is the number of turns in a row itself.
PromptInv ==
  /\ judge_val = 0 => errnum = still
  /\ mvb_err = judge_val

\* The count of a frame's lost lives never runs ahead of those lost in a row.
RowInv == \A i \in Mvb : lifeErrNum[i] <= lostInRow[i]
-----------------------------------------------------------------------------
\* One judgement of a frame's life, the MVB's or the TMS570's: everything stays typed,
\* and a latch that is set stands for a loss.
LEMMA LifeStep ==
  ASSUME TypeOK, NEW c \in Chan, NEW lost \in BOOLEAN,
         LifeMvb(c, lost) \/ LifeTms(c, lost), Lost(c, lost)
  PROVE  /\ lifeErrNum' \in [Chan -> 0 .. BRAMERR_NUM]
         /\ lifeErrFlag' \in [Chan -> BOOLEAN]
         /\ lostInRow' \in [Chan -> 0 .. BRAMERR_NUM + 1]
         /\ \A d \in Chan \ {c} : /\ lifeErrNum'[d] = lifeErrNum[d]
                                  /\ lifeErrFlag'[d] = lifeErrFlag[d]
                                  /\ lostInRow'[d] = lostInRow[d]
         /\ lifeErrFlag'[c] => lostInRow'[c] > 0
<1> DEFINE n == lifeErrNum[c] + 1
           full == n > BRAMERR_NUM
<1>1. /\ BRAMERR_NUM \in Nat
      /\ lifeErrNum \in [Chan -> 0 .. BRAMERR_NUM] /\ lifeErrFlag \in [Chan -> BOOLEAN]
      /\ lostInRow \in [Chan -> 0 .. BRAMERR_NUM + 1]
  BY GatewayAssumption DEF TypeOK
<1>2. PICK v \in 0 .. BRAMERR_NUM : lifeErrNum' = [lifeErrNum EXCEPT ![c] = v]
  <2>1. CASE LifeMvb(c, lost)
    <3>1. lifeErrNum' = [lifeErrNum EXCEPT ![c] = IF lost /\ ~full THEN n ELSE 0]
      BY <2>1 DEF LifeMvb
    <3>2. (IF lost /\ ~full THEN n ELSE 0) \in 0 .. BRAMERR_NUM
      BY <1>1
    <3>3. QED
      BY <3>1, <3>2
  <2>2. CASE LifeTms(c, lost)
    <3>1. lifeErrNum' = [lifeErrNum EXCEPT ![c] =
                           IF lost THEN (IF full THEN 0 ELSE n) ELSE lifeErrNum[c]]
      BY <2>2 DEF LifeTms
    <3>2. (IF lost THEN (IF full THEN 0 ELSE n) ELSE lifeErrNum[c]) \in 0 .. BRAMERR_NUM
      BY <1>1
    <3>3. QED
      BY <3>1, <3>2
  <2>3. QED
    BY <2>1, <2>2
<1>3. PICK b \in BOOLEAN : /\ lifeErrFlag' = [lifeErrFlag EXCEPT ![c] = b]
                           /\ b => lost
  <2>1. lifeErrFlag' = [lifeErrFlag EXCEPT ![c] = lost /\ (lifeErrFlag[c] \/ full)]
    BY DEF LifeMvb, LifeTms
  <2> DEFINE b == lost /\ (lifeErrFlag[c] \/ full)
  <2>2. b \in BOOLEAN /\ (b => lost)
    BY <1>1, Zenon
  <2> HIDE DEF b
  <2>3. lifeErrFlag' = [lifeErrFlag EXCEPT ![c] = b]
    BY <2>1 DEF b
  <2>4. QED
    BY <2>2, <2>3
<1>4. PICK m \in 0 .. BRAMERR_NUM + 1 : /\ lostInRow' = [lostInRow EXCEPT ![c] = m]
                                        /\ lost => m > 0
  <2>1. lostInRow' = [lostInRow EXCEPT ![c] =
                        IF lost THEN AtMost(lostInRow[c] + 1, BRAMERR_NUM + 1) ELSE 0]
    BY DEF Lost
  <2> DEFINE m == IF lost THEN AtMost(lostInRow[c] + 1, BRAMERR_NUM + 1) ELSE 0
  <2>2. m \in 0 .. BRAMERR_NUM + 1 /\ (lost => m > 0)
    BY <1>1 DEF AtMost
  <2>3. QED
    BY <2>1, <2>2
<1>5. QED
  BY <1>1, <1>2, <1>3, <1>4
-----------------------------------------------------------------------------
\* Every variable keeps its type: no counter passes its limit.
THEOREM GatewayTypeOK == Spec => []TypeOK
<1>1. Init => TypeOK
  <2> SUFFICES ASSUME Init PROVE TypeOK
    OBVIOUS
  <2>1. Zero \in Word
    BY GatewayAssumption DEF Zero, Word
  <2>2. /\ mvb_rd \in [Mvb -> Word] /\ frame_life \in [Mvb -> 0 .. LIFE - 1]
        /\ lifeErrFlag \in [Chan -> BOOLEAN] /\ lifeErrNum \in [Chan -> 0 .. BRAMERR_NUM]
        /\ lostInRow \in [Chan -> 0 .. BRAMERR_NUM + 1]
    BY <2>1, GatewayAssumption DEF Init
  <2>3. /\ saved \in [1 .. 2 -> 0 .. Failed]
        /\ analog \in [turn : 0 .. TURN, order : {"little", "big"}]
    BY GatewayAssumption DEF Init, NoTurn, Failed
  <2>4. /\ turn \in Turns /\ errnum \in 0 .. ERRNUM - 1 /\ stood \in 0 .. ERRNUM
        /\ still \in 0 .. ERRNUM /\ toTms \in 0 .. TURN /\ tms_rd \in 0 .. TURN /\ digital \in 0 .. TURN
    BY GatewayAssumption DEF Init, Turns, NoTurn
  <2>5. /\ writer \in BOOLEAN /\ reader \in BOOLEAN /\ judge_val \in {0, 1}
        /\ mvb_err \in {0, 1} /\ order \in {"little", "big"} /\ mvb_wr = NoTurn
        /\ pc = "lock" /\ spc = "lock"
    BY DEF Init
  <2>6. QED
    BY <2>2, <2>3, <2>4, <2>5 DEF TypeOK
<1>2. TypeOK /\ [Next]_vars => TypeOK'
  <2> SUFFICES ASSUME TypeOK, [Next]_vars PROVE TypeOK'
    OBVIOUS
  <2> USE DEF lock, latches, verdict, blocks, record, saver
  <2>1. ASSUME WrLock PROVE TypeOK'
    <3>1. turn' \in Turns
      BY <2>1, GatewayAssumption DEF WrLock, TypeOK, Turns
    <3>2. QED
      BY <2>1, <3>1 DEF WrLock, TypeOK
  <2>2. ASSUME NEW i \in Mvb, ReadMvb(i) PROVE TypeOK'
    <3>1. CASE UNCHANGED <<mvb_rd, latches>>
      BY <2>2, <3>1 DEF ReadMvb, TypeOK
    <3>2. CASE \E lost \in BOOLEAN, w \in Word :
                 /\ LifeMvb(i, lost) /\ Lost(i, lost)
                 /\ mvb_rd' = [mvb_rd EXCEPT ![i] = w]
      <4>1. PICK lost \in BOOLEAN, w \in Word :
              /\ LifeMvb(i, lost) /\ Lost(i, lost)
              /\ mvb_rd' = [mvb_rd EXCEPT ![i] = w]
        BY <3>2
      <4>2. /\ lifeErrNum' \in [Chan -> 0 .. BRAMERR_NUM]
            /\ lifeErrFlag' \in [Chan -> BOOLEAN]
            /\ lostInRow' \in [Chan -> 0 .. BRAMERR_NUM + 1]
        BY <4>1, LifeStep DEF Chan
      <4>3. mvb_rd' \in [Mvb -> Word]
        BY <4>1 DEF TypeOK
      <4>4. QED
        BY <2>2, <4>2, <4>3 DEF ReadMvb, TypeOK
    <3>3. QED
      BY <2>2, <3>1, <3>2 DEF ReadMvb
  <2>3. ASSUME JudgeMvb PROVE TypeOK'
    <3>1. errnum' \in 0 .. ERRNUM - 1
      BY <2>3, GatewayAssumption DEF JudgeMvb, TypeOK
    <3>2. judge_val' \in {0, 1} /\ mvb_err' \in {0, 1}
      BY <2>3 DEF JudgeMvb, TypeOK
    <3>3. frame_life' \in [Mvb -> 0 .. LIFE - 1]
      BY <2>3 DEF JudgeMvb, TypeOK, Word
    <3>4. stood' \in 0 .. ERRNUM /\ still' \in 0 .. ERRNUM
      BY <2>3, GatewayAssumption DEF JudgeMvb, TypeOK, AtMost
    <3>5. toTms' \in 0 .. TURN
      BY <2>3, GatewayAssumption DEF JudgeMvb, TypeOK, Turns
    <3>6. QED
      BY <2>3, <3>1, <3>2, <3>3, <3>4, <3>5 DEF JudgeMvb, TypeOK
  <2>4. ASSUME ExchangeTms PROVE TypeOK'
    <3>1. CASE UNCHANGED <<tms_rd, latches>>
      BY <2>4, <3>1 DEF ExchangeTms, TypeOK
    <3>2. CASE \E lost \in BOOLEAN :
                 LifeTms("tms", lost) /\ Lost("tms", lost) /\ tms_rd' = turn
      <4>1. /\ lifeErrNum' \in [Chan -> 0 .. BRAMERR_NUM]
            /\ lifeErrFlag' \in [Chan -> BOOLEAN]
            /\ lostInRow' \in [Chan -> 0 .. BRAMERR_NUM + 1]
        BY <3>2, LifeStep DEF Chan
      <4>2. tms_rd' \in 0 .. TURN
        BY <3>2, GatewayAssumption DEF TypeOK, Turns
      <4>3. QED
        BY <2>4, <4>1, <4>2 DEF ExchangeTms, TypeOK
    <3>3. QED
      BY <2>4, <3>1, <3>2 DEF ExchangeTms
  <2>5. ASSUME ToCcu PROVE TypeOK'
    BY <2>5, GatewayAssumption DEF ToCcu, TypeOK, NoTurn
  <2>6. ASSUME RecordDigital \/ RecordAnalog \/ RecordSwap \/ WrUnlock PROVE TypeOK'
    <3>1. CASE RecordDigital
      BY <3>1 DEF RecordDigital, TypeOK
    <3>2. CASE RecordAnalog
      BY <3>2 DEF RecordAnalog, TypeOK
    <3>3. CASE RecordSwap
      BY <3>3 DEF RecordSwap, TypeOK
    <3>4. CASE WrUnlock
      BY <3>4 DEF WrUnlock, TypeOK
    <3>5. QED
      BY <2>6, <3>1, <3>2, <3>3, <3>4
  <2>7. ASSUME FileSave PROVE TypeOK'
    <3>1. TURN \in Nat /\ NoTurn \in 0 .. Failed /\ Failed \in 0 .. Failed
          /\ 0 .. TURN \subseteq 0 .. Failed
      BY GatewayAssumption DEF NoTurn, Failed
    <3>. <<NoTurn, NoTurn>> \in [1 .. 2 -> 0 .. Failed]
      BY <3>1
    <3>2. CASE RdLock
      BY <3>2 DEF RdLock, TypeOK
    <3>3. CASE SaveDigital
      <4>1. digital \in 0 .. Failed
        BY <3>1 DEF TypeOK
      <4>2. saved' \in [1 .. 2 -> 0 .. Failed]
        BY <3>1, <3>3, <4>1 DEF SaveDigital
      <4>3. QED
        BY <3>3, <4>2 DEF SaveDigital, TypeOK
    <3>4. CASE SaveAnalog
      <4>1. analog.turn \in 0 .. Failed /\ analog.order \in {"little", "big"}
        BY <3>1 DEF TypeOK
      <4>2. saved' \in [1 .. 2 -> 0 .. Failed] /\ order' \in {"little", "big"}
        BY <3>1, <3>4, <4>1 DEF SaveAnalog, TypeOK
      <4>3. QED
        BY <3>4, <4>2 DEF SaveAnalog, TypeOK
    <3>5. CASE RdUnlock
      BY <3>5 DEF RdUnlock, TypeOK
    <3>6. QED
      BY <2>7, <3>2, <3>3, <3>4, <3>5 DEF FileSave
  <2>8. CASE UNCHANGED vars
    BY <2>8 DEF vars, TypeOK
  <2>9. QED
    BY <2>1, <2>2, <2>3, <2>4, <2>5, <2>6, <2>7, <2>8 DEF Next, MVBThreadFunc
<1>3. QED
  BY <1>1, <1>2, PTL DEF Spec

\* RecInv is inductive: one step per statement of the two threads.
LEMMA RecInvHolds == Spec => []RecInv
<1>1. Init => RecInv
  BY DEF Init, RecInv, RecordWhole
<1>2. TypeOK /\ RecInv /\ [Next]_vars => RecInv'
  <2> SUFFICES ASSUME TypeOK, RecInv, [Next]_vars PROVE RecInv'
    OBVIOUS
  <2> USE DEF lock, latches, verdict, blocks, record, saver, RecInv, RecordWhole
  <2>1. CASE WrLock
    BY <2>1 DEF WrLock
  <2>2. ASSUME NEW i \in Mvb, ReadMvb(i) PROVE RecInv'
    <3>1. pc \notin {"lock", "analog", "swap"} /\ pc' \notin {"lock", "analog", "swap"}
      BY <2>2 DEF ReadMvb, Mvb
    <3>2. UNCHANGED <<lock, toTms, record, saver>>
      BY <2>2 DEF ReadMvb
    <3>3. QED
      BY <3>1, <3>2
  <2>3. CASE JudgeMvb
    BY <2>3 DEF JudgeMvb
  <2>4. CASE ExchangeTms
    BY <2>4 DEF ExchangeTms
  <2>5. CASE ToCcu
    BY <2>5 DEF ToCcu
  <2>6. CASE RecordDigital
    BY <2>6 DEF RecordDigital
  <2>7. CASE RecordAnalog
    BY <2>7 DEF RecordAnalog
  <2>8. CASE RecordSwap
    <3>1. analog'.turn = analog.turn /\ analog'.order = "little"
      BY <2>8 DEF RecordSwap, TypeOK
    <3>2. QED
      BY <2>8, <3>1 DEF RecordSwap
  <2>9. CASE WrUnlock
    BY <2>9 DEF WrUnlock
  <2>10. CASE RdLock
    BY <2>10 DEF RdLock
  <2>11. CASE SaveDigital
    BY <2>11 DEF SaveDigital
  <2>12. CASE SaveAnalog
    <3>1. pc = "lock" /\ analog.turn = digital /\ analog.order = "little"
      BY <2>12 DEF SaveAnalog
    <3>2. /\ saved'[1] = saved[1]
          /\ \/ saved'[2] = analog.turn /\ order' = analog.order
             \/ saved'[2] = Failed
      BY <2>12 DEF SaveAnalog, TypeOK
    <3>3. QED
      BY <2>12, <3>1, <3>2 DEF SaveAnalog
  <2>13. CASE RdUnlock
    BY <2>13 DEF RdUnlock
  <2>14. CASE UNCHANGED vars
    BY <2>14 DEF vars
  <2>15. QED
    BY <2>1, <2>2, <2>3, <2>4, <2>5, <2>6, <2>7, <2>8, <2>9, <2>10, <2>11, <2>12, <2>13,
       <2>14 DEF Next, MVBThreadFunc, FileSave
<1>3. QED
  BY <1>1, <1>2, GatewayTypeOK, PTL DEF Spec

\* The record the saver writes is never half made (FileSave.c:549, main.c:1003).
\* RecordWhole is not inductive: what the halves are while nobody holds the lock must
\* be known before the saver takes it.
THEOREM GatewayRecordWhole == Spec => []RecordWhole
<1>1. RecInv => RecordWhole
  BY DEF RecInv
<1>2. QED
  BY <1>1, RecInvHolds, PTL

\* The two threads implement SharedRecord: the lock keeps the filling of the analogue
\* half (FileSave.c:569) out of the saver's section (main.c:1003),
\* and what is saved is the record published last, its bytes swapped.
THEOREM GatewayImplementsSharedRecord == Spec => ImplementsSharedRecord
<1> USE DEF Half, NoHalf
<1>1. Init => Shared!SharedInit
  BY GatewayAssumption DEF Init, NoTurn, Shared!SharedInit, Shared!Nothing
<1>2. ASSUME TypeOK, RecInv, [Next]_vars
      PROVE  Shared!SharedNext \/ UNCHANGED Shared!sharedVars
  <2> USE DEF lock, latches, verdict, blocks, record, saver
  <2>1. CASE RecordAnalog
    <3>1. pc = "analog" /\ writer /\ spc = "lock"
      BY <1>2, <2>1 DEF RecordAnalog, RecInv
    <3>2. analog'.turn = toTms /\ toTms \in 0 .. TURN
      BY <1>2, <2>1 DEF RecordAnalog, TypeOK
    <3>3. Half(analog.turn, "little")' \in [turn : 0 .. TURN, order : {"little"}]
      BY <3>2
    <3>4. Shared!Publish
      BY <2>1, <3>1, <3>3 DEF RecordAnalog, Shared!Publish
    <3>5. QED
      BY <3>4 DEF Shared!SharedNext
  <2>2. CASE RdLock
    <3>1. Shared!BeginSave
      BY <2>2 DEF RdLock, Shared!BeginSave
    <3>2. QED
      BY <3>1 DEF Shared!SharedNext
  <2>3. CASE SaveDigital
    <3>1. spc = "digital" /\ spc' = "analog" /\ UNCHANGED analog /\ digital = analog.turn
      BY <1>2, <2>3 DEF SaveDigital, RecInv
    <3>2. CASE saved' = <<digital, NoTurn>>
      <4>1. Shared!SaveHalf(1)
        BY <3>1, <3>2 DEF Shared!SaveHalf
      <4>2. QED
        BY <4>1 DEF Shared!SharedNext
    <3>3. CASE saved' = <<Failed, NoTurn>>
      BY <3>1, <3>3 DEF Shared!sharedVars
    <3>4. QED
      BY <2>3, <3>2, <3>3 DEF SaveDigital
  <2>4. CASE SaveAnalog
    <3>1. /\ spc = "analog" /\ spc' = "unlock" /\ UNCHANGED analog
          /\ analog.order = "little"
      BY <1>2, <2>4 DEF SaveAnalog, RecInv
    <3>2. analog.turn \in 0 .. TURN /\ analog.turn # Failed
      BY <1>2, GatewayAssumption DEF TypeOK, Failed
    <3>3. CASE saved' = [saved EXCEPT ![2] = analog.turn] /\ order' = analog.order
      <4>1. saved'[1] = saved[1] /\ saved'[2] = analog.turn /\ order' = "little"
        BY <1>2, <3>1, <3>3 DEF TypeOK
      <4>2. Shared!SaveHalf(2)
        BY <3>1, <3>2, <4>1 DEF Shared!SaveHalf
      <4>3. QED
        BY <4>2 DEF Shared!SharedNext
    <3>4. CASE saved' = [saved EXCEPT ![2] = Failed]
      <4>1. saved'[1] = saved[1] /\ saved'[2] = Failed
        BY <1>2, <3>4 DEF TypeOK
      <4>2. QED
        BY <3>1, <4>1 DEF Shared!sharedVars
    <3>5. QED
      BY <2>4, <3>3, <3>4 DEF SaveAnalog
  <2>5. CASE RdUnlock
    <3>1. Shared!EndSave
      BY <2>5 DEF RdUnlock, Shared!EndSave, Shared!Nothing
    <3>2. QED
      BY <3>1 DEF Shared!SharedNext
  <2>6. CASE RecordSwap
    <3>1. analog'.turn = analog.turn /\ UNCHANGED <<spc, saved, order>>
      BY <1>2, <2>6 DEF RecordSwap, TypeOK
    <3>2. QED
      BY <3>1 DEF Shared!sharedVars
  <2>7. CASE \/ WrLock \/ (\E i \in Mvb : ReadMvb(i)) \/ JudgeMvb \/ ExchangeTms \/ ToCcu
             \/ RecordDigital \/ WrUnlock \/ UNCHANGED vars
    <3>1. UNCHANGED <<analog, spc, saved, order>>
      BY <2>7 DEF WrLock, ReadMvb, JudgeMvb, ExchangeTms, ToCcu, RecordDigital, WrUnlock, vars
    <3>2. QED
      BY <3>1 DEF Shared!sharedVars
  <2>8. QED
    BY <1>2, <2>1, <2>2, <2>3, <2>4, <2>5, <2>6, <2>7 DEF Next, MVBThreadFunc, FileSave
<1>3. QED
  BY <1>1, <1>2, GatewayTypeOK, RecInvHolds, PTL
     DEF Spec, ImplementsSharedRecord, Shared!SharedSpec
-----------------------------------------------------------------------------

\* A step gives a verdict on the frames of the CCU, or leaves it alone.
LEMMA VerdictSteps == [Next]_vars => JudgeMvb \/ UNCHANGED verdict
  BY DEF Next, MVBThreadFunc, FileSave, WrLock, ReadMvb, ExchangeTms, ToCcu, RecordDigital,
         RecordAnalog, RecordSwap, WrUnlock, RdLock, SaveDigital, SaveAnalog, RdUnlock, vars

\* mvb_err tells of ERRNUM turns in a row without life (BramDataProc.c:2000).  The count
\* is set back to 0 together with the verdict, so that it may lag behind the turns but
\* never lead them.
THEOREM GatewayMvbErrRow == Spec => []MvbErrRow
<1>1. Init => VerdictInv
  BY GatewayAssumption DEF Init, VerdictInv
<1>2. TypeOK /\ VerdictInv /\ [Next]_vars => VerdictInv'
  <2> SUFFICES ASSUME TypeOK, VerdictInv, [Next]_vars PROVE VerdictInv'
    OBVIOUS
  <2>1. CASE JudgeMvb
    <3>1. /\ ERRNUM \in Nat \ {0} /\ errnum \in 0 .. ERRNUM - 1 /\ stood \in 0 .. ERRNUM
          /\ errnum <= stood /\ judge_val \in {0, 1} /\ (judge_val = 1 => stood = ERRNUM)
      BY GatewayAssumption DEF TypeOK, VerdictInv
    <3>2. mvb_err' = judge_val'
      BY <2>1 DEF JudgeMvb
    <3>3. CASE Stands
      <4>1. ~(\A i \in Mvb : mvb_rd[i].lo # frame_life[i])
        BY <3>3 DEF Stands
      <4>2. stood' = IF stood + 1 > ERRNUM THEN ERRNUM ELSE stood + 1
        BY <2>1, <4>1 DEF JudgeMvb, AtMost
      <4>3. /\ errnum' = (errnum + 1) % ERRNUM
            /\ judge_val' = IF errnum + 1 >= ERRNUM THEN 1 ELSE judge_val
        BY <2>1, <3>3 DEF JudgeMvb
      <4>4. (errnum + 1) % ERRNUM <= errnum + 1
        BY <3>1
      <4>5. QED
        BY <3>1, <3>2, <4>2, <4>3, <4>4 DEF VerdictInv
    <3>4. CASE ~Stands
      <4>1. errnum' = 0 /\ judge_val' = 0 /\ stood' \in Nat
        BY <2>1, <3>1, <3>4 DEF JudgeMvb, AtMost
      <4>2. QED
        BY <3>2, <4>1 DEF VerdictInv
    <3>5. QED
      BY <3>3, <3>4
  <2>2. CASE UNCHANGED verdict
    BY <2>2 DEF verdict, VerdictInv
  <2>3. JudgeMvb \/ UNCHANGED verdict
    BY VerdictSteps
  <2>4. QED
    BY <2>1, <2>2, <2>3
<1>3. VerdictInv => MvbErrRow
  BY DEF VerdictInv, MvbErrRow
<1>4. QED
  BY <1>1, <1>2, <1>3, GatewayTypeOK, PTL DEF Spec

\* mvb_err is given in the very turn that makes ERRNUM in a row without life
\* (MVB_RD_Data_Proc, BramDataProc.c:2000), and not taken back while they go on.
THEOREM GatewayMvbErrPrompt == Spec => []MvbErrPrompt
<1>1. Init => PromptInv
  BY DEF Init, PromptInv
<1>2. TypeOK /\ PromptInv /\ [Next]_vars => PromptInv'
  <2> SUFFICES ASSUME TypeOK, PromptInv, [Next]_vars PROVE PromptInv'
    OBVIOUS
  <2>1. CASE JudgeMvb
    <3>1. /\ ERRNUM \in Nat \ {0} /\ errnum \in 0 .. ERRNUM - 1 /\ still \in 0 .. ERRNUM
          /\ judge_val \in {0, 1} /\ (judge_val = 0 => errnum = still)
      BY GatewayAssumption DEF TypeOK, PromptInv
    <3>2. mvb_err' = judge_val'
      BY <2>1 DEF JudgeMvb
    <3>3. Stands <=> \E i \in Mvb : mvb_rd[i] = [lo |-> frame_life[i], hi |-> 0]
      <4>1. \A i \in Mvb : mvb_rd[i] \in [lo : 0 .. LIFE - 1, hi : {0, 1}]
        BY DEF TypeOK, Word
      <4>2. \A i \in Mvb : mvb_rd[i] = [lo |-> frame_life[i], hi |-> 0]
                           <=> mvb_rd[i].hi = 0 /\ mvb_rd[i].lo = frame_life[i]
        BY <4>1
      <4>3. QED
        BY <4>2 DEF Stands
    <3>4. CASE Stands
      <4>1. /\ errnum' = (errnum + 1) % ERRNUM
            /\ judge_val' = IF errnum + 1 >= ERRNUM THEN 1 ELSE judge_val
            /\ still' = IF still + 1 > ERRNUM THEN ERRNUM ELSE still + 1
        BY <2>1, <3>3, <3>4 DEF JudgeMvb, AtMost
      <4>2. errnum + 1 < ERRNUM => (errnum + 1) % ERRNUM = errnum + 1
        BY <3>1
      <4>3. QED
        BY <3>1, <3>2, <4>1, <4>2 DEF PromptInv
    <3>5. CASE ~Stands
      <4>1. errnum' = 0 /\ judge_val' = 0 /\ still' = 0
        BY <2>1, <3>3, <3>5 DEF JudgeMvb
      <4>2. QED
        BY <3>2, <4>1 DEF PromptInv
    <3>6. QED
      BY <3>4, <3>5
  <2>2. CASE UNCHANGED verdict
    BY <2>2 DEF verdict, PromptInv
  <2>3. JudgeMvb \/ UNCHANGED verdict
    BY VerdictSteps
  <2>4. QED
    BY <2>1, <2>2, <2>3
<1>3. TypeOK /\ PromptInv => MvbErrPrompt
  BY GatewayAssumption DEF TypeOK, PromptInv, MvbErrPrompt
<1>4. QED
  BY <1>1, <1>2, <1>3, GatewayTypeOK, PTL DEF Spec
-----------------------------------------------------------------------------
\* A step judges the life of one channel, or leaves every latch alone.
LEMMA LatchSteps ==
  ASSUME [Next]_vars
  PROVE  \/ UNCHANGED latches
         \/ \E i \in Mvb, lost \in BOOLEAN : LifeMvb(i, lost) /\ Lost(i, lost)
         \/ \E lost \in BOOLEAN : LifeTms("tms", lost) /\ Lost("tms", lost)
<1>1. CASE \E i \in Mvb : ReadMvb(i)
  BY <1>1 DEF ReadMvb
<1>2. CASE ExchangeTms
  BY <1>2 DEF ExchangeTms
<1>3. ~(\E i \in Mvb : ReadMvb(i)) /\ ~ExchangeTms => UNCHANGED latches
  BY DEF Next, MVBThreadFunc, FileSave, WrLock, JudgeMvb, ToCcu, RecordDigital, RecordAnalog,
         RecordSwap, WrUnlock, RdLock, SaveDigital, SaveAnalog, RdUnlock, vars
<1>4. QED
  BY <1>1, <1>2, <1>3

\* No life latch outlasts the loss it stands for: a good life signal clears it, the
\* TMS570's too (BramDataProc.c:1678), though that one leaves its count.
THEOREM GatewayLatchFresh == Spec => []LatchFresh
<1>1. Init => LatchFresh
  BY DEF Init, LatchFresh
<1>2. TypeOK /\ LatchFresh /\ [Next]_vars => LatchFresh'
  <2> SUFFICES ASSUME TypeOK, LatchFresh, [Next]_vars PROVE LatchFresh'
    OBVIOUS
  <2>1. CASE UNCHANGED latches
    BY <2>1 DEF latches, LatchFresh
  <2>2. ASSUME NEW c \in Chan, NEW lost \in BOOLEAN,
               LifeMvb(c, lost) \/ LifeTms(c, lost), Lost(c, lost)
        PROVE  LatchFresh'
    <3>1. /\ \A d \in Chan \ {c} : /\ lifeErrFlag'[d] = lifeErrFlag[d]
                                  /\ lostInRow'[d] = lostInRow[d]
          /\ lifeErrFlag'[c] => lostInRow'[c] > 0
      BY <2>2, LifeStep
    <3>2. QED
      BY <3>1 DEF LatchFresh
  <2>3. QED
    BY <2>1, <2>2, LatchSteps DEF Chan
<1>3. QED
  BY <1>1, <1>2, GatewayTypeOK, PTL DEF Spec

\* The latch of an MVB frame rises only after more than BRAMERR_NUM lost lives in a row
\* (BramDataProc.c:1871): a good one restarts the count, so that it never leads them.
\* Of the TMS570's channel neither RowInv nor the theorem holds.
THEOREM GatewayMvbLatchRow == Spec => MvbLatchRow
<1>1. Init => RowInv
  BY DEF Init, RowInv, Chan
<1>2. ASSUME TypeOK, RowInv, [Next]_vars
      PROVE  \A i \in Mvb : /\ lifeErrNum'[i] <= lostInRow'[i]
                            /\ ~lifeErrFlag[i] /\ lifeErrFlag'[i] => lostInRow'[i] > BRAMERR_NUM
  <2> SUFFICES ASSUME NEW i \in Mvb
               PROVE  /\ lifeErrNum'[i] <= lostInRow'[i]
                      /\ ~lifeErrFlag[i] /\ lifeErrFlag'[i] => lostInRow'[i] > BRAMERR_NUM
    OBVIOUS
  <2>1. /\ i \in Chan /\ BRAMERR_NUM \in Nat /\ lifeErrNum[i] <= lostInRow[i]
        /\ lifeErrNum[i] \in 0 .. BRAMERR_NUM /\ lostInRow[i] \in 0 .. BRAMERR_NUM + 1
    BY <1>2, GatewayAssumption DEF TypeOK, RowInv, Chan
  <2>2. CASE \/ UNCHANGED latches
             \/ \E c \in Chan \ {i}, lost \in BOOLEAN :
                  (LifeMvb(c, lost) \/ LifeTms(c, lost)) /\ Lost(c, lost)
    <3>1. /\ lifeErrNum'[i] = lifeErrNum[i] /\ lifeErrFlag'[i] = lifeErrFlag[i]
          /\ lostInRow'[i] = lostInRow[i]
      BY <1>2, <2>1, <2>2, LifeStep DEF latches
    <3>2. QED
      BY <2>1, <3>1
  <2>3. ASSUME NEW lost \in BOOLEAN, LifeMvb(i, lost), Lost(i, lost)
        PROVE  /\ lifeErrNum'[i] <= lostInRow'[i]
               /\ ~lifeErrFlag[i] /\ lifeErrFlag'[i] => lostInRow'[i] > BRAMERR_NUM
    <3> DEFINE n == lifeErrNum[i] + 1
    <3>1. lifeErrNum'[i] = IF lost /\ ~(n > BRAMERR_NUM) THEN n ELSE 0
      BY <1>2, <2>1, <2>3 DEF LifeMvb, TypeOK
    <3>2. lifeErrFlag'[i] <=> lost /\ (lifeErrFlag[i] \/ n > BRAMERR_NUM)
      BY <1>2, <2>1, <2>3, Zenon DEF LifeMvb, TypeOK
    <3>3. lostInRow'[i] = IF lost THEN (IF lostInRow[i] + 1 > BRAMERR_NUM + 1
                                          THEN BRAMERR_NUM + 1 ELSE lostInRow[i] + 1)
                                  ELSE 0
      BY <1>2, <2>1, <2>3 DEF Lost, AtMost, TypeOK
    <3>4. lifeErrNum'[i] <= lostInRow'[i]
      BY <2>1, <3>1, <3>3
    <3>5. lost /\ n > BRAMERR_NUM => lostInRow'[i] > BRAMERR_NUM
      BY <2>1, <3>3
    <3>6. QED
      BY <3>2, <3>4, <3>5
  <2>4. QED
    BY <1>2, <2>1, <2>2, <2>3, LatchSteps DEF Chan, Mvb
<1>3. TypeOK /\ RowInv /\ [Next]_vars =>
        /\ RowInv'
        /\ \A i \in Mvb : ~lifeErrFlag[i] /\ lifeErrFlag'[i] => lostInRow'[i] > BRAMERR_NUM
  BY <1>2 DEF RowInv
<1>4. QED
  BY <1>1, <1>3, GatewayTypeOK, PTL DEF Spec, MvbLatchRow
=============================================================================
