------------------------------ MODULE Gateway -------------------------------
(***************************************************************************)
(* MVBThreadFunc: the frames of the CCU on the MVB are read from the block *)
(* RAM, judged, and passed to the TMS570; the TMS570's answer is read and  *)
(* a record of both is prepared for the event file, which FileSaveThreaFunc*)
(* writes in two halves.  BramDatalock, a read-write lock, is all that     *)
(* keeps the two threads apart.                                            *)
(*                                                                         *)
(* The reading and writing of one frame are BramRead's and BramWrite's and *)
(* are one step here.  The error bits taken from one past the last element *)
(* of the latches (BramDataProc.c:1697, 1781, 1903, 1964) are undefined    *)
(* and nothing here reads them: they are left out.                         *)
(***************************************************************************)
EXTENDS Naturals

CONSTANTS
  BRAMERR_NUM, \* BramDataProc.h:36
  ERRNUM,      \* 10: turns in a row without life before mvb_err
  LIFE,        \* values of the low half of a frame's first word: 2^16 in the code
  TURN         \* turns of the loop the records are told apart by, modulo

ASSUME GatewayAssumption ==
  /\ BRAMERR_NUM \in Nat /\ ERRNUM \in Nat \ {0}
  /\ LIFE \in Nat \ {0, 1} /\ TURN \in Nat \ {0, 1}

\* The two frames of MVB_READ_FRAME_NUM, and the TMS570's channel 8.
Mvb == {"f1", "f2"}
Chan == Mvb \cup {"tms"}

\* The first word of a frame: its low half, and whether its upper half is not 0.
Word == [lo : 0 .. LIFE - 1, hi : {0, 1}]

VARIABLES
  writer, reader,   \* BramDatalock
  pc,          \* MVBThreadFunc: next statement
  turn,        \* history: which turn of the loop this is
  mvb_rd,      \* s_mvb_bram_RD_data_st: the first word of each frame
  lifeErrNum, lifeErrFlag,  \* the life latch of each channel
  frame_life,  \* the low halves of the turn before
  errnum, judge_val, mvb_err,
  toTms,       \* s_tms570_bram_WR_data_ch8_st, the frames and the verdict: of which turn
  tms_rd,      \* s_tms570_bram_RD_data_ch8_st: of which turn, or NoTurn, all zero
  mvb_wr,      \* s_mvb_bram_WR_data_st
  digital, analog,  \* s_save_to_csr_driver, its two halves: of which turn, and the
               \*      byte order of the analogue one
  spc,         \* FileSaveThreaFunc's call of ECU_EventDataSave: next statement
  saved,       \* history: the halves this call has written, or Failed
  order,       \* history: the byte order of the analogue half it has written
  lostInRow,   \* history: lives lost in a row among the good reads of a channel, up
               \*          to BRAMERR_NUM + 1
  stood,       \* history: turns in a row in which the low half of some frame was that
               \*          of the turn before, up to ERRNUM
  still        \* history: those in which its upper half was 0 as well, up to ERRNUM

lock == <<writer, reader>>
latches == <<lifeErrNum, lifeErrFlag, lostInRow>>
verdict == <<frame_life, errnum, judge_val, mvb_err, stood, still>>
blocks == <<toTms, tms_rd, mvb_wr>>
record == <<digital, analog>>
saver == <<spc, saved, order>>
vars == <<lock, pc, turn, mvb_rd, latches, verdict, blocks, record, saver>>

AtMost(n, bound) == IF n > bound THEN bound ELSE n
Zero == [lo |-> 0, hi |-> 0]
Turns == 1 .. TURN
NoTurn == 0
Failed == TURN + 1

Init ==
  /\ writer = FALSE /\ reader = FALSE /\ pc = "lock" /\ turn = 1
  /\ mvb_rd = [i \in Mvb |-> Zero]
  /\ lifeErrNum = [c \in Chan |-> 0] /\ lifeErrFlag = [c \in Chan |-> FALSE]
  /\ lostInRow = [c \in Chan |-> 0]
  /\ frame_life = [i \in Mvb |-> 0]
  /\ errnum = 0 /\ judge_val = 0 /\ mvb_err = 0 /\ stood = 0 /\ still = 0
  /\ toTms = NoTurn
  /\ tms_rd = NoTurn /\ mvb_wr = NoTurn
  /\ digital = NoTurn /\ analog = [turn |-> NoTurn, order |-> "little"]
  /\ spc = "lock" /\ saved = <<NoTurn, NoTurn>> /\ order = "little"
-----------------------------------------------------------------------------
(* MVBThreadFunc.                                                          *)

WrLock ==
  /\ pc = "lock" /\ ~writer /\ ~reader
  /\ writer' = TRUE /\ pc' = "f1"
  /\ turn' = 1 + (turn % TURN)
  /\ UNCHANGED <<reader, mvb_rd, latches, verdict, blocks, record, saver>>

\* Mutant of LifeMvb: a good life signal leaves the count, as in the TMS570's
\* reading.
LifeMvbNoReset(c, lost) ==
  LET n == lifeErrNum[c] + 1
      full == n > BRAMERR_NUM
  IN /\ lifeErrNum' = [lifeErrNum EXCEPT ![c] = IF lost THEN (IF full THEN 0 ELSE n) ELSE @]
     /\ lifeErrFlag' = [lifeErrFlag EXCEPT ![c] = lost /\ (@ \/ full)]

\* MVB_Bram_Read_Func: more than BRAMERR_NUM lost lives set the latch and restart the
\* count, a good one clears both.
LifeMvb(c, lost) ==
  LET n == lifeErrNum[c] + 1
      full == n > BRAMERR_NUM
  IN /\ lifeErrNum' = [lifeErrNum EXCEPT ![c] = IF lost /\ ~full THEN n ELSE 0]
     /\ lifeErrFlag' = [lifeErrFlag EXCEPT ![c] = lost /\ (@ \/ full)]

\* TMS570_Bram_Read_Func: the same, but a good life signal leaves the count.
LifeTms(c, lost) ==
  LET n == lifeErrNum[c] + 1
      full == n > BRAMERR_NUM
  IN /\ lifeErrNum' = [lifeErrNum EXCEPT ![c] = IF lost THEN (IF full THEN 0 ELSE n) ELSE @]
     /\ lifeErrFlag' = [lifeErrFlag EXCEPT ![c] = lost /\ (@ \/ full)]

Lost(c, lost) ==
  lostInRow' = [lostInRow EXCEPT ![c] = IF lost THEN AtMost(@ + 1, BRAMERR_NUM + 1) ELSE 0]

\* One frame of MVB_Bram_Read_Func.  CODE_ERR and CODE_WARN, an empty channel, leave
\* the data and the life latch.  ExtraBoardData takes the data of a good frame; its
\* life is lost when the frame's life word is 0, and when it has no data at all.
ReadMvb(i) ==
  /\ pc = i
  /\ \/ UNCHANGED <<mvb_rd, latches>>
     \/ \E lost \in BOOLEAN, w \in Word :
          /\ LifeMvb(i, lost) /\ Lost(i, lost)
          /\ mvb_rd' = [mvb_rd EXCEPT ![i] = w]
  /\ pc' = IF i = "f1" THEN "f2" ELSE "judge"
  /\ UNCHANGED <<lock, turn, verdict, blocks, record, saver>>

\* Mutant of Stands: both frames must stand still.
StandsBoth == \A i \in Mvb : mvb_rd[i].hi = 0 /\ mvb_rd[i].lo = frame_life[i]

\* MVB_RD_Data_Proc compares the low half of the turn before with the whole word of
\* this one (== binds tighter than &), and either frame will do.
Stands == \E i \in Mvb : mvb_rd[i].hi = 0 /\ mvb_rd[i].lo = frame_life[i]

\* Mutant of JudgeMvb: turns in which a frame stood still add up.
JudgeMvbAddsUp ==
  /\ pc = "judge"
  /\ errnum' = IF Stands THEN (errnum + 1) % ERRNUM ELSE errnum
  /\ judge_val' = IF Stands THEN (IF errnum + 1 >= ERRNUM THEN 1 ELSE judge_val) ELSE 0
  /\ frame_life' = [i \in Mvb |-> mvb_rd[i].lo]
  /\ mvb_err' = judge_val'
  /\ toTms' = turn
  /\ stood' = IF \A i \in Mvb : mvb_rd[i].lo # frame_life[i]
                THEN 0 ELSE AtMost(stood + 1, ERRNUM)
  /\ still' = IF \E i \in Mvb : mvb_rd[i] = [lo |-> frame_life[i], hi |-> 0]
                THEN AtMost(still + 1, ERRNUM) ELSE 0
  /\ pc' = "tms"
  /\ UNCHANGED <<lock, turn, mvb_rd, latches, tms_rd, mvb_wr, record, saver>>

\* The verdict of MVB_RD_Data_Proc, and the block for the TMS570.
JudgeMvb ==
  /\ pc = "judge"
  /\ errnum' = IF Stands THEN (errnum + 1) % ERRNUM ELSE 0
  /\ judge_val' = IF Stands THEN (IF errnum + 1 >= ERRNUM THEN 1 ELSE judge_val) ELSE 0
  /\ frame_life' = [i \in Mvb |-> mvb_rd[i].lo]
  /\ mvb_err' = judge_val'
  /\ toTms' = turn
  /\ stood' = IF \A i \in Mvb : mvb_rd[i].lo # frame_life[i]
                THEN 0 ELSE AtMost(stood + 1, ERRNUM)
  /\ still' = IF \E i \in Mvb : mvb_rd[i] = [lo |-> frame_life[i], hi |-> 0]
                THEN AtMost(still + 1, ERRNUM) ELSE 0
  /\ pc' = "tms"
  /\ UNCHANGED <<lock, turn, mvb_rd, latches, tms_rd, mvb_wr, record, saver>>

\* TMS570_Bram_Write_Func sends the block; TMS570_Bram_Read_Func reads the answer.
ExchangeTms ==
  /\ pc = "tms"
  /\ \/ UNCHANGED <<tms_rd, latches>>
     \/ \E lost \in BOOLEAN :
          /\ LifeTms("tms", lost) /\ Lost("tms", lost)
          /\ tms_rd' = turn
  /\ pc' = "ccu"
  /\ UNCHANGED <<lock, turn, mvb_rd, verdict, toTms, mvb_wr, record, saver>>

\* MVB_WR_Data_Proc copies from the block for the CCU into the TMS570's answer, then
\* MVB_Bram_Write_Func sends the block for the CCU.
ToCcu ==
  /\ pc = "ccu"
  /\ tms_rd' = mvb_wr
  /\ pc' = "digital"
  /\ UNCHANGED <<lock, turn, mvb_rd, latches, verdict, toTms, mvb_wr, record, saver>>

\* ECU_Record_Data_Pro_Fun: the digital half, the analogue half in the byte order of
\* the blocks, and the analogue half put in the order of the file, in place.
RecordDigital ==
  /\ pc = "digital"
  /\ digital' = toTms
  /\ pc' = "analog"
  /\ UNCHANGED <<lock, turn, mvb_rd, latches, verdict, blocks, analog, saver>>

RecordAnalog ==
  /\ pc = "analog"
  /\ analog' = [turn |-> toTms, order |-> "big"]
  /\ pc' = "swap"
  /\ UNCHANGED <<lock, turn, mvb_rd, latches, verdict, blocks, digital, saver>>

RecordSwap ==
  /\ pc = "swap"
  /\ analog' = [analog EXCEPT !.order = "little"]
  /\ pc' = "unlock"
  /\ UNCHANGED <<lock, turn, mvb_rd, latches, verdict, blocks, digital, saver>>

WrUnlock ==
  /\ pc = "unlock"
  /\ writer' = FALSE /\ pc' = "lock"
  /\ UNCHANGED <<reader, turn, mvb_rd, latches, verdict, blocks, record, saver>>

MVBThreadFunc ==
  \/ WrLock \/ (\E i \in Mvb : ReadMvb(i)) \/ JudgeMvb \/ ExchangeTms \/ ToCcu
  \/ RecordDigital \/ RecordAnalog \/ RecordSwap \/ WrUnlock
-----------------------------------------------------------------------------
(* FileSaveThreaFunc, main.c:1003: ECU_EventDataSave under the lock.       *)

\* Mutant of RdLock: the lock is another one, as RealWaveThreadFunc's is.
RdLockOther ==
  /\ spc = "lock"
  /\ spc' = "digital" /\ saved' = <<NoTurn, NoTurn>>
  /\ UNCHANGED <<lock, pc, turn, mvb_rd, latches, verdict, blocks, record, order>>

RdLock ==
  /\ spc = "lock" /\ ~writer
  /\ reader' = TRUE
  /\ spc' = "digital" /\ saved' = <<NoTurn, NoTurn>>
  /\ UNCHANGED <<writer, pc, turn, mvb_rd, latches, verdict, blocks, record, order>>

\* A failed write is logged and the next half is written all the same.
SaveDigital ==
  /\ spc = "digital"
  /\ saved' \in {<<digital, NoTurn>>, <<Failed, NoTurn>>}
  /\ spc' = "analog"
  /\ UNCHANGED <<lock, pc, turn, mvb_rd, latches, verdict, blocks, record, order>>

SaveAnalog ==
  /\ spc = "analog"
  /\ \/ saved' = [saved EXCEPT ![2] = analog.turn] /\ order' = analog.order
     \/ saved' = [saved EXCEPT ![2] = Failed] /\ UNCHANGED order
  /\ spc' = "unlock"
  /\ UNCHANGED <<lock, pc, turn, mvb_rd, latches, verdict, blocks, record>>

RdUnlock ==
  /\ spc = "unlock"
  /\ reader' = FALSE /\ spc' = "lock" /\ saved' = <<NoTurn, NoTurn>>
  /\ UNCHANGED <<writer, pc, turn, mvb_rd, latches, verdict, blocks, record, order>>

FileSave == RdLock \/ SaveDigital \/ SaveAnalog \/ RdUnlock

Next == MVBThreadFunc \/ FileSave

Spec == Init /\ [][Next]_vars

\* The MVB thread goes on; when the saver holds the lock it leaves it, and a waiting
\* writer gets it at last: strong fairness.
FairSpec == Spec /\ SF_vars(MVBThreadFunc) /\ WF_vars(SaveDigital \/ SaveAnalog \/ RdUnlock)
-----------------------------------------------------------------------------
(* Properties.                                                             *)

\* Type invariant.
TypeOK ==
  /\ writer \in BOOLEAN /\ reader \in BOOLEAN /\ turn \in Turns
  /\ pc \in {"lock", "f1", "f2", "judge", "tms", "ccu", "digital", "analog", "swap",
             "unlock"}
  /\ mvb_rd \in [Mvb -> Word] /\ frame_life \in [Mvb -> 0 .. LIFE - 1]
  /\ lifeErrFlag \in [Chan -> BOOLEAN]
  /\ lifeErrNum \in [Chan -> 0 .. BRAMERR_NUM]
  /\ lostInRow \in [Chan -> 0 .. BRAMERR_NUM + 1]
  /\ errnum \in 0 .. ERRNUM - 1 /\ judge_val \in {0, 1} /\ mvb_err \in {0, 1}
  /\ stood \in 0 .. ERRNUM /\ still \in 0 .. ERRNUM
  /\ toTms \in 0 .. TURN
  /\ tms_rd \in 0 .. TURN /\ mvb_wr = NoTurn
  /\ digital \in 0 .. TURN
  /\ analog \in [turn : 0 .. TURN, order : {"little", "big"}]
  /\ saved \in [1 .. 2 -> 0 .. Failed] /\ order \in {"little", "big"}
  /\ spc \in {"lock", "digital", "analog", "unlock"}

\* The life latch of an MVB frame (BramDataProc.c:1871) rises only after more than
\* BRAMERR_NUM lost lives in a row, reads that fail or find nothing between them not
\* counted: lost lives a good one separates do not add up.  The TMS570's latch has no
\* such promise.
MvbLatchRow ==
  [][\A i \in Mvb : ~lifeErrFlag[i] /\ lifeErrFlag'[i] => lostInRow'[i] > BRAMERR_NUM]_vars

\* No life latch outlasts the loss: while it is set, the last life that was judged was
\* lost, the TMS570's too (BramDataProc.c:1678).
LatchFresh == \A c \in Chan : lifeErrFlag[c] => lostInRow[c] > 0

\* mvb_err is 1 only after ERRNUM turns in a row in each of which the life of one of
\* the frames stood still (BramDataProc.c:2000): one turn in which both moved clears
\* it.  That one frame is enough is the code's choice.
MvbErrRow == mvb_err = 1 => stood = ERRNUM

\* Nor is it late: after ERRNUM turns in a row in which some frame's life stood still and
\* its upper half was 0 it is 1, although the count begins again with every ERRNUM of
\* them (BramDataProc.c:2003), and stays 1 as long as they go on.
MvbErrPrompt == still = ERRNUM => mvb_err = 1

\* The record FileSaveThreaFunc writes is of one turn of MVBThreadFunc and its
\* analogue half is in the file's byte order: never a record half made
\* (FileSave.c:549, main.c:1003).
RecordWhole ==
  spc = "unlock" /\ Failed \notin {saved[1], saved[2]} =>
    saved[1] = saved[2] /\ order = "little"

\* The record as the saver is promised it: published when its analogue half is filled, in
\* the byte order the swap is yet to give it.
Half(t, o) == [turn |-> t, order |-> o]
NoHalf == Half(Failed, "little")

Shared == INSTANCE SharedRecord WITH
  Record <- [turn : 0 .. TURN, order : {"little"}],
  Missing <- NoHalf,
  current <- Half(analog.turn, "little"),
  saving <- spc # "lock",
  halves <- <<IF spc \in {"analog", "unlock"} THEN Half(saved[1], "little") ELSE NoHalf,
              IF spc = "unlock" /\ saved[2] # Failed THEN Half(saved[2], order) ELSE NoHalf>>

\* MVBThreadFunc and FileSaveThreaFunc implement SharedRecord: a record is published only
\* while none is saved, and a call of ECU_EventDataSave (FileSave.c:636) writes the one
\* published last and no other, in the file's byte order.
ImplementsSharedRecord == Shared!SharedSpec

\* Liveness: a CCU frame that stands still, and whose upper half is 0, is reported for
\* ever.  A frame whose upper half is not 0 may stand still unseen.
MvbDeadShows ==
  \A i \in Mvb : \A v \in 0 .. LIFE - 1 :
    <>[](mvb_rd[i] = [lo |-> v, hi |-> 0]) => <>[](mvb_err = 1)
=============================================================================
