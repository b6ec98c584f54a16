-------------------------- MODULE BramWriteProofs --------------------------
(* Proofs about BramWrite, for every WR_CRCERR_NUM and every thread set.   *)
EXTENDS BramWrite, TLAPS

\* The default build has one thread that writes frames, BlvdsThreadFunc.
SoleWriter == \A s, t \in Thread : s = t

-----------------------------------------------------------------------------
\* The successor of a byte is a byte; below the retry limit it does not wrap.
LEMMA IncByteRange ==
  ASSUME NEW n \in 0..(U8 - 1)
  PROVE  /\ IncByte(n) \in 0..(U8 - 1)
         /\ n < WR_CRCERR_NUM => IncByte(n) = n + 1
  BY WriteAssumption DEF IncByte

\* A capped successor stays in range, and grows below the cap.
LEMMA AtMostRange ==
  ASSUME NEW bound \in Nat, NEW n \in 0..bound
  PROVE  /\ AtMost(n + 1, bound) \in 0..bound
         /\ AtMost(n + 1, bound) >= n
         /\ n < bound => AtMost(n + 1, bound) = n + 1
         /\ n = bound => AtMost(n + 1, bound) = bound
  BY DEF AtMost

-----------------------------------------------------------------------------
\* Every variable of the write protocol keeps its type, however many threads
\* share the counter and whichever flag bytes they share.
THEOREM WriteTypeOK == Spec => []TypeOK
<1>1. Init => TypeOK
  BY WriteAssumption DEF Init, TypeOK, Label
<1>2. TypeOK /\ [Next]_vars => TypeOK'
  <2> SUFFICES ASSUME TypeOK, [Next]_vars PROVE TypeOK'
    OBVIOUS
  <2>1. ASSUME NEW t \in Thread, CallWrite(t) PROVE TypeOK'
    BY <2>1, WriteAssumption DEF TypeOK, CallWrite, Goto, Label, fpga
  <2>2. ASSUME NEW t \in Thread, FlagWaitPass(t) \/ FlagCleared(t) \/ CrcError(t)
        PROVE TypeOK'
    BY <2>2 DEF TypeOK, FlagWaitPass, FlagCleared, CrcError, Goto, Label, fpga, hist
  <2>3. ASSUME NEW t \in Thread, FlagWaitTimeout(t) \/ PollTimeout(t) PROVE TypeOK'
    BY <2>3 DEF TypeOK, FlagWaitTimeout, PollTimeout, EndOfBlockWrite, Goto, Label, fpga
  <2>4. ASSUME NEW t \in Thread, WriteFrame(t) PROVE TypeOK'
    BY <2>4 DEF TypeOK, WriteFrame, Goto, Label, fpga
  <2>5. ASSUME NEW t \in Thread, SetFlag(t) PROVE TypeOK'
    BY <2>5 DEF TypeOK, SetFlag, Goto, Label, hist
  <2>6. ASSUME NEW t \in Thread, CrcRight(t) PROVE TypeOK'
    BY <2>6, WriteAssumption DEF TypeOK, CrcRight, EndOfBlockWrite, Goto, Label, fpga, hist
  <2>7. ASSUME NEW t \in Thread, IncLoad(t) PROVE TypeOK'
    BY <2>7 DEF TypeOK, IncLoad, Goto, Label, fpga, hist
  <2>8. ASSUME NEW t \in Thread, IncStore(t) PROVE TypeOK'
    <3>1. num' \in 0..(U8 - 1)
      BY <2>8, IncByteRange DEF TypeOK, IncStore
    <3>2. QED
      BY <2>8, <3>1 DEF TypeOK, IncStore, EndOfBlockWrite, Goto, Label, fpga, hist
  <2>9. ASSUME NEW t \in Thread, TestCounter(t) \/ LoopMore(t) \/ FinalTest(t) PROVE TypeOK'
    BY <2>9 DEF TypeOK, TestCounter, LoopMore, FinalTest, Return, Goto, Label, fpga, hist
  <2>10. ASSUME NEW t \in Thread, LoopBelow(t) PROVE TypeOK'
    <3>1. attempts[t] \in 0..(WR_CRCERR_NUM + 1) /\ WR_CRCERR_NUM + 1 \in Nat
      BY WriteAssumption DEF TypeOK
    <3>2. AtMost(attempts[t] + 1, WR_CRCERR_NUM + 1) \in 0..(WR_CRCERR_NUM + 1)
      BY <3>1, AtMostRange
    <3>3. QED
      BY <2>10, <3>2 DEF TypeOK, LoopBelow, Goto, Label, fpga
  <2>11. ASSUME NEW t \in Thread, FinalReset(t) PROVE TypeOK'
    BY <2>11, WriteAssumption DEF TypeOK, FinalReset, Return, Goto, Label, fpga, hist
  <2>12. ASSUME NEW t \in Thread, FpgaAccept(t) PROVE TypeOK'
    BY <2>12 DEF TypeOK, FpgaAccept, code
  <2>13. ASSUME NEW t \in Thread, FpgaRefuse(t) PROVE TypeOK'
    <3>1. refused[t] \in 0..WR_CRCERR_NUM /\ WR_CRCERR_NUM \in Nat
      BY WriteAssumption DEF TypeOK
    <3>2. AtMost(refused[t] + 1, WR_CRCERR_NUM) \in 0..WR_CRCERR_NUM
      BY <3>1, AtMostRange
    <3>3. QED
      BY <2>13, <3>2 DEF TypeOK, FpgaRefuse, code
  <2>14. CASE UNCHANGED vars
    BY <2>14 DEF TypeOK, vars, code, fpga, hist
  <2>15. QED
    BY <2>1, <2>2, <2>3, <2>4, <2>5, <2>6, <2>7, <2>8, <2>9, <2>10, <2>11, <2>12,
       <2>13, <2>14 DEF Next, Write, Fpga
<1>3. QED
  BY <1>1, <1>2, PTL DEF Spec
-----------------------------------------------------------------------------
\* A step of the writer t, or of the FPGA on its channel, keeps its count.
LEMMA CallCountsStep ==
  ASSUME TypeOK, NEW t \in Thread, CallCounts(t), Write(t) \/ Fpga(t)
  PROVE  CallCounts(t)'
<1> USE DEF CallCounts, Writing, Answered, Uncounted
<1>t. /\ num \in Nat /\ refused[t] \in Nat /\ WR_CRCERR_NUM \in Nat \ {0}
      /\ refused[t] <= WR_CRCERR_NUM
  BY WriteAssumption DEF TypeOK
<1>1. CASE CallWrite(t)
  BY <1>1, <1>t DEF TypeOK, CallWrite, Goto, fpga
<1>2. CASE FlagWaitPass(t)
  BY <1>2 DEF TypeOK, FlagWaitPass, Goto, fpga, hist
<1>3. CASE FlagWaitTimeout(t)
  BY <1>3, <1>t DEF TypeOK, FlagWaitTimeout, EndOfBlockWrite, Goto, fpga
<1>4. CASE WriteFrame(t)
  BY <1>4 DEF TypeOK, WriteFrame, Goto, fpga
<1>5. CASE SetFlag(t)
  BY <1>5 DEF TypeOK, SetFlag, Goto, hist
<1>6. CASE FlagCleared(t)
  BY <1>6 DEF TypeOK, FlagCleared, Goto, fpga, hist
<1>7. CASE PollTimeout(t)
  BY <1>7, <1>t DEF TypeOK, PollTimeout, EndOfBlockWrite, Goto, fpga
<1>8. CASE CrcRight(t)
  BY <1>8, <1>t DEF TypeOK, CrcRight, EndOfBlockWrite, Goto, fpga, hist
<1>9. CASE CrcError(t)
  BY <1>9 DEF TypeOK, CrcError, Goto, fpga, hist
<1>10. CASE IncLoad(t)
  BY <1>10 DEF TypeOK, IncLoad, Goto, fpga, hist
<1>11. CASE IncStore(t)
  <2>1. num' = num + 1
    BY <1>11, IncByteRange DEF TypeOK, IncStore
  <2>2. QED
    BY <1>11, <1>t, <2>1 DEF TypeOK, IncStore, EndOfBlockWrite, Goto, fpga, hist
<1>12. CASE TestCounter(t)
  BY <1>12, <1>t DEF TypeOK, TestCounter, Return, Goto, fpga, hist
<1>13. CASE LoopMore(t)
  BY <1>13, <1>t DEF TypeOK, LoopMore, Goto, fpga, hist
<1>14. CASE LoopBelow(t)
  BY <1>14, <1>t DEF TypeOK, LoopBelow, Goto, fpga
<1>15. CASE FinalTest(t)
  BY <1>15, <1>t DEF TypeOK, FinalTest, Return, Goto, fpga, hist
<1>16. CASE FinalReset(t)
  BY <1>16, <1>t DEF TypeOK, FinalReset, Return, Goto, fpga, hist
<1>17. CASE FpgaAccept(t)
  BY <1>17, <1>t DEF TypeOK, FpgaAccept, code
<1>18. CASE FpgaRefuse(t)
  <2>1. /\ AtMost(refused[t] + 1, WR_CRCERR_NUM) \in Nat
        /\ AtMost(refused[t] + 1, WR_CRCERR_NUM) >= refused[t]
        /\ refused[t] = WR_CRCERR_NUM => AtMost(refused[t] + 1, WR_CRCERR_NUM) = WR_CRCERR_NUM
        /\ num < WR_CRCERR_NUM /\ num <= refused[t]
             => num < AtMost(refused[t] + 1, WR_CRCERR_NUM)
    BY <1>t DEF AtMost
  <2>2. QED
    BY <1>18, <1>t, <2>1 DEF TypeOK, FpgaRefuse, code
<1>19. QED
  BY <1>1, <1>2, <1>3, <1>4, <1>5, <1>6, <1>7, <1>8, <1>9, <1>10, <1>11, <1>12,
     <1>13, <1>14, <1>15, <1>16, <1>17, <1>18 DEF Write, Fpga
-----------------------------------------------------------------------------
\* While nobody else writes, the counter counts the current call's refusals.
THEOREM SoleWriterCounts == SoleWriter => (Spec => []CountsThisCall)
<1> SUFFICES ASSUME SoleWriter PROVE Spec => []CountsThisCall
  OBVIOUS
<1>1. Init => CountsThisCall
  BY WriteAssumption DEF Init, CountsThisCall, CallCounts, Writing, Answered, Uncounted
<1>2. TypeOK /\ CountsThisCall /\ [Next]_vars => CountsThisCall'
  <2> SUFFICES ASSUME TypeOK, CountsThisCall, [Next]_vars, NEW t \in Thread
               PROVE  CallCounts(t)'
    BY DEF CountsThisCall
  <2>1. CASE Write(t) \/ Fpga(t)
    BY <2>1, CallCountsStep DEF CountsThisCall
  <2>2. CASE UNCHANGED vars
    BY <2>2 DEF CountsThisCall, CallCounts, Writing, Answered, Uncounted,
                vars, code, fpga, hist
  <2>3. QED
    BY <2>1, <2>2 DEF Next, SoleWriter
<1>3. QED
  BY <1>1, <1>2, WriteTypeOK, PTL DEF Spec

\* In the default build, whatever WR_CRCERR_NUM is: CODE_ERR is returned only
\* after WR_CRCERR_NUM refusals of this call's frame.
THEOREM SoleWriterErrorEarned == SoleWriter => (Spec => []ErrorEarned)
<1>1. CountsThisCall => ErrorEarned
  BY DEF CountsThisCall, CallCounts, ErrorEarned
<1>2. QED
  BY <1>1, SoleWriterCounts, PTL

\* In the default build a refusal is never reported as success: a CODE_OK
\* call either had its frame accepted or saw a poll give up.
THEOREM SoleWriterNoSilentRefusal == SoleWriter => (Spec => []NoSilentRefusal)
<1>1. CountsThisCall => NoSilentRefusal
  BY DEF CountsThisCall, CallCounts, NoSilentRefusal
<1>2. QED
  BY <1>1, SoleWriterCounts, PTL

\* While no wait or poll of the call has given up, its attempts are the refusals
\* it has counted and the attempt it is making.
TriesCount(t) ==
  ~timedOut[t] =>
    /\ Writing(t) => attempts[t] = num + 1
    /\ ~Writing(t) => attempts[t] <= WR_CRCERR_NUM
    /\ pc[t] \in {"test", "more", "below", "final", "reset"} =>
         num = 0 \/ num = attempts[t]

\* A step of the writer t, or of the FPGA on its channel, keeps that.
LEMMA TriesCountStep ==
  ASSUME TypeOK, NEW t \in Thread, CallCounts(t), TriesCount(t), Write(t) \/ Fpga(t)
  PROVE  TriesCount(t)'
<1> USE DEF TriesCount, Writing
<1>t. /\ num \in Nat /\ attempts[t] \in Nat /\ WR_CRCERR_NUM \in Nat \ {0}
      /\ Writing(t) => num < WR_CRCERR_NUM
      /\ pc[t] = "store" => reg[t] = num
      /\ pc[t] = "below" => num > 0
      /\ pc[t] = "idle" => num = 0
  BY WriteAssumption DEF TypeOK, CallCounts
<1>1. CASE CallWrite(t)
  BY <1>1, <1>t DEF TypeOK, CallWrite, Goto, fpga
<1>2. CASE FlagWaitPass(t) \/ IncLoad(t) \/ FlagCleared(t) \/ CrcError(t)
  BY <1>2, <1>t DEF TypeOK, FlagWaitPass, IncLoad, FlagCleared, CrcError, Goto, fpga, hist
<1>3. CASE FlagWaitTimeout(t) \/ PollTimeout(t)
  BY <1>3 DEF TypeOK, FlagWaitTimeout, PollTimeout
<1>4. CASE WriteFrame(t)
  BY <1>4, <1>t DEF TypeOK, WriteFrame, Goto, fpga
<1>5. CASE SetFlag(t)
  BY <1>5, <1>t DEF TypeOK, SetFlag, Goto, hist
<1>6. CASE CrcRight(t)
  BY <1>6, <1>t DEF TypeOK, CrcRight, EndOfBlockWrite, Goto, fpga, hist
<1>7. CASE IncStore(t)
  <2>1. num' = num + 1
    BY <1>7, <1>t, IncByteRange DEF TypeOK, IncStore, CallCounts
  <2>2. QED
    BY <1>7, <1>t, <2>1 DEF TypeOK, IncStore, EndOfBlockWrite, Goto, fpga, hist
<1>8. CASE TestCounter(t)
  BY <1>8, <1>t DEF TypeOK, TestCounter, Return, Goto, fpga, hist
<1>9. CASE LoopMore(t)
  BY <1>9, <1>t DEF TypeOK, LoopMore, Goto, fpga, hist
<1>10. CASE LoopBelow(t)
  BY <1>10, <1>t DEF TypeOK, LoopBelow, Goto, fpga, AtMost
<1>11. CASE FinalTest(t)
  BY <1>11, <1>t DEF TypeOK, FinalTest, Return, Goto, fpga, hist
<1>12. CASE FinalReset(t)
  BY <1>12, <1>t DEF TypeOK, FinalReset, Return, Goto, fpga, hist
<1>13. CASE Fpga(t)
  BY <1>13, <1>t DEF TypeOK, Fpga, FpgaAccept, FpgaRefuse, code
<1>14. QED
  BY <1>1, <1>2, <1>3, <1>4, <1>5, <1>6, <1>7, <1>8, <1>9, <1>10, <1>11, <1>12,
     <1>13 DEF Write

\* In the default build refusals alone never make a call write more than
\* WR_CRCERR_NUM times, whatever that limit is.
THEOREM SoleWriterAttempts == SoleWriter => (Spec => []AttemptsBounded)
<1> DEFINE Inv == \A t \in Thread : TriesCount(t)
<1> SUFFICES ASSUME SoleWriter PROVE Spec => []AttemptsBounded
  OBVIOUS
<1>1. Init => Inv
  BY WriteAssumption DEF Init, TriesCount, Writing
<1>2. TypeOK /\ CountsThisCall /\ Inv /\ [Next]_vars => Inv'
  <2> SUFFICES ASSUME TypeOK, CountsThisCall, Inv, [Next]_vars, NEW t \in Thread
               PROVE  TriesCount(t)'
    OBVIOUS
  <2>1. CASE Write(t) \/ Fpga(t)
    BY <2>1, TriesCountStep DEF CountsThisCall
  <2>2. CASE UNCHANGED vars
    BY <2>2 DEF TriesCount, Writing, vars, code, fpga, hist
  <2>3. QED
    BY <2>1, <2>2 DEF Next, SoleWriter
<1>3. TypeOK /\ CountsThisCall /\ Inv => AttemptsBounded
  <2> SUFFICES ASSUME TypeOK, CountsThisCall, Inv, NEW t \in Thread, ~timedOut[t]
               PROVE  ~(attempts[t] > WR_CRCERR_NUM)
    BY DEF AttemptsBounded
  <2>1. Writing(t) => num < WR_CRCERR_NUM
    BY DEF CountsThisCall, CallCounts
  <2>2. QED
    BY <2>1, WriteAssumption DEF TriesCount, TypeOK
<1>4. QED
  BY <1>1, <1>2, <1>3, WriteTypeOK, SoleWriterCounts, PTL DEF Spec

\* With a flag byte per thread the A9 never takes back a write flag: only the
\* FPGA clears it, and with it leaves a verdict.  This holds for any number of
\* threads; MVB and CAN0 sharing a byte is what breaks it.
THEOREM OwnByteFlags ==
  (\A s, t \in Thread : FlagByteOf[s] = FlagByteOf[t] => s = t) => (Spec => FlagClearedByFpga)
<1> SUFFICES ASSUME \A s, t \in Thread : FlagByteOf[s] = FlagByteOf[t] => s = t
             PROVE  Spec => FlagClearedByFpga
  OBVIOUS
<1>1. TypeOK /\ [Next]_vars
        => [\A t \in Thread : (t \in wrFlag /\ t \notin wrFlag') => Fpga(t)]_vars
  <2> SUFFICES ASSUME TypeOK, Next, NEW t \in Thread, t \in wrFlag, t \notin wrFlag'
               PROVE  Fpga(t)
    OBVIOUS
  <2>1. PICK s \in Thread : Write(s) \/ Fpga(s)
    BY DEF Next
  <2>2. CASE Fpga(s)
    BY <2>2 DEF Fpga, FpgaAccept, FpgaRefuse
  <2>3. CASE SetFlag(s)
    BY <2>3 DEF SetFlag
  <2>4. CASE Write(s) /\ ~SetFlag(s)
    BY <2>4 DEF Write, fpga, CallWrite, FlagWaitPass, FlagWaitTimeout, WriteFrame,
       FlagCleared, PollTimeout, CrcRight, CrcError, IncLoad, IncStore, TestCounter,
       LoopMore, LoopBelow, FinalTest, FinalReset
  <2>5. QED
    BY <2>1, <2>2, <2>3, <2>4
<1>2. QED
  BY <1>1, WriteTypeOK, PTL DEF Spec, FlagClearedByFpga
-----------------------------------------------------------------------------
\* A frame is copied into a channel only while the channel's write flag is
\* clear, for any number of threads and even where two share a flag byte: the
\* store that sets one bit may clear the others but sets none of them, so what
\* BramBlockWRFlagWait saw still holds when BramBlockWriteOpti runs.
THEOREM WriteFrameStable == Spec => FrameStable
<1> DEFINE Inv == \A t \in Thread : pc[t] \in {"frame", "flag"} => t \notin wrFlag
           Stable == \A t \in Thread : (pc[t] = "frame" /\ pc'[t] = "flag") => t \notin wrFlag
<1>1. Init => Inv
  BY DEF Init
<1>2. TypeOK /\ Inv /\ [Next]_vars => Inv'
  <2> SUFFICES ASSUME TypeOK, Inv, [Next]_vars PROVE Inv'
    OBVIOUS
  <2>1. ASSUME NEW s \in Thread, Fpga(s) PROVE Inv'
    BY <2>1 DEF Fpga, FpgaAccept, FpgaRefuse, code
  <2>2. ASSUME NEW s \in Thread, SetFlag(s) PROVE Inv'
    <3> SUFFICES ASSUME NEW t \in Thread, pc'[t] \in {"frame", "flag"} PROVE t \notin wrFlag'
      OBVIOUS
    <3>1. t # s /\ pc[t] = pc'[t]
      BY <2>2 DEF TypeOK, SetFlag, Goto
    <3>2. QED
      BY <2>2, <3>1 DEF SetFlag
  <2>3. ASSUME NEW s \in Thread, FlagWaitPass(s) \/ WriteFrame(s) PROVE Inv'
    BY <2>3 DEF TypeOK, FlagWaitPass, WriteFrame, Goto, fpga
  <2>4. ASSUME NEW s \in Thread, Write(s), ~SetFlag(s), ~(FlagWaitPass(s) \/ WriteFrame(s))
        PROVE  Inv'
    <3>1. UNCHANGED wrFlag
      BY <2>4 DEF Write, fpga, CallWrite, FlagWaitTimeout, FlagCleared, PollTimeout, CrcRight,
         CrcError, IncLoad, IncStore, TestCounter, LoopMore, LoopBelow, FinalTest, FinalReset
    <3>2. pc'[s] \notin {"frame", "flag"} /\ \A t \in Thread \ {s} : pc'[t] = pc[t]
      BY <2>4 DEF TypeOK, Write, CallWrite, FlagWaitTimeout, FlagCleared, PollTimeout, CrcRight,
         CrcError, IncLoad, IncStore, TestCounter, LoopMore, LoopBelow, FinalTest, FinalReset,
         Return, Goto, EndOfBlockWrite
    <3>3. QED
      BY <3>1, <3>2
  <2>5. CASE UNCHANGED vars
    BY <2>5 DEF vars, code, fpga
  <2>6. QED
    BY <2>1, <2>2, <2>3, <2>4, <2>5 DEF Next
<1>3. Inv => Stable
  OBVIOUS
<1>4. QED
  BY <1>1, <1>2, <1>3, WriteTypeOK, PTL DEF Spec, FrameStable
=============================================================================
