--------------------------- MODULE BramReadProofs ---------------------------
(* Proofs about BramRead, for every RD_CRCERR_NUM and every thread set.    *)
EXTENDS BramRead, TLAPS

\* The default build has one thread that reads frames, BlvdsThreadFunc.
SoleReader == \A s, t \in Thread : s = t

Intact(t) == \E c \in Frame : outbuf[t] = <<c, c>>

\* What holds of any number of readers: after the CRC test ErrorCode tells the
\* truth about Outbuf, whatever the shared counter says; and a call does not
\* begin in the retry loop.
ReadInv ==
  \A t \in Thread :
    /\ pc[t] \in {"unflag", "test", "more", "below", "final", "reset"} /\ errCode[t] = "ok"
         => Intact(t)
    /\ pc[t] \in {"load", "store"} => errCode[t] = "err"
    /\ verdict[t] = "ok" => Intact(t) /\ pc[t] = "idle"
    /\ pc[t] = "idle" => ~inLoop[t]
-----------------------------------------------------------------------------
\* The successor of a byte is a byte; below the retry limit it does not wrap.
LEMMA IncByteRange ==
  ASSUME NEW n \in 0..(U8 - 1)
  PROVE  /\ IncByte(n) \in 0..(U8 - 1)
         /\ n < RD_CRCERR_NUM => IncByte(n) = n + 1
  BY ReadAssumption DEF IncByte

\* A capped successor stays in range.
LEMMA AtMostRange ==
  ASSUME NEW bound \in Nat, NEW n \in 0..bound
  PROVE  /\ AtMost(n + 1, bound) \in 0..bound
         /\ n < bound => AtMost(n + 1, bound) = n + 1
  BY DEF AtMost

\* The CRC test has three outcomes, and passes whole well formed frames only.
LEMMA CrcResultRange ==
  ASSUME NEW buf \in Content \X Content
  PROVE  /\ CrcResult(buf) \in {"ok", "warn", "err"}
         /\ CrcResult(buf) = "ok" => \E c \in Frame : buf = <<c, c>>
  BY DEF CrcResult
-----------------------------------------------------------------------------
\* Every variable of the read protocol keeps its type, for any threads.
THEOREM ReadTypeOK == Spec => []TypeOK
<1>1. Init => TypeOK
  BY ReadAssumption DEF Init, TypeOK, Label, Content, Junk
<1>2. TypeOK /\ [Next]_vars => TypeOK'
  <2> SUFFICES ASSUME TypeOK, [Next]_vars PROVE TypeOK'
    OBVIOUS
  <2>1. ASSUME NEW t \in Thread, CallRead(t) PROVE TypeOK'
    <3>1. \A left \in Leftover(t) : left \in Content \X Content
      BY DEF Leftover, Content, Junk
    <3>2. outbuf' \in [Thread -> Content \X Content]
      BY <2>1, <3>1 DEF TypeOK, CallRead
    <3>3. QED
      BY <2>1, <3>2, ReadAssumption DEF TypeOK, CallRead, Goto, Label, fpga
  <2>2. ASSUME NEW t \in Thread, FlagWaitPass(t) PROVE TypeOK'
    BY <2>2 DEF TypeOK, FlagWaitPass, Goto, Label, fpga, hist
  <2>3. ASSUME NEW t \in Thread, SetReadFlag(t) \/ ClearReadFlag(t) PROVE TypeOK'
    BY <2>3 DEF TypeOK, SetReadFlag, ClearReadFlag, Goto, Label, fpga
  <2>4. ASSUME NEW t \in Thread, FlagWaitTimeout(t) PROVE TypeOK'
    BY <2>4 DEF TypeOK, FlagWaitTimeout, Goto, Label, fpga
  <2>5. ASSUME NEW t \in Thread, ReadFirst(t) \/ ReadSecond(t) PROVE TypeOK'
    <3>1. /\ <<bram[t][1], outbuf[t][2]>> \in Content \X Content
          /\ <<outbuf[t][1], bram[t][2]>> \in Content \X Content
      BY DEF TypeOK
    <3>2. outbuf' \in [Thread -> Content \X Content]
      BY <2>5, <3>1 DEF TypeOK, ReadFirst, ReadSecond
    <3>3. pc' \in [Thread -> Label]
      BY <2>5 DEF TypeOK, ReadFirst, ReadSecond, Goto, Label
    <3>4. QED
      BY <2>5, <3>2, <3>3 DEF TypeOK, ReadFirst, ReadSecond, fpga, hist
  <2>6. ASSUME NEW t \in Thread, CrcError(t) PROVE TypeOK'
    <3>1. badReads[t] \in 0..RD_CRCERR_NUM /\ RD_CRCERR_NUM \in Nat
      BY ReadAssumption DEF TypeOK
    <3>2. AtMost(badReads[t] + 1, RD_CRCERR_NUM) \in 0..RD_CRCERR_NUM
      BY <3>1, AtMostRange
    <3>3. QED
      BY <2>6, <3>2 DEF TypeOK, CrcError, Goto, Label, fpga
  <2>7. ASSUME NEW t \in Thread, CrcRight(t) PROVE TypeOK'
    <3>1. CrcResult(outbuf[t]) \in {"ok", "warn", "err"}
      BY CrcResultRange DEF TypeOK
    <3>2. QED
      BY <2>7, <3>1, ReadAssumption DEF TypeOK, CrcRight, Goto, Label, fpga
  <2>8. ASSUME NEW t \in Thread, IncLoad(t) PROVE TypeOK'
    BY <2>8 DEF TypeOK, IncLoad, Goto, Label, fpga, hist
  <2>9. ASSUME NEW t \in Thread, IncStore(t) PROVE TypeOK'
    <3>1. num' \in 0..(U8 - 1)
      BY <2>9, IncByteRange DEF TypeOK, IncStore
    <3>2. QED
      BY <2>9, <3>1, ReadAssumption DEF TypeOK, IncStore, Goto, Label, fpga, hist
  <2>10. ASSUME NEW t \in Thread, TestCounter(t) \/ FinalTest(t) \/ FinalReset(t) PROVE TypeOK'
    <3>1. CASE TestCounter(t)
      <4>1. /\ pc' \in [Thread -> Label]
            /\ inLoop' \in [Thread -> BOOLEAN]
            /\ errCode' \in [Thread -> {"ok", "warn", "err"}]
        BY <3>1 DEF TypeOK, TestCounter, Return, Goto, Label
      <4>2. verdict' \in [Thread -> {"none", "ok", "warn", "err"}]
        <5>1. errCode[t] \in {"none", "ok", "warn", "err"}
          BY DEF TypeOK
        <5>2. QED
          BY <3>1, <5>1 DEF TypeOK, TestCounter, Return
      <4>3. attempts' \in [Thread -> 0..(RD_CRCERR_NUM + 1)]
        <5>1. 0 \in 0..(RD_CRCERR_NUM + 1)
          BY ReadAssumption
        <5>2. QED
          BY <3>1, <5>1 DEF TypeOK, TestCounter, Return
      <4>4. QED
        BY <3>1, <4>1, <4>2, <4>3 DEF TypeOK, TestCounter, fpga
    <3>2. CASE FinalTest(t)
      <4>1. /\ pc' \in [Thread -> Label]
            /\ inLoop' \in [Thread -> BOOLEAN]
            /\ errCode' \in [Thread -> {"ok", "warn", "err"}]
        BY <3>2 DEF TypeOK, FinalTest, Return, Goto, Label
      <4>2. verdict' \in [Thread -> {"none", "ok", "warn", "err"}]
        <5>1. errCode[t] \in {"none", "ok", "warn", "err"}
          BY DEF TypeOK
        <5>2. QED
          BY <3>2, <5>1 DEF TypeOK, FinalTest, Return
      <4>3. attempts' \in [Thread -> 0..(RD_CRCERR_NUM + 1)]
        <5>1. 0 \in 0..(RD_CRCERR_NUM + 1)
          BY ReadAssumption
        <5>2. QED
          BY <3>2, <5>1 DEF TypeOK, FinalTest, Return
      <4>4. QED
        BY <3>2, <4>1, <4>2, <4>3 DEF TypeOK, FinalTest, fpga
    <3>3. CASE FinalReset(t)
      BY <3>3, ReadAssumption DEF TypeOK, FinalReset, Return, Goto, Label, fpga
    <3>4. QED
      BY <2>10, <3>1, <3>2, <3>3
  <2>11. ASSUME NEW t \in Thread, LoopMore(t) PROVE TypeOK'
    BY <2>11 DEF TypeOK, LoopMore, Goto, Label, fpga, hist
  <2>12. ASSUME NEW t \in Thread, LoopBelow(t) PROVE TypeOK'
    <3>1. attempts[t] \in 0..(RD_CRCERR_NUM + 1) /\ RD_CRCERR_NUM + 1 \in Nat
      BY ReadAssumption DEF TypeOK
    <3>2. AtMost(attempts[t] + 1, RD_CRCERR_NUM + 1) \in 0..(RD_CRCERR_NUM + 1)
      BY <3>1, AtMostRange
    <3>3. /\ pc' \in [Thread -> Label]
          /\ inLoop' \in [Thread -> BOOLEAN]
      BY <2>12 DEF TypeOK, LoopBelow, Goto, Label
    <3>4. attempts' \in [Thread -> 0..(RD_CRCERR_NUM + 1)]
      BY <2>12, <3>2 DEF TypeOK, LoopBelow
    <3>5. QED
      BY <2>12, <3>3, <3>4 DEF TypeOK, LoopBelow, fpga
  <2>13. ASSUME NEW t \in Thread, FpgaBegin(t) \/ FpgaEnd(t) PROVE TypeOK'
    BY <2>13, ReadAssumption DEF TypeOK, FpgaBegin, FpgaEnd, code, hist
  <2>14. CASE UNCHANGED vars
    BY <2>14 DEF TypeOK, vars, code, fpga, hist
  <2>15. QED
    BY <2>1, <2>2, <2>3, <2>4, <2>5, <2>6, <2>7, <2>8, <2>9, <2>10, <2>11, <2>12,
       <2>13, <2>14 DEF Next, Read
<1>3. QED
  BY <1>1, <1>2, PTL DEF Spec
-----------------------------------------------------------------------------
\* After the CRC test ErrorCode stays true of Outbuf, for any readers.
LEMMA ReadInvHolds == Spec => []ReadInv
<1> USE DEF ReadInv, Intact
<1>1. Init => ReadInv
  BY DEF Init
<1>2. TypeOK /\ ReadInv /\ [Next]_vars => ReadInv'
  <2> SUFFICES ASSUME TypeOK, ReadInv, [Next]_vars PROVE ReadInv'
    OBVIOUS
  <2>1. ASSUME NEW s \in Thread, Read(s) PROVE ReadInv'
    <3> SUFFICES ASSUME NEW t \in Thread PROVE ReadInv!(t)'
      OBVIOUS
    <3>1. CASE CallRead(s)
      BY <3>1 DEF TypeOK, CallRead, Goto
    <3>2. CASE FlagWaitPass(s) \/ SetReadFlag(s) \/ FlagWaitTimeout(s) \/ IncLoad(s)
      BY <3>2 DEF TypeOK, FlagWaitPass, SetReadFlag, FlagWaitTimeout, IncLoad, Goto
    <3>3. CASE ReadFirst(s) \/ ReadSecond(s)
      BY <3>3 DEF TypeOK, ReadFirst, ReadSecond, Goto
    <3>4. CASE CrcError(s)
      BY <3>4 DEF TypeOK, CrcError, Goto
    <3>5. CASE CrcRight(s)
      BY <3>5, CrcResultRange DEF TypeOK, CrcRight, Goto
    <3>6. CASE IncStore(s)
      BY <3>6 DEF TypeOK, IncStore, Goto
    <3>7. CASE ClearReadFlag(s) \/ LoopMore(s) \/ LoopBelow(s)
      BY <3>7 DEF TypeOK, ClearReadFlag, LoopMore, LoopBelow, Goto
    <3>8. CASE TestCounter(s) \/ FinalTest(s) \/ FinalReset(s)
      BY <3>8 DEF TypeOK, TestCounter, FinalTest, FinalReset, Return, Goto
    <3>9. QED
      BY <2>1, <3>1, <3>2, <3>3, <3>4, <3>5, <3>6, <3>7, <3>8 DEF Read
  <2>2. ASSUME NEW s \in Thread, FpgaBegin(s) \/ FpgaEnd(s) PROVE ReadInv'
    BY <2>2 DEF FpgaBegin, FpgaEnd, code
  <2>3. CASE UNCHANGED vars
    BY <2>3 DEF vars, code
  <2>4. QED
    BY <2>1, <2>2, <2>3 DEF Next
<1>3. QED
  BY <1>1, <1>2, ReadTypeOK, PTL DEF Spec

\* No number of readers sharing the counter can make BramReadWithChek return
\* CODE_OK with a torn or corrupt frame.
THEOREM ReadOkMeansIntact == Spec => []OkMeansIntact
<1>1. ReadInv => OkMeansIntact
  BY DEF ReadInv, Intact, OkMeansIntact
<1>2. QED
  BY <1>1, ReadInvHolds, PTL
-----------------------------------------------------------------------------
\* A return from the retry logic is a return of the abstract call: CODE_OK
\* goes with a frame in Outbuf.
LEMMA ReturnIsReturn ==
  ASSUME TypeOK, ReadInv, NEW t \in Thread, NEW r \in {"ok", "warn", "err"},
         pc[t] \in {"test", "final", "reset"}, Return(t, r), r # "err" => r = errCode[t],
         UNCHANGED <<bram, outbuf>>
  PROVE  Link!Return(t, r)
<1>1. r = "ok" => (IF Taken(t) THEN outbuf[t][2] ELSE "short") \in Frame
  BY DEF ReadInv, Intact, Taken
<1>2. [s \in Thread |-> pc'[s] # "idle"]
        = [[s \in Thread |-> pc[s] # "idle"] EXCEPT ![t] = FALSE]
  BY DEF TypeOK, Return, Goto
<1>3. verdict' = [verdict EXCEPT ![t] = r]
  BY DEF Return
<1>4. UNCHANGED [s \in Thread |-> IF Taken(s) THEN outbuf[s][2] ELSE "short"]
  BY DEF TypeOK, Return, Goto, Taken
<1>5. QED
  BY <1>1, <1>2, <1>3, <1>4 DEF Link!Return

\* BramRead implements ReadLink, for any readers, whether they zero their buffer
\* for every call or pass it from channel to channel, and for any limit: each
\* step maps to a step of the abstract link or leaves it alone.
THEOREM ReadImplementsLink == Spec => ImplementsReadLink
<1>1. Init => Link!LinkInit
  <2> SUFFICES ASSUME Init PROVE Link!LinkInit
    OBVIOUS
  <2>1. [t \in Thread |-> pc[t] # "idle"] = [t \in Thread |-> FALSE]
    BY DEF Init
  <2>2. /\ [t \in Thread |-> bram[t][2]] = [t \in Thread |-> "short"]
        /\ [t \in Thread |-> IF Taken(t) THEN outbuf[t][2] ELSE "short"]
             = [t \in Thread |-> "short"]
    BY DEF Init
  <2>3. QED
    BY <2>1, <2>2 DEF Init, Link!LinkInit
<1>2. TypeOK /\ ReadInv /\ [Next]_vars => [Link!LinkNext]_(Link!linkVars)
  <2> SUFFICES ASSUME TypeOK, ReadInv, [Next]_vars
               PROVE  Link!LinkNext \/ UNCHANGED Link!linkVars
    OBVIOUS
  <2>1. ASSUME NEW t \in Thread, Read(t) PROVE Link!LinkNext \/ UNCHANGED Link!linkVars
    <3>1. CASE CallRead(t)
      <4>1. [s \in Thread |-> pc'[s] # "idle"]
              = [[s \in Thread |-> pc[s] # "idle"] EXCEPT ![t] = TRUE]
        BY <3>1 DEF TypeOK, CallRead, Goto
      <4>2. [s \in Thread |-> IF Taken(s)' THEN outbuf'[s][2] ELSE "short"]
              = [[s \in Thread |-> IF Taken(s) THEN outbuf[s][2] ELSE "short"]
                   EXCEPT ![t] = "short"]
        <5>1. PICK left \in Leftover(t) : outbuf' = [outbuf EXCEPT ![t] = left]
          BY <3>1 DEF CallRead
        <5>2. ~inLoop[t]
          BY <3>1 DEF CallRead, ReadInv
        <5>3. QED
          BY <3>1, <5>1, <5>2 DEF TypeOK, CallRead, Goto, Taken
      <4>3. Link!Call(t)
        BY <3>1, <4>1, <4>2 DEF Link!Call, CallRead, fpga
      <4>4. QED
        BY <4>3 DEF Link!LinkNext
    <3>2. CASE ReadSecond(t)
      <4>1. [s \in Thread |-> pc'[s] # "idle"] = [s \in Thread |-> pc[s] # "idle"]
        BY <3>2 DEF TypeOK, ReadSecond, Goto
      <4>2. [s \in Thread |-> IF Taken(s)' THEN outbuf'[s][2] ELSE "short"]
              = [[s \in Thread |-> IF Taken(s) THEN outbuf[s][2] ELSE "short"]
                   EXCEPT ![t] = bram[t][2]]
        BY <3>2 DEF TypeOK, ReadSecond, Goto, Taken
      <4>3. Link!Sample(t)
        BY <3>2, <4>1, <4>2 DEF Link!Sample, ReadSecond, fpga
      <4>4. QED
        BY <4>3 DEF Link!LinkNext
    <3>3. CASE ReadFirst(t)
      <4>1. [s \in Thread |-> pc'[s] # "idle"] = [s \in Thread |-> pc[s] # "idle"]
        BY <3>3 DEF TypeOK, ReadFirst, Goto
      <4>2. UNCHANGED [s \in Thread |-> IF Taken(s) THEN outbuf[s][2] ELSE "short"]
        BY <3>3 DEF TypeOK, ReadFirst, Goto, Taken
      <4>3. QED
        BY <3>3, <4>1, <4>2 DEF Link!linkVars, ReadFirst, fpga
    <3>4. CASE FlagWaitPass(t) \/ SetReadFlag(t) \/ FlagWaitTimeout(t) \/ CrcError(t)
                 \/ CrcRight(t) \/ IncLoad(t) \/ IncStore(t) \/ ClearReadFlag(t)
                 \/ LoopMore(t) \/ LoopBelow(t)
      <4>1. [s \in Thread |-> pc'[s] # "idle"] = [s \in Thread |-> pc[s] # "idle"]
        BY <3>4 DEF TypeOK, FlagWaitPass, SetReadFlag, FlagWaitTimeout, CrcError, CrcRight,
           IncLoad, IncStore, ClearReadFlag, LoopMore, LoopBelow, Goto
      <4>2. UNCHANGED <<bram, outbuf, verdict>>
        BY <3>4 DEF FlagWaitPass, SetReadFlag, FlagWaitTimeout, CrcError, CrcRight,
           IncLoad, IncStore, ClearReadFlag, LoopMore, LoopBelow, fpga
      <4>3. ASSUME NEW s \in Thread PROVE Taken(s)' = Taken(s)
        BY <3>4 DEF TypeOK, FlagWaitPass, SetReadFlag, FlagWaitTimeout, CrcError, CrcRight,
           IncLoad, IncStore, ClearReadFlag, LoopMore, LoopBelow, Goto, Taken
      <4>4. QED
        BY <4>1, <4>2, <4>3 DEF Link!linkVars
    <3>5. CASE TestCounter(t) \/ FinalTest(t) \/ FinalReset(t)
      <4>1. UNCHANGED <<bram, outbuf>>
        BY <3>5 DEF TestCounter, FinalTest, FinalReset, fpga
      <4>2. CASE \E r \in {"ok", "warn", "err"} : Return(t, r) /\ (r # "err" => r = errCode[t])
        <5>1. pc[t] \in {"test", "final", "reset"}
          BY <3>5 DEF TestCounter, FinalTest, FinalReset
        <5>2. \E r \in {"ok", "warn", "err"} : Link!Return(t, r)
          BY <4>1, <4>2, <5>1, ReturnIsReturn
        <5>3. QED
          BY <5>2 DEF Link!LinkNext
      <4>3. CASE /\ pc' \in {[pc EXCEPT ![t] = "more"], [pc EXCEPT ![t] = "reset"]}
                 /\ UNCHANGED <<verdict, inLoop>>
        <5>1. [s \in Thread |-> pc'[s] # "idle"] = [s \in Thread |-> pc[s] # "idle"]
          BY <3>5, <4>3 DEF TypeOK, TestCounter, FinalTest, FinalReset
        <5>2. UNCHANGED [s \in Thread |-> IF Taken(s) THEN outbuf[s][2] ELSE "short"]
          <6>1. ASSUME NEW s \in Thread PROVE Taken(s)' = Taken(s)
            BY <3>5, <4>3 DEF TypeOK, TestCounter, FinalTest, FinalReset, Taken
          <6>2. QED
            BY <4>1, <6>1
        <5>3. QED
          BY <4>1, <4>3, <5>1, <5>2 DEF Link!linkVars
      <4>4. QED
        BY <3>5, <4>2, <4>3 DEF TypeOK, TestCounter, FinalTest, FinalReset, Goto
    <3>6. QED
      BY <2>1, <3>1, <3>2, <3>3, <3>4, <3>5 DEF Read
  <2>2. ASSUME NEW t \in Thread, FpgaBegin(t) PROVE UNCHANGED Link!linkVars
    <3>1. [s \in Thread |-> bram'[s][2]] = [s \in Thread |-> bram[s][2]]
      BY <2>2 DEF TypeOK, FpgaBegin
    <3>2. QED
      BY <2>2, <3>1 DEF Link!linkVars, FpgaBegin, code, Taken
  <2>3. ASSUME NEW t \in Thread, FpgaEnd(t) PROVE Link!LinkNext
    <3>1. bram[t][1] \in Content
      BY DEF TypeOK
    <3>2. [s \in Thread |-> bram'[s][2]]
            = [[s \in Thread |-> bram[s][2]] EXCEPT ![t] = bram[t][1]]
      BY <2>3 DEF TypeOK, FpgaEnd
    <3>3. Link!Publish(t)
      BY <2>3, <3>1, <3>2 DEF Link!Publish, FpgaEnd, code, Taken
    <3>4. QED
      BY <3>3 DEF Link!LinkNext
  <2>4. CASE UNCHANGED vars
    BY <2>4 DEF vars, code, fpga, Link!linkVars, Taken
  <2>5. QED
    BY <2>1, <2>2, <2>3, <2>4 DEF Next
<1>3. QED
  BY <1>1, <1>2, ReadTypeOK, ReadInvHolds, PTL DEF Spec, ImplementsReadLink, Link!LinkSpec
-----------------------------------------------------------------------------
\* A step of the reader t, or of the FPGA on its channel, keeps its count.
LEMMA CallCountsStep ==
  ASSUME TypeOK, NEW t \in Thread, CallCounts(t), Read(t) \/ FpgaBegin(t) \/ FpgaEnd(t)
  PROVE  CallCounts(t)'
<1> USE DEF CallCounts
<1>t. /\ num \in Nat /\ attempts[t] \in Nat /\ badReads[t] \in Nat
      /\ RD_CRCERR_NUM \in Nat \ {0}
  BY ReadAssumption DEF TypeOK
<1>1. CASE CallRead(t)
  BY <1>1, <1>t DEF TypeOK, CallRead, Goto
<1>2. CASE FlagWaitPass(t) \/ SetReadFlag(t) \/ FlagWaitTimeout(t) \/ ReadFirst(t) \/ ReadSecond(t)
  BY <1>2, <1>t DEF TypeOK, FlagWaitPass, SetReadFlag, FlagWaitTimeout, ReadFirst,
     ReadSecond, Goto, hist
<1>3. CASE CrcError(t)
  <2>1. badReads[t] < RD_CRCERR_NUM => AtMost(badReads[t] + 1, RD_CRCERR_NUM) = badReads[t] + 1
    BY <1>t DEF AtMost
  <2>2. QED
    BY <1>3, <1>t, <2>1 DEF TypeOK, CrcError, Goto
<1>4. CASE CrcRight(t)
  BY <1>4, <1>t DEF TypeOK, CrcRight, Goto
<1>5. CASE IncLoad(t)
  BY <1>5, <1>t DEF TypeOK, IncLoad, Goto, hist
<1>6. CASE IncStore(t)
  <2>1. num' = num + 1
    BY <1>6, IncByteRange DEF TypeOK, IncStore
  <2>2. QED
    BY <1>6, <1>t, <2>1 DEF TypeOK, IncStore, Goto, hist
<1>7. CASE ClearReadFlag(t) \/ LoopMore(t)
  BY <1>7, <1>t DEF TypeOK, ClearReadFlag, LoopMore, Goto, hist
<1>8. CASE TestCounter(t)
  BY <1>8, <1>t DEF TypeOK, TestCounter, Return, Goto
<1>9. CASE LoopBelow(t)
  <2>1. attempts[t] < RD_CRCERR_NUM
           => AtMost(attempts[t] + 1, RD_CRCERR_NUM + 1) = attempts[t] + 1
    BY <1>t DEF AtMost
  <2>2. QED
    BY <1>9, <1>t, <2>1 DEF TypeOK, LoopBelow, Goto
<1>10. CASE FinalTest(t) \/ FinalReset(t)
  BY <1>10, <1>t DEF TypeOK, FinalTest, FinalReset, Return, Goto
<1>11. CASE FpgaBegin(t) \/ FpgaEnd(t)
  BY <1>11 DEF FpgaBegin, FpgaEnd, code, hist
<1>12. QED
  BY <1>1, <1>2, <1>3, <1>4, <1>5, <1>6, <1>7, <1>8, <1>9, <1>10, <1>11 DEF Read

\* While nobody else reads, the counter counts this call's CRC errors in a row.
THEOREM SoleReaderCounts == SoleReader => (Spec => []CountsThisCall)
<1> SUFFICES ASSUME SoleReader PROVE Spec => []CountsThisCall
  OBVIOUS
<1>1. Init => CountsThisCall
  BY ReadAssumption DEF Init, CountsThisCall, CallCounts
<1>2. TypeOK /\ CountsThisCall /\ [Next]_vars => CountsThisCall'
  <2> SUFFICES ASSUME TypeOK, CountsThisCall, [Next]_vars, NEW t \in Thread
               PROVE  CallCounts(t)'
    BY DEF CountsThisCall
  <2>1. CASE Read(t) \/ FpgaBegin(t) \/ FpgaEnd(t)
    BY <2>1, CallCountsStep DEF CountsThisCall
  <2>2. CASE UNCHANGED vars
    BY <2>2 DEF CountsThisCall, CallCounts, vars, code, fpga, hist
  <2>3. QED
    BY <2>1, <2>2 DEF Next, SoleReader
<1>3. QED
  BY <1>1, <1>2, ReadTypeOK, PTL DEF Spec

\* In the default build, for every RD_CRCERR_NUM: a frame is given up only
\* after RD_CRCERR_NUM CRC errors in a row.
THEOREM SoleReaderErrorEarned == SoleReader => (Spec => []ErrorEarned)
<1>1. CountsThisCall => ErrorEarned
  BY DEF CountsThisCall, CallCounts, ErrorEarned
<1>2. QED
  BY <1>1, SoleReaderCounts, PTL

\* In the default build a call reads the channel at most RD_CRCERR_NUM times;
\* with a second reader, whose good frames reset the counter, it need not.
THEOREM SoleReaderAttempts == SoleReader => (Spec => []AttemptsBounded)
<1>1. TypeOK /\ CountsThisCall => AttemptsBounded
  <2> SUFFICES ASSUME TypeOK, CountsThisCall, NEW t \in Thread
               PROVE  attempts[t] <= RD_CRCERR_NUM
    BY DEF AttemptsBounded
  <2>1. num \in Nat /\ RD_CRCERR_NUM \in Nat \ {0} /\ pc[t] \in Label /\ CallCounts(t)
    BY ReadAssumption DEF TypeOK, CountsThisCall
  <2>2. QED
    BY <2>1 DEF CallCounts, Label
<1>2. QED
  BY <1>1, ReadTypeOK, SoleReaderCounts, PTL
-----------------------------------------------------------------------------
\* With a feedback byte per thread a read flag that BramBlockRDFlagWait set
\* stays set until BramBlockFlagClear: the stores by which other threads set
\* and clear their bits never expose a frame that is being read.  It needs the
\* hypothesis: MVB and CAN0 read channels 8 and 9 to 11 of the TMS570 under one
\* byte.
THEOREM OwnByteReadFlags ==
  (\A s, t \in Thread : FlagByteOf[s] = FlagByteOf[t] => s = t) => (Spec => []ReadFlagHeld)
<1> SUFFICES ASSUME \A s, t \in Thread : FlagByteOf[s] = FlagByteOf[t] => s = t
             PROVE  Spec => []ReadFlagHeld
  OBVIOUS
<1>1. Init => ReadFlagHeld
  BY DEF Init, ReadFlagHeld
<1>2. TypeOK /\ ReadFlagHeld /\ [Next]_vars => ReadFlagHeld'
  <2> SUFFICES ASSUME TypeOK, ReadFlagHeld, [Next]_vars PROVE ReadFlagHeld'
    OBVIOUS
  <2> USE DEF ReadFlagHeld
  <2>1. ASSUME NEW s \in Thread, SetReadFlag(s) \/ ClearReadFlag(s) PROVE ReadFlagHeld'
    BY <2>1 DEF TypeOK, SetReadFlag, ClearReadFlag
  <2>2. ASSUME NEW s \in Thread, FlagWaitTimeout(s) PROVE ReadFlagHeld'
    BY <2>2 DEF TypeOK, FlagWaitTimeout
  <2>3. CASE UNCHANGED <<rdFlag, flagged>>
    BY <2>3
  <2>4. ASSUME NEW s \in Thread, Read(s) PROVE ReadFlagHeld'
    BY <2>1, <2>2, <2>3, <2>4 DEF Read, CallRead, FlagWaitPass, ReadFirst, ReadSecond, CrcError,
       CrcRight, IncLoad, IncStore, TestCounter, LoopMore, LoopBelow, FinalTest, FinalReset, hist
  <2>5. ASSUME NEW s \in Thread, FpgaBegin(s) \/ FpgaEnd(s) PROVE ReadFlagHeld'
    BY <2>3, <2>5 DEF FpgaBegin, FpgaEnd, hist
  <2>6. CASE UNCHANGED vars
    BY <2>3, <2>6 DEF vars, hist
  <2>7. QED
    BY <2>4, <2>5, <2>6 DEF Next
<1>3. QED
  BY <1>1, <1>2, ReadTypeOK, PTL DEF Spec
=============================================================================
