------------------------------ MODULE BramRead ------------------------------
(***************************************************************************)
(* The read half of BramDataInter.c: BramReadWithChek and the functions it *)
(* calls, run by several A9 threads while the FPGA refreshes the frames.   *)
(*                                                                         *)
(* Each side announces itself by a flag bit (the FPGA while it writes a    *)
(* frame, the A9 while it reads one), but neither side tests and sets in   *)
(* one step and the A9 reads even when its wait gave up.  A frame can be   *)
(* torn; the CRC word behind it is the only protection.  A frame is        *)
(* modelled by its two halves, the header with the length being in the     *)
(* first and the CRC in the second.  As in BramWrite, a thread is modelled *)
(* on one of its channels, and one static counter, s_bram_ReadCRCErrNum_U8,*)
(* is shared by all threads and accessed by single loads and stores.       *)
(*                                                                         *)
(* The buffer belongs to the caller.  BLVDS zeroes it for every call; MVB  *)
(* and the TMS570's readers zero it once and pass it for one channel after *)
(* the other, so that a call may find in it whatever the call before, on   *)
(* another channel, has left there.                                        *)
(***************************************************************************)
EXTENDS Naturals

CONSTANTS
  Thread,        \* the A9 threads that call BramReadWithChek
  FlagByteOf,    \* FlagByteOf[t]: the feedback byte that holds t's read flag
  Zeroes,        \* the threads that zero Outbuf for every call
  Frame,         \* contents of a well formed frame
  Refresh,       \* contents the FPGA may write: frames, and of Junk
  RD_CRCERR_NUM, \* BramDataInter.h:41
  U8             \* values of a uint8_t: 256 in the code, fewer for TLC

\* Contents of a channel besides a well formed frame: a length below the 12
\* byte header (the block RAM is zero at power up), and a CRC that is wrong.
Junk == {"short", "bad"}
Content == Frame \cup Junk

ASSUME ReadAssumption ==
  /\ RD_CRCERR_NUM \in Nat \ {0}
  /\ U8 \in Nat /\ U8 > RD_CRCERR_NUM
  /\ FlagByteOf \in [Thread -> Nat]
  /\ Zeroes \subseteq Thread
  /\ Frame \cap Junk = {} /\ Refresh \subseteq Content

VARIABLES
  pc,        \* pc[t]: the next statement of t's call
  inLoop,    \* inLoop[t]: BramBlockRead was called from the retry loop
  reg,       \* reg[t]: the counter value loaded by t's ++
  num,       \* s_bram_ReadCRCErrNum_U8
  rdFlag,    \* the channels whose A9 read flag is set
  wrFlag,    \* the channels the FPGA says it is writing
  bram,      \* bram[t]: the two halves of the frame in t's channel
  outbuf,    \* outbuf[t]: the halves copied into t's Outbuf
  errCode,   \* errCode[t]: ErrorCode, what BramBlockRead returned last
  verdict,   \* verdict[t]: what t's last call returned
  flagged,   \* history: the current BramBlockRead set the read flag
  attempts,  \* history: BramBlockRead calls of this call, up to RD_CRCERR_NUM + 1
  badReads   \* history: consecutive CRC errors of this call, up to RD_CRCERR_NUM

code == <<pc, inLoop, reg, errCode, verdict>>
fpga == <<wrFlag, bram>>
hist == <<flagged, attempts, badReads>>
vars == <<code, num, rdFlag, fpga, outbuf, hist>>

Label == {"idle", "wait", "flag", "first", "second", "crc", "load", "store",
          "unflag", "test", "more", "below", "final", "reset"}

AtMost(n, bound) == IF n > bound THEN bound ELSE n

IncByte(n) == IF n = U8 - 1 THEN 0 ELSE n + 1
Goto(t, label) == pc' = [pc EXCEPT ![t] = label]

\* BramReadDataWithCRC: a short length is a warning, and a frame passes when
\* its CRC word is that of the data it stands behind.
CrcResult(buf) ==
  IF buf[1] = "short" THEN "warn"
  ELSE IF buf[1] = buf[2] /\ buf[1] \in Frame THEN "ok"
  ELSE "err"

Init ==
  /\ pc = [t \in Thread |-> "idle"]
  /\ inLoop = [t \in Thread |-> FALSE]
  /\ reg = [t \in Thread |-> 0]
  /\ num = 0
  /\ rdFlag = {}
  /\ wrFlag = {}
  /\ bram = [t \in Thread |-> <<"short", "short">>]
  /\ outbuf = [t \in Thread |-> <<"short", "short">>]
  /\ errCode = [t \in Thread |-> "ok"]
  /\ verdict = [t \in Thread |-> "none"]
  /\ flagged = [t \in Thread |-> FALSE]
  /\ attempts = [t \in Thread |-> 0]
  /\ badReads = [t \in Thread |-> 0]
-----------------------------------------------------------------------------
(* The A9 threads.                                                         *)

\* What a call may find in Outbuf: zeroes (BramDataProc.c:620), or what another
\* channel has left there (BramDataProc.c:1601, 1836: zeroed before the loop).
Leftover(t) == IF t \in Zeroes THEN {<<"short", "short">>} ELSE Content \X Content

\* BramReadWithChek starts with a first BramBlockRead.
CallRead(t) ==
  /\ pc[t] = "idle"
  /\ Goto(t, "wait")
  /\ verdict' = [verdict EXCEPT ![t] = "none"]
  /\ attempts' = [attempts EXCEPT ![t] = 1]
  /\ badReads' = [badReads EXCEPT ![t] = 0]
  /\ \E left \in Leftover(t) : outbuf' = [outbuf EXCEPT ![t] = left]
  /\ UNCHANGED <<inLoop, reg, num, rdFlag, fpga, errCode, flagged>>

\* BramBlockRDFlagWait sees the FPGA's write flag clear; the store that sets
\* the read flag is a later step.
FlagWaitPass(t) ==
  /\ pc[t] = "wait"
  /\ t \notin wrFlag
  /\ Goto(t, "flag")
  /\ UNCHANGED <<inLoop, reg, num, rdFlag, fpga, outbuf, errCode, verdict, hist>>

\* It stores 1 << bit in the feedback byte: the byte's other bits become 0.
SetReadFlag(t) ==
  /\ pc[t] = "flag"
  /\ Goto(t, "first")
  /\ rdFlag' = {s \in rdFlag : FlagByteOf[s] # FlagByteOf[t]} \cup {t}
  /\ flagged' = [flagged EXCEPT ![t] = TRUE]
  /\ UNCHANGED <<inLoop, reg, num, fpga, outbuf, errCode, verdict, attempts, badReads>>

\* Mutant of FlagWaitTimeout: the frame is not copied, and what Outbuf holds
\* already is checked.
FlagWaitTimeoutSkips(t) ==
  /\ pc[t] = "wait"
  /\ t \in wrFlag
  /\ Goto(t, "crc")
  /\ flagged' = [flagged EXCEPT ![t] = FALSE]
  /\ UNCHANGED <<inLoop, reg, num, rdFlag, fpga, outbuf, errCode, verdict, attempts, badReads>>

\* The write flag is still set on poll 450: BramBlockRead reads all the same,
\* without its read flag.
FlagWaitTimeout(t) ==
  /\ pc[t] = "wait"
  /\ t \in wrFlag
  /\ Goto(t, "first")
  /\ flagged' = [flagged EXCEPT ![t] = FALSE]
  /\ UNCHANGED <<inLoop, reg, num, rdFlag, fpga, outbuf, errCode, verdict, attempts, badReads>>

\* BramPackReadU32 copies the frame word by word: here half by half.
ReadFirst(t) ==
  /\ pc[t] = "first"
  /\ Goto(t, "second")
  /\ outbuf' = [outbuf EXCEPT ![t] = <<bram[t][1], @[2]>>]
  /\ UNCHANGED <<inLoop, reg, num, rdFlag, fpga, errCode, verdict, hist>>

ReadSecond(t) ==
  /\ pc[t] = "second"
  /\ Goto(t, "crc")
  /\ outbuf' = [outbuf EXCEPT ![t] = <<@[1], bram[t][2]>>]
  /\ UNCHANGED <<inLoop, reg, num, rdFlag, fpga, errCode, verdict, hist>>

\* BramReadDataWithCRC fails: the counter is incremented next.
CrcError(t) ==
  /\ pc[t] = "crc"
  /\ CrcResult(outbuf[t]) = "err"
  /\ Goto(t, "load")
  /\ errCode' = [errCode EXCEPT ![t] = "err"]
  /\ badReads' = [badReads EXCEPT ![t] = AtMost(@ + 1, RD_CRCERR_NUM)]
  /\ UNCHANGED <<inLoop, reg, num, rdFlag, fpga, outbuf, verdict, flagged, attempts>>

\* Mutant of CrcRight: the counter is not cleared.
CrcRightNoReset(t) ==
  /\ pc[t] = "crc"
  /\ CrcResult(outbuf[t]) # "err"
  /\ Goto(t, "unflag")
  /\ errCode' = [errCode EXCEPT ![t] = CrcResult(outbuf[t])]
  /\ badReads' = [badReads EXCEPT ![t] = 0]
  /\ UNCHANGED <<inLoop, reg, num, rdFlag, fpga, outbuf, verdict, flagged, attempts>>

\* It passes, or the frame is too short to have a CRC: the counter is cleared.
CrcRight(t) ==
  /\ pc[t] = "crc"
  /\ CrcResult(outbuf[t]) # "err"
  /\ Goto(t, "unflag")
  /\ num' = 0
  /\ errCode' = [errCode EXCEPT ![t] = CrcResult(outbuf[t])]
  /\ badReads' = [badReads EXCEPT ![t] = 0]
  /\ UNCHANGED <<inLoop, reg, rdFlag, fpga, outbuf, verdict, flagged, attempts>>

\* The load and the store of s_bram_ReadCRCErrNum_U8++.
IncLoad(t) ==
  /\ pc[t] = "load"
  /\ Goto(t, "store")
  /\ reg' = [reg EXCEPT ![t] = num]
  /\ UNCHANGED <<inLoop, num, rdFlag, fpga, outbuf, errCode, verdict, hist>>

IncStore(t) ==
  /\ pc[t] = "store"
  /\ Goto(t, "unflag")
  /\ num' = IncByte(reg[t])
  /\ reg' = [reg EXCEPT ![t] = 0]
  /\ UNCHANGED <<inLoop, rdFlag, fpga, outbuf, errCode, verdict, hist>>

\* BramBlockFlagClear stores 0 in the feedback byte: all of its bits.
ClearReadFlag(t) ==
  /\ pc[t] = "unflag"
  /\ Goto(t, IF inLoop[t] THEN "more" ELSE "test")
  /\ rdFlag' = {s \in rdFlag : FlagByteOf[s] # FlagByteOf[t]}
  /\ flagged' = [flagged EXCEPT ![t] = FALSE]
  /\ UNCHANGED <<inLoop, reg, num, fpga, outbuf, errCode, verdict, attempts, badReads>>

Return(t, result) ==
  /\ Goto(t, "idle")
  /\ verdict' = [verdict EXCEPT ![t] = result]
  /\ errCode' = [errCode EXCEPT ![t] = "ok"]
  /\ inLoop' = [inLoop EXCEPT ![t] = FALSE]
  /\ attempts' = [attempts EXCEPT ![t] = 0]

\* Mutant of TestCounter: CODE_OK is returned instead of ErrorCode.
TestCounterOk(t) ==
  /\ pc[t] = "test"
  /\ \/ num > 0 /\ Goto(t, "more") /\ UNCHANGED <<inLoop, errCode, verdict, attempts>>
     \/ num = 0 /\ Return(t, "ok")
  /\ UNCHANGED <<reg, num, rdFlag, fpga, outbuf, flagged, badReads>>

\* if (s_bram_ReadCRCErrNum_U8 > 0): otherwise ErrorCode is returned.
TestCounter(t) ==
  /\ pc[t] = "test"
  /\ \/ num > 0 /\ Goto(t, "more") /\ UNCHANGED <<inLoop, errCode, verdict, attempts>>
     \/ num = 0 /\ Return(t, errCode[t])
  /\ UNCHANGED <<reg, num, rdFlag, fpga, outbuf, flagged, badReads>>

\* The two operands of the while condition.
LoopMore(t) ==
  /\ pc[t] = "more"
  /\ Goto(t, IF num > 0 THEN "below" ELSE "final")
  /\ UNCHANGED <<inLoop, reg, num, rdFlag, fpga, outbuf, errCode, verdict, hist>>

\* Mutant of LoopBelow: one read too many.
LoopBelowLate(t) ==
  /\ pc[t] = "below"
  /\ \/ /\ num <= RD_CRCERR_NUM
        /\ Goto(t, "wait")
        /\ inLoop' = [inLoop EXCEPT ![t] = TRUE]
        /\ attempts' = [attempts EXCEPT ![t] = AtMost(@ + 1, RD_CRCERR_NUM + 1)]
     \/ /\ num > RD_CRCERR_NUM
        /\ Goto(t, "final")
        /\ UNCHANGED <<inLoop, attempts>>
  /\ UNCHANGED <<reg, num, rdFlag, fpga, outbuf, errCode, verdict, flagged, badReads>>

LoopBelow(t) ==
  /\ pc[t] = "below"
  /\ \/ /\ num < RD_CRCERR_NUM
        /\ Goto(t, "wait")
        /\ inLoop' = [inLoop EXCEPT ![t] = TRUE]
        /\ attempts' = [attempts EXCEPT ![t] = AtMost(@ + 1, RD_CRCERR_NUM + 1)]
     \/ /\ num >= RD_CRCERR_NUM
        /\ Goto(t, "final")
        /\ UNCHANGED <<inLoop, attempts>>
  /\ UNCHANGED <<reg, num, rdFlag, fpga, outbuf, errCode, verdict, flagged, badReads>>

\* if (s_bram_ReadCRCErrNum_U8 >= RD_CRCERR_NUM)
FinalTest(t) ==
  /\ pc[t] = "final"
  /\ \/ /\ num >= RD_CRCERR_NUM
        /\ Goto(t, "reset")
        /\ UNCHANGED <<inLoop, errCode, verdict, attempts>>
     \/ num < RD_CRCERR_NUM /\ Return(t, errCode[t])
  /\ UNCHANGED <<reg, num, rdFlag, fpga, outbuf, flagged, badReads>>

FinalReset(t) ==
  /\ pc[t] = "reset"
  /\ Return(t, "err")
  /\ num' = 0
  /\ UNCHANGED <<reg, rdFlag, fpga, outbuf, flagged, badReads>>

Read(t) ==
  \/ CallRead(t) \/ FlagWaitPass(t) \/ SetReadFlag(t) \/ FlagWaitTimeout(t)
  \/ ReadFirst(t) \/ ReadSecond(t) \/ CrcError(t) \/ CrcRight(t) \/ IncLoad(t)
  \/ IncStore(t) \/ ClearReadFlag(t) \/ TestCounter(t) \/ LoopMore(t)
  \/ LoopBelow(t) \/ FinalTest(t) \/ FinalReset(t)
-----------------------------------------------------------------------------
(* The FPGA: external, known from how the functions above use its flags.   *)

\* It starts to refresh a channel nobody flags as being read.
FpgaBegin(t) ==
  /\ t \notin wrFlag
  /\ t \notin rdFlag
  /\ wrFlag' = wrFlag \cup {t}
  /\ \E c \in Refresh : bram' = [bram EXCEPT ![t] = <<c, @[2]>>]
  /\ UNCHANGED <<code, num, rdFlag, outbuf, hist>>

\* It completes the frame and withdraws its flag.
FpgaEnd(t) ==
  /\ t \in wrFlag
  /\ wrFlag' = wrFlag \ {t}
  /\ bram' = [bram EXCEPT ![t] = <<@[1], @[1]>>]
  /\ UNCHANGED <<code, num, rdFlag, outbuf, hist>>
-----------------------------------------------------------------------------
Next == \E t \in Thread : Read(t) \/ FpgaBegin(t) \/ FpgaEnd(t)

Spec == Init /\ [][Next]_vars

\* Only the A9 threads are assumed to run; the FPGA may stop at any point.
FairSpec == Spec /\ \A t \in Thread : WF_vars(Read(t))
-----------------------------------------------------------------------------
TypeOK ==
  /\ pc \in [Thread -> Label]
  /\ inLoop \in [Thread -> BOOLEAN]
  /\ reg \in [Thread -> 0..(U8 - 1)]
  /\ num \in 0..(U8 - 1)
  /\ rdFlag \subseteq Thread
  /\ wrFlag \subseteq Thread
  /\ bram \in [Thread -> Content \X Content]
  /\ outbuf \in [Thread -> Content \X Content]
  /\ errCode \in [Thread -> {"ok", "warn", "err"}]
  /\ verdict \in [Thread -> {"none", "ok", "warn", "err"}]
  /\ flagged \in [Thread -> BOOLEAN]
  /\ attempts \in [Thread -> 0..(RD_CRCERR_NUM + 1)]
  /\ badReads \in [Thread -> 0..RD_CRCERR_NUM]

\* CODE_OK is returned with one whole well formed frame in Outbuf: no torn or
\* corrupt frame leaves BramReadWithChek as good, whatever other threads do to
\* the counter between a read and the tests that follow it.
OkMeansIntact ==
  \A t \in Thread : verdict[t] = "ok" => \E c \in Frame : outbuf[t] = <<c, c>>

\* CODE_ERR is returned only after RD_CRCERR_NUM CRC errors in a row: a good
\* frame is never thrown away.
ErrorEarned == \A t \in Thread : verdict[t] = "err" => badReads[t] = RD_CRCERR_NUM

\* With one reader the counter, the reads of this call and its CRC errors in a
\* row move together; ErrorEarned and AttemptsBounded follow.
CallCounts(t) ==
  /\ pc[t] \in {"wait", "flag", "first", "second", "crc", "load", "store"} =>
       num < RD_CRCERR_NUM /\ attempts[t] = num + 1
  /\ pc[t] \in {"wait", "flag", "first", "second", "crc"} => badReads[t] = num
  /\ pc[t] \in {"load", "store"} => badReads[t] = num + 1
  /\ pc[t] = "store" => reg[t] = num
  /\ pc[t] \in {"unflag", "test", "more", "below", "final", "reset"} =>
       /\ attempts[t] <= RD_CRCERR_NUM
       /\ num = 0 \/ (num = attempts[t] /\ num = badReads[t])
       /\ num = 0 => errCode[t] # "err"
  /\ pc[t] = "below" => num > 0
  /\ pc[t] = "final" => num \in {0, RD_CRCERR_NUM}
  /\ pc[t] = "reset" => num = RD_CRCERR_NUM
  /\ pc[t] = "idle" => num = 0 /\ attempts[t] = 0
  /\ verdict[t] = "err" => badReads[t] = RD_CRCERR_NUM

CountsThisCall == \A t \in Thread : CallCounts(t)

\* BramBlockRead is called at most RD_CRCERR_NUM times in one call
\* ("repeate 4 read,total number 5 rd", BramDataInter.h:41).
AttemptsBounded == \A t \in Thread : attempts[t] <= RD_CRCERR_NUM

\* From the moment a thread sets its read flag until it clears it, the flag is
\* set: another thread's store to a flag byte does not expose the frame.
ReadFlagHeld == \A t \in Thread : flagged[t] => t \in rdFlag

\* t's call has copied the second half of its channel at least once.
Taken(t) == inLoop[t] \/ pc[t] \notin {"wait", "flag", "first", "second"}

\* The abstract link.  The content published last is the second half of the
\* channel, which the FPGA writes last; a read takes effect when it copies it,
\* and until a call has done so it has taken nothing, whatever Outbuf holds.
Link == INSTANCE ReadLink WITH
  Blank <- "short",
  busy <- [t \in Thread |-> pc[t] # "idle"],
  chan <- [t \in Thread |-> bram[t][2]],
  got <- [t \in Thread |-> IF Taken(t) THEN outbuf[t][2] ELSE "short"],
  result <- verdict

\* All that flags, retries and counters do comes to this: a call that returns
\* CODE_OK has a whole frame that was the last one published in its channel
\* during the call, never one of an earlier call, on this channel or another,
\* that the buffer still held.
ImplementsReadLink == Link!LinkSpec

\* Every call returns, even if the FPGA stops in the middle of a frame.
CallReturns == \A t \in Thread : (pc[t] # "idle") ~> (pc[t] = "idle")
=============================================================================
