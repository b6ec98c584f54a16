----------------------------- MODULE BramWrite -----------------------------
(***************************************************************************)
(* The write half of BramDataInter.c: BramWriteWithChek and the functions  *)
(* it calls, run by several A9 threads against the FPGA.                   *)
(*                                                                         *)
(* A thread puts a frame in its channel of the shared block RAM, sets the  *)
(* channel's bit in a flag byte, waits for the FPGA to clear the bit and   *)
(* then reads the CRC verdict the FPGA left in the feedback byte.  A       *)
(* refused frame is written again; how often is decided by one static      *)
(* uint8_t, s_bram_WriteCRCErrNum_U8, that every thread of the process     *)
(* shares without a lock.  Each thread owns one channel, so a channel is   *)
(* named by its thread.                                                    *)
(*                                                                         *)
(* The program is built with -g and no -O (Makefile:8): every use of the   *)
(* static is a load or a store of its own, and so is a step here.          *)
(***************************************************************************)
EXTENDS Naturals

CONSTANTS
  Thread,         \* the A9 threads that call BramWriteWithChek
  FlagByteOf,     \* FlagByteOf[t]: the flag byte that holds the bit of t's channel
  WR_CRCERR_NUM,  \* BramDataInter.h:42
  U8              \* values of a uint8_t: 256 in the code, fewer for TLC

ASSUME WriteAssumption ==
  /\ WR_CRCERR_NUM \in Nat \ {0}
  /\ U8 \in Nat /\ U8 > WR_CRCERR_NUM
  /\ FlagByteOf \in [Thread -> Nat]

VARIABLES
  pc,        \* pc[t]: the next statement of t's call, "idle" between two calls
  inLoop,    \* inLoop[t]: BramBlockWrite was called from the retry loop
  reg,       \* reg[t]: the counter value loaded by t's ++
  num,       \* s_bram_WriteCRCErrNum_U8
  wrFlag,    \* the channels whose A9 write flag bit is set
  crcBit,    \* the channels whose FPGA CRC error bit is set
  verdict,   \* verdict[t]: what t's last call returned
  fresh,     \* history: the frame in t's channel was put there by t's current call
  taken,     \* history: the FPGA accepted a frame of t's current call
  refused,   \* history: refusals of frames of the current call, up to WR_CRCERR_NUM
  attempts,  \* history: BramBlockWrite calls of the current call, up to WR_CRCERR_NUM + 1
  timedOut   \* history: a poll of the current call gave up

code == <<pc, inLoop, reg, verdict>>
fpga == <<wrFlag, crcBit>>
hist == <<fresh, taken, refused, attempts, timedOut>>
vars == <<code, num, fpga, hist>>

Label == {"idle", "wait", "frame", "flag", "poll", "crc", "load", "store",
          "test", "more", "below", "final", "reset"}

AtMost(n, bound) == IF n > bound THEN bound ELSE n

\* The successor of a uint8_t.
IncByte(n) == IF n = U8 - 1 THEN 0 ELSE n + 1

Goto(t, label) == pc' = [pc EXCEPT ![t] = label]

\* Where BramBlockWrite returns to: the statement after the first write, or
\* the head of the while loop.
EndOfBlockWrite(t) == IF inLoop[t] THEN "more" ELSE "test"

Init ==
  /\ pc = [t \in Thread |-> "idle"]
  /\ inLoop = [t \in Thread |-> FALSE]
  /\ reg = [t \in Thread |-> 0]
  /\ num = 0
  /\ wrFlag = {}
  /\ crcBit = {}
  /\ verdict = [t \in Thread |-> "none"]
  /\ fresh = [t \in Thread |-> FALSE]
  /\ taken = [t \in Thread |-> FALSE]
  /\ refused = [t \in Thread |-> 0]
  /\ attempts = [t \in Thread |-> 0]
  /\ timedOut = [t \in Thread |-> FALSE]
-----------------------------------------------------------------------------
(* The A9 threads.                                                         *)

\* BramWriteWithChek starts: BramWrDataSet builds the frame, with its CRC, in
\* a local buffer, and BramBlockWrite is called.
CallWrite(t) ==
  /\ pc[t] = "idle"
  /\ Goto(t, "wait")
  /\ inLoop' = [inLoop EXCEPT ![t] = FALSE]
  /\ verdict' = [verdict EXCEPT ![t] = "none"]
  /\ fresh' = [fresh EXCEPT ![t] = FALSE]
  /\ taken' = [taken EXCEPT ![t] = FALSE]
  /\ refused' = [refused EXCEPT ![t] = 0]
  /\ attempts' = [attempts EXCEPT ![t] = 1]
  /\ timedOut' = [timedOut EXCEPT ![t] = FALSE]
  /\ UNCHANGED <<reg, num, fpga>>

\* Mutant of FlagWaitPass: the flag is not looked at.
FlagWaitPassBlind(t) ==
  /\ pc[t] = "wait"
  /\ Goto(t, "frame")
  /\ UNCHANGED <<inLoop, reg, verdict, num, fpga, hist>>

\* BramBlockWRFlagWait sees the write flag clear.
FlagWaitPass(t) ==
  /\ pc[t] = "wait"
  /\ t \notin wrFlag
  /\ Goto(t, "frame")
  /\ UNCHANGED <<inLoop, reg, verdict, num, fpga, hist>>

\* BramBlockWRFlagWait finds the flag set on poll 450: BramBlockWrite returns
\* at once, with neither the frame nor the counter touched.
FlagWaitTimeout(t) ==
  /\ pc[t] = "wait"
  /\ t \in wrFlag
  /\ Goto(t, EndOfBlockWrite(t))
  /\ timedOut' = [timedOut EXCEPT ![t] = TRUE]
  /\ UNCHANGED <<inLoop, reg, verdict, num, fpga, fresh, taken, refused, attempts>>

\* BramBlockWriteOpti: the frame is copied to the channel.
WriteFrame(t) ==
  /\ pc[t] = "frame"
  /\ Goto(t, "flag")
  /\ fresh' = [fresh EXCEPT ![t] = TRUE]
  /\ UNCHANGED <<inLoop, reg, verdict, num, fpga, taken, refused, attempts, timedOut>>

\* Mutant of SetFlag: a whole word is stored, the other flag bytes with it.
SetFlagWord(t) ==
  /\ pc[t] = "flag"
  /\ Goto(t, "poll")
  /\ wrFlag' = {t}
  /\ UNCHANGED <<inLoop, reg, verdict, num, crcBit, hist>>

\* BramBlockFlagCrc sets the flag by storing 1 << bit: the other bits of the
\* same byte become 0.
SetFlag(t) ==
  /\ pc[t] = "flag"
  /\ Goto(t, "poll")
  /\ wrFlag' = {s \in wrFlag : FlagByteOf[s] # FlagByteOf[t]} \cup {t}
  /\ UNCHANGED <<inLoop, reg, verdict, num, crcBit, hist>>

\* BramBlockFlagCrc sees its bit clear.
FlagCleared(t) ==
  /\ pc[t] = "poll"
  /\ t \notin wrFlag
  /\ Goto(t, "crc")
  /\ UNCHANGED <<inLoop, reg, verdict, num, fpga, hist>>

\* Mutant of PollTimeout: a timeout is counted like a CRC error.
PollTimeoutCounted(t) ==
  /\ pc[t] = "poll"
  /\ t \in wrFlag
  /\ Goto(t, "load")
  /\ timedOut' = [timedOut EXCEPT ![t] = TRUE]
  /\ UNCHANGED <<inLoop, reg, verdict, num, fpga, fresh, taken, refused, attempts>>

\* The bit is still set on poll 450: CODE_WARN, the counter is not touched.
PollTimeout(t) ==
  /\ pc[t] = "poll"
  /\ t \in wrFlag
  /\ Goto(t, EndOfBlockWrite(t))
  /\ timedOut' = [timedOut EXCEPT ![t] = TRUE]
  /\ UNCHANGED <<inLoop, reg, verdict, num, fpga, fresh, taken, refused, attempts>>

\* Mutant of CrcRight: the counter is not cleared.
CrcRightNoReset(t) ==
  /\ pc[t] = "crc"
  /\ t \notin crcBit
  /\ Goto(t, EndOfBlockWrite(t))
  /\ UNCHANGED <<inLoop, reg, verdict, num, fpga, hist>>

\* BramBlockFlagCrc reads a clear CRC bit and stores 0 in the counter.
CrcRight(t) ==
  /\ pc[t] = "crc"
  /\ t \notin crcBit
  /\ Goto(t, EndOfBlockWrite(t))
  /\ num' = 0
  /\ UNCHANGED <<inLoop, reg, verdict, fpga, hist>>

\* It reads a set CRC bit; s_bram_WriteCRCErrNum_U8++ follows.
CrcError(t) ==
  /\ pc[t] = "crc"
  /\ t \in crcBit
  /\ Goto(t, "load")
  /\ UNCHANGED <<inLoop, reg, verdict, num, fpga, hist>>

\* The load of s_bram_WriteCRCErrNum_U8++.
IncLoad(t) ==
  /\ pc[t] = "load"
  /\ Goto(t, "store")
  /\ reg' = [reg EXCEPT ![t] = num]
  /\ UNCHANGED <<inLoop, verdict, num, fpga, hist>>

\* The store of s_bram_WriteCRCErrNum_U8++, in a byte.
IncStore(t) ==
  /\ pc[t] = "store"
  /\ Goto(t, EndOfBlockWrite(t))
  /\ num' = IncByte(reg[t])
  /\ UNCHANGED <<inLoop, reg, verdict, fpga, hist>>

Return(t, code_) ==
  /\ Goto(t, "idle")
  /\ verdict' = [verdict EXCEPT ![t] = code_]

\* if (s_bram_WriteCRCErrNum_U8 > 0): otherwise the call returns CODE_OK.
TestCounter(t) ==
  /\ pc[t] = "test"
  /\ \/ num > 0 /\ Goto(t, "more") /\ UNCHANGED verdict
     \/ num = 0 /\ Return(t, "ok")
  /\ UNCHANGED <<inLoop, reg, num, fpga, hist>>

\* The first operand of the while condition, 0 < counter.
LoopMore(t) ==
  /\ pc[t] = "more"
  /\ Goto(t, IF num > 0 THEN "below" ELSE "final")
  /\ UNCHANGED <<inLoop, reg, verdict, num, fpga, hist>>

\* Mutant of LoopBelow: one write too few.
LoopBelowEarly(t) ==
  /\ pc[t] = "below"
  /\ \/ /\ num < WR_CRCERR_NUM - 1
        /\ Goto(t, "wait")
        /\ inLoop' = [inLoop EXCEPT ![t] = TRUE]
        /\ attempts' = [attempts EXCEPT ![t] = AtMost(@ + 1, WR_CRCERR_NUM + 1)]
     \/ /\ num >= WR_CRCERR_NUM - 1
        /\ Goto(t, "final")
        /\ UNCHANGED <<inLoop, attempts>>
  /\ UNCHANGED <<reg, verdict, num, fpga, fresh, taken, refused, timedOut>>

\* Mutant of LoopBelow: one write too many.
LoopBelowLate(t) ==
  /\ pc[t] = "below"
  /\ \/ /\ num <= WR_CRCERR_NUM
        /\ Goto(t, "wait")
        /\ inLoop' = [inLoop EXCEPT ![t] = TRUE]
        /\ attempts' = [attempts EXCEPT ![t] = AtMost(@ + 1, WR_CRCERR_NUM + 1)]
     \/ /\ num > WR_CRCERR_NUM
        /\ Goto(t, "final")
        /\ UNCHANGED <<inLoop, attempts>>
  /\ UNCHANGED <<reg, verdict, num, fpga, fresh, taken, refused, timedOut>>

\* The second operand, counter < WR_CRCERR_NUM: BramBlockWrite is called again.
LoopBelow(t) ==
  /\ pc[t] = "below"
  /\ \/ /\ num < WR_CRCERR_NUM
        /\ Goto(t, "wait")
        /\ inLoop' = [inLoop EXCEPT ![t] = TRUE]
        /\ attempts' = [attempts EXCEPT ![t] = AtMost(@ + 1, WR_CRCERR_NUM + 1)]
     \/ /\ num >= WR_CRCERR_NUM
        /\ Goto(t, "final")
        /\ UNCHANGED <<inLoop, attempts>>
  /\ UNCHANGED <<reg, verdict, num, fpga, fresh, taken, refused, timedOut>>

\* if (WR_CRCERR_NUM == counter), the failure branch.
FinalTest(t) ==
  /\ pc[t] = "final"
  /\ \/ num = WR_CRCERR_NUM /\ Goto(t, "reset") /\ UNCHANGED verdict
     \/ num # WR_CRCERR_NUM /\ Return(t, "ok")
  /\ UNCHANGED <<inLoop, reg, num, fpga, hist>>

\* The counter is cleared and the call returns CODE_ERR.
FinalReset(t) ==
  /\ pc[t] = "reset"
  /\ Return(t, "err")
  /\ num' = 0
  /\ UNCHANGED <<inLoop, reg, fpga, hist>>

Write(t) ==
  \/ CallWrite(t) \/ FlagWaitPass(t) \/ FlagWaitTimeout(t) \/ WriteFrame(t)
  \/ SetFlag(t) \/ FlagCleared(t) \/ PollTimeout(t) \/ CrcRight(t) \/ CrcError(t)
  \/ IncLoad(t) \/ IncStore(t) \/ TestCounter(t) \/ LoopMore(t) \/ LoopBelow(t)
  \/ FinalTest(t) \/ FinalReset(t)
-----------------------------------------------------------------------------
(* The FPGA: external, known from how the functions above use its flags.   *)

\* The FPGA takes the frame of a flagged channel, finds its CRC right, clears
\* the CRC error bit and then the write flag.
FpgaAccept(t) ==
  /\ t \in wrFlag
  /\ wrFlag' = wrFlag \ {t}
  /\ crcBit' = crcBit \ {t}
  /\ taken' = [taken EXCEPT ![t] = @ \/ fresh[t]]
  /\ UNCHANGED <<code, num, fresh, refused, attempts, timedOut>>

\* The FPGA finds the CRC wrong, sets the error bit and clears the write flag.
FpgaRefuse(t) ==
  /\ t \in wrFlag
  /\ wrFlag' = wrFlag \ {t}
  /\ crcBit' = crcBit \cup {t}
  /\ refused' = [refused EXCEPT ![t] =
                   IF fresh[t] THEN AtMost(@ + 1, WR_CRCERR_NUM) ELSE @]
  /\ UNCHANGED <<code, num, fresh, taken, attempts, timedOut>>

Fpga(t) == FpgaAccept(t) \/ FpgaRefuse(t)
-----------------------------------------------------------------------------
Next == \E t \in Thread : Write(t) \/ Fpga(t)

Spec == Init /\ [][Next]_vars

\* The threads keep running, and the FPGA serves a flag that stays set.
Fairness == \A t \in Thread : WF_vars(Write(t)) /\ WF_vars(Fpga(t))

FairSpec == Spec /\ Fairness
-----------------------------------------------------------------------------
TypeOK ==
  /\ pc \in [Thread -> Label]
  /\ inLoop \in [Thread -> BOOLEAN]
  /\ reg \in [Thread -> 0..(U8 - 1)]
  /\ num \in 0..(U8 - 1)
  /\ wrFlag \subseteq Thread
  /\ crcBit \subseteq Thread
  /\ verdict \in [Thread -> {"none", "ok", "err"}]
  /\ fresh \in [Thread -> BOOLEAN]
  /\ taken \in [Thread -> BOOLEAN]
  /\ refused \in [Thread -> 0..WR_CRCERR_NUM]
  /\ attempts \in [Thread -> 0..(WR_CRCERR_NUM + 1)]
  /\ timedOut \in [Thread -> BOOLEAN]

\* A call that returned CODE_ERR had its frame refused WR_CRCERR_NUM times by
\* the FPGA: BramWriteWithChek does not give up early, and no refusal of an
\* earlier call is held against this one.
ErrorEarned == \A t \in Thread : verdict[t] = "err" => refused[t] = WR_CRCERR_NUM

\* A call that returned CODE_OK and saw the FPGA answer every time had its
\* frame accepted: no refusal is reported as success.
NoSilentRefusal == \A t \in Thread : (verdict[t] = "ok" /\ ~timedOut[t]) => taken[t]

\* t's call is inside BramBlockWrite, before it has counted its result.
Writing(t) == pc[t] \in {"wait", "frame", "flag", "poll", "crc", "load", "store"}

\* The FPGA has answered t's frame and t has not acted on the answer.
Answered(t) == pc[t] = "crc" \/ (pc[t] = "poll" /\ t \notin wrFlag)

\* The answer was a refusal, which the counter does not show yet.
Uncounted(t) == pc[t] \in {"load", "store"} \/ (Answered(t) /\ t \in crcBit)

CallCounts(t) ==
  /\ pc[t] # "idle" => num <= refused[t]
  /\ Uncounted(t) => num < refused[t]
  /\ Writing(t) => num < WR_CRCERR_NUM
  /\ pc[t] = "store" => reg[t] = num
  /\ pc[t] \in {"flag", "poll", "crc"} => fresh[t]
  /\ Answered(t) /\ t \notin crcBit => taken[t]
  /\ pc[t] \in {"test", "more", "final"} /\ num = 0 => taken[t] \/ timedOut[t]
  /\ pc[t] \in {"test", "more", "below"} => num <= WR_CRCERR_NUM
  /\ pc[t] = "below" => num > 0
  /\ pc[t] = "final" => num \in {0, WR_CRCERR_NUM}
  /\ pc[t] = "reset" => num = WR_CRCERR_NUM
  /\ pc[t] = "idle" => num = 0
  /\ verdict[t] # "none" => pc[t] = "idle"
  /\ verdict[t] = "err" => refused[t] = WR_CRCERR_NUM
  /\ verdict[t] = "ok" => taken[t] \/ timedOut[t]

\* With one writer the counter is a count of this call's refusals: it never
\* exceeds them, a refusal the A9 has yet to count is already in them, a clear
\* CRC bit means an accepted frame, and between calls the counter is zero.
\* This is what makes ErrorEarned, NoSilentRefusal and CounterStartsClean true.
CountsThisCall == \A t \in Thread : CallCounts(t)

\* A frame is copied into a channel only while the FPGA is not reading it.
FrameStable ==
  [][\A t \in Thread : (pc[t] = "frame" /\ pc'[t] = "flag") => t \notin wrFlag]_vars

\* A write flag goes from set to clear only by the FPGA, which leaves its CRC
\* verdict in the same step; no thread of the A9 takes back another's flag.
FlagClearedByFpga ==
  [][\A t \in Thread : (t \in wrFlag /\ t \notin wrFlag') => Fpga(t)]_vars

\* Once a call is over the retry counter is back to zero, so the next call
\* starts its own count.
CounterStartsClean == (\A t \in Thread : pc[t] = "idle") => num = 0

\* BramBlockWrite is called more than WR_CRCERR_NUM times in one call ("repeate
\* 4 write,total number 5 write", BramDataInter.h:42) only when a wait or a poll
\* gave up, which the counter does not count: refusals alone end the loop.
AttemptsBounded == \A t \in Thread : attempts[t] > WR_CRCERR_NUM => timedOut[t]

\* CODE_OK means the FPGA has the frame ("Return: 0,success;-1 false").
OkMeansTaken == \A t \in Thread : verdict[t] = "ok" => taken[t]

Timeout(t) == FlagWaitTimeout(t) \/ PollTimeout(t)

\* Every call returns, once the FPGA answers within the 450 polls.
CallReturns ==
  (<>[][\A t \in Thread : ~Timeout(t)]_vars) =>
     \A t \in Thread : (pc[t] # "idle") ~> (pc[t] = "idle")
=============================================================================
