------------------------------ MODULE CanLink -------------------------------
(***************************************************************************)
(* One CAN thread, CAN1ThreadFunc (CAN0ThreadFunc is the same loop with    *)
(* other identifiers): wait for a frame, read one round of frames into the *)
(* slots of s_can1_frame_RD_st, judge the life signals they carry, copy    *)
(* them to the block of the TMS570 and send its answer out on the bus.     *)
(*                                                                         *)
(* A slot whose read times out keeps the frame of an earlier round, and    *)
(* nothing marks it: the life judgement and the copy take it for a new one.*)
(*                                                                         *)
(* The error counters of CAN_Read_Option and of the first select only      *)
(* decide what is logged and are left out.  The copy goes to element 4 of  *)
(* an array of which CAN1ThreadFunc owns one element: the model keeps what *)
(* CAN_ReadData_Pro copies, not where the TMS570 would look for it.        *)
(***************************************************************************)
EXTENDS Naturals, Sequences, FiniteSets

CONSTANTS
  Id,          \* identifiers of the frames the thread is to read
  LifeId,      \* those that carry a life signal: one for each device judged
  Analog,      \* those whose analogue values are converted in place
  None,        \* a slot no frame has been read into: its can_id is 0
  SLOTS,       \* CAN1_READ_FRAME_NUM: 15; 20 for CAN0
  FRAMES,      \* CAN1_WRITE_FRAME_NUM: 5; 4 for CAN0
  ERRNUM,      \* 10: equal life signals in a row, and failed writes in a row
  LIFE,        \* values of the life byte, 0 .. LIFE - 1: 256 in the code
  QUEUE        \* frames the socket holds; further ones are dropped

ASSUME CanLinkAssumption ==
  /\ LifeId \subseteq Id /\ Analog \subseteq Id /\ None \notin Id
  /\ LifeId \cap Analog = {}
  /\ SLOTS \in Nat \ {0} /\ FRAMES \in Nat \ {0}
  /\ ERRNUM \in Nat \ {0} /\ LIFE \in Nat \ {0, 1} /\ QUEUE \in Nat \ {0}

VARIABLES
  filter,      \* the identifiers the socket lets through
  inbox,       \* frames the socket holds
  slot,        \* s_can1_frame_RD_st
  pc, at,      \* next statement, and the frame it is for
  lifeLast, errnum, judge,   \* life_lasttime, errnum, life_judge_val of a device
  can_err,     \* its bit of g_ECUErrInfo_ST.ecu_commu_err
  out,         \* bramdata_wr: the frame copied last, of each identifier
  errnum_wr,   \* CAN_Write_Option: writes that failed in a row
  full,        \* history: every slot was read without fault in this round
  newest,      \* history: the frame read last, of each identifier
  before       \* history: lifeLast when this round's judgement began

bus == <<filter, inbox>>
life == <<lifeLast, errnum, judge, can_err, before>>
vars == <<bus, slot, pc, at, life, out, errnum_wr, full, newest>>

\* A frame: its identifier, its data (the life byte stands for all of them), and
\* how many times the data were converted, twice standing for more.
Frames(i) == [id : i, data : 0 .. LIFE - 1, times : 0 .. 2]
Empty == [id |-> None, data |-> 0, times |-> 0]

\* setsockopt hands the filter to the socket before CAN_FrameInit fills it: what
\* the uninitialised array lets through is any set of identifiers.
Init ==
  /\ filter \in SUBSET Id
  /\ inbox = <<>>
  /\ slot = [i \in 1 .. SLOTS |-> Empty]
  /\ pc = "select" /\ at = 1
  /\ lifeLast = [d \in LifeId |-> 0] /\ errnum = [d \in LifeId |-> 0]
  /\ judge = [d \in LifeId |-> 0] /\ can_err = [d \in LifeId |-> 0]
  /\ before = [d \in LifeId |-> 0]
  /\ out = [i \in Id |-> Empty] /\ newest = [i \in Id |-> Empty]
  /\ errnum_wr = 0 /\ full = TRUE

Type ==
  /\ filter \in SUBSET Id
  /\ inbox \in Seq(Frames(Id)) /\ Len(inbox) <= QUEUE
  /\ slot \in [1 .. SLOTS -> Frames(Id \cup {None})]
  /\ pc \in {"select", "read", "judge", "copy", "send"}
  /\ at \in 1 .. (IF SLOTS > FRAMES THEN SLOTS ELSE FRAMES)
  /\ lifeLast \in [LifeId -> 0 .. LIFE - 1] /\ before \in [LifeId -> 0 .. LIFE - 1]
  /\ errnum \in [LifeId -> 0 .. ERRNUM - 1]
  /\ judge \in [LifeId -> {0, 1}] /\ can_err \in [LifeId -> {0, 1}]
  /\ out \in [Id -> Frames(Id \cup {None})] /\ newest \in [Id -> Frames(Id \cup {None})]
  /\ errnum_wr \in 0 .. ERRNUM - 1 /\ full \in BOOLEAN
-----------------------------------------------------------------------------
(* The bus.                                                                *)

\* A device sends a frame: with any life value, for it may have stopped counting or
\* restarted.  The socket drops a frame it has no room for.
Send ==
  /\ Len(inbox) < QUEUE
  /\ \E i \in filter, v \in 0 .. LIFE - 1 :
       inbox' = Append(inbox, [id |-> i, data |-> v, times |-> 0])
  /\ UNCHANGED <<filter, slot, pc, at, life, out, errnum_wr, full, newest>>
-----------------------------------------------------------------------------
(* CAN_Read_Option: one round of SLOTS reads.                              *)

\* The first select finds nothing for 100 ms: `continue' skips the judgement and the
\* sending too.
SelectTimeout ==
  /\ pc = "select"
  /\ inbox = <<>>
  /\ UNCHANGED vars

SelectReady ==
  /\ pc = "select"
  /\ inbox # <<>>
  /\ pc' = "read" /\ at' = 1
  /\ full' = TRUE
  /\ UNCHANGED <<bus, slot, life, out, errnum_wr, newest>>

\* It fails: CAN1ThreadFunc holds its -1 in a uint8_t, and reads.
SelectFails ==
  /\ pc = "select"
  /\ pc' = "read" /\ at' = 1
  /\ full' = TRUE
  /\ UNCHANGED <<bus, slot, life, out, errnum_wr, newest>>

\* The last slot of a pass leads to the next pass, whose first slot is 1.
Advance(last, next) ==
  IF at = last THEN pc' = next /\ at' = 1 ELSE at' = at + 1 /\ UNCHANGED pc

\* Entering the judgement, the history notes the life values it starts from.
Note == before' = IF at = SLOTS THEN lifeLast ELSE before

ReadFrame ==
  /\ pc = "read"
  /\ inbox # <<>>
  /\ inbox' = Tail(inbox)
  /\ slot' = [slot EXCEPT ![at] = Head(inbox)]
  /\ newest' = [newest EXCEPT ![Head(inbox).id] = Head(inbox)]
  /\ Advance(SLOTS, "judge") /\ Note
  /\ UNCHANGED <<filter, lifeLast, errnum, judge, can_err, out, errnum_wr, full>>

\* read fails: the data are zeroed, the identifier of the earlier frame stays.
ReadBad ==
  /\ pc = "read"
  /\ slot' = [slot EXCEPT ![at].data = 0, ![at].times = 0]
  /\ full' = FALSE
  /\ Advance(SLOTS, "judge") /\ Note
  /\ UNCHANGED <<bus, lifeLast, errnum, judge, can_err, out, errnum_wr, newest>>

\* 200 ms without a frame: the slot keeps the frame it has.
ReadTimeout ==
  /\ pc = "read"
  /\ inbox = <<>>
  /\ full' = FALSE
  /\ Advance(SLOTS, "judge") /\ Note
  /\ UNCHANGED <<bus, slot, lifeLast, errnum, judge, can_err, out, errnum_wr, newest>>
-----------------------------------------------------------------------------
(* CAN_ReadData_Pro.                                                       *)

\* Mutant of LifeJudge: a life signal that moves leaves the verdict.
LifeJudgeSticky(d, v) ==
  IF v = lifeLast[d]
    THEN LET n == errnum[d] + 1
         IN /\ errnum' = [errnum EXCEPT ![d] = IF n >= ERRNUM THEN 0 ELSE n]
            /\ judge' = [judge EXCEPT ![d] = IF n >= ERRNUM THEN 1 ELSE @]
            /\ UNCHANGED lifeLast
    ELSE /\ errnum' = [errnum EXCEPT ![d] = 0]
         /\ lifeLast' = [lifeLast EXCEPT ![d] = v]
         /\ UNCHANGED judge

\* Mutant of LifeJudge: the verdict needs one more than the counter reaches.
LifeJudgeNever(d, v) ==
  IF v = lifeLast[d]
    THEN /\ errnum' = [errnum EXCEPT ![d] = (@ + 1) % ERRNUM]
         /\ judge' = [judge EXCEPT ![d] = IF errnum[d] >= ERRNUM THEN 1 ELSE @]
         /\ UNCHANGED lifeLast
    ELSE /\ errnum' = [errnum EXCEPT ![d] = 0]
         /\ judge' = [judge EXCEPT ![d] = 0]
         /\ lifeLast' = [lifeLast EXCEPT ![d] = v]

\* Life_Judge_Fun: ERRNUM equal values in a row are an error, and the count starts again.
LifeJudge(d, v) ==
  IF v = lifeLast[d]
    THEN LET n == errnum[d] + 1
         IN /\ errnum' = [errnum EXCEPT ![d] = IF n >= ERRNUM THEN 0 ELSE n]
            /\ judge' = [judge EXCEPT ![d] = IF n >= ERRNUM THEN 1 ELSE @]
            /\ UNCHANGED lifeLast
    ELSE /\ errnum' = [errnum EXCEPT ![d] = 0]
         /\ judge' = [judge EXCEPT ![d] = 0]
         /\ lifeLast' = [lifeLast EXCEPT ![d] = v]

\* CAN_Life_Judge takes every slot in turn; the verdicts become bits of the error word
\* when it returns.
JudgeSlot ==
  /\ pc = "judge"
  /\ IF slot[at].id \in LifeId
       THEN LifeJudge(slot[at].id, slot[at].data)
       ELSE UNCHANGED <<lifeLast, errnum, judge>>
  /\ can_err' = IF at = SLOTS THEN judge' ELSE can_err
  /\ Advance(SLOTS, "copy")
  /\ UNCHANGED <<bus, slot, before, out, errnum_wr, full, newest>>

\* Anolog_Data_calculate_1 to _3 write the converted values over the raw ones.
Anolog_Data_calculate(f) ==
  IF f.id \in Analog THEN [f EXCEPT !.times = IF @ = 2 THEN 2 ELSE @ + 1] ELSE f

\* Mutant of CopySlot: a frame already copied in this pass is kept.
CopySlotFirst ==
  /\ pc = "copy"
  /\ LET f == Anolog_Data_calculate(slot[at])
     IN /\ slot' = [slot EXCEPT ![at] = f]
        /\ out' = IF f.id \in Id /\ \A i \in 1 .. at - 1 : slot[i].id # f.id
                    THEN [out EXCEPT ![f.id] = f] ELSE out
  /\ Advance(SLOTS, "send")
  /\ UNCHANGED <<bus, life, errnum_wr, full, newest>>

\* The slots are copied in their order, a later one over an earlier one.
CopySlot ==
  /\ pc = "copy"
  /\ LET f == Anolog_Data_calculate(slot[at])
     IN /\ slot' = [slot EXCEPT ![at] = f]
        /\ out' = IF f.id \in Id THEN [out EXCEPT ![f.id] = f] ELSE out
  /\ Advance(SLOTS, "send")
  /\ UNCHANGED <<bus, life, errnum_wr, full, newest>>
-----------------------------------------------------------------------------
(* CAN_WriteData_Pro fills the frames from the answer of the TMS570, and   *)
(* CAN_Write_Option sends them.                                            *)

SendOk ==
  /\ pc = "send"
  /\ errnum_wr' = 0
  /\ Advance(FRAMES, "select")
  /\ UNCHANGED <<bus, slot, life, out, full, newest>>

SendFails ==
  /\ pc = "send"
  /\ errnum_wr + 1 < ERRNUM
  /\ errnum_wr' = errnum_wr + 1
  /\ Advance(FRAMES, "select")
  /\ UNCHANGED <<bus, slot, life, out, full, newest>>

\* ERRNUM failures in a row: the frames that are left are not sent in this round.
SendGivesUp ==
  /\ pc = "send"
  /\ errnum_wr + 1 >= ERRNUM
  /\ errnum_wr' = 0
  /\ pc' = "select" /\ at' = 1
  /\ UNCHANGED <<bus, slot, life, out, full, newest>>

Thread ==
  \/ SelectReady
  \/ ReadFrame \/ ReadBad \/ ReadTimeout
  \/ JudgeSlot \/ CopySlot
  \/ SendOk \/ SendFails \/ SendGivesUp

Next == Send \/ SelectTimeout \/ SelectFails \/ Thread

Spec == Init /\ [][Next]_vars

\* The thread goes on when a frame is there, and select and read return.
FairSpec == Spec /\ WF_vars(Thread)
-----------------------------------------------------------------------------
(* Properties.                                                             *)

\* Type invariant.
TypeOK == Type

Of(d) == {i \in 1 .. SLOTS : slot[i].id = d}

\* Once a round is judged (CAN_Life_Judge, BramDataProc.c:791), a life error is
\* reported only of a device all of whose frames, the stale ones among them, carry the
\* value the judgement began with: one frame that moved is enough to clear it, unless
\* the device fills more than ERRNUM slots, so that the frames after the one that moved
\* can make up a count of their own.
AlarmMeansNoChange ==
  pc = "copy" /\ at = 1 =>
    \A d \in LifeId : can_err[d] = 1 /\ Cardinality(Of(d)) <= ERRNUM =>
      \A i \in Of(d) : slot[i].data = before[d]

\* After a round in which no read failed or timed out, what was copied for the TMS570
\* (CAN_ReadData_Pro, BramDataProc.c:1404) is, of each identifier in the round, the
\* frame that came last, its analogue values converted exactly once.
FullRoundNewest ==
  pc = "send" /\ full =>
    \A i \in Id : Of(i) # {} => out[i] = Anolog_Data_calculate(newest[i])

\* Every frame of device d that is held carries the same life signal.
OneLife(d) == \E v \in 0 .. LIFE - 1 :
  /\ \A i \in Of(d) : slot[i].data = v
  /\ \A k \in 1 .. Len(inbox) : inbox[k].id = d => inbox[k].data = v

\* Liveness: a device heard once whose life signal stands still in every slot that
\* holds a frame of it, dead or stuck, is reported, as long as other traffic lets
\* rounds begin (main.c:1459: a silent bus is never judged).  Two slots that hold
\* different old values hide a dead device for ever.
DeadShows ==
  \A d \in LifeId :
    <>[](Of(d) # {} /\ OneLife(d)) /\ []<>(pc = "read") => <>[](can_err[d] = 1)
=============================================================================
