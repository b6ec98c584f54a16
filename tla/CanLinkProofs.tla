--------------------------- MODULE CanLinkProofs ---------------------------
(***************************************************************************)
(* Proofs about CanLink, for every set of identifiers and devices, every   *)
(* number of slots and every limit of the life judgement.                  *)
(***************************************************************************)
EXTENDS CanLink, FiniteSetTheorems, SequenceTheorems, TLAPS

\* The types, and the bound of each pass over the frames.
CanInv ==
  /\ TypeOK
  /\ pc = "select" => at = 1
  /\ pc \in {"read", "judge", "copy"} => at <= SLOTS
  /\ pc = "send" => at <= FRAMES

\* The slots among the first n that hold a frame of i.
Slots(n, i) == {k \in 1 .. n : slot[k].id = i}

\* What AlarmMeansNoChange rests on.  The frames of d judged so far all carry the value
\* the judgement began with; or one of them moved, which cleared the verdict, and the
\* counter has started again since; or there are enough of them to fill it anew.
AlarmCase(d, n) ==
  \/ lifeLast[d] = before[d] /\ \A k \in Slots(n, d) : slot[k].data = before[d]
  \/ judge[d] = 0 /\ errnum[d] < Cardinality(Slots(n, d))
  \/ Cardinality(Slots(n, d)) > ERRNUM

AlarmInv ==
  \A d \in LifeId :
    /\ pc = "judge" => AlarmCase(d, at - 1)
    /\ pc = "copy" /\ at = 1 => AlarmCase(d, SLOTS) /\ can_err[d] = judge[d]

\* What FullRoundNewest rests on: of the slots read (judged, still to be copied) the last
\* with an identifier holds its newest frame, and an identifier that no later slot holds is
\* copied for good.
LastNewest(first, last) ==
  \A k \in first .. last :
    slot[k].id \in Id /\ (\A m \in k + 1 .. last : slot[m].id # slot[k].id)
      => slot[k] = newest[slot[k].id]

Copied(n) ==
  \A i \in Id :
    Slots(n, i) # {} /\ (\A m \in n + 1 .. SLOTS : slot[m].id # i)
      => out[i] = Anolog_Data_calculate(newest[i])

NewestInv ==
  full =>
    /\ pc = "read" => LastNewest(1, at - 1)
    /\ pc = "judge" => LastNewest(1, SLOTS)
    /\ pc = "copy" => LastNewest(at, SLOTS) /\ Copied(at - 1)
    /\ FullRoundNewest
-----------------------------------------------------------------------------
(* Types.                                                                  *)

\* A pass over the frames stays within them: the last leads to the next pass.
LEMMA AdvanceTypes ==
  ASSUME CanInv,
         NEW last \in {SLOTS, FRAMES}, NEW next, at <= last, Advance(last, next)
  PROVE  /\ at' \in 1 .. last
         /\ pc' \in {pc, next}
         /\ pc' # pc => at' = 1
<1>1. at \in Nat /\ 1 <= at /\ last \in Nat /\ 1 <= last
  BY CanLinkAssumption DEF CanInv, TypeOK, Type
<1>2. CASE at = last
  BY <1>1, <1>2 DEF Advance
<1>3. CASE at # last
  BY <1>1, <1>3 DEF Advance
<1>4. QED
  BY <1>2, <1>3

\* The frame at the head of the socket's queue, and what a converted frame is.
LEMMA FrameTypes ==
  ASSUME CanInv
  PROVE  /\ inbox # <<>> => /\ Head(inbox) \in Frames(Id)
                            /\ Head(inbox) \in Frames(Id \cup {None})
                            /\ Tail(inbox) \in Seq(Frames(Id)) /\ Len(Tail(inbox)) <= QUEUE
         /\ \A f \in Frames(Id \cup {None}) :
              /\ Anolog_Data_calculate(f) \in Frames(Id \cup {None})
              /\ Anolog_Data_calculate(f).id = f.id
<1>1. ASSUME inbox # <<>>
      PROVE  /\ Head(inbox) \in Frames(Id)
             /\ Tail(inbox) \in Seq(Frames(Id)) /\ Len(Tail(inbox)) <= QUEUE
  <2>1. inbox \in Seq(Frames(Id)) /\ Len(inbox) <= QUEUE
    BY DEF CanInv, TypeOK, Type
  <2>2. Len(inbox) \in Nat /\ Len(Tail(inbox)) = Len(inbox) - 1
    BY <1>1, <2>1, HeadTailProperties, LenProperties
  <2>3. QED
    BY <1>1, <2>1, <2>2, CanLinkAssumption, HeadTailProperties
<1>2. ASSUME NEW f \in Frames(Id \cup {None})
      PROVE  /\ Anolog_Data_calculate(f) \in Frames(Id \cup {None})
             /\ Anolog_Data_calculate(f).id = f.id
  BY DEF Frames, Anolog_Data_calculate
<1>3. \A f \in Frames(Id) : f \in Frames(Id \cup {None})
  BY DEF Frames
<1>4. QED
  BY <1>1, <1>2, <1>3

\* The types and the bounds hold initially.
LEMMA InitCan == ASSUME Init PROVE CanInv
<1> USE CanLinkAssumption DEF Init
<1>1. Empty \in Frames(Id \cup {None})
  BY DEF Empty, Frames
<1>2. inbox \in Seq(Frames(Id)) /\ Len(inbox) <= QUEUE
  BY EmptySeq
<1>3. /\ lifeLast \in [LifeId -> 0 .. LIFE - 1] /\ before \in [LifeId -> 0 .. LIFE - 1]
      /\ errnum \in [LifeId -> 0 .. ERRNUM - 1]
      /\ judge \in [LifeId -> {0, 1}] /\ can_err \in [LifeId -> {0, 1}]
  OBVIOUS
<1>4. at \in 1 .. (IF SLOTS > FRAMES THEN SLOTS ELSE FRAMES) /\ errnum_wr \in 0 .. ERRNUM - 1
  OBVIOUS
<1>5. QED
  BY <1>1, <1>2, <1>3, <1>4 DEF CanInv, TypeOK, Type

\* A step of the reads.
LEMMA ReadCan ==
  ASSUME CanInv, ReadFrame \/ ReadBad \/ ReadTimeout
  PROVE  CanInv'
<1>1. pc = "read" /\ at <= SLOTS /\ Advance(SLOTS, "judge") /\ Note
  BY DEF ReadFrame, ReadBad, ReadTimeout, CanInv
<1>2. at' \in 1 .. SLOTS /\ pc' \in {"read", "judge"}
  BY <1>1, AdvanceTypes
<1>3. before' \in [LifeId -> 0 .. LIFE - 1]
  BY <1>1 DEF Note, CanInv, TypeOK, Type
<1>4. at \in 1 .. SLOTS
  BY <1>1, CanLinkAssumption DEF CanInv, TypeOK, Type
<1>5. inbox' \in Seq(Frames(Id)) /\ Len(inbox') <= QUEUE
  BY FrameTypes DEF ReadFrame, ReadBad, ReadTimeout, bus, CanInv, TypeOK, Type
<1>6. slot' \in [1 .. SLOTS -> Frames(Id \cup {None})]
  <2>1. slot[at] \in Frames(Id \cup {None})
    BY <1>4 DEF CanInv, TypeOK, Type
  <2> DEFINE zeroed == [id |-> slot[at].id, data |-> 0, times |-> 0]
  <2>2. zeroed \in Frames(Id \cup {None})
    BY <2>1, CanLinkAssumption DEF Frames
  <2>3. ReadBad => slot' = [slot EXCEPT ![at] = zeroed]
    BY <1>4, <2>1 DEF ReadBad, CanInv, TypeOK, Type, Frames
  <2>4. QED
    BY <2>2, <2>3, FrameTypes DEF ReadFrame, ReadBad, ReadTimeout, CanInv, TypeOK, Type
<1>7. newest' \in [Id -> Frames(Id \cup {None})]
  BY FrameTypes DEF ReadFrame, ReadBad, ReadTimeout, CanInv, TypeOK, Type
<1>8. UNCHANGED <<filter, lifeLast, errnum, judge, can_err, out, errnum_wr>> /\ full' \in BOOLEAN
  BY DEF ReadFrame, ReadBad, ReadTimeout, bus, CanInv, TypeOK, Type
<1>9. at' \in 1 .. (IF SLOTS > FRAMES THEN SLOTS ELSE FRAMES)
  BY <1>2, CanLinkAssumption
<1>10. TypeOK'
  BY <1>2, <1>3, <1>5, <1>6, <1>7, <1>8, <1>9 DEF CanInv, TypeOK, Type
<1>11. QED
  BY <1>2, <1>10 DEF CanInv

\* A step of the judgement.
LEMMA JudgeCan == ASSUME CanInv, JudgeSlot PROVE CanInv'
<1>1. pc = "judge" /\ at <= SLOTS /\ Advance(SLOTS, "copy")
  BY DEF JudgeSlot, CanInv
<1>2. at' \in 1 .. SLOTS /\ pc' \in {"judge", "copy"}
  BY <1>1, AdvanceTypes
<1>3. at \in 1 .. SLOTS
  BY <1>1, CanLinkAssumption DEF CanInv, TypeOK, Type
<1>4. /\ errnum' \in [LifeId -> 0 .. ERRNUM - 1] /\ judge' \in [LifeId -> {0, 1}]
      /\ lifeLast' \in [LifeId -> 0 .. LIFE - 1]
  <2>1. slot[at].data \in 0 .. LIFE - 1
    BY <1>3 DEF CanInv, TypeOK, Type, Frames
  <2>2. ASSUME NEW d \in LifeId, LifeJudge(d, slot[at].data)
        PROVE  /\ errnum' \in [LifeId -> 0 .. ERRNUM - 1] /\ judge' \in [LifeId -> {0, 1}]
               /\ lifeLast' \in [LifeId -> 0 .. LIFE - 1]
    <3>1. errnum[d] \in 0 .. ERRNUM - 1 /\ ERRNUM \in Nat \ {0}
      BY CanLinkAssumption DEF CanInv, TypeOK, Type
    <3>2. /\ errnum \in [LifeId -> 0 .. ERRNUM - 1] /\ judge \in [LifeId -> {0, 1}]
          /\ lifeLast \in [LifeId -> 0 .. LIFE - 1]
      BY DEF CanInv, TypeOK, Type
    <3>3. QED
      BY <2>1, <2>2, <3>1, <3>2 DEF LifeJudge
  <2>3. QED
    BY <2>2 DEF JudgeSlot, CanInv, TypeOK, Type
<1>5. can_err' \in [LifeId -> {0, 1}]
  BY <1>4 DEF JudgeSlot, CanInv, TypeOK, Type
<1>6. UNCHANGED <<bus, slot, before, out, errnum_wr, full, newest>>
  BY DEF JudgeSlot
<1>7. at' \in 1 .. (IF SLOTS > FRAMES THEN SLOTS ELSE FRAMES)
  BY <1>2, CanLinkAssumption
<1>8. TypeOK'
  BY <1>2, <1>4, <1>5, <1>6, <1>7 DEF CanInv, TypeOK, Type, bus
<1>9. QED
  BY <1>2, <1>8 DEF CanInv

\* A step of the copy.
LEMMA CopyCan == ASSUME CanInv, CopySlot PROVE CanInv'
<1> DEFINE f == Anolog_Data_calculate(slot[at])
<1>1. pc = "copy" /\ at <= SLOTS /\ Advance(SLOTS, "send")
  BY DEF CopySlot, CanInv
<1>2. at' \in 1 .. SLOTS /\ pc' \in {"copy", "send"} /\ (pc' = "send" => at' = 1)
  BY <1>1, AdvanceTypes
<1>3. at \in 1 .. SLOTS
  BY <1>1, CanLinkAssumption DEF CanInv, TypeOK, Type
<1>4. f \in Frames(Id \cup {None})
  BY <1>3, FrameTypes DEF CanInv, TypeOK, Type
<1>5. slot' = [slot EXCEPT ![at] = f]
      /\ out' = IF f.id \in Id THEN [out EXCEPT ![f.id] = f] ELSE out
  BY DEF CopySlot
<1>6. slot' \in [1 .. SLOTS -> Frames(Id \cup {None})] /\ out' \in [Id -> Frames(Id \cup {None})]
  <2> HIDE DEF f
  <2>1. QED
    BY <1>4, <1>5 DEF CanInv, TypeOK, Type
<1>7. UNCHANGED <<bus, life, errnum_wr, full, newest>>
  BY DEF CopySlot
<1>8. at' \in 1 .. (IF SLOTS > FRAMES THEN SLOTS ELSE FRAMES)
  BY <1>2, CanLinkAssumption
<1>9. TypeOK'
  BY <1>2, <1>6, <1>7, <1>8 DEF CanInv, TypeOK, Type, bus, life
<1>10. 1 <= FRAMES
  BY CanLinkAssumption
<1>11. QED
  BY <1>2, <1>9, <1>10 DEF CanInv

\* A step of the sending.
LEMMA SendCan == ASSUME CanInv, SendOk \/ SendFails \/ SendGivesUp PROVE CanInv'
<1>1. pc = "send" /\ at <= FRAMES
  BY DEF SendOk, SendFails, SendGivesUp, CanInv
<1>2. UNCHANGED <<bus, slot, life, out, full, newest>>
  BY DEF SendOk, SendFails, SendGivesUp
<1>3. at' \in 1 .. FRAMES /\ pc' \in {"send", "select"} /\ (pc' = "select" => at' = 1)
  <2>1. CASE SendGivesUp
    BY <2>1, CanLinkAssumption DEF SendGivesUp
  <2>2. CASE SendOk \/ SendFails
    BY <1>1, <2>2, AdvanceTypes DEF SendOk, SendFails
  <2>3. QED
    BY <2>1, <2>2
<1>4. errnum_wr' \in 0 .. ERRNUM - 1
  BY CanLinkAssumption DEF SendOk, SendFails, SendGivesUp, CanInv, TypeOK, Type
<1>5. at' \in 1 .. (IF SLOTS > FRAMES THEN SLOTS ELSE FRAMES)
  BY <1>3, CanLinkAssumption
<1>6. TypeOK'
  BY <1>2, <1>3, <1>4, <1>5 DEF CanInv, TypeOK, Type, bus, life
<1>7. QED
  BY <1>3, <1>6 DEF CanInv

\* Every step keeps the types and the bounds.
LEMMA StepCan == ASSUME CanInv, [Next]_vars PROVE CanInv'
<1>1. CASE UNCHANGED vars \/ SelectTimeout
  BY <1>1 DEF SelectTimeout, vars, bus, life, CanInv, TypeOK, Type
<1>2. CASE Send
  <2>1. PICK i \in filter, v \in 0 .. LIFE - 1 :
          inbox' = Append(inbox, [id |-> i, data |-> v, times |-> 0])
    BY <1>2 DEF Send
  <2>2. [id |-> i, data |-> v, times |-> 0] \in Frames(Id)
    BY DEF Frames, CanInv, TypeOK, Type
  <2>3. inbox \in Seq(Frames(Id)) /\ Len(inbox) \in Nat /\ Len(inbox) < QUEUE
    BY <1>2, LenProperties DEF Send, CanInv, TypeOK, Type
  <2>4. inbox' \in Seq(Frames(Id)) /\ Len(inbox') <= QUEUE
    BY <2>1, <2>2, <2>3, AppendProperties, CanLinkAssumption
  <2>5. QED
    BY <1>2, <2>4 DEF Send, life, CanInv, TypeOK, Type
<1>3. CASE SelectReady \/ SelectFails
  <2>1. at' = 1 /\ pc' = "read" /\ full' \in BOOLEAN
        /\ UNCHANGED <<bus, slot, life, out, errnum_wr, newest>>
    BY <1>3 DEF SelectReady, SelectFails
  <2>2. at' \in 1 .. (IF SLOTS > FRAMES THEN SLOTS ELSE FRAMES) /\ at' <= SLOTS
    BY <2>1, CanLinkAssumption
  <2>3. QED
    BY <2>1, <2>2 DEF CanInv, TypeOK, Type, bus, life
<1>4. QED
  BY <1>1, <1>2, <1>3, ReadCan, JudgeCan, CopyCan, SendCan DEF Next, Thread

\* The thread's loops keep to their arrays, and its counters stay below ERRNUM
\* (CAN_Read_Option, Life_Judge_Fun, CAN_Write_Option).
THEOREM CanTypeOK == Spec => []TypeOK
<1>1. CanInv => TypeOK
  BY DEF CanInv
<1>2. QED
  BY <1>1, InitCan, StepCan, PTL DEF Spec
-----------------------------------------------------------------------------
(* A life error means that nothing moved.                                  *)

\* One slot more: the frames of an identifier among the first n + 1 slots are those among
\* the first n and perhaps the last.
LEMMA NextSlot ==
  ASSUME NEW n \in Nat, NEW i
  PROVE  /\ IsFiniteSet(Slots(n, i)) /\ Cardinality(Slots(n, i)) \in Nat
         /\ slot[n + 1].id # i => Slots(n + 1, i) = Slots(n, i)
         /\ slot[n + 1].id = i =>
              /\ Slots(n + 1, i) = Slots(n, i) \cup {n + 1}
              /\ Cardinality(Slots(n + 1, i)) = Cardinality(Slots(n, i)) + 1
<1>1. Slots(n, i) \in SUBSET (1 .. n)
  BY DEF Slots
<1>2. IsFiniteSet(Slots(n, i)) /\ Cardinality(Slots(n, i)) \in Nat
  <2>1. IsFiniteSet(1 .. n)
    BY FS_Interval
  <2>2. QED
    BY <1>1, <2>1, FS_Subset, FS_CardinalityType
<1>3. slot[n + 1].id # i => Slots(n + 1, i) = Slots(n, i)
  BY DEF Slots
<1>4. slot[n + 1].id = i => Slots(n + 1, i) = Slots(n, i) \cup {n + 1}
  BY DEF Slots
<1>5. n + 1 \notin Slots(n, i)
  BY DEF Slots
<1>6. Cardinality(Slots(n, i) \cup {n + 1}) = Cardinality(Slots(n, i)) + 1
  BY <1>2, <1>5, FS_AddElement
<1>7. QED
  BY <1>2, <1>3, <1>4, <1>6

\* The heart of it: the judgement of one frame keeps the three cases.
LEMMA JudgeAlarm ==
  ASSUME CanInv, JudgeSlot, NEW d \in LifeId, NEW n \in Nat, at = n + 1, AlarmCase(d, n)
  PROVE  AlarmCase(d, n + 1)'
<1> DEFINE J == Slots(n, d)
           N == Slots(n + 1, d)
           v == slot[at].data
<1>1. at \in 1 .. SLOTS
  BY CanLinkAssumption DEF CanInv, TypeOK, Type, JudgeSlot
<1>2. /\ lifeLast \in [LifeId -> 0 .. LIFE - 1] /\ errnum[d] \in 0 .. ERRNUM - 1
      /\ judge \in [LifeId -> {0, 1}] /\ errnum \in [LifeId -> 0 .. ERRNUM - 1]
      /\ ERRNUM \in Nat \ {0}
  BY CanLinkAssumption DEF CanInv, TypeOK, Type
<1>3. slot' = slot /\ before' = before /\ N' = N
  BY DEF JudgeSlot, Slots
<1>4. Cardinality(J) \in Nat
  BY NextSlot
<1>5. CASE slot[at].id # d
  <2>1. N = J
    BY <1>5, NextSlot
  <2>2. lifeLast'[d] = lifeLast[d] /\ errnum'[d] = errnum[d] /\ judge'[d] = judge[d]
    BY <1>2, <1>5 DEF JudgeSlot, LifeJudge
  <2>3. QED
    BY <1>3, <2>1, <2>2 DEF AlarmCase
<1>6. CASE slot[at].id = d
  <2>1. N = J \cup {at} /\ Cardinality(N) = Cardinality(J) + 1
    BY <1>6, NextSlot
  <2>2. LifeJudge(d, v)
    BY <1>6 DEF JudgeSlot
  <2>3. CASE v # lifeLast[d]
    <3>1. judge'[d] = 0 /\ errnum'[d] = 0 /\ lifeLast'[d] = v
      BY <1>2, <2>2, <2>3 DEF LifeJudge
    <3>2. QED
      BY <1>3, <1>4, <2>1, <3>1 DEF AlarmCase
  <2>4. CASE v = lifeLast[d]
    <3>1. /\ lifeLast'[d] = lifeLast[d]
          /\ errnum[d] + 1 < ERRNUM => errnum'[d] = errnum[d] + 1 /\ judge'[d] = judge[d]
      BY <1>2, <2>2, <2>4 DEF LifeJudge
    <3>2. CASE lifeLast[d] = before[d] /\ \A k \in J : slot[k].data = before[d]
      BY <1>3, <2>1, <2>4, <3>1, <3>2 DEF AlarmCase
    <3>3. CASE judge[d] = 0 /\ errnum[d] < Cardinality(J)
      BY <1>2, <1>3, <1>4, <2>1, <3>1, <3>3 DEF AlarmCase
    <3>4. CASE Cardinality(J) > ERRNUM
      BY <1>2, <1>3, <1>4, <2>1, <3>4 DEF AlarmCase
    <3>5. QED
      BY <3>2, <3>3, <3>4 DEF AlarmCase
  <2>5. QED
    BY <2>3, <2>4
<1>7. QED
  BY <1>5, <1>6

\* Every step keeps the invariant of the judgement.
LEMMA StepAlarm == ASSUME CanInv, AlarmInv, [Next]_vars PROVE AlarmInv'
<1>1. CASE UNCHANGED vars \/ SelectTimeout \/ Send
  <2>1. UNCHANGED <<slot, pc, at, lifeLast, errnum, judge, can_err, before>>
    BY <1>1 DEF SelectTimeout, Send, vars, life
  <2>2. QED
    BY <2>1 DEF AlarmInv, AlarmCase, Slots
<1>2. CASE SelectReady \/ SelectFails \/ SendOk \/ SendFails \/ SendGivesUp
  <2>1. pc' \notin {"judge", "copy"}
    BY <1>2 DEF SelectReady, SelectFails, SendOk, SendFails, SendGivesUp, Advance
  <2>2. QED
    BY <2>1 DEF AlarmInv
<1>3. CASE ReadFrame \/ ReadBad \/ ReadTimeout
  <2>1. pc = "read" /\ at \in 1 .. SLOTS /\ Advance(SLOTS, "judge") /\ Note
        /\ lifeLast' = lifeLast
    BY <1>3, CanLinkAssumption DEF ReadFrame, ReadBad, ReadTimeout, CanInv, TypeOK, Type
  <2>2. pc' # "copy" /\ (pc' = "judge" => at' = 1 /\ before' = lifeLast)
    BY <2>1 DEF Advance, Note
  <2>3. ASSUME NEW d \in LifeId, pc' = "judge" PROVE AlarmCase(d, at - 1)'
    BY <2>1, <2>2, <2>3 DEF AlarmCase, Slots
  <2>4. QED
    BY <2>2, <2>3 DEF AlarmInv
<1>4. CASE JudgeSlot
  <2>1. pc = "judge" /\ at \in 1 .. SLOTS /\ Advance(SLOTS, "copy")
    BY <1>4, CanLinkAssumption DEF JudgeSlot, CanInv, TypeOK, Type
  <2>2. PICK n \in Nat : at = n + 1
    BY <2>1
  <2>3. ASSUME NEW d \in LifeId PROVE AlarmCase(d, n + 1)'
    <3>1. AlarmCase(d, n)
      BY <2>1, <2>2 DEF AlarmInv
    <3>2. QED
      BY <1>4, <2>2, <3>1, JudgeAlarm
  <2>4. CASE at = SLOTS
    <3>1. pc' = "copy" /\ at' = 1 /\ can_err' = judge' /\ n + 1 = SLOTS
      BY <1>4, <2>1, <2>2, <2>4 DEF Advance, JudgeSlot
    <3>2. QED
      BY <2>3, <3>1 DEF AlarmInv
  <2>5. CASE at # SLOTS
    <3>1. pc' = "judge" /\ at' - 1 = n + 1
      BY <2>1, <2>2, <2>5 DEF Advance
    <3>2. \A d \in LifeId : AlarmCase(d, at - 1)'
      BY <2>3, <3>1 DEF AlarmCase, Slots
    <3>3. QED
      BY <3>1, <3>2 DEF AlarmInv
  <2>6. QED
    BY <2>4, <2>5
<1>5. CASE CopySlot
  <2>1. pc' # "judge" /\ (pc' = "copy" => at' # 1)
    BY <1>5, CanLinkAssumption DEF CopySlot, Advance, CanInv, TypeOK, Type
  <2>2. QED
    BY <2>1 DEF AlarmInv
<1>6. QED
  BY <1>1, <1>2, <1>3, <1>4, <1>5 DEF Next, Thread

\* A life error of a device that filled at most ERRNUM slots of the round is true: not one
\* of its frames moved (CAN_Life_Judge, Life_Judge_Fun).
THEOREM CanAlarm == Spec => []AlarmMeansNoChange
<1>1. Init => AlarmInv
  BY DEF Init, AlarmInv
<1>2. ASSUME CanInv, AlarmInv PROVE AlarmMeansNoChange
  <2>1. SUFFICES ASSUME pc = "copy" /\ at = 1, NEW d \in LifeId, can_err[d] = 1,
                        Cardinality(Of(d)) <= ERRNUM
                 PROVE  \A i \in Of(d) : slot[i].data = before[d]
    BY DEF AlarmMeansNoChange
  <2>2. AlarmCase(d, SLOTS) /\ judge[d] = 1 /\ Slots(SLOTS, d) = Of(d)
    BY <1>2, <2>1 DEF AlarmInv, Slots, Of
  <2>3. Cardinality(Of(d)) \in Nat /\ ERRNUM \in Nat
    BY <1>2, <2>2, NextSlot, CanLinkAssumption
  <2>4. QED
    BY <2>1, <2>2, <2>3 DEF AlarmCase
<1>3. QED
  BY <1>1, <1>2, InitCan, StepCan, StepAlarm, PTL DEF Spec
-----------------------------------------------------------------------------
(* What is copied is what came last.                                       *)

\* The frame read is the newest of its identifier, and it is in the last slot read.
LEMMA ReadNewest ==
  ASSUME CanInv, ReadFrame, NEW n \in Nat, at = n + 1, LastNewest(1, n)
  PROVE  LastNewest(1, n + 1)'
<1> DEFINE f == Head(inbox)
<1>1. at \in 1 .. SLOTS /\ f.id \in Id
  <2>1. at \in 1 .. SLOTS
    BY CanLinkAssumption DEF ReadFrame, CanInv, TypeOK, Type
  <2>2. Head(inbox) \in Frames(Id)
    BY FrameTypes DEF ReadFrame
  <2>3. QED
    BY <2>1, <2>2 DEF Frames
<1>2. slot' = [slot EXCEPT ![at] = f] /\ newest' = [newest EXCEPT ![f.id] = f]
  BY DEF ReadFrame
<1>3. \A k \in 1 .. n + 1 : slot'[k] = IF k = n + 1 THEN f ELSE slot[k]
  BY <1>1, <1>2 DEF CanInv, TypeOK, Type
<1>4. \A i \in Id : newest'[i] = IF i = f.id THEN f ELSE newest[i]
  BY <1>1, <1>2 DEF CanInv, TypeOK, Type
<1> HIDE DEF f
<1>5. SUFFICES ASSUME NEW k \in 1 .. n + 1, slot'[k].id \in Id,
                      \A m \in k + 1 .. n + 1 : slot'[m].id # slot'[k].id
               PROVE  slot'[k] = newest'[slot'[k].id]
  BY DEF LastNewest
<1>6. CASE k = n + 1
  BY <1>1, <1>3, <1>4, <1>6
<1>7. CASE k # n + 1
  <2>1. k \in 1 .. n /\ n + 1 \in k + 1 .. n + 1 /\ slot'[k] = slot[k] /\ slot[k].id # f.id
    BY <1>3, <1>5, <1>7
  <2>2. \A m \in k + 1 .. n : slot[m].id # slot[k].id
    BY <1>3, <1>5, <2>1
  <2>3. slot[k] = newest[slot[k].id]
    BY <1>5, <2>1, <2>2 DEF LastNewest
  <2>4. QED
    BY <1>4, <1>5, <2>1, <2>3
<1>8. QED
  BY <1>6, <1>7

\* The last slot of an identifier is copied as it came, converted once; the copies of
\* identifiers that no later slot holds stay.
LEMMA CopyNewest ==
  ASSUME CanInv, CopySlot, NEW n \in Nat, at = n + 1, LastNewest(n + 1, SLOTS), Copied(n)
  PROVE  LastNewest(n + 2, SLOTS)' /\ Copied(n + 1)'
<1> DEFINE f == Anolog_Data_calculate(slot[at])
<1>1. at \in 1 .. SLOTS /\ SLOTS \in Nat
  BY CanLinkAssumption DEF CopySlot, CanInv, TypeOK, Type
<1>2. f.id = slot[at].id
  BY <1>1, FrameTypes DEF CanInv, TypeOK, Type
<1>3. slot' = [slot EXCEPT ![at] = f] /\ newest' = newest
      /\ out' = IF f.id \in Id THEN [out EXCEPT ![f.id] = f] ELSE out
  BY DEF CopySlot
<1>4. \A k \in 1 .. SLOTS : slot'[k].id = slot[k].id /\ (k # at => slot'[k] = slot[k])
  BY <1>1, <1>2, <1>3 DEF CanInv, TypeOK, Type
<1>5. LastNewest(n + 2, SLOTS)'
  <2>1. SUFFICES ASSUME NEW k \in n + 2 .. SLOTS, slot'[k].id \in Id,
                        \A m \in k + 1 .. SLOTS : slot'[m].id # slot'[k].id
                 PROVE  slot'[k] = newest'[slot'[k].id]
    BY DEF LastNewest
  <2>2. k \in n + 1 .. SLOTS /\ k \in 1 .. SLOTS /\ k # at /\ slot'[k] = slot[k]
    BY <1>1, <1>4
  <2>3. \A m \in k + 1 .. SLOTS : slot[m].id # slot[k].id
    BY <1>4, <2>1, <2>2
  <2>4. QED
    BY <1>3, <2>1, <2>2, <2>3 DEF LastNewest
<1>6. Copied(n + 1)'
  <2>1. SUFFICES ASSUME NEW i \in Id, Slots(n + 1, i)' # {},
                        \A m \in n + 2 .. SLOTS : slot'[m].id # i
                 PROVE  out'[i] = Anolog_Data_calculate(newest[i])
    BY <1>3 DEF Copied, Anolog_Data_calculate
  <2>2. \A m \in n + 2 .. SLOTS : slot[m].id # i
    BY <1>1, <1>4, <2>1
  <2>3. CASE slot[at].id = i
    <3>1. slot[at] = newest[i]
      BY <1>1, <2>2, <2>3 DEF LastNewest
    <3>2. out'[i] = f
      BY <1>2, <1>3, <2>3 DEF CanInv, TypeOK, Type
    <3>3. QED
      BY <3>1, <3>2
  <2>4. CASE slot[at].id # i
    <3>1. Slots(n, i) # {}
      BY <1>1, <1>4, <2>1, <2>4 DEF Slots
    <3>2. \A m \in n + 1 .. SLOTS : slot[m].id # i
      BY <1>1, <2>2, <2>4
    <3>3. out'[i] = out[i]
      BY <1>2, <1>3, <2>4 DEF CanInv, TypeOK, Type
    <3>4. QED
      BY <3>1, <3>2, <3>3 DEF Copied
  <2>5. QED
    BY <2>3, <2>4
<1>7. QED
  BY <1>5, <1>6

\* Every step keeps the invariant of the round.
LEMMA StepNewest == ASSUME CanInv, NewestInv, [Next]_vars PROVE NewestInv'
<1>1. CASE UNCHANGED vars \/ SelectTimeout \/ Send
  <2>1. UNCHANGED <<slot, pc, at, out, full, newest>>
    BY <1>1 DEF SelectTimeout, Send, vars, life
  <2>2. QED
    BY <2>1 DEF NewestInv, LastNewest, Copied, Slots, FullRoundNewest, Of, Anolog_Data_calculate
<1>2. CASE SelectReady \/ SelectFails
  <2>1. pc' = "read" /\ at' = 1
    BY <1>2 DEF SelectReady, SelectFails
  <2>2. QED
    BY <2>1 DEF NewestInv, LastNewest, FullRoundNewest
<1>3. CASE ReadBad \/ ReadTimeout
  BY <1>3 DEF ReadBad, ReadTimeout, NewestInv
<1>4. CASE ReadFrame
  <2>1. SUFFICES ASSUME full PROVE NewestInv'
    BY <1>4 DEF ReadFrame, NewestInv
  <2>2. pc = "read" /\ at \in 1 .. SLOTS /\ Advance(SLOTS, "judge") /\ LastNewest(1, at - 1)
    BY <1>4, <2>1, CanLinkAssumption DEF ReadFrame, CanInv, TypeOK, Type, NewestInv
  <2>3. PICK n \in Nat : at = n + 1
    BY <2>2
  <2>4. LastNewest(1, n + 1)'
    BY <1>4, <2>2, <2>3, ReadNewest
  <2>5. \/ pc' = "judge" /\ n + 1 = SLOTS
        \/ pc' = "read" /\ at' - 1 = n + 1
    BY <2>2, <2>3 DEF Advance
  <2>6. QED
    BY <2>4, <2>5 DEF NewestInv, LastNewest, FullRoundNewest
<1>5. CASE JudgeSlot
  <2>1. pc = "judge" /\ at \in 1 .. SLOTS /\ Advance(SLOTS, "copy")
        /\ UNCHANGED <<slot, newest, full>>
    BY <1>5, CanLinkAssumption DEF JudgeSlot, CanInv, TypeOK, Type
  <2>2. pc' = "judge" \/ (pc' = "copy" /\ at' = 1)
    BY <2>1 DEF Advance
  <2>3. full' => LastNewest(1, SLOTS)'
    BY <2>1 DEF NewestInv, LastNewest
  <2>4. at' = 1 => Copied(at - 1)' /\ (full' => LastNewest(at, SLOTS)')
    BY <2>3 DEF LastNewest, Copied, Slots
  <2>5. QED
    BY <2>2, <2>3, <2>4 DEF NewestInv, FullRoundNewest
<1>6. CASE CopySlot
  <2>1. SUFFICES ASSUME full PROVE NewestInv'
    BY <1>6 DEF CopySlot, NewestInv
  <2>2. pc = "copy" /\ at \in 1 .. SLOTS /\ Advance(SLOTS, "send")
    BY <1>6, CanLinkAssumption DEF CopySlot, CanInv, TypeOK, Type
  <2>3. PICK n \in Nat : at = n + 1
    BY <2>2
  <2>4. LastNewest(n + 1, SLOTS) /\ Copied(n)
    BY <2>1, <2>2, <2>3 DEF NewestInv
  <2>5. LastNewest(n + 2, SLOTS)' /\ Copied(n + 1)'
    BY <1>6, <2>3, <2>4, CopyNewest
  <2>6. CASE at = SLOTS
    <3>1. pc' = "send" /\ n + 1 = SLOTS
      BY <2>2, <2>3, <2>6 DEF Advance
    <3>2. FullRoundNewest'
      BY <2>5, <3>1 DEF Copied, Slots, FullRoundNewest, Of
    <3>3. QED
      BY <3>1, <3>2 DEF NewestInv
  <2>7. CASE at # SLOTS
    <3>1. pc' = "copy" /\ at' = n + 2 /\ at' - 1 = n + 1
      BY <2>2, <2>3, <2>7 DEF Advance
    <3>2. LastNewest(at, SLOTS)' /\ Copied(at - 1)'
      BY <2>5, <3>1 DEF LastNewest, Copied, Slots
    <3>3. QED
      BY <3>1, <3>2 DEF NewestInv, FullRoundNewest
  <2>8. QED
    BY <2>6, <2>7
<1>7. CASE SendOk \/ SendFails \/ SendGivesUp
  <2>1. pc = "send" /\ pc' \in {"send", "select"} /\ UNCHANGED <<slot, out, full, newest>>
    BY <1>7 DEF SendOk, SendFails, SendGivesUp, Advance
  <2>2. QED
    BY <2>1 DEF NewestInv, FullRoundNewest, Of, Anolog_Data_calculate
<1>8. QED
  BY <1>1, <1>2, <1>3, <1>4, <1>5, <1>6, <1>7 DEF Next, Thread

\* After a round without a failed or timed out read the block for the TMS570 holds, of
\* every identifier in it, the frame that came last, converted once, however the frames
\* were mixed (CAN_ReadData_Pro).
THEOREM CanFullRoundNewest == Spec => []FullRoundNewest
<1>1. Init => NewestInv
  BY DEF Init, NewestInv, FullRoundNewest
<1>2. NewestInv => FullRoundNewest
  BY DEF NewestInv, FullRoundNewest
<1>3. QED
  BY <1>1, <1>2, InitCan, StepCan, StepNewest, PTL DEF Spec
=============================================================================
