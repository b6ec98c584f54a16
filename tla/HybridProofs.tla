---------------------------- MODULE HybridProofs ----------------------------
(* Proofs about Hybrid, for every number of sensors and every limit.       *)
EXTENDS Hybrid, WellFoundedInduction, TLAPS

\* The count of the level-3 reports is at its limit only while it is acted upon, and never
\* ahead of the turns that reported.
FilterInv ==
  /\ pc # "shutdown" => bms_err_count < FILTER
  /\ pc = "shutdown" => bms_err_count = FILTER
  /\ bms_err_count <= reports

\* The statements of the EV mode, the diagnosis at the end of its turn included.
InEvMode ==
  \/ pc \notin {"input", "open", "judge"}
  \/ pc # "input" /\ site = "end"

\* The EV mode is entered and kept by the flag, which no diagnosis of before the last
\* shut-down has set.
EntryInv ==
  /\ InEvMode => flag = 1
  /\ flag = 1 => passed

\* After a shut-down the BMS's level 3 stands, and with it no turn reaches the statements
\* that could clear it.
DownInv == down => 3 \in bms /\ ShutDownFinal

\* The start signal is on only from the start to the diagnosis at the end of its turn; a
\* fault of the hybrid mode, which skips that diagnosis, is found only without it.
StartInv ==
  /\ loop_diagnose_ret => pc \in {"hybrid", "end"}
  /\ "start" \in out => pc \in {"started", "end", "open"} /\ ~loop_diagnose_ret

\* An FCU fault of level 3 is gone before the next turn looks at it, if there is one.
FcuInv ==
  /\ loop_diagnose_ret => pc \in {"hybrid", "end"}
  /\ 3 \in fcu => pc \in {"wait", "hybrid", "diagnose", "ended"} /\ ~loop_diagnose_ret
  /\ FcuFaultNeverShown
-----------------------------------------------------------------------------
\* What a diagnosis can find of hydrogen is of level 2 or 3.
LEMMA H2LevelsAre == H2Levels \subseteq SUBSET {2, 3}
<1> SUFFICES ASSUME NEW levelsFound \in H2Levels PROVE levelsFound \subseteq {2, 3}
  OBVIOUS
<1>1. PICK band \in [Sensor -> 0 .. 3], other \in SUBSET {2, 3} :
        levelsFound = H2_Fault_Judge(band, other)
  BY DEF H2Levels
<1>2. QED
  BY <1>1 DEF H2_Fault_Judge

\* The judgement of the BMS never sets level 2 without level 1 (ecu.c:473), and its levels
\* stay levels.
LEMMA BmsJudgementsAre ==
  ASSUME bms \subseteq Level, NEW judged \in BmsJudgements
  PROVE  /\ BMS_falut_judge(judged) \subseteq Level
         /\ 2 \in BMS_falut_judge(judged) => 1 \in BMS_falut_judge(judged)
<1>1. judged \subseteq {1, 2, 3} /\ bms \subseteq {1, 2, 3}
  BY DEF BmsJudgements, BmsJudged, Level
<1>2. BMS_falut_judge(judged) \subseteq {1, 2, 3}
  BY <1>1 DEF BMS_falut_judge
<1>3. 2 \in BMS_falut_judge(judged) => 1 \in BMS_falut_judge(judged)
  BY <1>1 DEF BMS_falut_judge
<1>4. QED
  BY <1>2, <1>3 DEF Level
-----------------------------------------------------------------------------
\* The types, and with them the count of the reports: only what is acted upon at the
\* limit keeps it within its range.
LEMMA TypesAndFilter == Spec => [](TypeOK /\ FilterInv)
<1>1. Init => TypeOK /\ FilterInv
  <2> SUFFICES ASSUME Init PROVE TypeOK /\ FilterInv
    OBVIOUS
  <2>1. FilterInv
    BY HybridAssumption DEF Init, FilterInv
  <2>2. /\ i \in 0 .. TRIES - 1 /\ bms_err_count \in 0 .. FILTER
        /\ fcu_err_count \in 0 .. FILTER - 1 /\ count \in 0 .. WARM /\ reports \in 0 .. FILTER
    BY HybridAssumption DEF Init
  <2>3. QED
    BY <2>1, <2>2 DEF Init, TypeOK
<1>2. TypeOK /\ FilterInv /\ [Next]_vars => TypeOK' /\ FilterInv'
  <2> SUFFICES ASSUME TypeOK, FilterInv, [Next]_vars PROVE TypeOK' /\ FilterInv'
    OBVIOUS
  <2> USE DEF levels, history
  <2>t. /\ TRIES \in Nat \ {0} /\ FILTER \in Nat \ {0} /\ WARM \in Nat
        /\ reports \in 0 .. FILTER /\ bms_err_count \in 0 .. FILTER
        /\ fcu_err_count \in 0 .. FILTER - 1 /\ count \in 0 .. WARM /\ i \in 0 .. TRIES - 1
    BY HybridAssumption DEF TypeOK
  <2>1. CASE OpenValves
    BY <2>1 DEF OpenValves, TypeOK, FilterInv
  <2>2. CASE JudgeOff \/ JudgeEnd \/ JudgeTry
    <3>1. Diagnosed
      BY <2>2 DEF JudgeOff, JudgeEnd, JudgeTry
    <3>2. /\ h2' \subseteq {2, 3} /\ count' \in 0 .. WARM
          /\ out' \subseteq {"valves_on", "valves_off", "ssc_enable", "start", "ch6", "ch7"}
          /\ UNCHANGED <<bms, fcu, dcdc2>>
      BY <3>1, <2>t, H2LevelsAre DEF Diagnosed, AtMost, TypeOK
    <3>3. CASE JudgeOff
      BY <3>2, <3>3 DEF JudgeOff, TypeOK, FilterInv
    <3>4. CASE JudgeEnd
      BY <3>2, <3>4 DEF JudgeEnd, TypeOK, FilterInv
    <3>5. CASE JudgeTry
      <4>1. /\ flag' \in {0, 1} /\ passed' \in BOOLEAN /\ pc' \in {"turn", "open", "input"}
        BY <3>5 DEF JudgeTry, TypeOK
      <4>2. i' \in 0 .. TRIES - 1
        BY <3>5, <2>t DEF JudgeTry
      <4>3. QED
        BY <3>2, <3>5, <4>1, <4>2 DEF JudgeTry, TypeOK, FilterInv
    <3>6. QED
      BY <2>2, <3>3, <3>4, <3>5
  <2>3. CASE DriverInput
    BY <2>3 DEF DriverInput, Standby, TypeOK, FilterInv
  <2>4. CASE Turn
    <3>1. PICK frame \in BOOLEAN :
            LET report == frame \/ 3 \in bms
            IN /\ reports' = IF report THEN AtMost(reports + 1, FILTER) ELSE 0
               /\ bms_err_count' = IF report THEN bms_err_count + 1 ELSE 0
               /\ IF report
                    THEN /\ UNCHANGED <<fcu_err_count, out>>
                         /\ pc' = IF bms_err_count' >= FILTER THEN "shutdown" ELSE "end"
                    ELSE /\ fcu_err_count' = IF 3 \in fcu THEN (fcu_err_count + 1) % FILTER ELSE 0
                         /\ out' = IF 3 \in fcu /\ fcu_err_count' = 0 THEN out \cup {"ch6"} ELSE out
                         /\ pc' = IF 3 \in fcu THEN "end" ELSE "start"
      BY <2>4 DEF Turn
    <3>2. bms_err_count < FILTER /\ bms_err_count <= reports
      BY <2>4 DEF Turn, FilterInv
    <3>3. reports' \in 0 .. FILTER /\ bms_err_count' \in 0 .. FILTER /\ bms_err_count' <= reports'
      BY <3>1, <3>2, <2>t DEF AtMost
    <3>4. fcu_err_count' \in 0 .. FILTER - 1
      BY <3>1, <2>t
    <3>5. /\ pc' \in {"shutdown", "end", "start"}
          /\ pc' = "shutdown" <=> bms_err_count' = FILTER
      BY <3>1, <3>2, <2>t
    <3>6. out' \subseteq out \cup {"ch6"}
      BY <3>1
    <3>7. FilterInv'
      BY <3>3, <3>5, <2>t DEF FilterInv
    <3>8. TypeOK'
      BY <2>4, <3>3, <3>4, <3>5, <3>6 DEF Turn, TypeOK
    <3>9. QED
      BY <3>7, <3>8
  <2>5. CASE ShutDown
    <3>1. bms' \subseteq Level /\ 0 \in 0 .. FILTER
      BY <2>5, <2>t DEF ShutDown, TypeOK, Level
    <3>2. FilterInv'
      BY <2>5, <2>t DEF ShutDown, FilterInv
    <3>3. QED
      BY <2>5, <3>1, <3>2 DEF ShutDown, TypeOK
  <2>6. CASE FCU_Start_Stage
    BY <2>6 DEF FCU_Start_Stage, Frame3, TypeOK, FilterInv
  <2>7. CASE WaitForRequest
    BY <2>7 DEF WaitForRequest, Frame3, TypeOK, FilterInv
  <2>8. CASE StartSignal \/ Started \/ HybridLeave
    BY <2>8 DEF StartSignal, Started, HybridLeave, TypeOK, FilterInv
  <2>9. CASE HybridControl
    BY <2>9 DEF HybridControl, Hybrid_Power_ctrl, TypeOK, FilterInv
  <2>10. CASE HybridDiagnose
    <3>1. h2' \subseteq {2, 3} /\ count' \in 0 .. WARM
      BY <2>10, <2>t, H2LevelsAre DEF HybridDiagnose, AtMost
    <3>2. bms' \subseteq Level
      BY <2>10, BmsJudgementsAre DEF HybridDiagnose, TypeOK
    <3>3. fcu' = {}
      BY <2>10 DEF HybridDiagnose, FCU_falut_judge
    <3>4. loop_diagnose_ret' \in BOOLEAN
      <4>1. \A dcdc3, cooling : HybridError(h2', fcu', dcdc3, cooling) \in BOOLEAN
        BY Zenon DEF HybridError
      <4>2. QED
        BY <2>10, <4>1 DEF HybridDiagnose
    <3>5. QED
      BY <2>10, <3>1, <3>2, <3>3, <3>4 DEF HybridDiagnose, TypeOK, FilterInv
  <2>11. CASE TurnEnd
    BY <2>11 DEF TurnEnd, Standby, TypeOK, FilterInv
  <2>12. CASE CommChanges
    BY <2>12 DEF CommChanges, TypeOK, FilterInv
  <2>13. CASE Ended \/ UNCHANGED vars
    BY <2>13 DEF Ended, vars, TypeOK, FilterInv
  <2>14. QED
    BY <2>1, <2>2, <2>3, <2>4, <2>5, <2>6, <2>7, <2>8, <2>9, <2>10, <2>11, <2>12, <2>13
    DEF Next, RedundancyThreadFunc
<1>3. QED
  BY <1>1, <1>2, PTL DEF Spec

\* Every variable keeps its type: the counters of the reports and of the diagnoses never
\* pass their limits.
THEOREM HybridTypeOK == Spec => []TypeOK
  BY TypesAndFilter, PTL

\* The power system is shut down only after FILTER turns in a row with a level-3 report of
\* the BMS (main.c:1614): the count lags behind the turns and is begun again with every
\* turn without one, whatever the turns do in between.
THEOREM HybridShutDownFiltered == Spec => []ShutDownFiltered
<1>1. TypeOK /\ FilterInv => ShutDownFiltered
  BY HybridAssumption DEF TypeOK, FilterInv, ShutDownFiltered
<1>2. QED
  BY <1>1, TypesAndFilter, PTL

\* The EV mode is never begun on the strength of a diagnosis of before the last shut-down
\* (main.c:1604): the flag that lets it go on is set only with a diagnosis that passed,
\* and the shut-down clears both.
THEOREM HybridNoStaleEntry == Spec => []NoStaleEntry
<1>1. Init => EntryInv
  BY DEF Init, EntryInv, InEvMode
<1>2. TypeOK /\ EntryInv /\ [Next]_vars => EntryInv'
  <2> SUFFICES ASSUME TypeOK, EntryInv, [Next]_vars PROVE EntryInv'
    OBVIOUS
  <2> USE DEF EntryInv, InEvMode, history, levels
  <2>1. CASE OpenValves \/ JudgeOff \/ JudgeEnd \/ DriverInput \/ TurnEnd
    BY <2>1 DEF OpenValves, JudgeOff, JudgeEnd, DriverInput, TurnEnd, Standby
  <2>2. CASE JudgeTry
    BY <2>2 DEF JudgeTry
  <2>3. CASE ShutDown
    BY <2>3 DEF ShutDown
  <2>4. CASE /\ pc \notin {"input", "open", "judge"} /\ pc' \notin {"input", "open", "judge"}
             /\ UNCHANGED <<flag, passed>>
    BY <2>4
  <2>5. CASE UNCHANGED <<pc, site, flag, passed>>
    BY <2>5
  <2>6. ASSUME \/ Turn \/ FCU_Start_Stage \/ WaitForRequest \/ StartSignal \/ Started
               \/ HybridControl \/ HybridLeave \/ HybridDiagnose
        PROVE  /\ pc \notin {"input", "open", "judge"} /\ pc' \notin {"input", "open", "judge"}
               /\ UNCHANGED <<flag, passed>>
    BY <2>6 DEF Turn, FCU_Start_Stage, WaitForRequest, StartSignal, Started, HybridControl,
                Hybrid_Power_ctrl, HybridLeave, HybridDiagnose
  <2>7. CommChanges \/ Ended \/ UNCHANGED vars => UNCHANGED <<pc, site, flag, passed>>
    BY DEF CommChanges, Ended, vars
  <2>8. QED
    BY <2>1, <2>2, <2>3, <2>4, <2>5, <2>6, <2>7 DEF Next, RedundancyThreadFunc
<1>3. EntryInv => NoStaleEntry
  BY DEF EntryInv, InEvMode, NoStaleEntry
<1>4. QED
  BY <1>1, <1>2, <1>3, HybridTypeOK, PTL DEF Spec

\* A shut-down is for good (main.c:1617): the level 3 it leaves in bms_err_level keeps
\* every later turn from the start, and only the hybrid control's diagnosis, which is not
\* reached, could clear it.
THEOREM HybridShutDownFinal == Spec => []ShutDownFinal
<1>1. Init => DownInv
  BY DEF Init, DownInv, ShutDownFinal
<1>2. DownInv /\ [Next]_vars => DownInv'
  <2> SUFFICES ASSUME DownInv, [Next]_vars PROVE DownInv'
    OBVIOUS
  <2> USE DEF DownInv, ShutDownFinal, history, levels
  <2>1. CASE OpenValves \/ DriverInput \/ TurnEnd \/ CommChanges
    BY <2>1 DEF OpenValves, DriverInput, TurnEnd, Standby, CommChanges
  <2>2. CASE JudgeOff \/ JudgeEnd \/ JudgeTry
    BY <2>2 DEF JudgeOff, JudgeEnd, JudgeTry, Diagnosed
  <2>3. CASE Turn
    BY <2>3 DEF Turn
  <2>4. CASE ShutDown
    BY <2>4 DEF ShutDown
  <2>5. CASE \/ FCU_Start_Stage \/ WaitForRequest \/ StartSignal \/ Started
             \/ HybridControl \/ HybridLeave \/ HybridDiagnose
    <3>1. pc \in {"start", "wait", "valves", "started", "hybrid", "diagnose"} /\ down' = down
      BY <2>5 DEF FCU_Start_Stage, WaitForRequest, StartSignal, Started, HybridControl,
                  HybridLeave, HybridDiagnose
    <3>2. QED
      BY <3>1
  <2>6. CASE Ended \/ UNCHANGED vars
    BY <2>6 DEF Ended, vars
  <2>7. QED
    BY <2>1, <2>2, <2>3, <2>4, <2>5, <2>6 DEF Next, RedundancyThreadFunc
<1>3. DownInv => ShutDownFinal
  BY DEF DownInv, ShutDownFinal
<1>4. QED
  BY <1>1, <1>2, <1>3, PTL DEF Spec

\* The power is controlled, and the process ended by that (ecu.c:700), only while the start
\* signal is off (main.c:1653): success is told as CODE_OK, which while(fcu_state_flag) takes for false, and the diagnosis at the
\* end of that turn switches the signal off before the next start.
THEOREM HybridControlUnstarted == Spec => []ControlUnstarted
<1>1. Init => StartInv
  BY DEF Init, StartInv
<1>2. TypeOK /\ StartInv /\ [Next]_vars => StartInv'
  <2> SUFFICES ASSUME TypeOK, StartInv, [Next]_vars PROVE StartInv'
    OBVIOUS
  <2> USE DEF StartInv, history, levels
  <2>1. CASE OpenValves \/ DriverInput \/ TurnEnd
    BY <2>1 DEF OpenValves, DriverInput, TurnEnd, Standby
  <2>2. CASE JudgeOff \/ JudgeEnd \/ JudgeTry
    BY <2>2 DEF JudgeOff, JudgeEnd, JudgeTry, Diagnosed
  <2>3. CASE Turn
    BY <2>3 DEF Turn
  <2>4. CASE ShutDown
    BY <2>4 DEF ShutDown
  <2>5. CASE FCU_Start_Stage \/ WaitForRequest
    BY <2>5 DEF FCU_Start_Stage, WaitForRequest
  <2>6. CASE StartSignal \/ Started
    BY <2>6 DEF StartSignal, Started
  <2>7. CASE HybridControl \/ HybridLeave
    BY <2>7 DEF HybridControl, Hybrid_Power_ctrl, HybridLeave
  <2>8. CASE HybridDiagnose
    BY <2>8 DEF HybridDiagnose
  <2>9. CASE CommChanges \/ Ended \/ UNCHANGED vars
    BY <2>9 DEF CommChanges, Ended, vars
  <2>10. QED
    BY <2>1, <2>2, <2>3, <2>4, <2>5, <2>6, <2>7, <2>8, <2>9 DEF Next, RedundancyThreadFunc
<1>3. StartInv => ControlUnstarted
  BY DEF StartInv, ControlUnstarted
<1>4. QED
  BY <1>1, <1>2, <1>3, HybridTypeOK, PTL DEF Spec

\* The output for an FCU fault of level 3 is never given (main.c:1638): the level is set
\* only where the start is refused or waits, and the hybrid control that follows a refusal
\* clears it before the next turn looks at it (ecu.c:210).
THEOREM HybridFcuFaultNeverShown == Spec => []FcuFaultNeverShown
<1>1. Init => FcuInv
  BY DEF Init, FcuInv, FcuFaultNeverShown
<1>2. FcuInv /\ [Next]_vars => FcuInv'
  <2> SUFFICES ASSUME FcuInv, [Next]_vars PROVE FcuInv'
    OBVIOUS
  <2> USE DEF FcuInv, FcuFaultNeverShown, history, levels
  <2>1. CASE OpenValves \/ DriverInput \/ TurnEnd
    BY <2>1 DEF OpenValves, DriverInput, TurnEnd, Standby
  <2>2. CASE JudgeOff \/ JudgeEnd \/ JudgeTry
    BY <2>2 DEF JudgeOff, JudgeEnd, JudgeTry, Diagnosed
  <2>3. CASE Turn
    BY <2>3 DEF Turn
  <2>4. CASE ShutDown
    BY <2>4 DEF ShutDown
  <2>5. CASE FCU_Start_Stage \/ WaitForRequest
    BY <2>5 DEF FCU_Start_Stage, WaitForRequest
  <2>6. CASE StartSignal \/ Started
    BY <2>6 DEF StartSignal, Started
  <2>7. CASE HybridControl \/ HybridLeave
    BY <2>7 DEF HybridControl, Hybrid_Power_ctrl, HybridLeave
  <2>8. CASE HybridDiagnose
    BY <2>8 DEF HybridDiagnose, FCU_falut_judge
  <2>9. CASE CommChanges \/ Ended \/ UNCHANGED vars
    BY <2>9 DEF CommChanges, Ended, vars
  <2>10. QED
    BY <2>1, <2>2, <2>3, <2>4, <2>5, <2>6, <2>7, <2>8, <2>9 DEF Next, RedundancyThreadFunc
<1>3. FcuInv => FcuFaultNeverShown
  BY DEF FcuInv
<1>4. QED
  BY <1>1, <1>2, <1>3, PTL DEF Spec

\* The output for the shut-down does not outlast the next diagnosis (ecu.c:609,
\* main.c:1619): the thread goes back to the driver's input, and whatever it finds there
\* opens the valves by assigning the whole word.
THEOREM HybridShutDownBrief == Spec => []ShutDownBrief
<1>1. Init => ShutDownBrief
  BY DEF Init, ShutDownBrief
<1>2. ShutDownBrief /\ [Next]_vars => ShutDownBrief'
  <2> SUFFICES ASSUME ShutDownBrief, [Next]_vars PROVE ShutDownBrief'
    OBVIOUS
  <2> USE DEF ShutDownBrief, history, levels
  <2>1. CASE OpenValves \/ DriverInput \/ TurnEnd
    BY <2>1 DEF OpenValves, DriverInput, TurnEnd, Standby
  <2>2. CASE JudgeOff \/ JudgeEnd \/ JudgeTry
    BY <2>2 DEF JudgeOff, JudgeEnd, JudgeTry, Diagnosed
  <2>3. CASE Turn \/ ShutDown
    BY <2>3 DEF Turn, ShutDown
  <2>4. CASE FCU_Start_Stage \/ WaitForRequest \/ StartSignal \/ Started
    BY <2>4 DEF FCU_Start_Stage, WaitForRequest, StartSignal, Started
  <2>5. CASE HybridControl \/ HybridLeave \/ HybridDiagnose
    BY <2>5 DEF HybridControl, Hybrid_Power_ctrl, HybridLeave, HybridDiagnose
  <2>6. CASE CommChanges \/ Ended \/ UNCHANGED vars
    BY <2>6 DEF CommChanges, Ended, vars
  <2>7. QED
    BY <2>1, <2>2, <2>3, <2>4, <2>5, <2>6 DEF Next, RedundancyThreadFunc
<1>3. QED
  BY <1>1, <1>2, PTL DEF Spec

\* A level-2 fault of the BMS holds the power control back only with one of level 1: the
\* judgement clears the wrong level (ecu.c:473), and nothing else sets either.
THEOREM HybridLevel2NeedsLevel1 == Spec => []Level2NeedsLevel1
<1>1. Init => Level2NeedsLevel1
  BY DEF Init, Level2NeedsLevel1
<1>2. TypeOK /\ Level2NeedsLevel1 /\ [Next]_vars => Level2NeedsLevel1'
  <2> SUFFICES ASSUME TypeOK, Level2NeedsLevel1, [Next]_vars PROVE Level2NeedsLevel1'
    OBVIOUS
  <2>1. CASE UNCHANGED bms
    BY <2>1 DEF Level2NeedsLevel1
  <2>2. CASE ShutDown
    BY <2>2 DEF ShutDown, Level2NeedsLevel1
  <2>3. CASE HybridDiagnose
    <3>1. PICK judged \in BmsJudgements : bms' = BMS_falut_judge(judged)
      BY <2>3 DEF HybridDiagnose
    <3>2. QED
      BY <3>1, BmsJudgementsAre DEF TypeOK, Level2NeedsLevel1
  <2>4. UNCHANGED bms \/ ShutDown \/ HybridDiagnose
    BY DEF Next, RedundancyThreadFunc, OpenValves, JudgeOff, JudgeTry, JudgeEnd, Diagnosed,
           DriverInput, Turn, FCU_Start_Stage, WaitForRequest, StartSignal, Started,
           HybridControl, HybridLeave, TurnEnd, CommChanges, Ended, levels, vars
  <2>5. QED
    BY <2>1, <2>2, <2>3, <2>4
<1>3. QED
  BY <1>1, <1>2, HybridTypeOK, PTL DEF Spec
-----------------------------------------------------------------------------
\* The largest sensor of a nonempty set is one of them: the order of the sensors turned
\* round is well founded.
LEMMA LargestSensor ==
  ASSUME NEW S \in SUBSET Sensor, S # {}
  PROVE  Largest(S) \in S /\ \A c \in S : c <= Largest(S)
<1> DEFINE T == {SENSORS - s : s \in S}
<1>0. SENSORS \in Nat /\ \A s \in S : s \in 1 .. SENSORS
  BY HybridAssumption DEF Sensor
<1>1. T \in SUBSET Nat /\ T # {}
  <2>1. PICK s \in S : TRUE
    OBVIOUS
  <2>2. SENSORS - s \in T
    BY <2>1
  <2>3. \A r \in S : SENSORS - r \in Nat
    BY <1>0
  <2>4. QED
    BY <2>2, <2>3
<1>2. PICK x \in T : \A y \in T : ~(<<y, x>> \in OpToRel(<, Nat))
  BY <1>1, NatLessThanWellFounded, WFMin, Zenon
<1>3. PICK b \in S : x = SENSORS - b
  BY <1>2
<1>4. \A c \in S : c <= b
  <2> SUFFICES ASSUME NEW c \in S PROVE c <= b
    OBVIOUS
  <2>1. SENSORS - c \in Nat /\ SENSORS - b \in Nat /\ SENSORS - c \in T
    BY <1>0
  <2>2. ~(SENSORS - c < SENSORS - b)
    BY <1>2, <1>3, <2>1 DEF OpToRel
  <2>3. QED
    BY <1>0, <2>2
<1>5. QED
  BY <1>4 DEF Largest

\* A hydrogen leak of level 2 or 3 is missed only after WARM diagnoses, and then only
\* behind a sensor at level 1 (ecu.c:118): the loop keeps the last sensor that counts, not
\* the worst.
THEOREM HybridLeakFound == Spec => []LeakFound
<1>1. TypeOK => LeakFound
  <2> SUFFICES ASSUME TypeOK, NEW band \in [Sensor -> 0 .. 3], NEW s \in Sensor,
                      band[s] >= 2, H2_Fault_Judge(band, {}) = {}
               PROVE  count >= WARM /\ \E t \in Sensor : t > s /\ band[t] = 1
    BY DEF LeakFound
  <2> DEFINE on == {r \in Sensor : Counts(band[r])}
             t == Largest(on)
  <2>1. on \in SUBSET Sensor /\ s \in on
    BY DEF Counts
  <2>2. t \in on /\ s <= t
    BY <2>1, LargestSensor
  <2>3. band[t] \notin {2, 3}
    BY <2>1 DEF H2_Fault_Judge
  <2> HIDE DEF t
  <2>4. t \in Sensor /\ Counts(band[t])
    BY <2>2
  <2>5. band[t] = 1 /\ count >= WARM
    BY <2>3, <2>4 DEF Counts
  <2>6. t # s
    BY <2>5
  <2>7. t > s
    BY <2>2, <2>4, <2>6 DEF Sensor
  <2>8. QED
    BY <2>4, <2>5, <2>7
<1>2. QED
  BY <1>1, HybridTypeOK, PTL
=============================================================================
