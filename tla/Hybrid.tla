------------------------------- MODULE Hybrid -------------------------------
(***************************************************************************)
(* RedundancyThreadFunc and what it calls of ecu.c: the fuel cell is asked *)
(* for by the driver, diagnosed, started, and its power controlled until a *)
(* fault is diagnosed.  Of the thread's calls ECU_Diagnose(DIAGNOSE_EV) is *)
(* never made, and EV_Shut_down, FCU_DCDC_Shut_down and Send_Data_binding  *)
(* are empty.                                                              *)
(*                                                                         *)
(* The code stands in REDUNDANCY_FUNCION and names members of              *)
(* ECU_ERROR_INFO as elements of arrays (commu_err[i], bms_err_level[2]):  *)
(* they are read here as the members of that number, from 0.  Local        *)
(* variables that are read without a value may have any.  Nothing else is  *)
(* read otherwise than it stands: the power control passes memcpy the      *)
(* value of a byte, 0, for an address (ecu.c:700-703).  That write to      *)
(* address 0 ends the process, or, where the address is mapped, leaves the *)
(* measures of the BMS, the DC-DC and the FCU at the zeroes of their       *)
(* buffer: no power limit is ever taken, and what is computed from them is *)
(* left out.  So are the fault bits for the display and the hydrogen left. *)
(***************************************************************************)
EXTENDS Naturals

CONSTANTS
  SENSORS,     \* hydrogen sensors: 11
  WARM,        \* 300: diagnoses before a level-1 concentration counts
  TRIES,       \* 4: diagnoses before the start is given up
  FILTER       \* 5: turns a level-3 report must last

ASSUME HybridAssumption ==
  /\ SENSORS \in Nat \ {0} /\ WARM \in Nat /\ TRIES \in Nat \ {0}
  /\ FILTER \in Nat \ {0}

Sensor == 1 .. SENSORS
Level == 1 .. 3

VARIABLES
  comm,        \* of commu_err: "mvb" is element 0, "can" any of 1 to 6
  pc,          \* next statement, or "ended" with the process
  site,        \* which call of ECU_Diagnose(DIAGNOSE_STANDBY) this is
  i,           \* failed diagnoses of this start
  flag,        \* diagnose_standby_flag, without a value at first
  bms_err_count, fcu_err_count,
  loop_diagnose_ret,
  h2, bms, fcu,  \* the levels set in h2_store_err_level, bms_err_level, fcu_err_level
  dcdc2,       \* dc_dc_err_level[1]
  count,       \* H2_Fault_Judge's count, up to WARM
  out,         \* the outputs on in Bram_Blvds_Write_Data.buffer[0]
  passed,      \* history: a standby diagnosis found no fault since the last shut-down,
               \*          or the flag has still no value of the code's
  reports,     \* history: turns in a row with a level-3 report, up to FILTER
  down         \* history: the power system has been shut down

levels == <<h2, bms, fcu, dcdc2, count>>
history == <<passed, reports, down>>
vars == <<comm, pc, site, i, flag, bms_err_count, fcu_err_count, loop_diagnose_ret,
          levels, out, history>>

Init ==
  /\ comm = {} /\ pc = "input" /\ site = "off" /\ i = 0
  /\ flag \in {0, 1}
  /\ bms_err_count = 0 /\ fcu_err_count = 0 /\ loop_diagnose_ret = FALSE
  /\ h2 = {} /\ bms = {} /\ fcu = {} /\ dcdc2 = FALSE /\ count = 0
  /\ out = {}
  /\ passed = TRUE /\ reports = 0 /\ down = FALSE

AtMost(n, bound) == IF n > bound THEN bound ELSE n
Largest(S) == CHOOSE b \in S : \A c \in S : c <= b
-----------------------------------------------------------------------------
(* Judging the faults.                                                     *)

\* The concentration band of a sensor, and whether it is looked at: level 1 only after
\* WARM diagnoses.
Counts(band) == band >= 2 \/ (band = 1 /\ count >= WARM)

\* Mutant of H2_Fault_Judge: the count is left out of the comparison of level 1.
H2LastBand(band, other) ==
  LET on == {s \in Sensor : band[s] > 0}
      err_con == IF on = {} THEN 0 ELSE band[Largest(on)]
  IN ({err_con} \cap {2, 3}) \cup other

\* H2_Fault_Judge: of the sensors the last one that counts is taken, not the worst; to
\* it come the temperatures and the high pressure (level 2) and the low pressure (3).
H2_Fault_Judge(band, other) ==
  LET on == {s \in Sensor : Counts(band[s])}
      err_con == IF on = {} THEN 0 ELSE band[Largest(on)]
  IN ({err_con} \cap {2, 3}) \cup other

\* What the readings of a diagnosis can come to.
H2Levels ==
  {H2_Fault_Judge(band, other) : band \in [Sensor -> 0 .. 3], other \in SUBSET {2, 3}}

\* Mutant of commuication_fault_judge: the first element only.
CommFirst == "mvb" \in comm

\* The loop begins at element 1 and so leaves the MVB out.
commuication_fault_judge == "can" \in comm

\* FCU_falut_judge: 0xff == 0x04 is 0, and so is every level.
FCU_falut_judge(frame) == {}

\* BMS_falut_judge: without level 1 it is level 2 that is cleared, and level 1 stays.
BMS_falut_judge(judged) ==
  (judged \ (IF 1 \in judged THEN {} ELSE {2})) \cup (bms \cap {1})

\* What BMS_falut_judge makes of a frame: bit 0 of the fault byte stands for every
\* level of both clusters' (& binds weaker than ==), and once the voltage or the charge
\* is out of its range, the judgements of the other ranges have no value.
BmsJudged(bit0, voltage, soc) ==
  LET sure == (IF bit0 THEN Level ELSE {}) \cup ({voltage, soc} \cap Level)
  IN {j \in SUBSET Level : sure \subseteq j /\ ({voltage, soc} = {0} => j = sure)}

BmsJudgements ==
  UNION {BmsJudged(bit0, voltage, soc) :
           bit0 \in BOOLEAN, voltage \in 0 .. 3, soc \in 0 .. 3}

\* DCDC_falut_judge: a judgement of 3, or a bit of the status, is level 3; the
\* judgement of the temperature never has a value.
DCDC_falut_judge(hard) == {r \in BOOLEAN : hard => r}

Frame3 == {{}, {3}}

\* The other threads' judgements of the channels.
CommChanges ==
  /\ pc # "ended"
  /\ comm' \in SUBSET {"mvb", "can"}
  /\ UNCHANGED <<pc, site, i, flag, bms_err_count, fcu_err_count, loop_diagnose_ret,
                 levels, out, history>>
-----------------------------------------------------------------------------
(* ECU_Diagnose(DIAGNOSE_STANDBY), called from three places.               *)

Standby(where) == pc' = "open" /\ site' = where

\* The whole word is assigned: every other output goes off for the 2.5 s that follow.
OpenValves ==
  /\ pc = "open"
  /\ out' = {"valves_on"}
  /\ pc' = "judge"
  /\ UNCHANGED <<comm, site, i, flag, bms_err_count, fcu_err_count, loop_diagnose_ret,
                 levels, history>>

\* The judgement: its error is told as 1, never as CODE_ERR.
Diagnosed ==
  /\ h2' \in H2Levels
  /\ count' = AtMost(count + 1, WARM)
  /\ out' = IF h2' # {} THEN {"valves_off"} ELSE out
  /\ UNCHANGED <<bms, fcu, dcdc2>>

\* Without the driver's request the result is not used.
JudgeOff ==
  /\ pc = "judge" /\ site = "off"
  /\ Diagnosed
  /\ pc' = "input"
  /\ UNCHANGED <<comm, site, i, flag, bms_err_count, fcu_err_count, loop_diagnose_ret,
                 history>>

\* The first diagnosis without a fault begins the EV mode.  After TRIES with one,
\* == CODE_ERR is not met: the flag keeps the value it had.
JudgeTry ==
  /\ pc = "judge" /\ site = "try"
  /\ Diagnosed
  /\ IF h2' = {} /\ ~commuication_fault_judge
       THEN /\ flag' = 1 /\ passed' = TRUE
            /\ pc' = "turn" /\ i' = 0
       ELSE /\ UNCHANGED <<flag, passed>>
            /\ i' = (i + 1) % TRIES
            /\ pc' = IF i + 1 < TRIES THEN "open" ELSE IF flag = 1 THEN "turn" ELSE "input"
  /\ UNCHANGED <<comm, site, bms_err_count, fcu_err_count, loop_diagnose_ret,
                 reports, down>>

\* At the end of a turn of the EV mode the result is not used either.
JudgeEnd ==
  /\ pc = "judge" /\ site = "end"
  /\ Diagnosed
  /\ pc' = "turn"
  /\ UNCHANGED <<comm, site, i, flag, bms_err_count, fcu_err_count, loop_diagnose_ret,
                 history>>
-----------------------------------------------------------------------------
(* RedundancyThreadFunc.                                                   *)

\* The driver's request, and no cut-out.
DriverInput ==
  /\ pc = "input"
  /\ \E where \in {"off", "try"} : Standby(where)
  /\ UNCHANGED <<comm, i, flag, bms_err_count, fcu_err_count, loop_diagnose_ret, levels,
                 out, history>>

\* Mutant of Turn: the count goes on where it was when a report has been interrupted.
TurnAddsUp ==
  /\ pc = "turn"
  /\ \E frame \in BOOLEAN :
       LET report == frame \/ 3 \in bms
       IN /\ reports' = IF report THEN AtMost(reports + 1, FILTER) ELSE 0
          /\ bms_err_count' = IF report THEN bms_err_count + 1 ELSE bms_err_count
          /\ IF report
               THEN /\ UNCHANGED <<fcu_err_count, out>>
                    /\ pc' = IF bms_err_count' >= FILTER THEN "shutdown" ELSE "end"
               ELSE /\ fcu_err_count' = IF 3 \in fcu THEN (fcu_err_count + 1) % FILTER ELSE 0
                    /\ out' = IF 3 \in fcu /\ fcu_err_count' = 0 THEN out \cup {"ch6"} ELSE out
                    /\ pc' = IF 3 \in fcu THEN "end" ELSE "start"
  /\ UNCHANGED <<comm, site, i, flag, loop_diagnose_ret, levels, passed, down>>

\* One turn of while(diagnose_standby_flag == 1): a BMS fault of level 3, told by the
\* frame, by the hard wire or by the judgement of before, then one of the FCU's, and
\* without either the start.
Turn ==
  /\ pc = "turn"
  /\ \E frame \in BOOLEAN :
       LET report == frame \/ 3 \in bms
       IN /\ reports' = IF report THEN AtMost(reports + 1, FILTER) ELSE 0
          /\ bms_err_count' = IF report THEN bms_err_count + 1 ELSE 0
          /\ IF report
               THEN /\ UNCHANGED <<fcu_err_count, out>>
                    /\ pc' = IF bms_err_count' >= FILTER THEN "shutdown" ELSE "end"
               ELSE /\ fcu_err_count' = IF 3 \in fcu THEN (fcu_err_count + 1) % FILTER ELSE 0
                    /\ out' = IF 3 \in fcu /\ fcu_err_count' = 0 THEN out \cup {"ch6"} ELSE out
                    /\ pc' = IF 3 \in fcu THEN "end" ELSE "start"
  /\ UNCHANGED <<comm, site, i, flag, loop_diagnose_ret, levels, passed, down>>

\* Mutant of ShutDown: the flag stays, and only the loop is left.
ShutDownKeepsFlag ==
  /\ pc = "shutdown"
  /\ bms_err_count' = 0 /\ bms' = bms \cup {3}
  /\ out' = out \cup {"ch7"}
  /\ pc' = "input" /\ down' = TRUE /\ passed' = FALSE
  /\ UNCHANGED <<comm, site, i, flag, fcu_err_count, loop_diagnose_ret, h2, fcu, dcdc2,
                 count, reports>>

\* Mutant of ShutDown: the fault is not put down in bms_err_level.
ShutDownForgets ==
  /\ pc = "shutdown"
  /\ bms_err_count' = 0
  /\ out' = out \cup {"ch7"}
  /\ flag' = 0 /\ pc' = "input" /\ down' = TRUE /\ passed' = FALSE
  /\ UNCHANGED <<comm, site, i, fcu_err_count, loop_diagnose_ret, levels, reports>>

ShutDown ==
  /\ pc = "shutdown"
  /\ bms_err_count' = 0 /\ bms' = bms \cup {3}
  /\ out' = out \cup {"ch7"}
  /\ flag' = 0 /\ pc' = "input" /\ down' = TRUE /\ passed' = FALSE
  /\ UNCHANGED <<comm, site, i, fcu_err_count, loop_diagnose_ret, h2, fcu, dcdc2, count,
                 reports>>

\* FCU_Start_Stage: without the request and the BMS's contactors, or with a fault of
\* level 3, the start is refused: CODE_ERR, which while(fcu_state_flag) takes for true.
FCU_Start_Stage ==
  /\ pc = "start"
  /\ \E allowed \in BOOLEAN, frame \in Frame3 :
       /\ fcu' = (fcu \ {3}) \cup frame
       /\ IF allowed /\ frame = {}
            THEN out' = {"ssc_enable"} /\ pc' = "wait"
            ELSE UNCHANGED out /\ pc' = "hybrid"
  /\ UNCHANGED <<comm, site, i, flag, bms_err_count, fcu_err_count, loop_diagnose_ret, h2,
                 bms, dcdc2, count, history>>

\* Its while(1), without a pause and without another way out: not even when the
\* request, the contactors or the FCU are lost.
WaitForRequest ==
  /\ pc = "wait"
  /\ \E asked \in BOOLEAN, frame \in Frame3 :
       /\ fcu' = (fcu \ {3}) \cup frame
       /\ IF asked /\ frame = {}
            THEN out' = {"valves_on"} /\ pc' = "valves"
            ELSE UNCHANGED <<out, pc>>
  /\ UNCHANGED <<comm, site, i, flag, bms_err_count, fcu_err_count, loop_diagnose_ret, h2,
                 bms, dcdc2, count, history>>

StartSignal ==
  /\ pc = "valves"
  /\ out' = {"ssc_enable", "start"}
  /\ pc' = "started"
  /\ UNCHANGED <<comm, site, i, flag, bms_err_count, fcu_err_count, loop_diagnose_ret,
                 levels, history>>

\* Mutant of Started: success is told as 1.
StartedTrue ==
  /\ pc = "started"
  /\ pc' = "hybrid"
  /\ UNCHANGED <<comm, site, i, flag, bms_err_count, fcu_err_count, loop_diagnose_ret,
                 levels, out, history>>

\* CODE_OK is 0: while(fcu_state_flag) is not entered.
Started ==
  /\ pc = "started"
  /\ pc' = "end"
  /\ UNCHANGED <<comm, site, i, flag, bms_err_count, fcu_err_count, loop_diagnose_ret,
                 levels, out, history>>

level2_err == 2 \in bms \cup h2 \cup fcu \/ dcdc2

\* With a fault of level 2 it does nothing.  Without one it copies to address 0, and if
\* that does not end the process, nothing of what it sets is read here.
Hybrid_Power_ctrl ==
  \/ pc' = "diagnose"
  \/ ~level2_err /\ pc' = "ended"

HybridControl ==
  /\ pc = "hybrid" /\ ~loop_diagnose_ret
  /\ Hybrid_Power_ctrl
  /\ UNCHANGED <<comm, site, i, flag, bms_err_count, fcu_err_count, loop_diagnose_ret,
                 levels, out, history>>

HybridLeave ==
  /\ pc = "hybrid" /\ loop_diagnose_ret
  /\ pc' = "end"
  /\ UNCHANGED <<comm, site, i, flag, bms_err_count, fcu_err_count, loop_diagnose_ret,
                 levels, out, history>>

\* The BMS's judgement is always CODE_OK, and the cooling system's returns nothing.
HybridError(h2Levels, fcuLevels, dcdc3, cooling) ==
  h2Levels # {} \/ cooling \/ 3 \in fcuLevels \/ dcdc3 \/ commuication_fault_judge

\* ECU_Diagnose(DIAGNOSE_HYBRID), 0.1 s later.  It does not touch the valves.
HybridDiagnose ==
  /\ pc = "diagnose"
  /\ h2' \in H2Levels
  /\ count' = AtMost(count + 1, WARM)
  /\ fcu' \in {FCU_falut_judge(frame) : frame \in Frame3}
  /\ bms' \in {BMS_falut_judge(judged) : judged \in BmsJudgements}
  /\ dcdc2' \in BOOLEAN
  /\ loop_diagnose_ret' \in
       {HybridError(h2', fcu', dcdc3, cooling) :
          dcdc3 \in UNION {DCDC_falut_judge(hard) : hard \in BOOLEAN}, cooling \in BOOLEAN}
  /\ pc' = "hybrid"
  /\ UNCHANGED <<comm, site, i, flag, bms_err_count, fcu_err_count, out, history>>

\* The end of a turn: after a fault of the hybrid mode no second diagnosis.
TurnEnd ==
  /\ pc = "end"
  /\ loop_diagnose_ret' = FALSE
  /\ IF loop_diagnose_ret THEN pc' = "turn" /\ UNCHANGED site ELSE Standby("end")
  /\ UNCHANGED <<comm, i, flag, bms_err_count, fcu_err_count, levels, out, history>>

RedundancyThreadFunc ==
  \/ OpenValves \/ JudgeOff \/ JudgeTry \/ JudgeEnd
  \/ DriverInput \/ Turn \/ ShutDown
  \/ FCU_Start_Stage \/ WaitForRequest \/ StartSignal \/ Started
  \/ HybridControl \/ HybridLeave \/ HybridDiagnose \/ TurnEnd

\* Nothing runs once the process has ended, and the outputs stay what they were.
Ended == pc = "ended" /\ UNCHANGED vars

Next == RedundancyThreadFunc \/ CommChanges \/ Ended

Spec == Init /\ [][Next]_vars

\* The thread sleeps for bounded times and waits for no other.
FairSpec == Spec /\ WF_vars(RedundancyThreadFunc)
-----------------------------------------------------------------------------
(* Properties.                                                             *)

\* Type invariant.
TypeOK ==
  /\ comm \subseteq {"mvb", "can"}
  /\ pc \in {"input", "open", "judge", "turn", "shutdown", "start", "wait", "valves",
             "started", "hybrid", "diagnose", "end", "ended"}
  /\ site \in {"off", "try", "end"} /\ i \in 0 .. TRIES - 1 /\ flag \in {0, 1}
  /\ bms_err_count \in 0 .. FILTER /\ fcu_err_count \in 0 .. FILTER - 1
  /\ loop_diagnose_ret \in BOOLEAN
  /\ h2 \subseteq {2, 3} /\ bms \subseteq Level /\ fcu \subseteq {3} /\ dcdc2 \in BOOLEAN
  /\ count \in 0 .. WARM
  /\ out \subseteq {"valves_on", "valves_off", "ssc_enable", "start", "ch6", "ch7"}
  /\ passed \in BOOLEAN /\ reports \in 0 .. FILTER /\ down \in BOOLEAN

\* The power system is shut down only after a level-3 report of the BMS in FILTER turns
\* in a row (main.c:1614): whatever the turns did between the reports, start, hybrid
\* control or diagnosis.
ShutDownFiltered == pc = "shutdown" => reports = FILTER

\* A shut-down is for good (main.c:1617): nothing clears the BMS's level 3 then, and
\* neither the start nor the hybrid control is reached again.
ShutDownFinal ==
  down => pc \notin {"start", "wait", "valves", "started", "hybrid", "diagnose", "ended"}

\* The EV mode is never begun on the strength of a diagnosis of before the last
\* shut-down (main.c:1604), though four failed ones leave the flag as it was: only the
\* flag's value before its first assignment may do that.
NoStaleEntry == pc = "turn" => passed

\* The power is controlled, and the process ended by that (ecu.c:700), only while the
\* start signal is off (main.c:1653): the result of FCU_Start_Stage is taken the wrong way
\* round, and a start that succeeded is undone by the diagnosis at the end of its own turn.
ControlUnstarted == pc \in {"hybrid", "diagnose", "ended"} => "start" \notin out

\* The output for an FCU fault of level 3 is never given (main.c:1638): the level is set
\* only where the start is refused, and HYBRID's judgement clears it (ecu.c:210).
FcuFaultNeverShown == "ch6" \notin out

\* The output for the shut-down lasts no longer than to the next diagnosis, which
\* follows without a pause and assigns the whole word (ecu.c:609, main.c:1619).
ShutDownBrief == "ch7" \in out => pc \in {"input", "open"}

\* No hydrogen sensor at level 2 or 3 is missed in the first WARM diagnoses; after them
\* one at level 1 hides those before it (ecu.c:118), and nothing else does.
LeakFound ==
  \A band \in [Sensor -> 0 .. 3] : \A s \in Sensor :
    band[s] >= 2 /\ H2_Fault_Judge(band, {}) = {} =>
      count >= WARM /\ \E t \in Sensor : t > s /\ band[t] = 1

\* A level-2 fault of the BMS holds the power control back only with one of level 1
\* (ecu.c:473).
Level2NeedsLevel1 == 2 \in bms => 1 \in bms

\* Liveness: a CAN channel that stays dead ends every stay in the hybrid mode
\* (main.c:1655), unless the thread waits for the FCU's request for ever.
DeadChannelEnds ==
  <>[]("can" \in comm) => <>[](pc = "wait") \/ []<>(pc \notin {"hybrid", "diagnose"})
=============================================================================
