------------------------------ MODULE ErrWord ------------------------------
(***************************************************************************)
(* The error word g_ECUErrInfo_ST.ecu_app_err: sixteen one bit fields that *)
(* the threads set and clear without a lock, and that LEDPthreadFunc reads *)
(* to drive the error LED.                                                 *)
(*                                                                         *)
(* An assignment to a field loads the unit of storage the compiler chose   *)
(* for it (the byte, or the whole half word), changes one bit and stores   *)
(* the unit: the fields of other threads in it are written back as they    *)
(* were loaded.  A thread reports when its device does, so what a thread   *)
(* has to say is an input; when it may say it is the code's.               *)
(*                                                                         *)
(* This module and EventFile, whose error bits are fields of the word,     *)
(* have no name in common, so that EventFileProofs can extend both.        *)
(***************************************************************************)
EXTENDS Naturals

CONSTANTS
  Thread,   \* the threads that run, a subset of the owners below
  UnitOf    \* UnitOf[b]: the storage unit of field b

\* The fields of app_err that the default build assigns, and the thread that
\* does it.  bram_init_err is assigned by main before it creates the threads.
OwnerOf ==
  [bram_blvds_rd_err |-> "blvds", filesave_EVENT_err |-> "saver",
   filesave_BLVDS_err |-> "saver", bram_init_err |-> "boot", tcp_err |-> "realwave",
   modbus_err |-> "modbus", phy_link_err |-> "led", power_err |-> "main"]

Bit == DOMAIN OwnerOf

\* The byte of each field in the structure: bits 0 to 7, bits 8 to 15.
ByteOf ==
  [b \in Bit |-> IF b \in {"bram_blvds_rd_err", "filesave_EVENT_err", "filesave_BLVDS_err"}
                   THEN 0 ELSE 1]

\* All of them are in one half word, the declared type of the fields.
HalfWordOf == [b \in Bit |-> 0]

ASSUME ErrWordAssumption ==
  /\ Thread \subseteq {"blvds", "saver", "realwave", "modbus", "led", "main"}
  /\ UnitOf \in [Bit -> Nat]

VARIABLES
  word,   \* the fields that are 1
  pc,     \* pc[t]: "idle", "load" or "store" of an assignment, or "gone"
  bit,    \* bit[t]: the field t assigns
  val,    \* val[t]: the value it assigns
  reg,    \* reg[t]: the fields that were 1 in the unit t loaded
  s_errledflag,   \* the error LED is lit
  down,   \* the supply, as PowDownFun sees it when it has debounced the line
  told,   \* history: the value last assigned to each field by its owner
  over    \* history: another thread was between its load and its store of the
          \*          same unit when the owner of the field stored it last

errVars == <<word, pc, bit, val, reg, s_errledflag, down, told, over>>

ErrInit ==
  /\ word \in SUBSET {"bram_init_err", "filesave_EVENT_err", "filesave_BLVDS_err"}
  /\ pc = [t \in Thread |-> "idle"]
  /\ bit = [t \in Thread |-> "bram_init_err"]
  /\ val = [t \in Thread |-> FALSE]
  /\ reg = [t \in Thread |-> {}]
  /\ s_errledflag = FALSE
  /\ down \in BOOLEAN
  /\ told = [b \in Bit |-> b \in word]
  /\ over = [b \in Bit |-> FALSE]
-----------------------------------------------------------------------------
\* t starts the assignment b = v.
Assign(t, b, v) ==
  /\ pc[t] = "idle"
  /\ OwnerOf[b] = t
  /\ pc' = [pc EXCEPT ![t] = "load"]
  /\ bit' = [bit EXCEPT ![t] = b]
  /\ val' = [val EXCEPT ![t] = v]
  /\ UNCHANGED <<word, reg, s_errledflag, down, told, over>>

\* BLVDSDataReadFunc assigns its field in every turn of BlvdsThreadFunc, and
\* EventFileCreateByNum one field per file: either value.
ReportState(t) ==
  /\ t \in {"blvds", "saver"}
  /\ \E b \in Bit, v \in BOOLEAN : Assign(t, b, v)

\* RealWaveThreadFunc, ModbusThreadFunc and LEDPthreadFunc only report failures:
\* nothing clears their fields.
ReportFailure(t) ==
  /\ t \in {"realwave", "modbus", "led"}
  /\ \E b \in Bit : Assign(t, b, TRUE)

\* The supply fails or comes back; EventFile has the filter that tells.
SupplyChanges ==
  /\ "main" \in Thread
  /\ down' = ~down
  /\ UNCHANGED <<word, pc, bit, val, reg, s_errledflag, told, over>>

\* Mutant of PowerJudge: the decision is taken from a copy main keeps.
PowerJudgeLocal == told["power_err"] # down /\ Assign("main", "power_err", down)

\* PowDownFun has debounced the supply, and assigns power_err if the word does
\* not show it that way yet.
PowerJudge == ("power_err" \in word) # down /\ Assign("main", "power_err", down)

\* The load of the unit.
LoadUnit(t) ==
  /\ pc[t] = "load"
  /\ pc' = [pc EXCEPT ![t] = "store"]
  /\ reg' = [reg EXCEPT ![t] = {b \in word : UnitOf[b] = UnitOf[bit[t]]}]
  /\ UNCHANGED <<word, bit, val, s_errledflag, down, told, over>>

\* t is between its load and its store of unit u.
InWindow(t, u) == pc[t] = "store" /\ UnitOf[bit[t]] = u

\* A failure that ends the thread is its last report.
AfterStore(t) ==
  IF t = "modbus" THEN {"gone"} ELSE IF t = "realwave" THEN {"idle", "gone"} ELSE {"idle"}

\* Mutant of StoreUnit: the field is or-ed in, so it cannot be cleared.
StoreUnitOr(t) ==
  /\ pc[t] = "store"
  /\ \E label \in AfterStore(t) : pc' = [pc EXCEPT ![t] = label]
  /\ word' = {b \in word : UnitOf[b] # UnitOf[bit[t]]} \cup reg[t]
               \cup {b \in {bit[t]} : val[t]}
  /\ reg' = [reg EXCEPT ![t] = {}]
  /\ told' = [told EXCEPT ![bit[t]] = val[t]]
  /\ over' = [over EXCEPT ![bit[t]] =
                \E s \in Thread \ {t} : InWindow(s, UnitOf[bit[t]])]
  /\ UNCHANGED <<bit, val, s_errledflag, down>>

\* The store: the unit as it was loaded, but for the field.
StoreUnit(t) ==
  /\ pc[t] = "store"
  /\ \E label \in AfterStore(t) : pc' = [pc EXCEPT ![t] = label]
  /\ word' = {b \in word : UnitOf[b] # UnitOf[bit[t]]} \cup (reg[t] \ {bit[t]})
               \cup {b \in {bit[t]} : val[t]}
  /\ reg' = [reg EXCEPT ![t] = {}]
  /\ told' = [told EXCEPT ![bit[t]] = val[t]]
  /\ over' = [over EXCEPT ![bit[t]] =
                \E s \in Thread \ {t} : InWindow(s, UnitOf[bit[t]])]
  /\ UNCHANGED <<bit, val, s_errledflag, down>>

\* A turn of LEDPthreadFunc: both bytes are copied, and the LED is written if
\* that changes it.
LedTurn ==
  /\ "led" \in Thread
  /\ pc["led"] = "idle"
  /\ s_errledflag' = (word # {})
  /\ UNCHANGED <<word, pc, bit, val, reg, down, told, over>>

Turn(t) ==
  \/ ReportState(t) \/ ReportFailure(t) \/ LoadUnit(t) \/ StoreUnit(t)
  \/ t = "main" /\ PowerJudge
  \/ t = "led" /\ LedTurn

ErrNext == SupplyChanges \/ \E t \in Thread : Turn(t)

ErrSpec == ErrInit /\ [][ErrNext]_errVars

\* Each thread that has begun an assignment completes it, and main's loop never
\* stops judging the supply.
FairErrSpec ==
  /\ ErrSpec
  /\ \A t \in Thread : WF_errVars(LoadUnit(t)) /\ WF_errVars(StoreUnit(t))
  /\ "main" \in Thread => WF_errVars(PowerJudge)
-----------------------------------------------------------------------------
ErrTypeOK ==
  /\ word \subseteq Bit
  /\ pc \in [Thread -> {"idle", "load", "store", "gone"}]
  /\ bit \in [Thread -> Bit]
  /\ val \in [Thread -> BOOLEAN]
  /\ reg \in [Thread -> SUBSET Bit]
  /\ \A t \in Thread : \A b \in reg[t] : InWindow(t, UnitOf[b])
  /\ s_errledflag \in BOOLEAN /\ down \in BOOLEAN
  /\ told \in [Bit -> BOOLEAN]
  /\ over \in [Bit -> BOOLEAN]

\* A field shows what its owner last assigned, unless that store fell between
\* the load and the store of another thread in the same unit: a lost or
\* resurrected error has no other cause.
WordHonest == \A b \in Bit : ~over[b] => (b \in word <=> told[b])

\* WordHonest is inductive together with: a thread that is about to store a
\* unit holds the fields of others that nobody has assigned meanwhile.
RegHonest ==
  \A t \in Thread, b \in Bit :
    (InWindow(t, UnitOf[b]) /\ bit[t] # b /\ ~over[b]) => (b \in reg[t] <=> b \in word)

\* The error LED goes out only when no thread has an error standing
\* ("ECU APP NOT HAPPENED ERROR", main.c:1157).
LedOffHonest ==
  [][(s_errledflag /\ ~s_errledflag') => \A b \in Bit : ~told[b]]_errVars

\* The power error survives lost updates: PowDownFun looks at the shared word
\* before it assigns, so as long as the supply stays down (up) it sets (clears)
\* the field again, however often other threads write back an older one.
PowerHeals ==
  /\ <>[]down => []<>("power_err" \in word)
  /\ <>[]~down => []<>("power_err" \notin word)
=============================================================================
