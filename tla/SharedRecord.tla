---------------------------- MODULE SharedRecord ----------------------------
(***************************************************************************)
(* What BramDatalock and RealDatalock are there for: a record is prepared  *)
(* by one thread and saved by FileSaveThreaFunc in two halves, either of   *)
(* which may be lost, and yet nothing is published while a save goes on,   *)
(* and what a save writes is of the record that was published last.  Which *)
(* lock gives that, and how a record is put together, does not show.       *)
(* Gateway implements this with BramDatalock, BlvdsData with RealDatalock. *)
(***************************************************************************)
CONSTANTS
  Record,   \* what can be published
  Missing   \* a half that is not written: none of them

VARIABLES
  current,  \* the record published last
  saving,   \* a save is going on
  halves    \* what it has written

sharedVars == <<current, saving, halves>>

Nothing == <<Missing, Missing>>

SharedInit ==
  /\ current \in Record
  /\ saving = FALSE
  /\ halves = Nothing

Publish ==
  /\ ~saving
  /\ current' \in Record
  /\ UNCHANGED <<saving, halves>>

BeginSave ==
  /\ ~saving
  /\ saving' = TRUE
  /\ UNCHANGED <<current, halves>>

\* A half is written once, as it is published; a half that is lost is no step.
SaveHalf(i) ==
  /\ saving
  /\ halves[i] = Missing
  /\ halves' = [halves EXCEPT ![i] = current]
  /\ UNCHANGED <<current, saving>>

EndSave ==
  /\ saving
  /\ saving' = FALSE
  /\ halves' = Nothing
  /\ UNCHANGED current

SharedNext == Publish \/ BeginSave \/ (\E i \in {1, 2} : SaveHalf(i)) \/ EndSave

SharedSpec == SharedInit /\ [][SharedNext]_sharedVars
=============================================================================
