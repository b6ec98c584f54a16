------------------------------ MODULE ReadLink ------------------------------
(***************************************************************************)
(* What BramReadWithChek promises its callers: a read that returns CODE_OK *)
(* delivers a well formed frame, whole, that was the last one published in *)
(* the channel at some moment of that call.  How often it tried, and what  *)
(* flags and counters it used, does not show.  BramRead implements this;   *)
(* BlvdsData is built on it.                                               *)
(***************************************************************************)
CONSTANTS
  Thread,   \* the threads that read, each from a channel of its own
  Frame,    \* well formed frames
  Content,  \* what a channel can hold: the frames and things that are none
  Blank     \* nothing: the content of a zeroed block

ASSUME ReadLinkAssumption == Frame \subseteq Content /\ Blank \in Content \ Frame

VARIABLES
  busy,     \* busy[t]: t is in a call
  chan,     \* chan[t]: the content published last in t's channel
  got,      \* got[t]: what t's call has taken from the channel, Blank before
  result    \* result[t]: what t's last call returned

linkVars == <<busy, chan, got, result>>

LinkInit ==
  /\ busy = [t \in Thread |-> FALSE]
  /\ chan = [t \in Thread |-> Blank]
  /\ got = [t \in Thread |-> Blank]
  /\ result = [t \in Thread |-> "none"]

\* A call starts with nothing taken: what the caller's buffer holds is nothing
\* it may return.
Call(t) ==
  /\ ~busy[t]
  /\ busy' = [busy EXCEPT ![t] = TRUE]
  /\ got' = [got EXCEPT ![t] = Blank]
  /\ result' = [result EXCEPT ![t] = "none"]
  /\ UNCHANGED chan

\* An attempt to read takes what is published at that moment.
Sample(t) ==
  /\ busy[t]
  /\ got' = [got EXCEPT ![t] = chan[t]]
  /\ UNCHANGED <<busy, chan, result>>

\* The call returns; CODE_OK only with a frame.
Return(t, r) ==
  /\ busy[t]
  /\ r = "ok" => got[t] \in Frame
  /\ busy' = [busy EXCEPT ![t] = FALSE]
  /\ result' = [result EXCEPT ![t] = r]
  /\ UNCHANGED <<chan, got>>

\* The FPGA completes a refresh of t's channel.
Publish(t) ==
  /\ \E c \in Content : chan' = [chan EXCEPT ![t] = c]
  /\ UNCHANGED <<busy, got, result>>

LinkNext ==
  \E t \in Thread :
    \/ Call(t) \/ Sample(t) \/ Publish(t)
    \/ \E r \in {"ok", "warn", "err"} : Return(t, r)

LinkSpec == LinkInit /\ [][LinkNext]_linkVars
=============================================================================
