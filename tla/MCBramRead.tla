----------------------------- MODULE MCBramRead -----------------------------
(* Instances of BramRead for TLC.                                          *)
EXTENDS BramRead

CONSTANTS blvds, mvb   \* the threads BlvdsThreadFunc and MVBThreadFunc

\* BlvdsThread reads at flag word 0x4000E014, MVB at 0x4000E00C.
MCFlagByteOf == [t \in Thread |-> IF t = blvds THEN 0 ELSE 1]

\* States that differ only in the history variables are the same state: no guard
\* reads those, and what the run with two readers checks does not either.
MCView == <<code, num, rdFlag, fpga, outbuf>>
=============================================================================
