---------------------------- MODULE MCBramWrite ----------------------------
(* Instances of BramWrite for TLC.                                         *)
EXTENDS BramWrite

CONSTANTS blvds, mvb, can0   \* the threads BlvdsThreadFunc, MVBThreadFunc, CAN0ThreadFunc

\* BlvdsThread writes channel 1 of flag byte 0x8000E014; MVB (channel 8) and
\* CAN0 (channels 9 to 11) both use the second byte at 0x8000E010.
MCFlagByteOf == [t \in Thread |-> IF t = blvds THEN 0 ELSE 1]
=============================================================================
