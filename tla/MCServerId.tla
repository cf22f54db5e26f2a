---------------------------- MODULE MCServerId ----------------------------
(* Model-checking instance of ServerId: the rnd field scaled down to      *)
(* 3 bits (8 values, all 256 sets of taken IDs enumerated).  The probe    *)
(* loop only compares, increments and tests for 0, so its behaviour at   *)
(* the wrap is the same at 3, 8 and 16 bits.                             *)
EXTENDS ServerId

MCRndBits == 3
=============================================================================
