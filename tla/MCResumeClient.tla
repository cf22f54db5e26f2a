--------------------------- MODULE MCResumeClient ---------------------------
(* Instance of ResumeClient for TLC: three connections try to resume D.  *)
EXTENDS ResumeClient, TLC

CONSTANTS a1, a2, a3

MCConns == {a1, a2, a3}

(* my_detached is 32 bits wide in the server; 8 bits show the same wrap  *)
(* with values TLC can hold.                                              *)
MCCounterBits == 8

====
