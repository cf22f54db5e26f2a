------------------------------ MODULE IdAlloc ------------------------------
(***************************************************************************)
(* What an ID generator of serverid.c promises its caller (spec 4.2, 7e): *)
(* given the IDs already present in the lists it probes, it returns one   *)
(* that is not present, and it reports failure (CollisionExhausted) only  *)
(* when every value of the random field is taken.  One atomic step; the   *)
(* probe loop of ServerId implements it.                                  *)
(***************************************************************************)
CONSTANTS
  Space,     \* the values the random field of the ID can take
  Pending,   \* no answer yet
  Fail       \* CollisionExhausted: the caller must pick another nickname

VARIABLES
  taken,     \* IDs already in the probed ID lists (unchanged by the call)
  answer     \* Pending, then a free ID or Fail

Allowed(t) == (Space \ t) \cup (IF t = Space THEN {Fail} ELSE {})

Init ==
  /\ taken \in SUBSET Space
  /\ answer = Pending

Alloc ==
  /\ answer = Pending
  /\ answer' \in Allowed(taken)
  /\ UNCHANGED taken

Spec == Init /\ [][Alloc]_<<taken, answer>>
=============================================================================
