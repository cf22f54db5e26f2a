------------------------------ MODULE ServerId ------------------------------
(***************************************************************************)
(* The collision-avoiding ID generators of src/apps/silcd/serverid.c:     *)
(* silc_id_create_client_id and silc_id_create_channel_id.  Both fill the *)
(* fixed part of the ID (server IP, nickname hash), draw a random field   *)
(* `rnd' and then run the same probe loop: while the ID is present in the *)
(* probed ID lists, step `rnd' (unsigned, wrapping at 2^RndBits) and give *)
(* up when the wrap is reached while `finding' is set.  The two functions *)
(* differ in the width of `rnd' (8 bits for clients, 16 for channels),    *)
(* in the lists probed (local and global for clients, local for channels)*)
(* and in the initial value of `finding' (FALSE for clients, TRUE for     *)
(* channels).  The fixed part of the ID is the same on every probe and is *)
(* abstracted away: an ID is its `rnd' value.                             *)
(*                                                                         *)
(* Each step of the model is one iteration of the while(1) loop.          *)
(***************************************************************************)
EXTENDS Naturals

CONSTANTS
  Kind,      \* "client" or "channel": which of the two functions runs
  RndBits,   \* width of the rnd field; wraps modulo 2^RndBits
  Pending,   \* the function has not returned yet
  Fail       \* the function returned FALSE

ASSUME Kind \in {"client", "channel"}
ASSUME RndBits \in Nat \ {0}

Space == 0 .. (2^RndBits - 1)

VARIABLES
  taken,     \* IDs present in the lists the loop probes
  rnd,       \* new_id->rnd
  finding,   \* the local `finding'
  result     \* Pending, the created ID, or Fail

vars == <<taken, rnd, finding, result>>

(* Mutant for the check: rnd++ computed without the field's width. *)
IncrNoWrap(r) == r + 1

(* new_id->rnd++ on an unsigned field of RndBits bits. *)
Incr(r) == (r + 1) % (2^RndBits)

(* Mutant for the check: the client generator starts with finding set,  *)
(* as the channel generator does.                                        *)
InitClientIdFindingSet ==
  /\ rnd \in Space
  /\ finding = TRUE

(***************************************************************************)
(* Entry of silc_id_create_client_id: rnd = silc_rng_get_byte(rng),       *)
(* finding = FALSE.                                                       *)
(***************************************************************************)
InitClientId ==
  /\ rnd \in Space
  /\ finding = FALSE

(***************************************************************************)
(* Entry of silc_id_create_channel_id: rnd = silc_rng_get_rn16(rng),      *)
(* finding = TRUE.                                                        *)
(***************************************************************************)
InitChannelId ==
  /\ rnd \in Space
  /\ finding = TRUE

Init ==
  /\ taken \in SUBSET Space
  /\ result = Pending
  /\ IF Kind = "client" THEN InitClientId ELSE InitChannelId

(* The ID is not found in the probed lists: break, return TRUE. *)
ProbeFree ==
  /\ result = Pending
  /\ rnd \notin taken
  /\ result' = rnd
  /\ UNCHANGED <<taken, rnd, finding>>

(* The ID exists: rnd++, and `finding && rnd == 0' returns FALSE. *)
ProbeWrap ==
  /\ result = Pending
  /\ rnd \in taken
  /\ finding /\ Incr(rnd) = 0
  /\ result' = Fail
  /\ rnd' = Incr(rnd)
  /\ UNCHANGED <<taken, finding>>

(* Mutant for the check: the restart forgets to set `finding'. *)
ProbeStepNoFinding(r, f) ==
  /\ ~(f /\ Incr(r) = 0)
  /\ rnd' = IF f THEN Incr(r) ELSE 0
  /\ finding' = f

(* The ID exists and the wrap is not reached: the first collision       *)
(* restarts the sweep at 0 and sets `finding'.                          *)
ProbeStepNext(r, f) ==
  /\ ~(f /\ Incr(r) = 0)
  /\ rnd' = IF f THEN Incr(r) ELSE 0
  /\ finding' = TRUE

ProbeNext ==
  /\ result = Pending
  /\ rnd \in taken
  /\ ProbeStepNext(rnd, finding)
  /\ UNCHANGED <<taken, result>>

Next == ProbeFree \/ ProbeWrap \/ ProbeNext

(* The function runs to completion once called. *)
Spec == Init /\ [][Next]_vars /\ WF_vars(Next)

-----------------------------------------------------------------------------
TypeOK ==
  /\ taken \subseteq Space
  /\ rnd \in Space
  /\ finding \in BOOLEAN
  /\ result \in Space \cup {Pending, Fail}

(***************************************************************************)
(* Refinement: seen at its return, the probe loop is the abstract         *)
(* allocator of IdAlloc: the ID it returns is free in the probed lists,   *)
(* and it returns FALSE only when every rnd value is taken.               *)
(***************************************************************************)
Abstract == INSTANCE IdAlloc WITH Space <- Space, answer <- result

(* The loop returns a free ID or FALSE; reporting exhaustion while a    *)
(* free value remains is a violation (spec 4.2, "full sweep").          *)
RefinesIdAlloc == Abstract!Spec

(* The while(1) loop of the generator always returns. *)
Terminates == <>(result # Pending)
=============================================================================
