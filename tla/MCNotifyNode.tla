---------------------------- MODULE MCNotifyNode ----------------------------
(* Model-checking instance of NotifyNode: three cache slots, two Client  *)
(* IDs and one channel.  Three slots let one ID have a zombie and a live *)
(* entry while a second client exists; two IDs give a kicker or killer  *)
(* distinct from its target.                                            *)
EXTENDS NotifyNode, TLC

CONSTANTS h1, h2, h3, c1, c2, ch1

MCHandles == {h1, h2, h3}
MCClientIds == {c1, c2}
MCHandles2 == {h1, h2}
MCChannels == {ch1}

(* Slots are addresses and IDs are opaque: permuting either changes no   *)
(* behaviour.                                                            *)
MCSymmetry == Permutations(MCHandles) \cup Permutations(MCClientIds)
=============================================================================
