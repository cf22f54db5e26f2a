---------------------------- MODULE MCListFraming ----------------------------
(* Instance of ListFraming for TLC.  The scratch buffers are scaled down *)
(* from 1024, 256 and 512 bytes so that payloads of a few bytes reach     *)
(* their limits; the length fields keep their 16-bit MSB encoding.       *)
EXTENDS ListFraming, SequencesExt

Zeros(n) == [i \in 1..n |-> 0]

(* Payloads in the protocol's format, contents zeroed. *)
NotifyPayloads == {<<0, 1, 0, n>> \o Zeros(n - 4) : n \in 4..6}
NewIdPayloads == {<<0, 1, 0, k>> \o Zeros(k) : k \in 0..3}
NewChannelPayloads ==
  {<<0, l1>> \o Zeros(l1) \o <<0, l2>> \o Zeros(l2) \o Zeros(4) : l1, l2 \in 0..2}

Payloads(k) ==
  CASE k = "notify" -> NotifyPayloads
    [] k = "newid" -> NewIdPayloads
    [] k = "newchannel" -> NewChannelPayloads

(* Trailing bytes of any value class: 0, a small length, a high byte. *)
Junk == BoundedSeq({0, 1, 9}, 4)

(* Up to two payloads followed by junk: well-formed lists and every way *)
(* of cutting or padding one.                                             *)
MCPackets(k) ==
  {p \o q \o j : p \in Payloads(k) \cup {<<>>}, q \in Payloads(k) \cup {<<>>},
                 j \in Junk}
====
