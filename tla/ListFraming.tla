----------------------------- MODULE ListFraming -----------------------------
(***************************************************************************)
(* The framing loops of the three list packets in                         *)
(* src/apps/silcd/packet_receive.c.  A list packet carries several        *)
(* payloads back to back; the handler copies each one into a scratch      *)
(* buffer and hands it to the single-payload handler:                     *)
(*   silc_server_notify_list       Notify payloads   -> notify_process    *)
(*   silc_server_new_id_list       New ID payloads   -> new_id_real       *)
(*   silc_server_new_channel_list  New Channel ones  -> new_channel_process*)
(* The loops trust the length fields the peer wrote.                      *)
(*                                                                         *)
(* The packet is a byte sequence; `off' is how far packet->buffer has     *)
(* been pulled.  A read or copy outside the packet or the scratch buffer  *)
(* ends the model in status "fault": what follows depends on the buffer   *)
(* primitives of the SILC toolkit, which are not in the tree.  The bytes  *)
(* inside a payload are not interpreted here (NotifyNode models what the  *)
(* handlers do with them); `out' records the payloads handed over.        *)
(***************************************************************************)
EXTENDS Integers, Sequences, SequencesExt

CONSTANTS
  Kinds,        \* which list handlers to check: "notify", "newid", "newchannel"
  NotifyBufSize,\* silc_buffer_alloc(1024) of silc_server_notify_list
  IdpSize,      \* silc_buffer_alloc(256) of silc_server_new_id_list
  ChanBufSize,  \* silc_buffer_alloc(512) of silc_server_new_channel_list
  Packets(_),   \* Packets(k): the list packets a peer may send for kind k
  MaxIter       \* model bound: loop iterations explored per packet

ASSUME Kinds \subseteq {"notify", "newid", "newchannel"}
ASSUME MaxIter \in Nat

VARIABLES
  kind,         \* the handler running
  pkt,          \* the packet's payload bytes
  off,          \* bytes pulled from packet->buffer so far
  cap,          \* silc_buffer_truelen of the scratch buffer
  out,          \* payloads handed to the single-payload handler, in order
  iter,         \* iterations done (bounded by MaxIter)
  status        \* "loop", "done" (loop left normally) or "fault"

vars == <<kind, pkt, off, cap, out, iter, status>>

(* silc_buffer_len(&packet->buffer) *)
Rem == Len(pkt) - off

(* n bytes at packet->buffer.data + k lie inside the packet. *)
Readable(k, n) == off + k + n <= Len(pkt)

(* SILC_GET16_MSB(v, packet->buffer.data + k) *)
Get16(k) == 256 * pkt[off + k + 1] + pkt[off + k + 2]

ScratchSize(k) ==
  CASE k = "notify" -> NotifyBufSize
    [] k = "newid" -> IdpSize
    [] k = "newchannel" -> ChanBufSize

(* silc_buffer_pull_tail + silc_buffer_put of n bytes into the scratch   *)
(* buffer, the single-payload handler, push_tail, and the pull of n bytes *)
(* from packet->buffer.                                                   *)
Consume(n) ==
  /\ out' = Append(out, SubSeq(pkt, off + 1, off + n))
  /\ off' = off + n
  /\ iter' = iter + 1
  /\ UNCHANGED <<kind, pkt, status>>

Stop(s) ==
  /\ status' = s
  /\ UNCHANGED <<kind, pkt, off, cap, out, iter>>

Iterating(k) ==
  /\ kind = k
  /\ status = "loop"
  /\ Rem > 0
  /\ iter < MaxIter

-----------------------------------------------------------------------------
(* One iteration of silc_server_notify_list: the length at offset 2 is  *)
(* the whole payload's; a payload longer than the scratch buffer gets a  *)
(* new one of 1024 + len bytes.                                          *)
NotifyListStep ==
  /\ Iterating("notify")
  /\ \/ /\ ~Readable(2, 2)
        /\ Stop("fault")
     \/ /\ Readable(2, 2)
        /\ Get16(2) > Rem
        /\ Stop("done")
     \/ /\ Readable(2, 2)
        /\ Get16(2) <= Rem
        /\ cap' = IF Get16(2) > cap THEN NotifyBufSize + Get16(2) ELSE cap
        /\ Consume(Get16(2))

(* The copy of a New ID payload (type, length, ID) into idp. *)
NewIdCopyLenNoHeader(idLen) == idLen
NewIdCopyLen(idLen) == 4 + idLen

(* One iteration of silc_server_new_id_list: id_len at offset 2 is      *)
(* checked against what is left and against idp's size; 4 + id_len      *)
(* bytes are copied.                                                     *)
NewIdListStep ==
  /\ Iterating("newid")
  /\ \/ /\ ~Readable(2, 2)
        /\ Stop("fault")
     \/ /\ Readable(2, 2)
        /\ (Get16(2) > Rem \/ Get16(2) > cap)
        /\ Stop("done")
     \/ /\ Readable(2, 2)
        /\ Get16(2) <= Rem /\ Get16(2) <= cap
        /\ LET n == NewIdCopyLen(Get16(2)) IN
             IF n > Rem \/ n > cap THEN Stop("fault")
             ELSE /\ Consume(n)
                  /\ UNCHANGED cap

(* One iteration of silc_server_new_channel_list: the name length len1  *)
(* at offset 0 and the ID length len2 at 2 + len1 are each checked       *)
(* against what is left and the buffer's size; the payload copied is     *)
(* 8 + len1 + len2 bytes (two lengths, name, ID, 4-byte mode).           *)
NewChannelListStep ==
  /\ Iterating("newchannel")
  /\ \/ /\ ~Readable(0, 2)
        /\ Stop("fault")
     \/ /\ Readable(0, 2)
        /\ (Get16(0) > Rem \/ Get16(0) > cap)
        /\ Stop("done")
     \/ /\ Readable(0, 2)
        /\ Get16(0) <= Rem /\ Get16(0) <= cap
        /\ LET len1 == Get16(0) IN
           \/ /\ ~Readable(2 + len1, 2)
              /\ Stop("fault")
           \/ /\ Readable(2 + len1, 2)
              /\ (Get16(2 + len1) > Rem \/ Get16(2 + len1) > cap)
              /\ Stop("done")
           \/ /\ Readable(2 + len1, 2)
              /\ Get16(2 + len1) <= Rem /\ Get16(2 + len1) <= cap
              /\ LET n == 8 + len1 + Get16(2 + len1) IN
                   IF n > Rem \/ n > cap THEN Stop("fault")
                   ELSE /\ Consume(n)
                        /\ UNCHANGED cap

(* while (silc_buffer_len(&packet->buffer)): the packet is used up. *)
LoopExit ==
  /\ status = "loop"
  /\ Rem = 0
  /\ Stop("done")

Init ==
  /\ kind \in Kinds
  /\ pkt \in Packets(kind)
  /\ off = 0
  /\ cap = ScratchSize(kind)
  /\ out = <<>>
  /\ iter = 0
  /\ status = "loop"

Next ==
  \/ NotifyListStep
  \/ NewIdListStep
  \/ NewChannelListStep
  \/ LoopExit

(* The loop is sequential code: it runs on once started. *)
Spec == Init /\ [][Next]_vars /\ WF_vars(Next)

-----------------------------------------------------------------------------
(* Reference framing, from the payload formats: the length of the first *)
(* payload of s (0 when s is too short to say, or a Notify payload      *)
(* claims less than its own header).                                     *)
FirstLen(k, s) ==
  CASE k = "notify" ->
         IF Len(s) < 4 \/ 256 * s[3] + s[4] < 4 THEN 0 ELSE 256 * s[3] + s[4]
    [] k = "newid" ->
         IF Len(s) < 4 THEN 0 ELSE 4 + 256 * s[3] + s[4]
    [] k = "newchannel" ->
         LET l1 == 256 * s[1] + s[2] IN
         IF Len(s) < 2 \/ Len(s) < 4 + l1 THEN 0
         ELSE 8 + l1 + 256 * s[3 + l1] + s[4 + l1]

(* The set holding the split of s into whole payloads that each fit the *)
(* handler's scratch buffer, or {} when s is not such a list.            *)
RECURSIVE Frames(_, _)
Frames(k, s) ==
  IF s = <<>> THEN {<<>>}
  ELSE LET n == FirstLen(k, s) IN
       IF n = 0 \/ n > Len(s) \/ (k # "notify" /\ n > ScratchSize(k)) THEN {}
       ELSE {<<SubSeq(s, 1, n)>> \o f : f \in Frames(k, SubSeq(s, n + 1, Len(s)))}

WellFormed == Frames(kind, pkt) # {}

-----------------------------------------------------------------------------
(* A list made of whole payloads that fit the scratch buffer is handed  *)
(* over exactly: every payload once, in order, with nothing left over,   *)
(* and the loop ends.                                                    *)
WellFormedParsed ==
  WellFormed => <>(status = "done" /\ out \in Frames(kind, pkt))

(* Every iteration of a list loop reads and copies only inside the      *)
(* packet and the scratch buffer, and consumes at least one byte, so the *)
(* loop ends whatever length fields the peer wrote.                      *)
IterationSafe ==
  [][status = "loop" /\ status' # "done" => status' = "loop" /\ off' > off]_vars

====
