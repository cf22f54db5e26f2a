------------------------- MODULE ChannelIdReconcile -------------------------
(***************************************************************************)
(* A router and its cell servers agreeing on Channel IDs.                 *)
(*                                                                         *)
(* A Channel ID must be based on the router's address.  A cell server     *)
(* that created channels with IDs of its own announces them to its router *)
(* in NEW_CHANNEL (silc_server_new_channel_process in                     *)
(* src/apps/silcd/packet_receive.c).  The router answers an ID it does   *)
(* not accept with the notify CHANNEL_CHANGE(old, new) and waits for the  *)
(* server to re-announce the channel.  The server replaces the ID and     *)
(* re-announces it (the CHANNEL_CHANGE case of silc_server_notify_process).*)
(*                                                                         *)
(* Each server's connection to the router is a packet stream: reliable    *)
(* and in order, one queue per direction.  The address part of an ID is   *)
(* its first component: a router-based ID is <<"router", rnd>> with rnd   *)
(* of RndBits bits; a server-based one is <<server, name>>, distinct for  *)
(* every channel a server created.  The router is standalone (no primary  *)
(* route to broadcast to) and no cell server is a backup router.  Packets  *)
(* that change no modelled state (CHANNEL_KEY, JOIN lists, TOPIC_SET) are *)
(* left out.                                                              *)
(***************************************************************************)
EXTENDS Integers, Sequences, SequencesExt

CONSTANTS
  Servers,   \* the router's cell servers
  Names,     \* channel names
  RndBits,   \* width of the rnd field of a Channel ID (16 in the code)
  NoChan     \* no channel of that name

Rnd == 0 .. (2^RndBits - 1)
RouterIds == {"router"} \X Rnd
ServerIds == Servers \X Names
Ids == RouterIds \cup ServerIds

ASSUME NoChan \notin Ids

VARIABLES
  rchan,     \* the router's local list: name -> the ID of its channel
  schan,     \* schan[s]: the channels of server s, name -> ID
  up,        \* up[s]: NEW_CHANNEL packets from s to the router
  down       \* down[s]: CHANNEL_CHANGE notifies from the router to s

vars == <<rchan, schan, up, down>>

NewChannelMsg == [name: Names, id: Ids]
ChannelChangeMsg == [old: Ids, new: RouterIds]

-----------------------------------------------------------------------------
(* silc_id_create_channel_id on the router: starting from a random rnd,   *)
(* step rnd upward while the ID is in the router's local list; finding is *)
(* TRUE from the start, so reaching the wrap to 0 fails (NoChan).         *)
RECURSIVE ChannelIdProbe(_, _)
ChannelIdProbe(taken, r) ==
  IF r \notin taken THEN r
  ELSE IF (r + 1) % (2^RndBits) = 0 THEN NoChan
  ELSE ChannelIdProbe(taken, r + 1)

(* The IDs the probe loop looks up: the router's local channel list. *)
RouterTaken == {rchan[n][2] : n \in {m \in Names : rchan[m] # NoChan}}

(* silc_idcache_add (toolkit, not under src/), reached through           *)
(* silc_server_create_new_channel_with_id, refuses an ID the router's     *)
(* channel cache already holds.                                           *)
HasChannelId(id) == \E n \in Names : rchan[n] = id

(* A channel new to the router.  A server-based ID gets a fresh         *)
(* router-based ID in CHANNEL_CHANGE, or nothing when no ID can be        *)
(* created; either way the router returns and waits for the               *)
(* re-announcement, recording nothing.  A router-based ID is taken as    *)
(* given: the channel is created with it, unless the cache already holds *)
(* that ID, when the creation fails and the router returns.              *)
NewToRouter(s, m) ==
  \/ /\ m.id \in ServerIds
     /\ \E start \in Rnd :
          LET new == ChannelIdProbe(RouterTaken, start) IN
          down' = IF new = NoChan THEN down
                  ELSE [down EXCEPT ![s] =
                          Append(@, [old |-> m.id, new |-> <<"router", new>>])]
     /\ UNCHANGED rchan
  \/ /\ m.id \in RouterIds
     /\ ~HasChannelId(m.id)
     /\ rchan' = [rchan EXCEPT ![m.name] = m.id]
     /\ UNCHANGED down
  \/ /\ m.id \in RouterIds
     /\ HasChannelId(m.id)
     /\ UNCHANGED <<rchan, down>>

(* A channel the router has by that name.  Another ID is answered with   *)
(* CHANNEL_CHANGE to the router's ID; the same ID gets the channel key    *)
(* and the router's members, which change nothing here.                  *)
KnownToRouter(s, m) ==
  \/ /\ m.id # rchan[m.name]
     /\ down' = [down EXCEPT ![s] = Append(@, [old |-> m.id, new |-> rchan[m.name]])]
  \/ /\ m.id = rchan[m.name]
     /\ UNCHANGED down

(* NEW_CHANNEL from cell server s: the channel is looked up by name. *)
RecvNewChannel(s) ==
  /\ up[s] # <<>>
  /\ up' = [up EXCEPT ![s] = Tail(@)]
  /\ LET m == Head(up[s]) IN
     IF rchan[m.name] = NoChan THEN NewToRouter(s, m)
     ELSE KnownToRouter(s, m) /\ UNCHANGED rchan
  /\ UNCHANGED schan

(* CHANNEL_CHANGE at server s.  The channel is looked up by the old ID;   *)
(* an unknown one ends the handler.  silc_idlist_replace_channel_id      *)
(* looks the old ID up again: with two channels under one ID the hash     *)
(* table may yield either, so the channel replaced (r) need not be the   *)
(* one found (c).  The channel found is re-announced with its ID.        *)
RecvChannelChange(s) ==
  /\ down[s] # <<>>
  /\ down' = [down EXCEPT ![s] = Tail(@)]
  /\ LET m == Head(down[s])
         found == {n \in Names : schan[s][n] = m.old}
     IN \/ /\ found = {}
           /\ UNCHANGED <<schan, up>>
        \/ \E c, r \in found :
             /\ schan' = [schan EXCEPT ![s][r] = m.new]
             /\ up' = [up EXCEPT ![s] = Append(@, [name |-> c, id |-> schan'[s][c]])]
  /\ UNCHANGED rchan

-----------------------------------------------------------------------------
(* The router's own channels have distinct router-based IDs.  Each server *)
(* holds channels with IDs of its own and, on connecting, announces all   *)
(* of them in one NEW_CHANNEL list, in hash-table order.                  *)
Init ==
  /\ rchan \in {f \in [Names -> RouterIds \cup {NoChan}] :
                  \A n, m \in Names : n # m /\ f[n] # NoChan => f[n] # f[m]}
  /\ \E own \in [Servers -> SUBSET Names] :
       schan = [s \in Servers |->
                  [n \in Names |-> IF n \in own[s] THEN <<s, n>> ELSE NoChan]]
  /\ LET Announce(s) == {[name |-> n, id |-> schan[s][n]] :
                           n \in {m \in Names : schan[s][m] # NoChan}}
     IN up \in {u \in [Servers -> UNION {SetToSeqs(Announce(s)) : s \in Servers}] :
                  \A s \in Servers : u[s] \in SetToSeqs(Announce(s))}
  /\ down = [s \in Servers |-> <<>>]

Next ==
  \E s \in Servers : RecvNewChannel(s) \/ RecvChannelChange(s)

(* Every packet sent is eventually processed: the streams are reliable   *)
(* and each node's scheduler serves every connection.                     *)
Fairness ==
  \A s \in Servers : WF_vars(RecvNewChannel(s)) /\ WF_vars(RecvChannelChange(s))

Spec == Init /\ [][Next]_vars /\ Fairness

-----------------------------------------------------------------------------
TypeOK ==
  /\ rchan \in [Names -> RouterIds \cup {NoChan}]
  /\ schan \in [Servers -> [Names -> Ids \cup {NoChan}]]
  /\ up \in [Servers -> Seq(NewChannelMsg)]
  /\ down \in [Servers -> Seq(ChannelChangeMsg)]

(* The router and its cell agree on every channel: the exchange of       *)
(* NEW_CHANNEL and CHANNEL_CHANGE settles with every channel of every     *)
(* cell server registered at the router under the server's ID, and no    *)
(* two channels of the router sharing an ID (spec 4.4, and spec 3: an ID  *)
(* is in the store at most once).                                         *)
Agreed ==
  /\ \A s \in Servers, n \in Names :
       schan[s][n] # NoChan => rchan[n] = schan[s][n]
  /\ \A n, m \in Names : n # m /\ rchan[n] # NoChan => rchan[n] # rchan[m]

ChannelsRegistered == <>[]Agreed

====
