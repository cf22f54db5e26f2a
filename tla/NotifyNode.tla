----------------------------- MODULE NotifyNode -----------------------------
(***************************************************************************)
(* One SILC server or router (src/apps/silcd/packet_receive.c) processing *)
(* the notify and ID packets its peers send it, one packet at a time      *)
(* (spec 5: a single thread runs every handler to completion).            *)
(*                                                                         *)
(* State: the client caches of local_list and global_list, the           *)
(* ChannelClientEntry relation in both of its indexes (channel->user_list *)
(* and client->channels) with the per-member mode, channel->user_count,  *)
(* and the counters stat.clients and stat.detached.                       *)
(*                                                                         *)
(* A client cache entry is a record in a slot of Handles (the entry's    *)
(* address).  Two slots may hold the same Client ID: the cache does not   *)
(* prevent it, and what the handlers do about it is one of the questions *)
(* asked here.  A client that signs off or is killed stays in its slot as *)
(* a zombie (REGISTERED cleared, mode 0, on server->expired_clients)      *)
(* until PurgeExpired frees it.                                          *)
(*                                                                         *)
(* Every inbound packet is an action whose inputs (source connection,     *)
(* IDs, mode bits) range over small sets: the peers are not trusted and  *)
(* may send anything.  Channel existence, relaying, logging and the      *)
(* public-key repository are left out: they change nothing the           *)
(* properties tell apart.                                                *)
(***************************************************************************)
EXTENDS Integers, FiniteSets

CONSTANTS
  ServerTypes,  \* node types to check: "server" (SILC_SERVER), "router"
  Handles,      \* addresses a client cache entry can occupy
  ClientIds,    \* Client IDs peers talk about
  Channels,     \* channels known to this node
  NoEntry,      \* a free slot
  Null,         \* a lookup that found nothing
  ServerSender, \* a notify whose acting ID is a Server ID, not a client
  StatBound     \* model bound: increments of stat.clients / stat.detached
                \* are not explored beyond it

ASSUME ServerTypes \subseteq {"server", "router"}
ASSUME StatBound \in Nat
ASSUME {NoEntry, Null, ServerSender} \cap (Handles \cup ClientIds) = {}

Lists == {"local", "global"}

UModes == {"detached", "rop"}   \* SILC_UMODE_DETACHED, _ROUTER_OPERATOR
CUModes == {"op", "fo"}         \* SILC_CHANNEL_UMODE_CHANOP, _CHANFO
(* The founder public key argument of CUMODE_CHANGE: equal to the       *)
(* channel's founder key, or absent / undecodable / different, which the *)
(* handler treats alike.                                                 *)
Keys == {"match", "other"}

Entry == [id: ClientIds, list: Lists, reg: BOOLEAN, mode: SUBSET UModes,
          resumed: BOOLEAN]

VARIABLES
  entry,        \* Handles -> Entry \cup {NoEntry}: the client caches
  users,        \* Channels -> SUBSET Handles: keys of channel->user_list
  chans,        \* Handles -> SUBSET Channels: keys of client->channels
  cumode,       \* Channels -> Handles -> SUBSET CUModes: chl->mode
  userCount,    \* Channels -> Nat: channel->user_count
  founderAuth,  \* Channels -> BOOLEAN: SILC_CHANNEL_MODE_FOUNDER_AUTH
  founderKey,   \* Channels -> BOOLEAN: channel->founder_key != NULL
  statClients,  \* server->stat.clients
  statDetached, \* server->stat.detached
  serverType    \* server->server_type, fixed at start

vars == <<entry, users, chans, cumode, userCount, founderAuth, founderKey,
          statClients, statDetached, serverType>>

(* The channel state other than its members: FOUNDER_AUTH and the key. *)
chanMode == <<founderAuth, founderKey>>

IsRouter == serverType = "router"

(* The connections a packet can arrive on.  A normal server is connected *)
(* to its router only; a router to its cell servers and to its primary   *)
(* route (idata->conn_type SILC_CONN_SERVER or SILC_CONN_ROUTER).  A     *)
(* notify that arrives on a client connection is dropped.                *)
Sources == IF IsRouter THEN {"server", "router"} ELSE {"router"}

Live == {h \in Handles : entry[h] # NoEntry}

-----------------------------------------------------------------------------
(***************************************************************************)
(* Entity store lookups (idlist.c, not under src/).                       *)
(* silc_idlist_find_client_by_id(list, id, registered) takes the one cache *)
(* entry the ID hash table yields for `id' and returns NULL when          *)
(* `registered' is set and that entry is not REGISTERED.  With several    *)
(* entries under one ID, which one the table yields is not specified: the *)
(* outcome is a set.                                                      *)
(***************************************************************************)
FindClient(list, id, registered) ==
  LET hits == {h \in Live : entry[h].id = id /\ entry[h].list = list}
  IN IF hits = {} THEN {Null}
     ELSE {IF registered /\ ~entry[h].reg THEN Null ELSE h : h \in hits}

(* The handlers' pattern: look in global_list, then in local_list. *)
FindClientGL(id, registered) ==
  UNION {IF g = Null THEN FindClient("local", id, registered) ELSE {g} :
           g \in FindClient("global", id, registered)}

(* RESUME_CLIENT from a server looks in local_list first. *)
FindClientLG(id, registered) ==
  UNION {IF l = Null THEN FindClient("global", id, registered) ELSE {l} :
           l \in FindClient("local", id, registered)}

(* silc_server_client_on_channel: a lookup in client->channels. *)
OnChannel(h, ch) == ch \in chans[h]

Founders(ch) == {h \in users[ch] : "fo" \in cumode[ch][h]}

(* Mutants for the check: the removal forgets client->channels, or       *)
(* decrements user_count of channels the client was not on.             *)
RemoveFromChannelsUserListOnly(h, S) ==
  /\ users' = [c \in Channels |-> IF c \in S THEN users[c] \ {h} ELSE users[c]]
  /\ UNCHANGED chans
  /\ cumode' = [c \in Channels |->
                  IF c \in S THEN [cumode[c] EXCEPT ![h] = {}] ELSE cumode[c]]
  /\ userCount' = [c \in Channels |->
                     IF c \in S THEN userCount[c] - 1 ELSE userCount[c]]

RemoveFromChannelsCountAlways(h, S) ==
  /\ users' = [c \in Channels |-> IF c \in S THEN users[c] \ {h} ELSE users[c]]
  /\ chans' = [chans EXCEPT ![h] = @ \ S]
  /\ cumode' = [c \in Channels |->
                  IF c \in S THEN [cumode[c] EXCEPT ![h] = {}] ELSE cumode[c]]
  /\ userCount' = [c \in Channels |-> userCount[c] - 1]

(***************************************************************************)
(* silc_server_remove_from_one_channel / silc_server_remove_from_channels *)
(* (server.c, not under src/): for each channel in S, delete the          *)
(* ChannelClientEntry from both indexes and decrement user_count.         *)
(***************************************************************************)
RemoveFromChannels(h, S) ==
  /\ users' = [c \in Channels |-> IF c \in S THEN users[c] \ {h} ELSE users[c]]
  /\ chans' = [chans EXCEPT ![h] = @ \ S]
  /\ cumode' = [c \in Channels |->
                  IF c \in S THEN [cumode[c] EXCEPT ![h] = {}] ELSE cumode[c]]
  /\ userCount' = [c \in Channels |->
                     IF c \in S THEN userCount[c] - 1 ELSE userCount[c]]

(***************************************************************************)
(* The teardown shared by SIGNOFF and KILLED of a remote client (and by   *)
(* silc_server_kill_client): remove it from every channel, stat.clients-- *)
(* and turn the entry into a zombie: REGISTERED cleared, mode = 0,        *)
(* router = NULL, put on expired_clients.  stat.detached is not touched.  *)
(***************************************************************************)
Zombify(h) ==
  /\ RemoveFromChannels(h, chans[h])
  /\ statClients' = statClients - 1
  /\ entry' = [entry EXCEPT ![h].reg = FALSE, ![h].mode = {}]
  /\ UNCHANGED <<chanMode, statDetached>>

-----------------------------------------------------------------------------
Init ==
  /\ entry = [h \in Handles |-> NoEntry]
  /\ users = [c \in Channels |-> {}]
  /\ chans = [h \in Handles |-> {}]
  /\ cumode = [c \in Channels |-> [h \in Handles |-> {}]]
  /\ userCount = [c \in Channels |-> 0]
  /\ founderAuth = [c \in Channels |-> FALSE]
  /\ founderKey = [c \in Channels |-> FALSE]
  /\ statClients = 0
  /\ statDetached = 0
  /\ serverType \in ServerTypes

-----------------------------------------------------------------------------
(***************************************************************************)
(* Handlers.  Each action is one case of silc_server_notify_process (or   *)
(* one of the ID packet handlers) run to completion.  The early returns   *)
(* (`goto out', `break') change nothing and are the stuttering steps of   *)
(* the specification; an action's guard is the conjunction of the checks *)
(* that lead past them.                                                   *)
(***************************************************************************)
NewClientEntry(id, list) ==
  [id |-> id, list |-> list, reg |-> TRUE, mode |-> {}, resumed |-> FALSE]

(* The membership edge a JOIN notify creates: the first member becomes   *)
(* founder and operator unless FOUNDER_AUTH is set, on a normal server,  *)
(* or on a router when the notify comes from its router.                 *)
AddMember(src, ch, h) ==
  LET founder == /\ ~IsRouter \/ src = "router"
                 /\ ~founderAuth[ch]
                 /\ users[ch] = {}
  IN /\ users' = [users EXCEPT ![ch] = @ \cup {h}]
     /\ chans' = [chans EXCEPT ![h] = @ \cup {ch}]
     /\ cumode' = [cumode EXCEPT ![ch][h] = IF founder THEN CUModes ELSE {}]
     /\ userCount' = [userCount EXCEPT ![ch] = @ + 1]
     /\ UNCHANGED <<chanMode, statDetached>>

(* Mutant for the check: JOIN without the already-on-channel check. *)
JoinKnownNoDupCheck(src, ch, c) ==
  /\ entry[c].reg
  /\ AddMember(src, ch, c)
  /\ UNCHANGED <<entry, statClients>>

(* JOIN of a client the node has: it must be REGISTERED and not yet on  *)
(* the channel.                                                          *)
JoinKnown(src, ch, c) ==
  /\ entry[c].reg
  /\ ~OnChannel(c, ch)
  /\ AddMember(src, ch, c)
  /\ UNCHANGED <<entry, statClients>>

(* JOIN of an unknown client: a router drops it as bogus, a normal server *)
(* creates a registered stub entry in global_list (stat.clients++).      *)
JoinNewClient(src, ch, id) ==
  /\ ~IsRouter
  /\ statClients < StatBound
  /\ \E h \in Handles \ Live:
       /\ entry' = [entry EXCEPT ![h] = NewClientEntry(id, "global")]
       /\ statClients' = statClients + 1
       /\ AddMember(src, ch, h)

(* The client lookup passes server->server_type as `registered': TRUE   *)
(* on a router, FALSE (SILC_SERVER is 0) on a normal server.             *)
Join(src, ch, id) ==
  \E c \in FindClientGL(id, IsRouter):
    \/ c = Null /\ JoinNewClient(src, ch, id)
    \/ c # Null /\ JoinKnown(src, ch, c)

Leave(ch, id) ==
  \E c \in FindClientGL(id, TRUE) \ {Null}:
    /\ OnChannel(c, ch)
    /\ RemoveFromChannels(c, {ch})
    /\ UNCHANGED <<chanMode, entry, statClients, statDetached>>

Signoff(id) ==
  \E c \in FindClientGL(id, TRUE) \ {Null}: Zombify(c)

(* The target must be on the channel and not founder; the kicker on the  *)
(* channel with operator or founder mode.                                *)
Kicked(ch, id, kicker) ==
  \E c \in FindClientGL(id, TRUE) \ {Null},
     k \in FindClientGL(kicker, TRUE) \ {Null}:
    /\ OnChannel(c, ch)
    /\ "fo" \notin cumode[ch][c]
    /\ OnChannel(k, ch)
    /\ cumode[ch][k] \cap CUModes # {}
    /\ RemoveFromChannels(c, {ch})
    /\ UNCHANGED <<chanMode, entry, statClients, statDetached>>

(* A client killer must be known, and a router operator when this node  *)
(* is a router.  The branch for a client connected to this node is not  *)
(* modelled: every entry here is a remote client (connection NULL).     *)
KillerAllowed(killer) ==
  \/ killer = ServerSender
  \/ \E k \in FindClientGL(killer, TRUE) \ {Null}:
       IsRouter => "rop" \in entry[k].mode

Killed(id, killer) ==
  \E c \in FindClientGL(id, TRUE) \ {Null}:
    /\ KillerAllowed(killer)
    /\ Zombify(c)

(* UMODE_CHANGE: DETACHED clears RESUMED; a router counts the DETACHED   *)
(* transitions in stat.detached; the new mode replaces the old.          *)
DetachedDelta(old, new) ==
  IF "detached" \in new /\ "detached" \notin old THEN 1
  ELSE IF "detached" \notin new /\ "detached" \in old THEN -1
  ELSE 0

UmodeChange(id, m) ==
  \E c \in FindClientGL(id, TRUE) \ {Null}:
    /\ (IsRouter /\ DetachedDelta(entry[c].mode, m) = 1) =>
         statDetached < StatBound
    /\ entry' = [entry EXCEPT ![c].mode = m,
                              ![c].resumed = IF "detached" \in m THEN FALSE
                                             ELSE @]
    /\ statDetached' = IF IsRouter
                       THEN statDetached + DetachedDelta(entry[c].mode, m)
                       ELSE statDetached
    /\ UNCHANGED <<chanMode, users, chans, cumode, userCount, statClients>>

(***************************************************************************)
(* CUMODE_CHANGE: `sender' sets target's mode on the channel to m.  On a  *)
(* router the sender must be on the channel and, when acting on someone   *)
(* else, operator or founder, and the target must not be founder.  A     *)
(* founder grant a router receives other than from its primary route is   *)
(* refused (the mode is forced to m without CHANFO) when a client sender *)
(* acts on a channel without FOUNDER_AUTH, when the channel already has   *)
(* a founder, or when a cached founder key is not matched by the key in  *)
(* the notify.  The `mode is changed already' breaks only skip the relay: *)
(* in every accepted case the member's mode ends up as computed here.    *)
(***************************************************************************)
SenderAllowed(ch, c, t) ==
  c # ServerSender =>
    /\ OnChannel(c, ch)
    /\ (c # t /\ IsRouter) => /\ cumode[ch][c] \cap CUModes # {}
                              /\ OnChannel(t, ch)
                              /\ "fo" \notin cumode[ch][t]

FounderRefused(src, ch, c, t, m, key) ==
  /\ "fo" \in m
  /\ "fo" \notin cumode[ch][t]
  /\ IsRouter
  /\ src # "router"
  /\ \/ c # ServerSender /\ ~founderAuth[ch]
     \/ Founders(ch) # {}
     \/ founderKey[ch] /\ key # "match"

CumodeChange(src, ch, sender, target, m, key) ==
  \E c \in (IF sender = ServerSender THEN {ServerSender}
            ELSE FindClientGL(sender, TRUE) \ {Null}),
     t \in FindClientGL(target, TRUE) \ {Null}:
    /\ SenderAllowed(ch, c, t)
    /\ OnChannel(t, ch)
    /\ cumode' = [cumode EXCEPT ![ch][t] =
                    IF FounderRefused(src, ch, c, t, m, key) THEN m \ {"fo"}
                    ELSE m]
    /\ UNCHANGED <<chanMode, entry, users, chans, userCount, statClients,
                   statDetached>>

(***************************************************************************)
(* CMODE_CHANGE.  The channel mode is abstracted to its FOUNDER_AUTH bit   *)
(* `fa' and whether any other bit differs (`others'); the founder public  *)
(* key argument is absent, decodable ("good") or not ("bad").  The        *)
(* cipher, HMAC, passphrase, channel key, public-key list and user limit  *)
(* are not modelled: their failures are early returns that change none of *)
(* the state here.                                                         *)
(***************************************************************************)
KeyArgs == {"none", "good", "bad"}

(* silc_server_check_cmode_rights (server_util.c, not under src/): the   *)
(* member must be operator or founder, and only a founder may turn      *)
(* FOUNDER_AUTH on or off.                                               *)
CmodeRights(ch, c, fa) ==
  /\ cumode[ch][c] \cap CUModes # {}
  /\ fa # founderAuth[ch] => "fo" \in cumode[ch][c]

(* The mode equals channel->mode: on a normal server a FOUNDER_AUTH mode *)
(* from its router replaces the founder key with the one in the notify  *)
(* (NULL when it does not decode).  Otherwise nothing changes.          *)
CmodeSame(src, ch, keyArg) ==
  /\ founderKey' = [founderKey EXCEPT ![ch] =
                      IF ~IsRouter /\ src = "router" /\ founderAuth[ch]
                         /\ keyArg # "none"
                      THEN keyArg = "good" ELSE @]
  /\ UNCHANGED founderAuth

(* A mode from a server (no client ID) that a router receives from a cell *)
(* server is refused when it clears FOUNDER_AUTH, or sets it while the   *)
(* channel has a founder that is not the sending server's client.  Which *)
(* server a client belongs to is not modelled: either may hold.          *)
ServerCmodeAllowed(src, ch, fa) ==
  ~(IsRouter /\ src # "router") \/
    /\ ~(founderAuth[ch] /\ ~fa)
    /\ \/ ~fa
       \/ Founders(ch) = {}
       \/ \E foreign \in BOOLEAN : ~foreign

(* The founder key after the key argument is applied (a failed decode    *)
(* leaves it NULL), and the FOUNDER_AUTH bit that survives: cleared when *)
(* the key does not decode, and on a router when no key is left.         *)
CmodeKey(ch, fa, keyArg) ==
  IF fa /\ keyArg # "none" THEN keyArg = "good" ELSE founderKey[ch]

CmodeFounderAuthNoRouterCheck(ch, fa, keyArg) ==
  fa /\ keyArg # "bad"

CmodeFounderAuth(ch, fa, keyArg) ==
  /\ fa
  /\ keyArg # "bad"
  /\ IsRouter => CmodeKey(ch, fa, keyArg)

(* The new mode is stored, and the founder key freed when FOUNDER_AUTH   *)
(* is not in it.                                                        *)
CmodeNew(ch, fa, keyArg) ==
  LET auth == CmodeFounderAuth(ch, fa, keyArg) IN
  /\ founderAuth' = [founderAuth EXCEPT ![ch] = auth]
  /\ founderKey' = [founderKey EXCEPT ![ch] = auth /\ CmodeKey(ch, fa, keyArg)]

CmodeChange(src, ch, sender, fa, others, keyArg) ==
  \E c \in (IF sender = ServerSender THEN {ServerSender}
            ELSE FindClientGL(sender, TRUE) \ {Null}):
    /\ \/ /\ fa = founderAuth[ch] /\ ~others
          /\ CmodeSame(src, ch, keyArg)
       \/ /\ fa # founderAuth[ch] \/ others
          /\ IF c = ServerSender THEN ServerCmodeAllowed(src, ch, fa)
             ELSE OnChannel(c, ch) /\ CmodeRights(ch, c, fa)
          /\ CmodeNew(ch, fa, keyArg)
    /\ UNCHANGED <<entry, users, chans, cumode, userCount, statClients,
                   statDetached>>

(* NICK_CHANGE: silc_idlist_replace_client_id (idlist.c, not under src/) *)
(* re-keys the cache entry the old ID yields, registered or not, to the  *)
(* new ID in place; global_list is tried before local_list.              *)
NickChange(id, id2) ==
  \E c \in FindClientGL(id, FALSE) \ {Null}:
    /\ entry' = [entry EXCEPT ![c].id = id2]
    /\ UNCHANGED <<chanMode, users, chans, cumode, userCount, statClients,
                   statDetached>>

(* ERROR(NO_SUCH_CLIENT_ID) from the router: the global entry the ID    *)
(* lookup yields, registered or not, is removed from its channels and   *)
(* deleted from the cache.  stat.clients is not decremented.  The same   *)
(* notify from a cell server changes nothing (a stuttering step).       *)
ErrorNoSuchClient(id) ==
  \E c \in FindClient("global", id, FALSE) \ {Null}:
    /\ RemoveFromChannels(c, chans[c])
    /\ entry' = [entry EXCEPT ![c] = NoEntry]
    /\ UNCHANGED <<chanMode, statClients, statDetached>>

(* silc_idcache_add (toolkit, not under src/) refuses an ID that the     *)
(* list's client cache already holds, REGISTERED or not.                 *)
InCache(list, id) == \E h \in Live : entry[h].id = id /\ entry[h].list = list

(* NEW_ID of a client (silc_server_new_id_real), routers only: ignored   *)
(* when a REGISTERED entry with the ID is found.  Otherwise the entry is  *)
(* added to local_list (sender is a cell server) or global_list (sender  *)
(* is a router).  When the cache refuses the ID, a SIGNOFF for it goes  *)
(* back to the sender and nothing here changes; else the entry is        *)
(* REGISTERED and stat.clients++.                                        *)
NewIdClient(src, id) ==
  LET list == IF src = "server" THEN "local" ELSE "global" IN
  /\ IsRouter
  /\ Null \in FindClientGL(id, TRUE)
  /\ \/ /\ InCache(list, id)
        /\ UNCHANGED <<entry, statClients>>
     \/ /\ ~InCache(list, id)
        /\ statClients < StatBound
        /\ \E h \in Handles \ Live:
             entry' = [entry EXCEPT ![h] = NewClientEntry(id, list)]
        /\ statClients' = statClients + 1
  /\ UNCHANGED <<chanMode, users, chans, cumode, userCount, statDetached>>

(***************************************************************************)
(* silc_server_kill_client (server_util.c, not under src/) on a remote    *)
(* client: remove it from its channels, stat.clients--, delete it from    *)
(* the cache.                                                             *)
(***************************************************************************)
KillClient(h) ==
  /\ RemoveFromChannels(h, chans[h])
  /\ statClients' = statClients - 1
  /\ entry' = [entry EXCEPT ![h] = NoEntry]
  /\ UNCHANGED <<chanMode, statDetached>>

(***************************************************************************)
(* RESUME_CLIENT announced by a server or router (the server side of     *)
(* silc_server_resume_client).  A client already RESUMED and not DETACHED *)
(* is killed; a client not DETACHED is ignored.  Otherwise DETACHED is   *)
(* cleared and RESUMED set; `owner' is where the packet's source server  *)
(* is found (global_list first).  When it is not found the handler stops *)
(* there; otherwise the entry is moved to local_list if this is a router *)
(* and the owner is in its cell (and not a router behind its primary     *)
(* route), and to global_list in every other case.                       *)
(***************************************************************************)
ResumeTarget(src, owner, ownerIsRouter, l) ==
  IF owner = "none" THEN l
  ELSE IF /\ IsRouter
          /\ owner = "local"
          /\ ~(src = "router" /\ ownerIsRouter)
       THEN "local"
       ELSE "global"

ResumeClientFromServer(src, id, owner, ownerIsRouter) ==
  \E c \in FindClientLG(id, TRUE) \ {Null}:
    \/ /\ entry[c].resumed
       /\ "detached" \notin entry[c].mode
       /\ KillClient(c)
    \/ /\ "detached" \in entry[c].mode
       /\ entry' = [entry EXCEPT
                      ![c].mode = @ \ {"detached"},
                      ![c].resumed = TRUE,
                      ![c].list = ResumeTarget(src, owner, ownerIsRouter, @)]
       /\ UNCHANGED <<chanMode, users, chans, cumode, userCount, statClients,
                      statDetached>>

(***************************************************************************)
(* SERVER_SIGNOFF for a server this node does not have.  A normal server  *)
(* then walks the list of Client IDs the router sent: each REGISTERED     *)
(* client found is removed from its channels and deleted from the cache  *)
(* (not kept as a zombie; it is taken off expired_clients), and           *)
(* stat.clients--.  The handler runs the list to completion with nothing *)
(* in between, so it is modelled one ID per step: the states it passes   *)
(* through are those of a run of one-ID notifies.  Server entries are not *)
(* modelled, so the branch for a known server (its clients removed by    *)
(* server.c) is not an action here.                                      *)
(***************************************************************************)
ServerSignoffClient(id) ==
  /\ ~IsRouter
  /\ \E c \in FindClientGL(id, TRUE) \ {Null}: KillClient(c)

(* silc_server_purge_expired_clients (server.c, not under src/): a       *)
(* zombie on expired_clients is deleted when its timeout fires.          *)
PurgeExpired(h) ==
  /\ h \in Live
  /\ ~entry[h].reg
  /\ entry' = [entry EXCEPT ![h] = NoEntry]
  /\ UNCHANGED <<chanMode, users, chans, cumode, userCount, statClients,
                 statDetached>>

-----------------------------------------------------------------------------
Next ==
  /\ UNCHANGED serverType
  /\ \/ \E src \in Sources, ch \in Channels, id \in ClientIds:
          \/ Join(src, ch, id)
          \/ \E s \in ClientIds \cup {ServerSender}, m \in SUBSET CUModes,
                key \in Keys:
               CumodeChange(src, ch, s, id, m, key)
     \/ \E src \in Sources, ch \in Channels,
          s \in ClientIds \cup {ServerSender}, fa, others \in BOOLEAN,
          keyArg \in KeyArgs:
          CmodeChange(src, ch, s, fa, others, keyArg)
     \/ \E id, id2 \in ClientIds : id # id2 /\ NickChange(id, id2)
     \/ \E ch \in Channels, id \in ClientIds:
          \/ Leave(ch, id)
          \/ \E k \in ClientIds : Kicked(ch, id, k)
     \/ \E id \in ClientIds:
          \/ Signoff(id)
          \/ \E k \in ClientIds \cup {ServerSender} : Killed(id, k)
          \/ \E m \in SUBSET UModes : UmodeChange(id, m)
          \/ ErrorNoSuchClient(id)
          \/ ServerSignoffClient(id)
          \/ \E src \in Sources : NewIdClient(src, id)
          \/ \E src \in Sources, owner \in {"none", "local", "global"},
                r \in BOOLEAN :
               ResumeClientFromServer(src, id, owner, r)
     \/ \E h \in Handles : PurgeExpired(h)

Spec == Init /\ [][Next]_vars

-----------------------------------------------------------------------------
TypeOK ==
  /\ entry \in [Handles -> Entry \cup {NoEntry}]
  /\ users \in [Channels -> SUBSET Handles]
  /\ chans \in [Handles -> SUBSET Channels]
  /\ cumode \in [Channels -> [Handles -> SUBSET CUModes]]
  /\ userCount \in [Channels -> Nat]
  /\ statClients \in Int
  /\ statDetached \in Int
  /\ serverType \in ServerTypes

(***************************************************************************)
(* The two indexes of the ChannelClientEntry relation agree (spec 3, 8):  *)
(* a client is in channel->user_list exactly when the channel is in       *)
(* client->channels, and every member is a live, REGISTERED cache entry:  *)
(* SIGNOFF, KILLED, the kill of a re-resumer, ERROR and the purge of      *)
(* zombies never leave a membership pointing at a zombie or a freed      *)
(* entry.                                                                 *)
(***************************************************************************)
MembershipConsistent ==
  \A ch \in Channels :
    /\ \A h \in Handles : h \in users[ch] <=> ch \in chans[h]
    /\ \A h \in users[ch] : h \in Live /\ entry[h].reg

(* channel->user_count, incremented by JOIN and decremented on removal,  *)
(* is the number of entries in channel->user_list.                       *)
UserCountMatches ==
  \A ch \in Channels : userCount[ch] = Cardinality(users[ch])

(* Every REGISTERED client is found by the ID lookup of the handlers:    *)
(* a later SIGNOFF, KILLED, LEAVE or UMODE_CHANGE for it reaches it.  No *)
(* run checks it now.  TLC finds it violated on a router by NEW_ID(c1),  *)
(* SIGNOFF(c1), NEW_ID(c2), NICK_CHANGE(c2 -> c1): NICK_CHANGE re-keys   *)
(* the live entry to the ID of the zombie SIGNOFF left in global_list.   *)
RegisteredFindable ==
  \A h \in Live : entry[h].reg => Null \notin FindClientGL(entry[h].id, TRUE)

(* stat.clients is the number of REGISTERED client entries. *)
StatClientsAccurate ==
  statClients = Cardinality({h \in Live : entry[h].reg})

(* On a router, stat.detached is the number of REGISTERED clients whose *)
(* mode has DETACHED.  No run checks it now; with ServerTypes =          *)
(* {"router"} TLC finds it violated by SIGNOFF after UMODE_CHANGE.       *)
StatDetachedAccurate ==
  IsRouter =>
    statDetached = Cardinality({h \in Live : entry[h].reg
                                             /\ "detached" \in entry[h].mode})

(***************************************************************************)
(* The founder public key is held only under FOUNDER_AUTH (spec 2), and a *)
(* router never keeps FOUNDER_AUTH without a founder key, whatever        *)
(* sequence of CMODE_CHANGE notifies its peers send: the CUMODE_CHANGE    *)
(* founder gate of a router relies on the key being there.               *)
(***************************************************************************)
FounderKeyConsistent ==
  \A ch \in Channels :
    /\ founderKey[ch] => founderAuth[ch]
    /\ IsRouter /\ founderAuth[ch] => founderKey[ch]
=============================================================================
