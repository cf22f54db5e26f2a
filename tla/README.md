# TLA+ models of the SILC server protocol core

These modules model the protocol engine of `silcd` in `src/apps/silcd/`. The engine covers three things:

- the notify processor;
- the ID propagation handlers;
- RESUME_CLIENT, with the ID cache ("entity store") those handlers share.

TLC checks the modules. Every definition that models code is listed in `PROJECT.json` ("map") with the source lines it translates.

## 1. The system

### Parts and how they interact

| Part | Source | State it owns | Operations that change state |
|---|---|---|---|
| ID generator | `serverid.c` | none; it reads the client and channel caches | `silc_id_create_client_id` and `silc_id_create_channel_id` (probe loops). `silc_id_create_server_id` and `silc_id_is_valid_server_id` are pure |
| Entity store and records | `idlist.h` (with `idlist.c`, not in the repository) | the `local_list` and `global_list` caches of servers, clients and channels. Each `ClientEntry` has a status bitmask, `mode`, `router`, `channels`, `resuming_client` and `local_detached`. Each `ChannelEntry` has `mode`, `founder_key`, `user_list`, `user_count`, `global_users` and `disabled`. The `ChannelClientEntry` edge is stored in both `user_list` and `channels` | add, find by ID (with a `registered` filter), delete, and move between lists |
| Notify processor | `packet_receive.c` 27-1771 | the caches above, plus `server->stat` and `server->expired_clients` | one `case` per notify type: JOIN, LEAVE, SIGNOFF, TOPIC_SET, NICK_CHANGE, CMODE_CHANGE, CUMODE_CHANGE, INVITE, CHANNEL_CHANGE, SERVER_SIGNOFF, KICKED, KILLED, UMODE_CHANGE, BAN and ERROR. `silc_server_notify_list` loops over a packet of framed notifies |
| ID propagation | `packet_receive.c` 2107-3246 | the caches and the statistics | NEW_CLIENT, NEW_SERVER and NEW_ID (with the list variant); NEW_CHANNEL (with the list variant) |
| RESUME_CLIENT | `packet_receive.c` 3385-4077 | the detached `ClientEntry`, `resuming_client` and the statistics | the client side (authentication, suspension on WHOIS/GETKEY, taking over the old entry) and the server side (a peer announcing a resume) |
| Pending-command correlator | `command.h` (declarations only) | pending (command, ident) → callback registrations | register, fire-and-clear, timeout |
| Message and key relay | `packet_receive.c` 1779-2106, 3253-3384 | the channel key; otherwise none | forwarding of private messages, channel messages, command replies, key agreement and FTP |
| Configuration | `serverconfig.c` and `.h`, `silcd.h` | the configuration object: its entry lists, `config->tmp` and `refcount` | the `fetch_*` callbacks of the file parser, `silc_server_config_check`, the lookups of the connection code, and ref/unref/destroy (the spec puts parsing out of scope, and the core reads the result through the lookups) |

How the parts interact:

- One thread processes one packet at a time to completion (spec §5).
- Handlers interact through the shared caches and counters.
- Nodes interact by sending each other these packets. A server talks only to its router. A router talks to its cell servers and to its primary route.
- RESUME_CLIENT on the client side is the one handler that suspends. It registers with the correlator and runs again when the reply, or a timeout, arrives.

### Behaviours that make it hard

- **Zombies.** SIGNOFF and KILLED do not free a client. They keep it as a zombie on `expired_clients`: REGISTERED cleared and mode 0. Some lookups pass `registered = TRUE` and skip zombies. Others pass `FALSE`, or `server_type`, which is `FALSE` on a normal server.
- **Duplicate IDs.** `silc_idcache_add` (toolkit) refuses an ID the cache already holds, so NEW_ID and channel creation fail on a duplicate: NEW_ID sends a SIGNOFF back (2703-2708), NEW_CHANNEL drops the channel (3032-3035). `silc_idcache_update`, which NICK_CHANGE uses to re-key an entry, has no such check. So two entries under one ID arise only through a re-key, and which one a lookup then yields is up to the hash table.
- **Dual index.** The membership edge lives in two hash tables. Every teardown path must remove it from both.
- **Counters.** The statistics counters are updated inline, handler by handler. Several handlers clear the same mode bit.
- **Founder rights.** These depend on which connection a notify came from: a cell server, or the primary route.
- **Suspended resume.** A resume can be suspended while other packets change the entry it is resuming.
- **List framing.** The list packets are loops over length-prefixed records in fixed scratch buffers.

### Properties each part should have

- **ID generator.**
  - It returns an ID that is not in the probed lists.
  - It fails only when every value of the random field is taken.
  - It always returns.
- **Entity store.**
  - An ID is stored at most once (spec §3, §8).
  - Every registered client can be found by its ID.
- **Membership.**
  - The two indexes agree.
  - Members are live, registered entries.
  - `user_count` equals the size of `user_list`.
  - A channel has at most one founder, and founder grants from cell servers are gated.
- **Statistics.** `stat.clients` and `stat.detached` match the entries they count.
- **Resume.**
  - At most one resumer at a time.
  - A failed resume releases the guard.
  - A suspended resume re-validates when it runs again.
- **List framing.** Every loop terminates, and no copy exceeds its buffer.
- **Configuration.**
  - A file either fails to load or gives entries with the fields the lookups read.
  - Every router the server does not initiate to is found on any port.
  - The object is freed exactly when its last reference goes.

## 2. Modules

| Module | Models | State (VARIABLES) | Actions |
|---|---|---|---|
| `IdAlloc` | what an ID generator promises (spec §4.2): the abstract specification | `taken`, `answer` | `Alloc`: one atomic choice of a free ID, or `Fail` when none is free |
| `ServerId` | the probe loop of both generators in `serverid.c`. `Kind` selects client (8-bit `rnd`, `finding` starts FALSE) or channel (16-bit `rnd`, `finding` starts TRUE) | `taken`, `rnd`, `finding`, `result` | `ProbeFree` (break, return TRUE), `ProbeWrap` (return FALSE), `ProbeNext` (rnd++, plus the restart at 0 on the first collision) |
| `MCServerId` | `ServerId` with `RndBits = 3` | | |
| `NotifyNode` | one server or router processing untrusted inbound packets | `entry` (client cache slots: id, list, REGISTERED, mode {DETACHED, ROUTER_OPERATOR}, RESUMED), `users` (`user_list`), `chans` (`client->channels`), `cumode` (`chl->mode`), `userCount`, `founderAuth` (the FOUNDER_AUTH channel mode bit), `founderKey` (`channel->founder_key` set), `statClients`, `statDetached`, `serverType` | `Join` (`JoinKnown`, `JoinNewClient`), `Leave`, `Signoff`, `NickChange`, `CmodeChange`, `CumodeChange`, `Kicked`, `Killed`, `UmodeChange`, `ErrorNoSuchClient`, `ServerSignoffClient`, `NewIdClient`, `ResumeClientFromServer`, `PurgeExpired` |
| `MCNotifyNode` | `NotifyNode` with slots `h1..h3`, clients `c1, c2` and channel `ch1` | | |
| `ResumeClient` | the client side of RESUME_CLIENT (`silc_server_resume_client` for a client connection, and its continuation `silc_server_command_resume_resolve`), with the pending-command correlator | `d` (the detached client D as this node sees it), `conn` (each resuming connection: idle, pending, resumed or closed), `keyOf`, `pending` (the correlator's registrations), `standalone`, `serverType`, `myDetached`, `newClient` | `ReceiveResume`, `NewClient`, `Reply`, `Timeout`, `Disconnect`, and the packets about D that arrive meanwhile: `ResumedElsewhere`, `UmodeChangeD`, `SignoffD`, `PurgeD` |
| `MCResumeClient` | `ResumeClient` with connections `a1..a3` and an 8-bit `my_detached` | | |
| `ListFraming` | the framing loops of `silc_server_notify_list`, `silc_server_new_id_list` and `silc_server_new_channel_list` over a packet of bytes | `kind`, `pkt`, `off` (how far the buffer is pulled), `cap` (scratch buffer size), `out` (payloads handed over), `iter`, `status` | one step per loop iteration, and `LoopExit` |
| `ChannelIdReconcile` | a router and its cell servers agreeing on Channel IDs: NEW_CHANNEL from a cell server on the router (`silc_server_new_channel_process`), and CHANNEL_CHANGE from the router on the server (that `case` of `silc_server_notify_process`) | `rchan` (the router's channels by name), `schan` (each server's channels by name), `up` and `down` (the packet streams between each server and the router, as sequences) | `RecvNewChannel` (with `NewToRouter` and `KnownToRouter`), `RecvChannelChange` |
| `MCChannelIdReconcile` | two cell servers, two names, a 2-bit `rnd` | | |
| `ServerConfig` | the configuration object of `serverconfig.c`: ServerInfo with its Primary and Secondary sub-blocks, the six connection sections of the file (ConnectionParams, Client, Admin, Deny, ServerConnection, RouterConnection), the check, `find_router_conn` and the reference count | `phase`, `cur` (the open sub-block, the parser's position), `tmp` (`config->tmp`), `lists` (the entry list of each section), `serverInfo` (`config->server_info`: NULL, or the keypair loaded and the primary interface), `refcount`, `serverHolds` (the server's own reference), `ref` (each connection's `SilcServerConfigRef`), `events` | `Field` (one field callback of any section: `IsDouble`, `FieldFails`, `Store`), `EndBlock` (the `SILC_CONFIG_ARG_BLOCK` callback), `InfoField`, `InterfaceField`, `InterfaceEnd` and `InfoEnd` (the paths of `fetch_serverinfo`: a key line, an Ip or Port line, the end of Primary or Secondary, the end of ServerInfo), `EndOfFile` (the rest of `silc_server_config_alloc` with the check), `Ref`, `Unref`, `ServerDrop` |
| `MCServerConfig` | one host, one Params name and two connections | | |
| `MCListFraming` | scratch buffers scaled to 4, 6 and 10 bytes. The packets are up to two payloads followed by up to four junk bytes | | |

How `NotifyNode` corresponds to the code:

- **Actions.** Each action is one whole `case` of `silc_server_notify_process`, or one handler. Its guard is the conjunction of the checks that lead past the `goto out` and `break` exits. Those exits change nothing and are the specification's stuttering steps.
- **Inputs.** The source connection, the IDs, the mode bits and the founder-key argument are chosen with `\E` from small sets. Peers are untrusted and may send anything. A notify that arrives on a client connection is dropped, so the sources are server connections only.
- **Node type.** The node type is an initial choice held constant (`serverType`). One run covers a normal server and a router.
- **Lookups.** `FindClient` models `silc_idlist_find_client_by_id`. It comes from the spec (§4.1), because `idlist.c` is not in the repository. It returns the set of entries the hash table may yield, with non-registered ones mapped to `Null` when `registered` is set. `FindClientGL` and `FindClientLG` are the handlers' "global, then local" and "local, then global" patterns.
- **CMODE_CHANGE.**
  - The channel mode is abstracted to its FOUNDER_AUTH bit plus "some other bit changes" (`others`).
  - The founder-key argument is none, a valid key, or one that fails to decode (`KeyArgs`).
  - When the sender is a server, the handler checks the founder's key against the one in the packet. Whether the founder is foreign is a nondeterministic choice, because public keys are not modelled.
  - `CmodeSame` is the "mode unchanged" branch: on a normal server, the router's founder key is still stored.
- **SERVER_SIGNOFF.** Its client-list branch is modelled, one client ID per step, on a normal server.
- **Helpers from other files.** These are defined in files outside the repository, so they are modelled from the spec. The map marks them `spec_modelled`.
  - `RemoveFromChannels` stands for `silc_server_remove_from_one_channel` and `silc_server_remove_from_channels`. It removes the edge from both indexes and decrements `user_count`.
  - `KillClient` stands for `silc_server_kill_client`.
  - `PurgeExpired` stands for the purge of `expired_clients`.
  - `CmodeRights` stands for `silc_server_check_cmode_rights`.
  - `NickChange` stands for the ID replacement of `silc_idlist_replace_client_id`.
- **Modelled constant.** The lookup in JOIN passes `server->server_type` as `registered`. `SILC_SERVER` is 0 in the toolkit, so a normal server also finds zombies there, and then drops the JOIN because the client is not registered.

How `ResumeClient` corresponds to the code:

- **Outcomes.** One run of the handler ends in one of three ways:
  - `Fail`: disconnect and free the connection data;
  - `Suspend`: register a WHOIS or GETKEY continuation and return;
  - `ResumeCommit`: take the connection over into D.
- **Definitions.** `ResumeLookup`, `ResumeChecks` and `ResumeAuth` are the handler's checks in source order.
- **The correlator.** `Reply` fires a registration with the reply. `Timeout` runs it with none. Both come from `command.h` and spec §4.6, because `command.c` is not in the tree.
- **`NewClient`.** This is `silc_server_new_client` on a resuming connection. It is ignored once the connection data is REGISTERED. Otherwise it either disconnects (a parse, username, nickname, hostname or ID-creation failure) or registers the connection. It may arrive before a resume or while one waits. The resume handler never reads the registration.

What is abstracted:

- **Channels.**
  - Channel existence and creation are left out: the channel is always known.
  - A channel emptied by a removal is deleted in the real code. Here it stays, with no members and a count of 0, which is the state a re-created channel starts from.
  - TOPIC_SET, INVITE, BAN and CHANNEL_CHANGE change state that no modelled guard reads: the topic, the invite and ban lists, and channel IDs.
- **Data with no bearing on the properties.**
  - `global_users`, `disabled` and the public-key repository are left out.
  - So are relaying, logging and watcher lists. None of them is read by a modelled guard.
- **Killed clients.** KILLED of a client connected to this node (`client->connection` set) is not modelled. Every cache entry in `NotifyNode` is a remote client.
- **The expired list.** For the modelled entries, membership of `expired_clients` coincides with "not REGISTERED". So the list is represented by `reg = FALSE`.
- **Packet bytes.** `ListFraming` models only the bytes the loops read: the length fields. The contents of a payload are zero.

## 3. Runs

| Run | Config | Expect | What it shows |
|---|---|---|---|
| `client_id` | `ClientId.cfg` | pass (3,836 states) | Over every set of taken values and every random start, the client generator refines `IdAlloc` (`RefinesIdAlloc`) and always returns (`Terminates`) |
| `channel_reconcile` | `ChannelsRegistered.cfg` | violation of `ChannelsRegistered` | The exchange can settle with a channel never registered. The trace depends on TLC's search. With two workers it shows one server's two channels both given `<<"router", 3>>` by CHANNEL_CHANGE: the first re-announcement creates its channel, the second fails in the cache and is dropped, and the server keeps it unregistered. With one worker it shows the router holding `<<"router", 3>>`, the probe starting at 3 and failing although 0..2 are free, and no CHANNEL_CHANGE sent |
| `notify` | `Notify.cfg` | pass (about 56,000 states, under 2 minutes) | On a normal server and on a router: `MembershipConsistent`, `UserCountMatches` and `FounderKeyConsistent` |
| `server_stat_clients` | `ServerStatClients.cfg` | violation of `StatClientsAccurate` | JOIN of an unknown client creates a stub. Then ERROR(NO_SUCH_CLIENT_ID) deletes it without `stat.clients--` |
| `resume` | `Resume.cfg` | pass (120,208 states) | Two connections resume one client, on a server (standalone or not) and on a router, with NEW_CLIENT at any point and SIGNOFF, UMODE_CHANGE and RESUME_CLIENT about the client from the network. See `NoDoubleResume` and `ResumeDecided` below |
| `resume_stale_guard` | `ResumeStaleGuard.cfg` | violation of `GuardNamesLiveResumer` | A resume that fails after claiming `resuming_client` leaves it set. Every later resume of the client is refused |
| `resume_server_undetached` | `ResumeServerUndetached.cfg` | violation of `ServerResumesOnlyDetached` | A WHOIS reply sets RESUME_RES and the handler waits on GETKEY. A UMODE_CHANGE then makes the client un-detached. The GETKEY continuation skips the resolve because RESUME_RES is set, and commits |
| `router_resume_undetached` | `RouterResumeUndetached.cfg` | violation of `ResumeOnlyDetached` | A router skips the resolve step and resumes a client that is not detached |
| `resume_my_detached` | `ResumeMyDetached.cfg` | violation of `MyDetachedAccurate` | The resume of a client detached elsewhere decrements `my_detached` anyway, and it wraps. A resume announced by a server clears `local_detached` without decrementing |
| `list_framing` | `ListFraming.cfg` | pass (47,924 states) | A well-formed list is handed over exactly: every payload once, in order (`WellFormedParsed`, against the RECURSIVE reference `Frames`) |
| `server_config` | `ServerConfig.cfg` | pass (4,768,658 states, about 85 s) | Every file of up to 9 callbacks over ServerInfo (with Primary and Secondary) and the six connection sections, and then any order of connection refs and unrefs: `IncomingRouterFound` and `ConfigLifetime` |
| `list_framing_unsafe` | `ListFramingUnsafe.cfg` | violation of `IterationSafe` | A list of 1 to 3 bytes is read past its end, and a length of 0 never ends the loop |

`PROJECT.json` ("findings") explains each violation with its source line.

What the properties say:

- `RefinesIdAlloc`: the probe loop, observed at its return, is the abstract allocator. This is checked through `INSTANCE IdAlloc WITH answer <- result`.
- `MembershipConsistent`: `h \in users[ch] <=> ch \in chans[h]`, and every member is a live, registered entry. This covers every teardown path: SIGNOFF, KILLED, ERROR, SERVER_SIGNOFF, the kill of a re-resumer, and the purge.
- `UserCountMatches`: `user_count` equals the size of `user_list`.
- `FounderKeyConsistent`: a founder key is stored only under FOUNDER_AUTH. On a router, FOUNDER_AUTH always comes with a key, because the CUMODE founder gate at 975 compares against that key.
- `ChannelsRegistered`: a liveness property. The router and its cell servers eventually agree for good: every channel of every cell server is the router's channel of that name under the same ID, and no two router channels share an ID.
- `NoDoubleResume`: at most one connection ever takes D over.
- `ServerResumesOnlyDetached`: on a normal server, a connection takes D over only while D is detached. It fails (run `resume_server_undetached`): RESUME_RES, once set by a WHOIS reply, switches off the resolve that would catch an un-detached D.
- `ResumeDecided`: every suspended resume ends resumed or closed. This holds when the reply is lost and when the client hangs up.
- `WellFormedParsed` and `IterationSafe`: the list loops' framing, as above.
- `IncomingRouterFound`: in a configuration the server uses, `find_router_conn` finds an entry for the host of every RouterConnection without Initiator, whatever the remote port. This relies on the check clearing those ports (1461).
- `ConfigLifetime`: once returned, `refcount` equals the references held (the server's and every ref taken with `ref_ptr` set), and the object is freed exactly when that number reaches 0.

Each property of a passing run has a mutant in `PROJECT.json`: a plausible bug in a mapped definition, under which TLC finds that property violated.

### Bounds and why they are enough

- **`RndBits = 3`.** Eight values exercise every shape of the loop:
  - a free start;
  - the restart at 0;
  - the wrap;
  - the exhausted space.

  The loop's logic does not depend on the width.
- **`NotifyNode`: two or three slots, two client IDs, one channel.**
  - Two slots already allow one ID to have a zombie and a live entry.
  - Two IDs give a kicker, killer or mode sender distinct from its target.
  - `Notify.cfg` uses two slots, with symmetry over slots and IDs: both are addresses or opaque values that no guard compares with a constant.
- **`StatBound = 3`.** The leaking counters are unbounded in the code. `StatBound` caps their increments in the guards of `JoinNewClient`, `NewIdClient` and `UmodeChange`. The dead ends it creates are why the NotifyNode cfgs say `CHECK_DEADLOCK FALSE`. The real node always accepts another packet.
- **`ResumeClient`: two or three connections.**
  - Two connections give a resumer and a contender, which is what the guard, the RESUMED check and the correlator distinguish.
  - The violation runs use three.
  - `resume` uses two, because NEW_CLIENT multiplies each connection's states. There is no symmetry, since `ResumeDecided` is a liveness property.
- **`ChannelIdReconcile`: two servers, two names, `RndBits = 2`.**
  - Two names are needed for two channels to compete for one ID.
  - Four router IDs let a random start land on the top value.
  - Every initial state is allowed: any router channels with distinct IDs, any subset of names on each server, and any announcement order.
- **`ServerConfig`: one host, one Params name, `MaxEvents = 9`.**
  - A ServerInfo block the check accepts takes six callbacks: the two key lines, Ip, Port, the end of Primary and the end of ServerInfo. The three left fit a RouterConnection with host, port and block end, which is what `IncomingRouterFound` needs.
  - Files with no ServerInfo use all nine callbacks on the connection sections. That fits a Params block, a ServerConnection that uses it, and a RouterConnection.
  - They also fit a double field, an unknown Params name, an invalid port, and a backup replacing its own host.
  - One host is enough for every comparison the check and the lookup make: host against backup host, and host against `*`.
  - Two connections can hold references with and without `ref_ptr` while the server drops its own.
- **`CounterBits = 8`.** `my_detached` is 32 bits wide. 8 bits show the same wrap.
- **`ListFraming`.** Each length field reaches the scratch buffer's size and the packet's end, both in and past range. `MaxIter = 6` covers every well-formed packet of the model (two payloads) and cuts off a loop that consumes nothing.

### Fairness

- **`ServerId` and `ListFraming`.** `Spec` assumes `WF_vars(Next)`. Each loop is straight-line code in one handler that nothing can preempt (spec §5).
- **`ChannelIdReconcile`.** Weak fairness of receiving on each stream, in each direction. Packet streams are reliable and in order, and each node's single thread serves every connection (spec §5).
- **`ServerConfig`.** No fairness is assumed, and only safety is checked.
- **`NotifyNode`.** No fairness is assumed. Inbound packets are the environment's choice, and only safety is checked.
- **`ResumeClient`.** Weak fairness of `Timeout` for every registration. The correlator schedules a timeout task with each registration, and the scheduler runs due tasks. Replies, client packets and disconnects get no fairness: they may never come.

## 4. Not modelled, and why

- **Configuration, in part.** The General and Logging sections, the string fields of ServerInfo (name, type, admin, user, group, motd and pid file) and the algorithm lists only copy values. The secondary interfaces are appended to a list that nothing modelled reads. The registration of algorithms calls the crypto library. The lookups other than `find_router_conn` are first-match loops like it. The public-key repository lives in the toolkit.
- **Configuration bugs with no run.** `ServerConfig` reaches two load failures, but no violation run is free to state them:
  - the NULL reads in `silc_server_config_check` when ServerInfo or Primary is missing (1411, 1423);
  - the Port and Params lines that `table_admin` admits and `fetch_admin` answers with `SILC_CONFIG_EINTERNAL` (957).
  Both are listed as hazards.
- **`stat.detached` on a router.** `StatDetachedAccurate` stays in `NotifyNode`. TLC finds it violated with `ServerTypes = {"router"}`: NEW_ID, then UMODE_CHANGE(DETACHED), then SIGNOFF. The run that kept this check gave its slot to `server_config`. It is listed as a hazard (4015).
- **Duplicate client IDs through NICK_CHANGE.** `RegisteredFindable` stays in `NotifyNode`. TLC finds it violated on a router: NEW_ID(c1), SIGNOFF(c1), NEW_ID(c2), NICK_CHANGE(c2 -> c1) re-keys the live entry onto the zombie's ID. This also rests on `silc_idcache_update` in the toolkit not refusing the ID, so its run gave its slot to `resume_server_undetached`, which rests on code in the tree alone. It is listed as a hazard (488).
- **The SIGNOFF sent back on a refused NEW_ID.** `NewIdClient` models the refused add (2703-2708) as a step that changes nothing here. The SIGNOFF acts on the sender, which is not modelled (hazard 2680).
- **Message and key relay.** These forward packets. Their cryptography is outside TLC's reach.
- **The expired-client timer.** Its timing is not modelled: `PurgeExpired` may fire at any time, which covers every timing.
- **Some notify types.** TOPIC_SET, INVITE, BAN and CHANNEL_CHANGE are not modelled. They change only state that no modelled guard reads. TOPIC_SET was tried, and its topic-mode state made the notify run exceed five minutes.
- **The server cache.** NEW_SERVER, NEW_ID of a server, and SERVER_SIGNOFF of a known server (in `server.c`) are not modelled.
- **NEW_CHANNEL.** NEW_CHANNEL from a router connection, and the broadcast to a primary route, are not modelled: the router in `ChannelIdReconcile` is standalone.
- **The channel kind of `ServerId`.** Its probe loop is still in `ServerId`, but no run checks it there any more. It is checked as `ChannelIdProbe` inside `channel_reconcile`, which shows the early failure's effect on the network.
- **The router side of a registered resumer.** NEW_CLIENT announces the connection's ID upstream. A resume later deletes that entry without a SIGNOFF (3779-3784), so the router keeps an ID that no client holds. `ResumeClient` reaches this sequence, but the router's view is not modelled. It is listed as a hazard.

## 5. Plan for the remaining work

1. `ChannelIdReconcile` and `ServerConfig`: done.
2. The server cache in `NotifyNode`: NEW_SERVER and SERVER_SIGNOFF of a known server, with the `stat.servers` / `stat.cell_servers` counters (2380).
3. Local clients in `NotifyNode` (NEW_CLIENT), bringing in `stat.my_clients` and the SIGNOFF-to-local-client path (366).
4. `TwoNodes`: two `NotifyNode` instances, a router and a server, to check end to end the SIGNOFF sent back for a refused NEW_ID and the NICK_CHANGE re-key onto a zombie's ID.
