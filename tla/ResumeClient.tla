---------------------------- MODULE ResumeClient ----------------------------
(***************************************************************************)
(* The client side of RESUME_CLIENT (silc_server_resume_client in         *)
(* src/apps/silcd/packet_receive.c, with its continuation                 *)
(* silc_server_command_resume_resolve): a newly connected client asks to *)
(* take over the session of a detached client D.                          *)
(*                                                                         *)
(* The handler suspends twice at most: on WHOIS, when D is unknown or its *)
(* state has to be resolved, and on GETKEY, when D's public key is       *)
(* missing.  It registers the continuation with the pending-command      *)
(* correlator (command.h declares it; command.c is not in the tree, so   *)
(* its register / fire-and-clear / timeout behaviour is taken from spec  *)
(* 4.6) and returns.  While it waits, other packets change D: another    *)
(* server announces that D resumed there, the router signs D off, the    *)
(* zombie is purged, and the waiting client may hang up.                 *)
(*                                                                         *)
(* One detached client D is modelled; the connections in Conns are the   *)
(* attempts to resume it, each holding the owner's key pair or another.  *)
(* D's local view is the record d; `registered' is also what the network *)
(* answers a WHOIS or GETKEY with.                                        *)
(***************************************************************************)
EXTENDS Integers, FiniteSets

CONSTANTS
  ServerTypes,  \* the node types to check: "server" (SILC_SERVER), "router"
  Conns,        \* client connections that send RESUME_CLIENT for D
  None,         \* resuming_client == NULL
  CounterBits   \* width of the unsigned counter stat.my_detached

ASSUME ServerTypes \subseteq {"server", "router"}
ASSUME None \notin Conns
ASSUME CounterBits \in Nat \ {0}

Cmds == {"WHOIS", "GETKEY"}
PendingRec == [cmd: Cmds, conn: Conns]
ConnStates == {"idle", "pending", "resumed", "closed"}

(* D as this node sees it.  known: in local_list or global_list;         *)
(* registered, resumed, resumeRes: the status bits REGISTERED, RESUMED,   *)
(* RESUME_RES; detached: SILC_UMODE_DETACHED; complete: nickname and      *)
(* channel memberships present; hasKey: data.public_key set; ours: the    *)
(* Client ID is based on this server's ID; guard: resuming_client.       *)
DView == [known: BOOLEAN, registered: BOOLEAN, detached: BOOLEAN,
          resumed: BOOLEAN, resumeRes: BOOLEAN, complete: BOOLEAN,
          hasKey: BOOLEAN, ours: BOOLEAN, localDetached: BOOLEAN,
          guard: Conns \cup {None}]

VARIABLES
  d,            \* the detached client entry
  conn,         \* Conns -> ConnStates: where each resume attempt stands
  keyOf,        \* Conns -> {"match","other"}: the key pair of the connection
  pending,      \* the correlator's registrations: SUBSET PendingRec
  standalone,   \* server->standalone: no router connection
  serverType,   \* server->server_type
  myDetached,   \* server->stat.my_detached
  newClient     \* Conns -> BOOLEAN: the connection registered with NEW_CLIENT,
                \* so its own Client ID was announced upstream

vars == <<d, conn, keyOf, pending, standalone, serverType, myDetached,
          newClient>>

IsServer == serverType = "server"

(* Decrement of an unsigned counter of CounterBits bits. *)
DecrNoWrap(x) == x - 1
Decr(x) == (x - 1) % (2^CounterBits)

-----------------------------------------------------------------------------
(* Outcomes of one run of the handler, given D's view e and the           *)
(* correlator's registrations pend at that point.                         *)

(* silc_server_disconnect_remote + silc_server_free_sock_user_data; goto  *)
(* out.  Nothing on D is undone, resuming_client included.               *)
Fail(c, e, pend) ==
  /\ conn' = [conn EXCEPT ![c] = "closed"]
  /\ d' = e
  /\ pending' = pend
  /\ UNCHANGED <<keyOf, standalone, serverType, myDetached, newClient>>

(* silc_server_command_pending(cmd, ident, resume_resolve, r); return. *)
Suspend(c, cmd, e, pend) ==
  /\ conn' = [conn EXCEPT ![c] = "pending"]
  /\ d' = e
  /\ pending' = pend \cup {[cmd |-> cmd, conn |-> c]}
  /\ UNCHANGED <<keyOf, standalone, serverType, myDetached, newClient>>

(* silc_server_query_client: finds a registered entry in either list. *)
Findable(e) == e.known /\ e.registered

(* The resolve flag of the handler. *)
NeedResolve(e) == (~e.detached \/ ~e.complete) /\ ~e.resumeRes

(* Resume succeeds: D takes over the connection's data, becomes a        *)
(* registered, resumed, local, non-detached client with an ID of ours;   *)
(* my_detached is decremented, resuming_client reset; the connection's   *)
(* own entry is deleted and D announced upstream.                        *)
ResumeCommit(c, e, pend) ==
  /\ d' = [e EXCEPT !.known = TRUE, !.registered = TRUE, !.resumed = TRUE,
                    !.resumeRes = FALSE, !.detached = FALSE, !.hasKey = TRUE,
                    !.complete = TRUE, !.ours = TRUE, !.localDetached = FALSE,
                    !.guard = None]
  /\ myDetached' = Decr(myDetached)
  /\ conn' = [conn EXCEPT ![c] = "resumed"]
  /\ pending' = pend
  /\ UNCHANGED <<keyOf, standalone, serverType, newClient>>

(* The key check, authentication and new-ID steps, once D is resolved.   *)
(* A connection with another key pair is refused; with the owner's key   *)
(* the signature verifies.  When D's ID is not ours a new one is created, *)
(* which can fail (the ID probe is exhausted).                           *)
ResumeAuth(c, e, pend) ==
  \/ /\ keyOf[c] # "match"
     /\ Fail(c, e, pend)
  \/ /\ keyOf[c] = "match"
     /\ ~e.ours
     /\ Fail(c, e, pend)
  \/ /\ keyOf[c] = "match"
     /\ ResumeCommit(c, e, pend)

(* After the resuming_client guard: resolve D's state, then its key. *)
ResumeChecks(c, e, pend) ==
  LET resolving == NeedResolve(e) /\ IsServer IN
  \/ /\ resolving /\ ~standalone
     /\ Suspend(c, "WHOIS", e, pend)
  \/ /\ resolving /\ standalone
     /\ Fail(c, e, pend)
  \/ /\ ~resolving /\ ~e.hasKey
     /\ IF IsServer /\ standalone THEN Fail(c, e, pend)
                                  ELSE Suspend(c, "GETKEY", e, pend)
  \/ /\ ~resolving /\ e.hasKey
     /\ ResumeAuth(c, e, pend)

ResumeLookupNoResumedCheck(c, e, pend) ==
  \/ /\ ~Findable(e)
     /\ IF standalone THEN Fail(c, e, pend) ELSE Suspend(c, "WHOIS", e, pend)
  \/ /\ Findable(e) /\ e.guard \notin {None, c}
     /\ Fail(c, e, pend)
  \/ /\ Findable(e) /\ e.guard \in {None, c}
     /\ ResumeChecks(c, [e EXCEPT !.guard = c], pend)

(* The handler from the top: look D up (resolving it when unknown),      *)
(* refuse a D that is already RESUMED or being resumed by another        *)
(* connection, and claim resuming_client.                                *)
ResumeLookup(c, e, pend) ==
  \/ /\ ~Findable(e)
     /\ IF standalone THEN Fail(c, e, pend) ELSE Suspend(c, "WHOIS", e, pend)
  \/ /\ Findable(e) /\ e.resumed
     /\ Fail(c, e, pend)
  \/ /\ Findable(e) /\ ~e.resumed /\ e.guard \notin {None, c}
     /\ Fail(c, e, pend)
  \/ /\ Findable(e) /\ ~e.resumed /\ e.guard \in {None, c}
     /\ ResumeChecks(c, [e EXCEPT !.guard = c], pend)

-----------------------------------------------------------------------------
(* silc_server_command_resume_resolve: the continuation.  A missing or   *)
(* failed reply closes the connection.  After WHOIS, D must be found      *)
(* registered and DETACHED, and is marked RESUME_RES; then the packet is  *)
(* processed again from the top.  After GETKEY nothing is re-checked      *)
(* here.                                                                   *)
ResumeResolve(c, cmd, ok, e, pend) ==
  \/ /\ ~ok
     /\ Fail(c, e, pend)
  \/ /\ ok /\ cmd = "WHOIS" /\ (~Findable(e) \/ ~e.detached)
     /\ Fail(c, e, pend)
  \/ /\ ok /\ cmd = "WHOIS" /\ Findable(e) /\ e.detached
     /\ ResumeLookup(c, [e EXCEPT !.resumeRes = TRUE], pend)
  \/ /\ ok /\ cmd = "GETKEY"
     /\ ResumeLookup(c, e, pend)

(* What the command reply handler stores before the pending callbacks    *)
(* run: a WHOIS reply adds or completes D's entry, a GETKEY reply stores  *)
(* D's public key.  The network answers only while D is registered.      *)
ReplyEffect(cmd, e) ==
  IF cmd = "WHOIS" THEN [e EXCEPT !.known = TRUE, !.complete = TRUE]
                   ELSE [e EXCEPT !.hasKey = TRUE]

-----------------------------------------------------------------------------
(* A client connection sends RESUME_CLIENT.  An authentication payload  *)
(* shorter than 128 bytes is refused before anything else.               *)
ReceiveResume(c) ==
  /\ conn[c] = "idle"
  /\ \/ Fail(c, d, pending)
     \/ ResumeLookup(c, d, pending)

(* The correlator fires the registration p with the reply: the reply is  *)
(* applied, the registration cleared, the continuation run.              *)
Reply(p) ==
  /\ p \in pending
  /\ \E ok \in IF d.registered THEN BOOLEAN ELSE {FALSE}:
       ResumeResolve(p.conn, p.cmd, ok,
                     IF ok THEN ReplyEffect(p.cmd, d) ELSE d,
                     pending \ {p})

TimeoutNoCallback(p) ==
  /\ p \in pending
  /\ pending' = pending \ {p}
  /\ UNCHANGED <<d, conn, keyOf, standalone, serverType, myDetached,
                 newClient>>

(* No reply came: the timeout runs the continuation with no reply. *)
Timeout(p) ==
  /\ p \in pending
  /\ ResumeResolve(p.conn, p.cmd, FALSE, d, pending \ {p})

(* The waiting client hangs up; its registration stays. *)
Disconnect(c) ==
  /\ conn[c] = "pending"
  /\ conn' = [conn EXCEPT ![c] = "closed"]
  /\ UNCHANGED <<d, keyOf, pending, standalone, serverType, myDetached,
                 newClient>>

(* NEW_CLIENT on the connection (silc_server_new_client).  Once idata is *)
(* REGISTERED the packet is ignored: after NEW_CLIENT, and after a resume, *)
(* when idata is D.  An unparsable packet, a missing username, a bad      *)
(* nickname, a hostname that disagrees with the resolved one or the key's, *)
(* or a failed Client ID creation disconnects the client.  Otherwise the  *)
(* entry is registered and its new ID sent to the router in NEW_ID.  A    *)
(* resume waiting for a reply does not stop it.                           *)
NewClient(c) ==
  /\ conn[c] \in {"idle", "pending"}
  /\ ~newClient[c]
  /\ \/ /\ conn' = [conn EXCEPT ![c] = "closed"]
        /\ UNCHANGED newClient
     \/ /\ newClient' = [newClient EXCEPT ![c] = TRUE]
        /\ UNCHANGED conn
  /\ UNCHANGED <<d, keyOf, pending, standalone, serverType, myDetached>>

-----------------------------------------------------------------------------
(* Packets about D from the network, handled meanwhile.                  *)

(* RESUME_CLIENT from a server: D resumed elsewhere.  Already RESUMED and *)
(* not DETACHED: D is killed ("killing both"), its local session closed. *)
(* Not DETACHED: ignored.  Otherwise the public key is dropped,         *)
(* DETACHED cleared and RESUMED set; then the packet's source server is  *)
(* looked up, and only when it is found is the entry moved to the new    *)
(* owner's list and local_detached cleared.                              *)
ResumedElsewhere ==
  /\ Findable(d)
  /\ \/ /\ d.resumed /\ ~d.detached
        /\ d' = [d EXCEPT !.known = FALSE, !.registered = FALSE]
        /\ conn' = [c \in Conns |-> IF conn[c] = "resumed" THEN "closed"
                                                           ELSE conn[c]]
     \/ /\ d.detached
        /\ \E ownerFound \in BOOLEAN:
             d' = [d EXCEPT !.detached = FALSE, !.resumed = TRUE,
                            !.hasKey = FALSE,
                            !.localDetached = IF ownerFound THEN FALSE ELSE @]
        /\ UNCHANGED conn
  /\ UNCHANGED <<keyOf, pending, standalone, serverType, myDetached,
                 newClient>>

(* UMODE_CHANGE of D, for D owned elsewhere: the mode is replaced by the *)
(* notify's; a mode with DETACHED also clears RESUMED.  RESUME_RES and   *)
(* the other status bits are left as they are.                          *)
UmodeChangeD(detached) ==
  /\ Findable(d)
  /\ ~d.localDetached
  /\ \A c \in Conns: conn[c] # "resumed"
  /\ d' = [d EXCEPT !.detached = detached,
                    !.resumed = IF detached THEN FALSE ELSE @]
  /\ UNCHANGED <<conn, keyOf, pending, standalone, serverType, myDetached,
                 newClient>>

(* SIGNOFF of D from the router, for D owned elsewhere: D becomes a      *)
(* zombie (REGISTERED cleared, mode 0).                                   *)
SignoffD ==
  /\ Findable(d)
  /\ ~d.localDetached
  /\ \A c \in Conns: conn[c] # "resumed"
  /\ d' = [d EXCEPT !.registered = FALSE, !.detached = FALSE]
  /\ UNCHANGED <<conn, keyOf, pending, standalone, serverType, myDetached,
                 newClient>>

(* The zombie is freed from expired_clients. *)
PurgeD ==
  /\ d.known /\ ~d.registered
  /\ d' = [d EXCEPT !.known = FALSE]
  /\ UNCHANGED <<conn, keyOf, pending, standalone, serverType, myDetached,
                 newClient>>

-----------------------------------------------------------------------------
(* D is any client a connection can name: detached or not, known here    *)
(* or not.  An unknown D has no local data; a detached D of ours that    *)
(* is known is counted in my_detached.                                   *)
InitD ==
  { e \in DView:
      /\ e.registered
      /\ ~e.resumeRes
      /\ e.guard = None
      /\ e.resumed => ~e.detached
      /\ ~e.known => ~e.complete /\ ~e.hasKey
      /\ e.localDetached <=> (e.known /\ e.detached /\ e.ours) }

Init ==
  /\ d \in InitD
  /\ conn = [c \in Conns |-> "idle"]
  /\ keyOf \in [Conns -> {"match", "other"}]
  /\ pending = {}
  /\ standalone \in BOOLEAN
  /\ serverType \in ServerTypes
  /\ myDetached = IF d.localDetached THEN 1 ELSE 0
  /\ newClient = [c \in Conns |-> FALSE]

Next ==
  \/ \E c \in Conns: ReceiveResume(c) \/ Disconnect(c) \/ NewClient(c)
  \/ \E p \in pending: Reply(p) \/ Timeout(p)
  \/ ResumedElsewhere
  \/ \E detached \in BOOLEAN: UmodeChangeD(detached)
  \/ SignoffD
  \/ PurgeD

(* The correlator's timeout task is scheduled with every registration;  *)
(* the scheduler runs due tasks, so a registration left waiting is       *)
(* eventually fired.  Replies may be lost and clients may stay.          *)
Fairness == \A p \in PendingRec: WF_vars(Timeout(p))

Spec == Init /\ [][Next]_vars /\ Fairness

-----------------------------------------------------------------------------
TypeOK ==
  /\ d \in DView
  /\ conn \in [Conns -> ConnStates]
  /\ keyOf \in [Conns -> {"match", "other"}]
  /\ pending \subseteq PendingRec
  /\ standalone \in BOOLEAN
  /\ serverType \in ServerTypes
  /\ myDetached \in 0..(2^CounterBits - 1)
  /\ newClient \in [Conns -> BOOLEAN]

(* At most one connection ever takes over D: the RESUMED check refuses   *)
(* a second resumer that arrives after the first has finished, even on a *)
(* router, where the un-detached D is not resolved again.                 *)
NoDoubleResume ==
  Cardinality({c \in Conns: conn[c] = "resumed"}) <= 1

(* A connection takes over D only while D is detached: the WHOIS check   *)
(* of resume_resolve and the RESUMED check must together refuse a D that *)
(* is active, or that resumed elsewhere while the handler was suspended. *)
ResumeOnlyDetached ==
  [][\A c \in Conns: conn[c] # "resumed" /\ conn'[c] = "resumed" => d.detached]_vars

(* The same for a normal server (SILC_SERVER), which resolves D again    *)
(* before a resume whenever D looks un-detached.  It fails: once a WHOIS  *)
(* reply has set RESUME_RES, the resolve is skipped, so a GETKEY          *)
(* continuation commits on a D that a UMODE_CHANGE has meanwhile made    *)
(* un-detached.                                                          *)
ServerResumesOnlyDetached ==
  [][IsServer => \A c \in Conns: conn[c] # "resumed" /\ conn'[c] = "resumed" => d.detached]_vars

(* Every suspended resume is eventually decided (resumed or closed),     *)
(* whether the reply comes, is lost, or the client hangs up.             *)
ResumeDecided ==
  \A c \in Conns: conn[c] = "pending" ~> conn[c] # "pending"

(* resuming_client names a connection whose resume is still in progress; *)
(* a stale value makes the handler refuse every later resumer of D.      *)
GuardNamesLiveResumer ==
  d.guard # None => conn[d.guard] = "pending"

(* stat.my_detached counts the clients detached on this server. *)
MyDetachedAccurate ==
  myDetached = IF d.localDetached THEN 1 ELSE 0

====
