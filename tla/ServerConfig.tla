---------------------------- MODULE ServerConfig ----------------------------
(***************************************************************************)
(* The server configuration object of src/apps/silcd/serverconfig.c: the  *)
(* connection blocks the parser hands to the fetch_* callbacks, the        *)
(* checks and defaults of silc_server_config_alloc, the lookups of the     *)
(* connection code, and the reference count that keeps a configuration   *)
(* alive while connections use it.                                        *)
(*                                                                         *)
(* The toolkit parser (silc_config_main, not in the tree) calls a block's *)
(* callback once per field and once more with SILC_CONFIG_ARG_BLOCK when *)
(* the sub-block ends, and stops at the first non-zero return.  `cur' is *)
(* the parser's position: the section whose sub-block is open.  All       *)
(* sections share one scratch entry, config->tmp.  A field's value is a   *)
(* member of a small set: a host name or the empty string, a port, the    *)
(* outcome of loading a public key file, a Params name.  ServerInfo and   *)
(* its Primary and Secondary sub-blocks are parsed as fetch_serverinfo    *)
(* does; the sections General, Logging and the cipher lists are not      *)
(* modelled.                                                              *)
(***************************************************************************)
EXTENDS Integers, Sequences, FiniteSets

CONSTANTS
  Sections,     \* the connection sections parsed: "connparam", "client",
                \* "admin", "deny", "server", "router"
  Hosts,        \* host names written in the file
  ParamNames,   \* names of Params blocks
  Holders,      \* the SilcServerConfigRef structs of connections
  QueryPorts,   \* remote ports of incoming router connections
  MaxEvents,    \* model bound: callbacks delivered by the parser
  Nil, Empty, Star  \* NULL, the empty string "", and "*"

ASSUME Sections \subseteq {"connparam", "client", "admin", "deny", "server", "router"}
ASSUME {Nil, Empty, Star} \cap (Hosts \cup ParamNames) = {}

(* The port values: 0 and 65536 fail the range check of fetch_router. *)
PortVals == {0, 7, 65536}
ValidPort(p) == p > 0 /\ p <= 65535

VARIABLES
  phase,        \* "parse", "failed" (parser error), "crash" (NULL read in
                \* silc_server_config_check), "rejected" (check failed),
                \* "live" (returned to the server), "freed"
  cur,          \* the section whose sub-block is open, or "none"
  tmp,          \* config->tmp: the entry being filled, or Nil
  lists,        \* lists[k]: the entries appended for section k, in order
  serverInfo,   \* config->server_info: Nil, or the keys loaded and the
                \* primary interface (Nil or its Ip and Port)
  refcount,     \* config->refcount
  serverHolds,  \* the server's own reference (refcount = 1 of alloc)
  ref,          \* ref[h]: "none", "null" (taken with ref_ptr NULL) or "set"
  events        \* callbacks so far (bounded by MaxEvents)

vars == <<phase, cur, tmp, lists, serverInfo, refcount, serverHolds, ref, events>>

(* One record for every section's entry; a section uses some fields.     *)
(* silc_calloc zeroes a new entry.                                        *)
NewEntry == [host |-> Nil, port |-> 0, pass |-> FALSE, pk |-> FALSE,
             param |-> Nil, initiator |-> FALSE, backup |-> FALSE,
             bip |-> Nil, reason |-> Nil, name |-> Nil]

Entry == [host: Hosts \cup {Nil, Empty, Star}, port: 0 .. 65535,
          pass: BOOLEAN, pk: BOOLEAN, param: ParamNames \cup {Nil},
          initiator: BOOLEAN, backup: BOOLEAN, bip: Hosts \cup {Nil, Star},
          reason: {Nil, "set"}, name: ParamNames \cup {Nil}]

(* The fields of each section's table that the model distinguishes.      *)
(* "number" stands for the integer fields of Params, which no check reads; *)
(* Admin's user and nick are matched like its host and left out, as are  *)
(* Client's publickeydir and the backup port, local and dynamic fields of *)
(* RouterConnection, which no check or modelled lookup reads.              *)
FieldsOf(k) ==
  CASE k = "connparam" -> {"name", "number"}
    [] k = "client" -> {"host", "passphrase", "publickey", "params"}
    [] k = "admin" -> {"host", "passphrase", "publickey", "port", "params"}
    [] k = "deny" -> {"host", "reason"}
    [] k = "server" -> {"host", "passphrase", "publickey", "params", "backup"}
    [] k = "router" -> {"host", "port", "passphrase", "publickey", "params",
                        "initiator", "backuphost"}

ValsOf(f) ==
  CASE f \in {"host", "backuphost"} -> Hosts \cup {Empty}
    [] f = "name" -> ParamNames \cup {Empty}
    [] f = "port" -> PortVals
    [] f = "publickey" -> {"ok", "bad"}  \* silc_pkcs_load_public_key result
    [] f = "params" -> ParamNames
    [] f \in {"initiator", "backup"} -> BOOLEAN
    [] f \in {"passphrase", "reason", "number"} -> {"set"}

(* SilcServerConfigServerInfo as the model keeps it: whether the keypair *)
(* was loaded and the primary interface.  Secondary interfaces are        *)
(* appended to a list nothing checked here reads; the name, type, admin,  *)
(* user, group, motd and pid file strings are left out.                   *)
Interface == [ip: Hosts \cup {Nil}, port: 0 .. 65535]
NewServerInfo == [pub |-> FALSE, priv |-> FALSE, primary |-> Nil]
ServerInfo == [pub: BOOLEAN, priv: BOOLEAN, primary: Interface \cup {Nil}]

(* The fields of table_serverinfo and of table_serverinfo_c (Primary and  *)
(* Secondary) the model distinguishes, with the outcomes of loading the   *)
(* key files: the private key file can also have unsafe permissions.      *)
InfoFields == {"publickey", "privatekey"}
InfoVals(f) == IF f = "publickey" THEN {"ok", "bad"} ELSE {"ok", "perm", "bad"}
Interfaces == {"primary", "secondary"}
InterfaceFields == {"ip", "port"}
InterfaceVals(f) == IF f = "ip" THEN Hosts ELSE PortVals

-----------------------------------------------------------------------------
(* CONFIG_IS_DOUBLE: the fields a second occurrence of which is EDOUBLE.  *)
(* The public key is checked only in ServerConnection and RouterConnection.*)
IsDouble(k, f, t) ==
  CASE f = "host" -> t.host # Nil
    [] f = "passphrase" -> t.pass
    [] f = "publickey" -> k \in {"server", "router"} /\ t.pk
    [] f = "params" -> t.param # Nil
    [] f = "name" -> t.name # Nil
    [] f = "reason" -> t.reason # Nil
    [] f = "backuphost" -> t.bip # Nil
    [] OTHER -> FALSE

(* my_find_param: a Params block is found by name among those already    *)
(* appended to config->conn_params.                                      *)
ParamDefined(n) == \E i \in DOMAIN lists["connparam"] : lists["connparam"][i].name = n

(* The fields fetch_admin has a branch for; it answers the Port and     *)
(* Params of table_admin with SILC_CONFIG_EINTERNAL.                      *)
Handled(k, f) == k = "admin" => f \in {"host", "passphrase", "publickey"}

(* The errors of a field: EINTERNAL for a field without a branch, and    *)
(* EPRINTLINE for a key file that does not load, an unknown Params name,  *)
(* a port outside 1..65535.                                               *)
FieldFails(k, f, v) ==
  \/ ~Handled(k, f)
  \/ f = "publickey" /\ v = "bad"
  \/ f = "params" /\ ~ParamDefined(v)
  \/ f = "port" /\ ~ValidPort(v)

(* An empty host is NULL in Client and Admin (matches every host), "*" in *)
(* Deny and ServerConnection, and kept as "" in RouterConnection.         *)
HostValue(k, v) ==
  IF v # Empty THEN v
  ELSE CASE k \in {"client", "admin"} -> Nil
         [] k \in {"deny", "server"} -> Star
         [] k = "router" -> Empty

Store(k, f, v, t) ==
  CASE f = "host" -> [t EXCEPT !.host = HostValue(k, v)]
    [] f = "port" -> [t EXCEPT !.port = v]
    [] f = "passphrase" -> [t EXCEPT !.pass = TRUE]
    [] f = "publickey" -> [t EXCEPT !.pk = TRUE]
    [] f = "params" -> [t EXCEPT !.param = v]
    [] f = "name" -> [t EXCEPT !.name = IF v = Empty THEN Nil ELSE v]
    [] f = "initiator" -> [t EXCEPT !.initiator = v]
    [] f = "backup" -> [t EXCEPT !.backup = v]
    [] f = "backuphost" -> [t EXCEPT !.bip = IF v = Empty THEN Star ELSE v,
                                     !.backup = TRUE]
    [] f = "reason" -> [t EXCEPT !.reason = v]
    [] f = "number" -> t

(* A parser error ends silc_config_main; silc_server_config_alloc then    *)
(* destroys the half-filled object (refcount 1 -> 0) and returns NULL.    *)
ParseError ==
  /\ phase' = "failed"
  /\ tmp' = Nil
  /\ refcount' = 0
  /\ serverHolds' = FALSE

(* A field of section k: the fetch_* callback allocates tmp if needed,    *)
(* rejects a double or failing value (freeing tmp), or stores the value.  *)
Field(k, f, v) ==
  /\ phase = "parse"
  /\ cur \in {k, "none"}
  /\ events < MaxEvents
  /\ LET t == IF tmp = Nil THEN NewEntry ELSE tmp IN
     IF IsDouble(k, f, t) \/ FieldFails(k, f, v)
     THEN ParseError
     ELSE /\ tmp' = Store(k, f, v, t)
          /\ UNCHANGED <<phase, refcount, serverHolds>>
  /\ cur' = k
  /\ events' = events + 1
  /\ UNCHANGED <<lists, serverInfo, ref>>

(* EMISSFIELDS: the field a section's entry must have at the block end. *)
Missing(k, t) ==
  \/ k = "connparam" /\ t.name = Nil
  \/ k = "deny" /\ t.reason = Nil
  \/ k \in {"server", "router"} /\ t.host = Nil

(* The end of a sub-block (SILC_CONFIG_ARG_BLOCK).  Client allocates tmp  *)
(* first, so an empty Client block appends an all-NULL entry; the other   *)
(* sections discard an empty block.  A complete entry is appended to its  *)
(* list (Params get their defaults, which no check reads) and tmp reset.  *)
EndBlock(k) ==
  /\ phase = "parse"
  /\ cur \in {k, "none"}
  /\ events < MaxEvents
  /\ LET t == IF tmp = Nil /\ k = "client" THEN NewEntry ELSE tmp IN
     \/ /\ t = Nil
        /\ UNCHANGED <<phase, tmp, lists, refcount, serverHolds>>
     \/ /\ t # Nil
        /\ Missing(k, t)
        /\ ParseError
        /\ UNCHANGED lists
     \/ /\ t # Nil
        /\ ~Missing(k, t)
        /\ lists' = [lists EXCEPT ![k] = Append(@, t)]
        /\ tmp' = Nil
        /\ UNCHANGED <<phase, refcount, serverHolds>>
  /\ cur' = "none"
  /\ events' = events + 1
  /\ UNCHANGED <<serverInfo, ref>>

-----------------------------------------------------------------------------
(* fetch_serverinfo allocates config->server_info at its first call.     *)
Info == IF serverInfo = Nil THEN NewServerInfo ELSE serverInfo

(* A key field of ServerInfo: a second one is EDOUBLE, a key file that    *)
(* does not load is EPRINTLINE, a private key file others can read is     *)
(* ESILENT; all end the parse.                                            *)
InfoField(f, v) ==
  /\ phase = "parse"
  /\ cur \in {"serverinfo", "none"}
  /\ events < MaxEvents
  /\ \/ /\ Info[IF f = "publickey" THEN "pub" ELSE "priv"] \/ v # "ok"
        /\ ParseError
        /\ UNCHANGED serverInfo
     \/ /\ ~Info[IF f = "publickey" THEN "pub" ELSE "priv"] /\ v = "ok"
        /\ serverInfo' = [Info EXCEPT ![IF f = "publickey" THEN "pub" ELSE "priv"] = TRUE]
        /\ UNCHANGED <<phase, tmp, refcount, serverHolds>>
  /\ cur' = "serverinfo"
  /\ events' = events + 1
  /\ UNCHANGED <<lists, ref>>

(* An Ip or Port of a Primary or Secondary sub-block: tmp is allocated as *)
(* an interface; a second Ip is EDOUBLE, a port outside 1..65535          *)
(* EPRINTLINE.                                                            *)
InterfaceField(b, f, v) ==
  /\ phase = "parse"
  /\ cur \in {b, "serverinfo", "none"}
  /\ events < MaxEvents
  /\ LET t == IF tmp = Nil THEN NewEntry ELSE tmp IN
     IF (f = "ip" /\ t.host # Nil) \/ (f = "port" /\ ~ValidPort(v))
     THEN ParseError
     ELSE /\ tmp' = IF f = "ip" THEN [t EXCEPT !.host = v]
                    ELSE [t EXCEPT !.port = v]
          /\ UNCHANGED <<phase, refcount, serverHolds>>
  /\ serverInfo' = Info
  /\ cur' = b
  /\ events' = events + 1
  /\ UNCHANGED <<lists, ref>>

(* EMISSFIELDS at the end of an interface sub-block: no Ip or no Port.   *)
InterfaceMissing(b, t) == IF t = Nil THEN TRUE ELSE t.host = Nil \/ t.port = 0

(* The end of Primary: a second Primary is EPRINTLINE, an incomplete one *)
(* EMISSFIELDS; otherwise tmp becomes server_info->primary.  The end of  *)
(* an empty Secondary is accepted; a complete one is appended to the      *)
(* secondary list (not kept), an incomplete one is EMISSFIELDS.           *)
InterfaceEnd(b) ==
  /\ phase = "parse"
  /\ cur \in {b, "serverinfo", "none"}
  /\ events < MaxEvents
  /\ \/ /\ b = "primary"
        /\ Info.primary # Nil \/ InterfaceMissing(b, tmp)
        /\ ParseError
        /\ serverInfo' = Info
     \/ /\ b = "primary"
        /\ Info.primary = Nil /\ ~InterfaceMissing(b, tmp)
        /\ serverInfo' = [Info EXCEPT !.primary = [ip |-> tmp.host, port |-> tmp.port]]
        /\ tmp' = Nil
        /\ UNCHANGED <<phase, refcount, serverHolds>>
     \/ /\ b = "secondary"
        /\ tmp = Nil \/ ~InterfaceMissing(b, tmp)
        /\ tmp' = Nil
        /\ serverInfo' = Info
        /\ UNCHANGED <<phase, refcount, serverHolds>>
     \/ /\ b = "secondary"
        /\ tmp # Nil /\ InterfaceMissing(b, tmp)
        /\ ParseError
        /\ serverInfo' = Info
  /\ cur' = "serverinfo"
  /\ events' = events + 1
  /\ UNCHANGED <<lists, ref>>

(* The end of the ServerInfo block: EMISSFIELDS without both keys. *)
InfoEnd ==
  /\ phase = "parse"
  /\ cur \in {"serverinfo", "none"}
  /\ events < MaxEvents
  /\ \/ /\ ~(Info.pub /\ Info.priv)
        /\ ParseError
     \/ /\ Info.pub /\ Info.priv
        /\ UNCHANGED <<phase, tmp, refcount, serverHolds>>
  /\ serverInfo' = Info
  /\ cur' = "none"
  /\ events' = events + 1
  /\ UNCHANGED <<lists, ref>>

-----------------------------------------------------------------------------
(* silc_server_config_check, the RouterConnection conditions: the first  *)
(* block may be a backup only if ServerConnections exist, and a backup   *)
(* must not replace its own host.                                         *)
RoutersSane(rs, ss) ==
  /\ ~(rs # <<>> /\ rs[1].backup /\ ss = <<>>)
  /\ \A i \in DOMAIN rs : rs[i].backup => rs[i].host # rs[i].bip

(* ... and if one ServerConnection is a backup, all must be. *)
ServersSane(ss) ==
  (\E i \in DOMAIN ss : ss[i].backup) => \A i \in DOMAIN ss : ss[i].backup

(* A mutant of ResetPorts: the check only warns and keeps the Port. *)
ResetPortsKept(rs) == rs

(* The check clears the Port of a router we do not initiate to. *)
ResetPorts(rs) ==
  [i \in DOMAIN rs |->
     IF ~rs[i].initiator /\ rs[i].port # 0 THEN [rs[i] EXCEPT !.port = 0]
     ELSE rs[i]]

(* silc_config_main returned 0 at the end of the file.  The check reads   *)
(* server_info->public_key after finding server_info NULL, and            *)
(* primary->server_ip after finding primary NULL: both are NULL reads.    *)
(* Otherwise a failed check destroys the object, and a passing one gets   *)
(* its defaults and is returned with refcount 1.                          *)
EndOfFile ==
  /\ phase = "parse"
  /\ cur = "none"
  /\ lists' = [lists EXCEPT !["router"] = ResetPorts(@)]
  /\ LET sane == /\ serverInfo.pub /\ serverInfo.priv
                 /\ serverInfo.primary.ip # Nil
                 /\ RoutersSane(lists["router"], lists["server"])
                 /\ ServersSane(lists["server"])
     IN
     \/ /\ IF serverInfo = Nil THEN TRUE ELSE serverInfo.primary = Nil
        /\ phase' = "crash"
        /\ UNCHANGED <<refcount, serverHolds>>
     \/ /\ serverInfo # Nil /\ serverInfo.primary # Nil
        /\ sane
        /\ phase' = "live"
        /\ UNCHANGED <<refcount, serverHolds>>
     \/ /\ serverInfo # Nil /\ serverInfo.primary # Nil
        /\ ~sane
        /\ phase' = "rejected"
        /\ refcount' = 0
        /\ serverHolds' = FALSE
  /\ UNCHANGED <<cur, tmp, serverInfo, ref, events>>

-----------------------------------------------------------------------------
(* silc_server_config_destroy: one reference less; the object is freed   *)
(* when none is left.                                                     *)
Destroy ==
  /\ refcount' = refcount - 1
  /\ phase' = IF refcount - 1 > 0 THEN phase ELSE "freed"

(* A mutant of Ref: the count is raised whether ref_ptr is set or not. *)
RefNoPtrCheck(h, withPtr) ==
  /\ phase = "live"
  /\ serverHolds
  /\ ref[h] = "none"
  /\ ref' = [ref EXCEPT ![h] = IF withPtr THEN "set" ELSE "null"]
  /\ refcount' = refcount + 1
  /\ UNCHANGED <<phase, cur, tmp, lists, serverInfo, serverHolds, events>>

(* silc_server_config_ref by a connection taking the server's current    *)
(* configuration: with ref_ptr NULL nothing is recorded or counted.      *)
Ref(h, withPtr) ==
  /\ phase = "live"
  /\ serverHolds
  /\ ref[h] = "none"
  /\ ref' = [ref EXCEPT ![h] = IF withPtr THEN "set" ELSE "null"]
  /\ refcount' = IF withPtr THEN refcount + 1 ELSE refcount
  /\ UNCHANGED <<phase, cur, tmp, lists, serverInfo, serverHolds, events>>

(* A mutant of Unref: destroys whatever ref_ptr holds. *)
UnrefNoPtrCheck(h) ==
  /\ ref[h] # "none"
  /\ Destroy
  /\ ref' = [ref EXCEPT ![h] = "none"]
  /\ UNCHANGED <<cur, tmp, lists, serverInfo, serverHolds, events>>

(* silc_server_config_unref when the connection is freed: destroys only  *)
(* through a ref with ref_ptr set.                                        *)
Unref(h) ==
  /\ ref[h] # "none"
  /\ IF ref[h] = "set" THEN Destroy ELSE UNCHANGED <<refcount, phase>>
  /\ ref' = [ref EXCEPT ![h] = "none"]
  /\ UNCHANGED <<cur, tmp, lists, serverInfo, serverHolds, events>>

(* The server drops its own reference (a new configuration replaces this *)
(* one, or shutdown) with silc_server_config_destroy.                    *)
ServerDrop ==
  /\ serverHolds
  /\ phase = "live"
  /\ Destroy
  /\ serverHolds' = FALSE
  /\ UNCHANGED <<cur, tmp, lists, serverInfo, ref, events>>

-----------------------------------------------------------------------------
(* silc_string_match of a configured host against a connection's host.   *)
HostMatch(pattern, h) == pattern = Star \/ pattern = h

(* silc_server_config_find_router_conn: the first RouterConnection whose  *)
(* host matches and whose Port, when both ports are set, is the port.    *)
(* Its index, or 0 for NULL.                                              *)
FindRouterConn(host, port) ==
  LET rs == lists["router"]
      ok == {i \in DOMAIN rs :
               /\ HostMatch(rs[i].host, host)
               /\ ~(port # 0 /\ rs[i].port # 0 /\ rs[i].port # port)}
  IN IF ok = {} THEN 0 ELSE CHOOSE i \in ok : \A j \in ok : i <= j

-----------------------------------------------------------------------------
(* silc_server_config_alloc: a zeroed object with refcount 1. *)
Init ==
  /\ phase = "parse"
  /\ cur = "none"
  /\ tmp = Nil
  /\ lists = [k \in Sections |-> <<>>]
  /\ serverInfo = Nil
  /\ refcount = 1
  /\ serverHolds = TRUE
  /\ ref = [h \in Holders |-> "none"]
  /\ events = 0

Next ==
  \/ \E k \in Sections :
       \/ \E f \in FieldsOf(k) : \E v \in ValsOf(f) : Field(k, f, v)
       \/ EndBlock(k)
  \/ \E f \in InfoFields : \E v \in InfoVals(f) : InfoField(f, v)
  \/ \E b \in Interfaces :
       \/ \E f \in InterfaceFields : \E v \in InterfaceVals(f) :
            InterfaceField(b, f, v)
       \/ InterfaceEnd(b)
  \/ InfoEnd
  \/ EndOfFile
  \/ \E h \in Holders :
       \/ \E withPtr \in BOOLEAN : Ref(h, withPtr)
       \/ Unref(h)
  \/ ServerDrop

Spec == Init /\ [][Next]_vars

-----------------------------------------------------------------------------
TypeOK ==
  /\ phase \in {"parse", "failed", "crash", "rejected", "live", "freed"}
  /\ cur \in Sections \cup Interfaces \cup {"serverinfo", "none"}
  /\ tmp \in Entry \cup {Nil}
  /\ lists \in [Sections -> Seq(Entry)]
  /\ serverInfo \in ServerInfo \cup {Nil}
  /\ refcount \in 0 .. (1 + Cardinality(Holders))
  /\ serverHolds \in BOOLEAN
  /\ ref \in [Holders -> {"none", "null", "set"}]
  /\ events \in 0 .. MaxEvents

(* The references the object is counted for: the server's and every     *)
(* connection ref taken with ref_ptr set.                                *)
Holding == (IF serverHolds THEN 1 ELSE 0) + Cardinality({h \in Holders : ref[h] = "set"})

(* Reference counting of the configuration (silc_server_config_ref,      *)
(* _unref, _destroy): once returned, the object counts exactly the       *)
(* references held, and it is freed when, and only when, the last one is *)
(* dropped, so no connection ever uses a freed configuration.            *)
ConfigLifetime ==
  phase \in {"live", "freed"} =>
    /\ refcount = Holding
    /\ (phase = "freed" <=> Holding = 0)

(* An incoming connection from a router we do not initiate to is         *)
(* accepted whatever its source port: in a configuration the server      *)
(* uses, find_router_conn finds a RouterConnection for the host of every *)
(* such block, Port line or not (the check clears those ports).          *)
IncomingRouterFound ==
  phase = "live" =>
    \A i \in DOMAIN lists["router"], p \in QueryPorts :
      LET r == lists["router"][i] IN
      (~r.initiator /\ r.host \in Hosts) => FindRouterConn(r.host, p) # 0

====
