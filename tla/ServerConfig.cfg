\* The connection blocks, the check, the lookups and the reference count.
CONSTANTS
  Sections = {"connparam", "client", "admin", "deny", "server", "router"}
  h1 = h1
  p1 = p1
  c1 = c1
  c2 = c2
  Hosts = {h1}
  ParamNames = {p1}
  Holders = {c1, c2}
  QueryPorts = {7, 9}
  MaxEvents = 9
  Nil = Nil
  Empty = Empty
  Star = Star
SPECIFICATION Spec
INVARIANT TypeOK
INVARIANT ConfigLifetime
INVARIANT IncomingRouterFound
\* silc_server_config_alloc returns (NULL or the object) and the object is
\* eventually freed; nothing runs after that.
CHECK_DEADLOCK FALSE
