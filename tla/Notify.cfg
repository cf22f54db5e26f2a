\* NotifyNode as a normal SILC server and as a router (with cell servers
\* and a primary route).
CONSTANTS
  ServerTypes = {"server", "router"}
  h1 = h1  h2 = h2  h3 = h3
  c1 = c1  c2 = c2
  ch1 = ch1
  Handles <- MCHandles2
  ClientIds <- MCClientIds
  Channels <- MCChannels
  NoEntry = NoEntry
  Null = Null
  ServerSender = ServerSender
  StatBound = 3
SYMMETRY MCSymmetry
SPECIFICATION Spec
INVARIANT TypeOK MembershipConsistent UserCountMatches FounderKeyConsistent
\* The only dead ends are at StatBound: once the leaked counter reaches it,
\* the model refuses further client entries and nothing may remain to do.
CHECK_DEADLOCK FALSE
