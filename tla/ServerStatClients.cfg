\* stat.clients on a normal server across JOIN stubs and ERROR(NO_SUCH_CLIENT_ID).
CONSTANTS
  ServerTypes = {"server"}
  h1 = h1  h2 = h2  h3 = h3
  c1 = c1  c2 = c2
  ch1 = ch1
  Handles <- MCHandles
  ClientIds <- MCClientIds
  Channels <- MCChannels
  NoEntry = NoEntry
  Null = Null
  ServerSender = ServerSender
  StatBound = 3
SYMMETRY MCSymmetry
SPECIFICATION Spec
INVARIANT StatClientsAccurate
CHECK_DEADLOCK FALSE
