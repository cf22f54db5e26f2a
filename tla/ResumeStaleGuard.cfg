CONSTANTS
  ServerTypes = {"server"}
  a1 = a1
  a2 = a2
  a3 = a3
  Conns <- MCConns
  None = None
  CounterBits <- MCCounterBits
SPECIFICATION Spec
INVARIANT GuardNamesLiveResumer
\* Inputs run out once every connection is decided.
CHECK_DEADLOCK FALSE
