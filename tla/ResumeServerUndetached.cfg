\* A normal server resuming D for one connection while D's mode changes.
CONSTANTS
  ServerTypes = {"server"}
  a1 = a1
  a2 = a2
  a3 = a3
  Conns = {a1}
  None = None
  CounterBits <- MCCounterBits
SPECIFICATION Spec
PROPERTY ServerResumesOnlyDetached
\* Inputs run out once every connection is decided.
CHECK_DEADLOCK FALSE
