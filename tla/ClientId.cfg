\* silc_id_create_client_id: 8-bit rnd scaled to 3 bits.
CONSTANTS
  Kind = "client"
  RndBits <- MCRndBits
  Pending = Pending
  Fail = Fail
SPECIFICATION Spec
INVARIANT TypeOK
PROPERTIES RefinesIdAlloc Terminates
CHECK_DEADLOCK FALSE
