\* The three list loops over well-formed, cut and padded packets.
CONSTANTS
  Kinds = {"notify", "newid", "newchannel"}
  NotifyBufSize = 4
  IdpSize = 6
  ChanBufSize = 10
  Packets <- MCPackets
  MaxIter = 6
SPECIFICATION Spec
PROPERTY WellFormedParsed
\* The handler returns when its loop ends; the model then has nothing to do.
CHECK_DEADLOCK FALSE
