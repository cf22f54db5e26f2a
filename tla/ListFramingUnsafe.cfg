\* The three list loops against packets whose length fields lie.
CONSTANTS
  Kinds = {"notify", "newid", "newchannel"}
  NotifyBufSize = 4
  IdpSize = 6
  ChanBufSize = 10
  Packets <- MCPackets
  MaxIter = 6
SPECIFICATION Spec
PROPERTY IterationSafe
\* The handler returns when its loop ends; the model then has nothing to do.
CHECK_DEADLOCK FALSE
