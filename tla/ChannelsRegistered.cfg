\* Two cell servers announcing two channel names to a standalone router.
CONSTANTS
  s1 = s1  s2 = s2
  n1 = n1  n2 = n2
  Servers <- MCServers
  Names <- MCNames
  RndBits = 2
  NoChan = NoChan
SPECIFICATION Spec
PROPERTY ChannelsRegistered
\* The exchange ends when every queue is empty; the router then waits.
CHECK_DEADLOCK FALSE
