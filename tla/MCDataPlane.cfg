\* A channel a pump can fall behind on and a replay buffer that overflows.
CONSTANTS
  None = None
  Conns = {c1, c2}
  ChannelCap = 2
  ReplayCap = 2
  MaxChunks = 4
SPECIFICATION FairSpec
\* Clients and the shell may stop for good.
CHECK_DEADLOCK FALSE
INVARIANTS TypeOK LiveIsContiguous ReplayIsNotRepeated ReplayIsBounded
PROPERTY ExitReachesSubscribers
