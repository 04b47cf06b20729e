\* A client that falls behind the channel is taken for one whose shell has exited.
CONSTANTS
  None = None
  Conns = {c1, c2}
  ChannelCap = 2
  ReplayCap = 3
  MaxChunks = 3
SPECIFICATION Spec
\* Clients and the shell may stop for good.
CHECK_DEADLOCK FALSE
INVARIANT OverMeansShellExited
