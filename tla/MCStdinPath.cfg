\* Two connections whose tasks may take both workers; chunks larger than the
\* terminal's input queue.
CONSTANTS
  None = None
  Conns = {c1, c2}
  Workers = 2
  Size = 2
  Room = 1
  MaxChunks = 2
SPECIFICATION FairSpec
\* Clients and the shell may stop for good.
CHECK_DEADLOCK FALSE
INVARIANTS TypeOK ChunksAreWhole InputIsOrdered
PROPERTY NobodyStarves
