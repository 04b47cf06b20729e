\* One run of an attached client, three keys in chunks of one to three.
CONSTANTS
  None = None
  MaxTyped = 3
  MaxChunk = 3
SPECIFICATION FairSpec
\* run_session returns once.
CHECK_DEADLOCK FALSE
INVARIANTS TypeOK DetachIsNotDisconnect OkIsHonest StdinIsFaithful
PROPERTY LostIsNoticed
