CONSTANTS
  None = None
  MaxEpoch = 1
  Conns = {c1, c2}
  InitialAttachTimeout = 1
  SessionTimeout = 1
  AuthTtl = 2
  ResumeTtl = 1
  Retention = 1
  MaxTokens = 2
  MaxTime = 1
  MaxClockSteps = 0
SPECIFICATION Spec
SYMMETRY Symmetry
INVARIANTS TypeOK TimerMatchesOwnership HoldersOwn OwnersAuthenticated StopsForAReason
PROPERTIES NeverExpireAttached LateCleanupIsNoOp OverIsFinal ImplementsExclusiveSession
