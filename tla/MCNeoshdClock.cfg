\* One connection and a wall clock that is set back twice.
CONSTANTS
  None = None
  MaxEpoch = 2
  Conns = {c1}
  InitialAttachTimeout = 2
  SessionTimeout = 2
  AuthTtl = 2
  ResumeTtl = 2
  Retention = 1
  MaxTokens = 2
  MaxTime = 3
  MaxClockSteps = 2
SPECIFICATION FairSpec
PROPERTIES OverStopsServer LostHandlersEnd UnownedSessionEnds
