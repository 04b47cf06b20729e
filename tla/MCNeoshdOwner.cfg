\* Expected to be violated: an early return keeps the session attached.
CONSTANTS
  None = None
  MaxEpoch = 2
  Conns = {c1, c2}
  InitialAttachTimeout = 1
  SessionTimeout = 1
  AuthTtl = 2
  ResumeTtl = 2
  Retention = 1
  MaxTokens = 3
  MaxTime = 1
  MaxClockSteps = 0
SPECIFICATION Spec
SYMMETRY Symmetry
INVARIANT EndedHandlersOwnNothing
