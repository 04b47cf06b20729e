\* A connect and a later resume; resume tokens that expire in between.
CONSTANTS
  None = None
  Absent = Absent
  Torn = Torn
  MaxEpoch = 1
  AuthTtl = 1
  ResumeTtl = 1
  Retention = 0
  MaxCommands = 2
  MaxLosses = 2
  MaxTime = 1
  MaxTyped = 3
SPECIFICATION FairSpec
\* Once the last command has ended nothing need happen.
CHECK_DEADLOCK FALSE
INVARIANTS TypeOK LiveSessionIsCached  AuthFailsOnlyLate InputLossIsBounded
PROPERTY CommandsEnd
