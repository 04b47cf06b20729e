\* A client that resumes before neoshd has noticed the loss.
CONSTANTS
  None = None
  Absent = Absent
  Torn = Torn
  MaxEpoch = 1
  AuthTtl = 1
  ResumeTtl = 1
  Retention = 0
  MaxCommands = 1
  MaxLosses = 2
  MaxTime = 0
  MaxTyped = 0
SPECIFICATION Spec
\* Once the last command has ended nothing need happen.
CHECK_DEADLOCK FALSE
INVARIANT SameClientIsNotDenied
