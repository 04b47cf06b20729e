\* The hotkey is read before run_session listens for it.
CONSTANTS
  None = None
  MaxTyped = 3
  MaxChunk = 2
SPECIFICATION FairSpec
\* run_session returns once.
CHECK_DEADLOCK FALSE
PROPERTY HotkeyDetaches
