\* Two frames each way; a unit of a payload can be misread as part of a length.
CONSTANTS
  None = None
  Base = 4
  MaxFrame = 5
  MaxFrames = 2
  MaxPayload = 2
  MaxStdout = 1
  Caps = {1, None}
SPECIFICATION FairSpec
\* The caller and neoshd may stop.
CHECK_DEADLOCK FALSE
INVARIANTS TypeOK FramesAreReported PostedIsReceived StdoutIsLossless
PROPERTY PayloadReadEnds
