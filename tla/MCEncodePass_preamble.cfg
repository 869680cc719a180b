CONSTANTS
  Transport = "LinkedBytes"
  ZeroCopy = TRUE
  ZERO_COPY_THRESHOLD = 2
  Calls <- MCCalls
  MaxCalls = 2
  Preamble <- MCFramePreamble
  Leftover = {0}

SPECIFICATION Spec

INVARIANT WireImageMatches

\* An encode pass ends when the last call of the message is written.
CHECK_DEADLOCK FALSE
