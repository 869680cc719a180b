CONSTANTS
  Transport = "BytesMut"
  ZeroCopy = TRUE
  ZERO_COPY_THRESHOLD = 2
  Calls <- MCCalls
  MaxCalls = 3
  Preamble <- MCPreamble
  Leftover = {0, 2}

SPECIFICATION Spec

INVARIANTS
  StoresWithinReservation
  WireImageMatches
  LengthAgreement

\* An encode pass ends when the last call of the message is written.
CHECK_DEADLOCK FALSE
