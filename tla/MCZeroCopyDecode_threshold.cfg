CONSTANTS
  ZeroCopy = TRUE
  ZERO_COPY_THRESHOLD = 2
  Calls <- MCCalls
  MaxCalls = 2

SPECIFICATION Spec

INVARIANT CopiesBelowThreshold

\* A decode ends after the message's last read or at its first error.
CHECK_DEADLOCK FALSE
