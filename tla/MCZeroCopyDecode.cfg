CONSTANTS
  ZeroCopy = TRUE
  ZERO_COPY_THRESHOLD = 2
  Calls <- MCCalls
  MaxCalls = 3

SPECIFICATION Spec

INVARIANTS
  LoadsWithinBuffer
  DecodesWhatWasEncoded

\* A decode ends after the message's last read or at its first error.
CHECK_DEADLOCK FALSE
