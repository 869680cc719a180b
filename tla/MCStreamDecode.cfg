CONSTANTS
  Calls <- MCCalls
  MaxCalls = 2
  LengthKinds = {}

SPECIFICATION Spec

INVARIANT StreamDecodesWhatWasEncoded
PROPERTY DecodeTerminates

\* A decode ends after the message's last read or at its first error, and
\* the peer stops sending when its message is out.
CHECK_DEADLOCK FALSE
