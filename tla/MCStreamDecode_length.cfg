\* The peer sends a message whose bytes/string length prefix is negative.
CONSTANTS
  Calls <- MCCalls
  MaxCalls = 2
  LengthKinds = {"negative"}
SPECIFICATION Spec
INVARIANT NoPanic
\* A decode ends when its call sequence ends.
CHECK_DEADLOCK FALSE
