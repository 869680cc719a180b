CONSTANTS
  Transport = "LinkedBytes"
  ZeroCopy = TRUE
  ZERO_COPY_THRESHOLD = 2
  Calls <- MCCalls
  MaxCalls = 2
  Preamble <- MCPreamble
  Leftover = {0, 2}

SPECIFICATION Spec

PROPERTY ImplementsLossyCodec

\* The composition ends when the decoder has read the whole message.
CHECK_DEADLOCK FALSE
