\* Payload lengths and collection sizes lo, 2^31 + lo and 2^32 + lo, read
\* back by every payload reader and every collection header.
CONSTANTS
  Spans = {0, 1, 2}
  Rests = {0, 3}
  ZERO_COPY_THRESHOLD = 2
  Readers = {"bytes", "bytes_vec", "string", "faststr", "stream",
             "list_begin", "set_begin", "map_begin"}

SPECIFICATION Spec

INVARIANT LengthRoundTrips

\* A decode of one payload or header ends after its read.
CHECK_DEADLOCK FALSE
