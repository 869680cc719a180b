----------------------------- MODULE LongPayload -----------------------------
(***************************************************************************)
(* A bytes or string payload longer than i32::MAX.  The writers store its *)
(* length prefix as `b.len() as i32` (binary_unsafe.rs 267, 520, 641,     *)
(* 655) and never fail; the length pass counts 4 + b.len() in usize, so   *)
(* the write itself stays within the reservation, and a LinkedBytes       *)
(* writer splices such a payload by reference without copying it.        *)
(* What a reader then makes of the frame depends only on the prefix and   *)
(* on how many bytes follow it.                                            *)
(*                                                                         *)
(* TLC's integers stop at 2^31 - 1, so a payload length is the pair       *)
(* [hi, lo] standing for hi * 2^31 + lo, 0 <= lo < 2^31.  Payload bytes   *)
(* are not materialised: a read is decided by its length.                 *)
(***************************************************************************)
EXTENDS Integers, Sequences, ThriftBinary

CONSTANTS
  Spans,               \* values of hi: 0 (fits in i32), 1, 2 (above 4 GiB)
  Rests,               \* values of lo
  ZERO_COPY_THRESHOLD,
  Readers              \* the read_<x> calls the decoder may use for the payload,
                       \* or a read_<x>_begin of a collection of `len` elements

MinI32 == -2147483647 - 1

Length(hi, lo) == [hi |-> hi, lo |-> lo]

(* `b.len() as i32`: the low 32 bits, read as two's complement.           *)
AsI32(len) == IF len.hi % 2 = 1 THEN MinI32 + len.lo ELSE len.lo

(* `size as usize` of read_list_begin / read_set_begin / read_map_begin: *)
(* a negative i32 sign-extends to 2^64 + n, written Length(-1, n) (hi =  *)
(* -1 marks the top of the usize range, which TLC cannot spell).         *)
AsUsize(n) == IF n >= 0 THEN Length(0, n) ELSE Length(-1, n)

(* The collection headers: the declared size goes through write_i32(     *)
(* size as i32) and comes back through read_i32 and `size as usize`;     *)
(* nothing is read after it, so the header never fails.                 *)
SizeHeaders == {"list_begin", "set_begin", "map_begin"}

ReadSizeHeader(n) == [err |-> "none", len |-> AsUsize(n)]

(* What read_<x> returns for the prefix value n when `avail` (a length)   *)
(* bytes follow it: [err, len] with len the payload length it returns.   *)
(* `n as usize` of a negative n is above isize::MAX: split_to's bound    *)
(* assertion and vec!'s capacity check panic, and the unchecked slice of *)
(* read_string / read_faststr (index + len wraps) is undefined.           *)
Fits(n, avail) == avail.hi > 0 \/ n <= avail.lo

ReadOutcome(k, n, avail) ==
  LET ok == [err |-> "none", len |-> Length(0, n)]
      splitting == k \in {"bytes", "bytes_vec", "stream"}
                   \/ (k = "faststr" /\ (n < 0 \/ n >= ZERO_COPY_THRESHOLD))
  IN CASE k \in SizeHeaders  -> ReadSizeHeader(n)
       [] n < 0 /\ splitting  -> [err |-> "Panic", len |-> Length(0, 0)]
       [] n < 0               -> [err |-> "Undefined", len |-> Length(0, 0)]
       [] ~Fits(n, avail)     -> [err |-> IF splitting THEN "Panic" ELSE "Undefined",
                                  len |-> Length(0, 0)]
       [] OTHER               -> ok

VARIABLES
  len,     \* the payload's length
  reader,  \* the read_<x> of the decoder for this payload
  prefix,  \* the prefix bytes on the wire (empty before the write)
  out      \* what the read returned (empty before the read)

vars == << len, reader, prefix, out >>

Init ==
  /\ len \in {Length(h, l) : h \in Spans, l \in Rests}
  /\ reader \in Readers
  /\ prefix = << >>
  /\ out = << >>

(* write_bytes / write_string / write_faststr: the prefix, then the       *)
(* payload copied or spliced; write_<x>_begin: the size, as i32.          *)
Write ==
  /\ prefix = << >>
  /\ prefix' = BE(4, AsI32(len))
  /\ UNCHANGED << len, reader, out >>

(* The decoder's read of the payload, with the whole payload after it.   *)
Read ==
  /\ prefix # << >> /\ out = << >>
  /\ out' = << ReadOutcome(reader, FromBE(prefix), len) >>
  /\ UNCHANGED << len, reader, prefix >>

Next == Write \/ Read

Spec == Init /\ [][Next]_vars

-----------------------------------------------------------------------------
(* Round trip of a length (spec.md 8, "for every supported value         *)
(* decode(encode(v)) == v", and for maps "the declared size"; spec.md 6, *)
(* "i32 length + raw bytes"): a read of what write_bytes / write_string   *)
(* or write_<x>_begin produced returns the payload length or collection *)
(* size that was written, or the decode reports a DecodeError.           *)
LengthRoundTrips ==
  \A i \in DOMAIN out :
    \/ out[i].err = "none" /\ out[i].len = len
    \/ out[i].err \in {"InvalidData", "BadVersion", "Io"}

=============================================================================
