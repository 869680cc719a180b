---------------------------- MODULE ChainedWriter ----------------------------
(***************************************************************************)
(* TOutputProtocol for TBinaryProtocol<&mut LinkedBytes>                  *)
(* (binary_unsafe.rs 456-740): unchecked stores into the reserved tail of *)
(* a LinkedBytes (see RawWindow), with a zero-copy splice for large bytes *)
(* and faststr payloads.  i16, i32, i64, double and uuid are stored       *)
(* through trans.bytes_mut(); byte, i8, the field header and copied       *)
(* payloads through buf.  Every handler is an operator from writer state  *)
(* to writer state, composed of the calls it makes.                       *)
(***************************************************************************)
EXTENDS Integers, Sequences, SequencesExt, ThriftBinary, RawWindow

CONSTANTS ZeroCopy, ZERO_COPY_THRESHOLD

-----------------------------------------------------------------------------
(* Primitive stores.                                                       *)

WriteByte(s, b) == PutBuf(s, << b >>)

WriteI8(s, i)   == PutBuf(s, BE(1, i))
WriteI16(s, i)  == PutTrans(s, BE(2, i))
WriteI32(s, i)  == PutTrans(s, BE(4, i))
WriteI64(s, i)  == PutTrans(s, BE(8, i))
WriteDouble(s, bits) == PutTrans(s, BE(8, bits))
WriteUuid(s, u) == PutTrans(s, u)

(* The zero-copy branch: advance_mut(index) commits the cursor's bytes,   *)
(* index = 0, insert() splits the BytesMut's initialised prefix off as a  *)
(* segment and appends the payload by reference, and buf is re-derived    *)
(* from bytes_mut().as_mut_ptr(), the start of what split() left.        *)
(* Plausible fault: the cursor's bytes are not committed (no             *)
(* advance_mut(index)) before insert() splits the BytesMut.              *)
SpliceNoAdvance(s, p) ==
  LET n     == s.tail.len
      start == s.tail.start + n
  IN [s EXCEPT !.index = 0,
               !.chain = s.chain \o << [ref |-> FALSE, lo |-> s.tail.start, n |-> n, data |-> << >>],
                                       [ref |-> TRUE, lo |-> 0, n |-> Len(p), data |-> p] >>,
               !.tail  = [start |-> start, len |-> 0],
               !.buf   = start]

Splice(s, p) ==
  LET n     == s.tail.len + s.index
      start == s.tail.start + n
  IN [s EXCEPT !.index = 0,
               !.chain = s.chain \o << [ref |-> FALSE, lo |-> s.tail.start, n |-> n, data |-> << >>],
                                       [ref |-> TRUE, lo |-> 0, n |-> Len(p), data |-> p] >>,
               !.tail  = [start |-> start, len |-> 0],
               !.buf   = start]

-----------------------------------------------------------------------------
(* Handlers of TOutputProtocol.                                            *)

WriteFieldBegin(s, t, id) == PutBuf(s, << t >> \o BE(2, id))

WriteFieldStop(s) == WriteByte(s, STOP)

WriteBool(s, b) == WriteI8(s, IF b THEN 1 ELSE 0)

(* Plausible fault: a strict comparison with the threshold.              *)
WriteBytesStrict(s, b) ==
  LET s1 == WriteI32(s, Len(b))
  IN IF ZeroCopy /\ Len(b) > ZERO_COPY_THRESHOLD THEN Splice(s1, b) ELSE PutBuf(s1, b)

WriteBytes(s, b) ==
  LET s1 == WriteI32(s, Len(b))
  IN IF ZeroCopy /\ Len(b) >= ZERO_COPY_THRESHOLD THEN Splice(s1, b) ELSE PutBuf(s1, b)

WriteFaststr(s, p) ==
  LET s1 == WriteI32(s, Len(p))
  IN IF ZeroCopy /\ Len(p) >= ZERO_COPY_THRESHOLD THEN Splice(s1, p) ELSE PutBuf(s1, p)

WriteString(s, p) == PutBuf(WriteI32(s, Len(p)), p)

WriteBytesVec(s, p) == PutBuf(WriteI32(s, Len(p)), p)

WriteListBegin(s, et, size) == WriteI32(WriteByte(s, et), size)

WriteSetBegin(s, et, size) == WriteI32(WriteByte(s, et), size)

WriteMapBegin(s, kt, vt, size) == WriteI32(WriteByte(WriteByte(s, kt), vt), size)

WriteMessageBegin(s, type, name, seq) ==
  WriteI32(WriteFaststr(WriteI32(s, VERSION_1_I32 + type), name), seq)

=============================================================================
