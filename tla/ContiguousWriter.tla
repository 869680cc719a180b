--------------------------- MODULE ContiguousWriter ---------------------------
(***************************************************************************)
(* TOutputProtocol for TBinaryProtocol<&mut BytesMut>                     *)
(* (binary_unsafe.rs 203-454): unchecked stores into one flat reserved    *)
(* region (see RawWindow; the chain stays empty).  Every payload is       *)
(* copied, whatever zero_copy says.  i16, i32, i64 and double are stored  *)
(* through `self.trans` (the BytesMut, from its data pointer); byte, i8,  *)
(* uuid, the field header and payloads through `self.buf`.                *)
(***************************************************************************)
EXTENDS Integers, Sequences, SequencesExt, ThriftBinary, RawWindow

WriteByte(s, b) == PutBuf(s, << b >>)

WriteI8(s, i)   == PutBuf(s, BE(1, i))
WriteI16(s, i)  == PutTrans(s, BE(2, i))
WriteI32(s, i)  == PutTrans(s, BE(4, i))
WriteI64(s, i)  == PutTrans(s, BE(8, i))
WriteDouble(s, bits) == PutTrans(s, BE(8, bits))
WriteUuid(s, u) == PutBuf(s, u)          \* through buf, unlike LinkedBytes

(* Plausible fault: the field id stored as an i32.                        *)
WriteFieldBeginWide(s, t, id) == PutBuf(s, << t >> \o BE(4, id))

(* Plausible fault: the field id stored little-endian.                    *)
WriteFieldBeginLE(s, t, id) == PutBuf(s, << t >> \o Reverse(BE(2, id)))

WriteFieldBegin(s, t, id) == PutBuf(s, << t >> \o BE(2, id))

WriteFieldStop(s) == WriteByte(s, STOP)

WriteBool(s, b) == WriteI8(s, IF b THEN 1 ELSE 0)

(* write_bytes, write_string, write_faststr and write_bytes_vec: the      *)
(* length through trans, then copy_nonoverlapping into buf.               *)
WriteCopied(s, p) == PutBuf(WriteI32(s, Len(p)), p)

WriteBytes(s, b)    == WriteCopied(s, b)
WriteString(s, p)   == WriteCopied(s, p)
WriteFaststr(s, p)  == WriteCopied(s, p)
WriteBytesVec(s, p) == WriteCopied(s, p)

WriteListBegin(s, et, size) == WriteI32(WriteByte(s, et), size)

WriteSetBegin(s, et, size) == WriteI32(WriteByte(s, et), size)

WriteMapBegin(s, kt, vt, size) == WriteI32(WriteByte(WriteByte(s, kt), vt), size)

WriteMessageBegin(s, type, name, seq) ==
  WriteI32(WriteFaststr(WriteI32(s, VERSION_1_I32 + type), name), seq)

=============================================================================
