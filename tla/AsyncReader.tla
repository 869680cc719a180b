----------------------------- MODULE AsyncReader -----------------------------
(***************************************************************************)
(* TAsyncInputProtocol for TAsyncBinaryProtocol<R> (binary_unsafe.rs      *)
(* 741-953): every read is an AsyncReadExt read_exact on the stream R,     *)
(* and every payload is copied into a freshly allocated Vec.               *)
(*                                                                         *)
(* The reader's only state is `pos`, the bytes it has consumed.  The      *)
(* stream is src = [data, ending]: the bytes the peer has sent so far,    *)
(* and whether the stream is still "open" or has been "closed" (end of    *)
(* stream or an I/O error; `?` turns either into one DecodeError).  A     *)
(* handler maps (pos, src) to [pos, val, err], where err is "none", a     *)
(* DecodeError kind, "Io", "Panic", or "Pending": the future cannot       *)
(* complete yet and the task is suspended until more bytes arrive.  A    *)
(* suspended handler resumes with the same outcome as a handler that     *)
(* starts once those bytes are there, so a handler is one step taken     *)
(* when it is not Pending.                                                *)
(***************************************************************************)
EXTENDS Integers, Sequences, ThriftBinary, MessageVersion

Res(pos, v, err) == [pos |-> pos, val |-> v, err |-> err]

Failed(x) == x.err # "none"

(* Plausible fault: a short read at end of stream taken as the value     *)
(* (`read` where `read_exact` is needed).                                  *)
ReadExactShort(pos, src, n) ==
  IF Len(src.data) - pos >= n
  THEN Res(pos + n, SubSeq(src.data, pos + 1, pos + n), "none")
  ELSE IF src.ending = "open" THEN Res(pos, << >>, "Pending")
  ELSE Res(Len(src.data), SubSeq(src.data, pos + 1, Len(src.data)), "none")

(* read_exact(n): completes once n bytes are available; when the stream  *)
(* closes first, the bytes that did arrive are consumed and lost, and    *)
(* the read fails.                                                        *)
ReadExact(pos, src, n) ==
  IF Len(src.data) - pos >= n
  THEN Res(pos + n, SubSeq(src.data, pos + 1, pos + n), "none")
  ELSE IF src.ending = "open" THEN Res(pos, << >>, "Pending")
  ELSE Res(Len(src.data), << >>, "Io")

(* read_u8, and read_i8 .. read_i64 / read_f64 (big-endian, signed).      *)
ReadByte(pos, src) ==
  LET x == ReadExact(pos, src, 1) IN IF Failed(x) THEN x ELSE Res(x.pos, x.val[1], "none")

ReadInt(pos, src, n) ==
  LET x == ReadExact(pos, src, n) IN IF Failed(x) THEN x ELSE Res(x.pos, FromBE(x.val), "none")

ReadI8(pos, src)     == ReadInt(pos, src, 1)
ReadI16(pos, src)    == ReadInt(pos, src, 2)
ReadI32(pos, src)    == ReadInt(pos, src, 4)
ReadI64(pos, src)    == ReadInt(pos, src, 8)
ReadDouble(pos, src) == ReadInt(pos, src, 8)
ReadUuid(pos, src)   == ReadExact(pos, src, 16)

ReadBool(pos, src) ==
  LET b == ReadI8(pos, src) IN IF Failed(b) THEN b ELSE Res(b.pos, b.val # 0, "none")

(* read_bytes_vec: the length `as usize`, vec![0; len], read_exact.  A    *)
(* negative length becomes a usize above isize::MAX and vec! panics with *)
(* a capacity overflow.  read_bytes, read_string and read_faststr are     *)
(* this read with a conversion of the Vec.                                *)
(* Plausible fault: the body read with `read` into the vec, so a stream *)
(* that ends early yields a short payload instead of an error.            *)
ReadBytesVecShort(pos, src) ==
  LET len == ReadI32(pos, src)
  IN IF Failed(len) THEN len
     ELSE IF len.val < 0 THEN Res(len.pos, << >>, "Panic")
     ELSE ReadExactShort(len.pos, src, len.val)

ReadBytesVec(pos, src) ==
  LET len == ReadI32(pos, src)
  IN IF Failed(len) THEN len
     ELSE IF len.val < 0 THEN Res(len.pos, << >>, "Panic")
     ELSE ReadExact(len.pos, src, len.val)

ReadBytes(pos, src)   == ReadBytesVec(pos, src)
ReadString(pos, src)  == ReadBytesVec(pos, src)
ReadFaststr(pos, src) == ReadString(pos, src)

(* read_byte then field_type_from_u8 / try_into.                          *)
ReadTType(pos, src) ==
  LET t == ReadByte(pos, src)
  IN IF Failed(t) \/ t.val \in TTypes THEN t ELSE Res(t.pos, 0, "InvalidData")

(* Plausible fault: the field id read for Stop as for any other type.    *)
ReadFieldBeginNoStop(pos, src) ==
  LET t == ReadTType(pos, src)
      id == ReadI16(t.pos, src)
  IN IF Failed(t) THEN t
     ELSE IF Failed(id) THEN id
     ELSE Res(id.pos, [type |-> t.val, id |-> id.val], "none")

ReadFieldBegin(pos, src) ==
  LET t == ReadTType(pos, src)
      id == ReadI16(t.pos, src)
  IN IF Failed(t) THEN t
     ELSE IF t.val = STOP THEN Res(t.pos, [type |-> STOP, id |-> 0], "none")
     ELSE IF Failed(id) THEN id
     ELSE Res(id.pos, [type |-> t.val, id |-> id.val], "none")

ReadListBegin(pos, src) ==
  LET t == ReadTType(pos, src)
      n == ReadI32(t.pos, src)
  IN IF Failed(t) THEN t
     ELSE IF Failed(n) THEN n
     ELSE Res(n.pos, [type |-> t.val, size |-> n.val], "none")

ReadSetBegin(pos, src) == ReadListBegin(pos, src)

(* Plausible fault: the value type read before the key type.             *)
ReadMapBeginSwapped(pos, src) ==
  LET v == ReadTType(pos, src)
      k == ReadTType(v.pos, src)
      n == ReadI32(k.pos, src)
  IN IF Failed(v) THEN v
     ELSE IF Failed(k) THEN k
     ELSE IF Failed(n) THEN n
     ELSE Res(n.pos, [ktype |-> k.val, vtype |-> v.val, size |-> n.val], "none")

ReadMapBegin(pos, src) ==
  LET k == ReadTType(pos, src)
      v == ReadTType(k.pos, src)
      n == ReadI32(v.pos, src)
  IN IF Failed(k) THEN k
     ELSE IF Failed(v) THEN v
     ELSE IF Failed(n) THEN n
     ELSE Res(n.pos, [ktype |-> k.val, vtype |-> v.val, size |-> n.val], "none")

(* read_i32, the header checks (MessageVersion), read_faststr, read_i32.  *)
ReadMessageBegin(pos, src) ==
  LET size == ReadI32(pos, src)
      h    == DecodeHeader(size.val)
      name == ReadFaststr(size.pos, src)
      seq  == ReadI32(name.pos, src)
  IN IF Failed(size) THEN size
     ELSE IF h.err # "none" THEN Res(size.pos, 0, h.err)
     ELSE IF Failed(name) THEN name
     ELSE IF Failed(seq) THEN seq
     ELSE Res(seq.pos, [type |-> h.type, name |-> name.val, seq |-> seq.val], "none")

=============================================================================
