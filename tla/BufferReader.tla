---------------------------- MODULE BufferReader ----------------------------
(***************************************************************************)
(* TInputProtocol for TBinaryProtocol<&mut BytesMut>                      *)
(* (binary_unsafe.rs 955-1204): unchecked loads from a received buffer,   *)
(* with split_to() detaching payloads instead of copying them.            *)
(*                                                                         *)
(* The reader is one record r:                                            *)
(*   mem       the received bytes, absolute addresses 0..Len-1            *)
(*   trans     the BytesMut: data pointer (start) and len                 *)
(*   buf       base address of the raw window `buf`                       *)
(*   index     the cursor                                                 *)
(*   detached  ranges handed out by split_to() as Bytes / FastStr         *)
(*   hw        history: one past the highest address any load touched    *)
(* A handler maps r to [st |-> r', val |-> value, err |-> kind]; err is   *)
(* "none", a DecodeError kind, "Panic" (a checked assertion of BytesMut)  *)
(* or "Undefined" (an unchecked access the input drives out of bounds).   *)
(***************************************************************************)
EXTENDS Integers, Sequences, ThriftBinary, MessageVersion

CONSTANT ZERO_COPY_THRESHOLD

Uninit == -1

(* TBinaryProtocol::new(trans, buf, _) with buf over trans's bytes.      *)
NewReader(input) ==
  [mem |-> [a \in 0..(Len(input) - 1) |-> input[a + 1]],
   trans |-> [start |-> 0, len |-> Len(input)],
   buf |-> 0, index |-> 0, detached |-> << >>, hw |-> 0]

Ok(st, v)     == [st |-> st, val |-> v, err |-> "none"]
Fail(st, err) == [st |-> st, val |-> 0, err |-> err]

Byte(r, a) == IF a \in DOMAIN r.mem THEN r.mem[a] ELSE Uninit

(* An unchecked load of n bytes at base + index, advancing the cursor.   *)
Load(r, base, n) ==
  LET a == base + r.index
  IN Ok([r EXCEPT !.index = r.index + n,
                  !.hw = IF n > 0 /\ a + n > r.hw THEN a + n ELSE r.hw],
        [i \in 1..n |-> Byte(r, a + i - 1)])

(* Plausible fault: split_to() without first advancing trans past the    *)
(* bytes the cursor has consumed.                                         *)
SplitOffNoAdvance(r, len) ==
  LET start == r.trans.start
      rest  == r.trans.len
  IN IF len < 0 \/ len > rest THEN Fail(r, "Panic")
     ELSE Ok([r EXCEPT !.index = 0,
                       !.trans = [start |-> start + len, len |-> rest - len],
                       !.buf = start + len,
                       !.hw = IF len > 0 /\ start + len > r.hw THEN start + len ELSE r.hw],
             [i \in 1..len |-> Byte(r, start + i - 1)])

(* trans.advance(index); index = 0; split_to(len); buf re-derived from    *)
(* trans.as_mut_ptr().  advance and split_to assert their bounds; a       *)
(* negative i32 length cast `as usize` fails the assertion too.           *)
SplitOff(r, len) ==
  LET start == r.trans.start + r.index
      rest  == r.trans.len - r.index
  IN IF len < 0 \/ len > rest THEN Fail(r, "Panic")
     ELSE Ok([r EXCEPT !.index = 0,
                       !.trans = [start |-> start + len, len |-> rest - len],
                       !.buf = start + len,
                       !.hw = IF len > 0 /\ start + len > r.hw THEN start + len ELSE r.hw],
             [i \in 1..len |-> Byte(r, start + i - 1)])

-----------------------------------------------------------------------------
(* Scalars.                                                                *)

ReadByte(r) == LET x == Load(r, r.buf, 1) IN Ok(x.st, x.val[1])

ReadI8(r)  == LET x == Load(r, r.buf, 1) IN Ok(x.st, AsI8(x.val[1]))
ReadI16(r) == LET x == Load(r, r.buf, 2) IN Ok(x.st, FromBE(x.val))
ReadI32(r) == LET x == Load(r, r.buf, 4) IN Ok(x.st, FromBE(x.val))
ReadI64(r) == LET x == Load(r, r.buf, 8) IN Ok(x.st, FromBE(x.val))
ReadDouble(r) == ReadI64(r)    \* f64::from_bits of the same pattern

ReadUuid(r) == Load(r, r.trans.start, 16)   \* through trans, not buf

ReadBool(r) == LET x == ReadI8(r) IN Ok(x.st, x.val # 0)

(* field_type_from_u8 / try_into of a TType byte.                        *)
ReadTType(r) ==
  LET x == ReadByte(r)
  IN IF x.val \in TTypes THEN x ELSE Fail(x.st, "InvalidData")

-----------------------------------------------------------------------------
(* Payloads.                                                               *)

(* Copy len bytes out of the window (String / FastStr::new).             *)
CopyOut(r, len) ==
  IF len < 0 THEN Fail(r, "Undefined")   \* index + len as usize wraps
  ELSE Load(r, r.buf, len)

(* Records the range handed out by reference.                            *)
Detach(x) ==
  IF x.err # "none" THEN x
  ELSE LET s == x.st
       IN Ok([s EXCEPT !.detached = Append(s.detached,
                                           [lo |-> s.trans.start - Len(x.val), n |-> Len(x.val)])],
             x.val)

ReadBytes(r) ==
  LET x == ReadI32(r) IN Detach(SplitOff(x.st, x.val))

ReadBytesVec(r) ==
  LET x == ReadI32(r) IN SplitOff(x.st, x.val)   \* split, then copied into a Vec

ReadString(r) ==
  LET x == ReadI32(r) IN CopyOut(x.st, x.val)

(* The length is cast `as usize` before the test, so a negative length   *)
(* counts as huge and goes to split_to, which panics.                      *)
ReadFaststr(r) ==
  LET x == ReadI32(r)
  IN IF x.val < 0 \/ x.val >= ZERO_COPY_THRESHOLD THEN Detach(SplitOff(x.st, x.val))
     ELSE CopyOut(x.st, x.val)

-----------------------------------------------------------------------------
(* Headers.                                                                *)

(* Plausible fault: the field id read for Stop as for any other type.    *)
ReadFieldBeginNoStop(r) ==
  LET t == ReadTType(r)
  IN IF t.err # "none" THEN t
     ELSE LET id == ReadI16(t.st) IN Ok(id.st, [type |-> t.val, id |-> id.val])

ReadFieldBegin(r) ==
  LET t == ReadTType(r)
  IN IF t.err # "none" THEN t
     ELSE IF t.val = STOP THEN Ok(t.st, [type |-> STOP, id |-> 0])
     ELSE LET id == ReadI16(t.st) IN Ok(id.st, [type |-> t.val, id |-> id.val])

ReadListBegin(r) ==
  LET t == ReadTType(r)
  IN IF t.err # "none" THEN t
     ELSE LET n == ReadI32(t.st) IN Ok(n.st, [type |-> t.val, size |-> n.val])

ReadSetBegin(r) == ReadListBegin(r)

ReadMapBegin(r) ==
  LET k == ReadTType(r)
      v == ReadTType(k.st)
  IN IF k.err # "none" THEN k
     ELSE IF v.err # "none" THEN v
     ELSE LET n == ReadI32(v.st) IN Ok(n.st, [ktype |-> k.val, vtype |-> v.val, size |-> n.val])

ReadMessageBegin(r) ==
  LET size == ReadI32(r)
      h    == DecodeHeader(size.val)
      name == ReadFaststr(size.st)
      seq  == ReadI32(name.st)
  IN IF h.err # "none" THEN Fail(size.st, h.err)
     ELSE IF name.err # "none" THEN name
     ELSE Ok(seq.st, [type |-> h.type, name |-> name.val, seq |-> seq.val])

=============================================================================
