------------------------------ MODULE RawWindow ------------------------------
(***************************************************************************)
(* The state both output protocols share (TBinaryProtocol, binary_unsafe  *)
(* .rs 18-47): a transport, the raw window `buf` the caller carved out of *)
(* it, and the cursor `index`.  The writer is one record:                 *)
(*   mem    the transport's allocation, absolute addresses 0..Len-1; a    *)
(*          store beyond it is lost (it is undefined behaviour in code)   *)
(*   tail   the BytesMut written into: data pointer (start) and len       *)
(*   buf    base address of the window `buf`                              *)
(*   index  the cursor                                                    *)
(*   chain  segments a LinkedBytes has been handed, in order (empty for   *)
(*          a plain BytesMut)                                             *)
(*   hw     history: one past the highest address any store touched      *)
(* Stores go through one of two bases, exactly as the code addresses     *)
(* them: `self.buf[index..]` or `self.trans[index..]` (for a LinkedBytes  *)
(* `self.trans.bytes_mut()[index..]`).                                    *)
(***************************************************************************)
EXTENDS Integers, Sequences, SequencesExt, FiniteSets

Uninit == -1

(* TBinaryProtocol::new over a LinkedBytes whose BytesMut already holds  *)
(* `head` and has `alloc` more bytes reserved; the caller's window starts *)
(* right after the initialised bytes (as_mut_ptr() + len()).             *)
NewWriter(head, alloc) ==
  [mem   |-> [a \in 0..(Len(head) + alloc - 1) |->
                IF a < Len(head) THEN head[a + 1] ELSE Uninit],
   tail  |-> [start |-> 0, len |-> Len(head)],
   buf   |-> Len(head),
   index |-> 0,
   chain |-> << >>,
   hw    |-> Len(head)]

(* The address range of the tail allocation.                               *)
Capacity(s) == Cardinality(DOMAIN s.mem)

(* n bytes of the allocation from address a (Uninit outside it).          *)
Span(s, a, n) ==
  [i \in 1..n |-> IF a + i - 1 \in DOMAIN s.mem THEN s.mem[a + i - 1] ELSE Uninit]

(* An unchecked store of `bytes` at base + index, advancing the cursor.   *)
Store(s, base, bytes) ==
  LET a == base + s.index
      n == Len(bytes)
  IN [s EXCEPT !.mem   = [x \in DOMAIN s.mem |->
                            IF a <= x /\ x < a + n THEN bytes[x - a + 1] ELSE s.mem[x]],
               !.index = s.index + n,
               !.hw    = IF a + n > s.hw THEN a + n ELSE s.hw]

PutBuf(s, bytes)   == Store(s, s.buf, bytes)
PutTrans(s, bytes) == Store(s, s.tail.start, bytes)

(* The bytes of a chain segment: a referenced payload, or the frozen      *)
(* prefix of the allocation that split() handed over.                     *)
SegBytes(s, g) == IF g.ref THEN g.data ELSE Span(s, g.lo, g.n)

(* What the LinkedBytes holds once the caller commits `index`: the chain  *)
(* followed by the tail's initialised bytes and the cursor's prefix.      *)
Image(s) ==
  FlattenSeq([i \in 1..Len(s.chain) |-> SegBytes(s, s.chain[i])])
    \o Span(s, s.tail.start, s.tail.len + s.index)

=============================================================================
