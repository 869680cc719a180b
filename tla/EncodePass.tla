------------------------------ MODULE EncodePass ------------------------------
(***************************************************************************)
(* One encode of one message, as the caller drives the protocol (spec.md  *)
(* 2): reset() the length protocol, run the length pass over the          *)
(* generated call sequence, reserve the region in the transport, build    *)
(* TBinaryProtocol over the reserved window and run the write pass over   *)
(* the same calls.  The length pass is BinaryLength; the write pass is    *)
(* ChainedWriter for a LinkedBytes and ContiguousWriter for a BytesMut.   *)
(* The driver itself is the generated code and the RPC stack, which are   *)
(* not in this repository: a LinkedBytes caller reserves total minus      *)
(* zero_copy_len (the spliced bytes are not copied), a BytesMut caller    *)
(* reserves total (spec.md 4.2).                                          *)
(***************************************************************************)
EXTENDS Integers, Sequences, SequencesExt, ThriftBinary

CONSTANTS
  Transport,            \* "LinkedBytes" or "BytesMut"
  ZeroCopy,             \* the zero_copy flag given to TBinaryProtocol::new
  ZERO_COPY_THRESHOLD,
  Calls,                \* the encode calls the generated code may make
  MaxCalls,             \* bound on the length of one call sequence
  Preamble,             \* bytes already in the BytesMut when the protocol is built
  Leftover              \* values zero_copy_len may hold from an earlier use

ASSUME Transport \in {"LinkedBytes", "BytesMut"} /\ MaxCalls \in Nat /\ Leftover \subseteq Nat

VARIABLES
  prog,           \* the call sequence of this message (fixed per behaviour)
  phase,          \* "reset", "len" or "write"
  pc,             \* next call of the pass in progress
  total,          \* sum of the write_<x>_len results so far
  zero_copy_len,  \* the length protocol's accumulator
  w               \* the writer (see ChainedWriter)

vars == << prog, phase, pc, total, zero_copy_len, w >>

L == INSTANCE BinaryLength
W == INSTANCE ChainedWriter
C == INSTANCE ContiguousWriter

Init ==
  /\ prog \in Programs(Calls, MaxCalls)
  /\ phase = "reset"
  /\ pc = 1
  /\ total = 0
  /\ zero_copy_len \in Leftover
  /\ w = W!NewWriter(<< >>, 0)

(* The caller clears the accumulator left by an earlier use.             *)
ResetLen ==
  /\ phase = "reset"
  /\ L!Reset
  /\ phase' = "len"
  /\ UNCHANGED << prog, pc, total, w >>

(* One write_<x>_len call of the length pass.                            *)
LenStep ==
  /\ phase = "len"
  /\ pc <= Len(prog)
  /\ L!LenCall(prog[pc])
  /\ total' = total + L!LenOf(prog[pc])
  /\ pc' = pc + 1
  /\ UNCHANGED << prog, phase, w >>

(* The bytes the writer will copy.                                       *)
Reservation ==
  IF Transport = "LinkedBytes" THEN total - zero_copy_len ELSE total

(* The caller reserves what the writer will copy and builds the writer.  *)
Reserve ==
  /\ phase = "len"
  /\ pc > Len(prog)
  /\ w' = W!NewWriter(Preamble, Reservation)
  /\ phase' = "write"
  /\ pc' = 1
  /\ UNCHANGED << prog, total, zero_copy_len >>

(* The write pass: the generated code calls the handler for prog[pc].    *)
Calling(k) == phase = "write" /\ pc <= Len(prog) /\ prog[pc].op = k

Arg == prog[pc].v

(* The handler of the transport in use.                                  *)
Via(linked, contiguous) ==
  IF Transport = "LinkedBytes" THEN linked ELSE contiguous

Do(k, next) ==
  /\ Calling(k)
  /\ w' = next
  /\ pc' = pc + 1
  /\ UNCHANGED << prog, phase, total, zero_copy_len >>

WriteStep ==
  \/ Do("message_begin",  Via(W!WriteMessageBegin(w, Arg.type, Arg.name, Arg.seq),
                              C!WriteMessageBegin(w, Arg.type, Arg.name, Arg.seq)))
  \/ Do("field_begin",    Via(W!WriteFieldBegin(w, Arg.type, Arg.id),
                              C!WriteFieldBegin(w, Arg.type, Arg.id)))
  \/ Do("field_stop",     Via(W!WriteFieldStop(w),
                              C!WriteFieldStop(w)))
  \/ Do("bool",           Via(W!WriteBool(w, Arg),
                              C!WriteBool(w, Arg)))
  \/ Do("byte",           Via(W!WriteByte(w, Arg),
                              C!WriteByte(w, Arg)))
  \/ Do("i8",             Via(W!WriteI8(w, Arg),
                              C!WriteI8(w, Arg)))
  \/ Do("i16",            Via(W!WriteI16(w, Arg),
                              C!WriteI16(w, Arg)))
  \/ Do("i32",            Via(W!WriteI32(w, Arg),
                              C!WriteI32(w, Arg)))
  \/ Do("i64",            Via(W!WriteI64(w, Arg),
                              C!WriteI64(w, Arg)))
  \/ Do("double",         Via(W!WriteDouble(w, Arg),
                              C!WriteDouble(w, Arg)))
  \/ Do("uuid",           Via(W!WriteUuid(w, Arg),
                              C!WriteUuid(w, Arg)))
  \/ Do("bytes",          Via(W!WriteBytes(w, Arg),
                              C!WriteBytes(w, Arg)))
  \/ Do("faststr",        Via(W!WriteFaststr(w, Arg),
                              C!WriteFaststr(w, Arg)))
  \/ Do("string",         Via(W!WriteString(w, Arg),
                              C!WriteString(w, Arg)))
  \/ Do("bytes_vec",      Via(W!WriteBytesVec(w, Arg),
                              C!WriteBytesVec(w, Arg)))
  \/ Do("list_begin",     Via(W!WriteListBegin(w, Arg.type, Arg.size),
                              C!WriteListBegin(w, Arg.type, Arg.size)))
  \/ Do("set_begin",      Via(W!WriteSetBegin(w, Arg.type, Arg.size),
                              C!WriteSetBegin(w, Arg.type, Arg.size)))
  \/ Do("map_begin",      Via(W!WriteMapBegin(w, Arg.ktype, Arg.vtype, Arg.size),
                              C!WriteMapBegin(w, Arg.ktype, Arg.vtype, Arg.size)))

Next == ResetLen \/ LenStep \/ Reserve \/ WriteStep

Spec == Init /\ [][Next]_vars

(* The wire image of each call, evaluated once per model.               *)
WireTab == [c \in Calls |-> WireOf(c)]

WirePrefix(k) == FlattenSeq([i \in 1..k |-> WireTab[prog[i]]])

Encoded == phase = "write" /\ pc > Len(prog)

-----------------------------------------------------------------------------
(* Properties.                                                             *)

(* Memory safety of the unchecked stores (binary_unsafe.rs 258-331 and    *)
(* 547-607):                                                               *)
(* no store of the write pass, through `buf` or through trans, lands      *)
(* beyond the bytes the caller reserved from the length pass, across      *)
(* zero-copy splices that move the window.                                *)
StoresWithinReservation ==
  phase = "write" => w.hw <= W!Capacity(w)

(* After every handler, the transport (chain segments, then the tail up  *)
(* to the cursor) holds exactly the wire image of the calls made so far,  *)
(* the head it started with first: splices keep the order of copied and   *)
(* referenced bytes, and no store through a stale window or base is lost. *)
WireImageMatches ==
  phase = "write" => W!Image(w) = Preamble \o WirePrefix(pc - 1)

(* Length agreement (spec.md 4.1): when the write pass ends, the length   *)
(* pass's total is the length of the wire image and the writer has        *)
(* copied exactly the reservation: total - zero_copy_len bytes into a     *)
(* LinkedBytes, total into a BytesMut.                                     *)
LengthAgreement ==
  Encoded => /\ total = Len(WirePrefix(Len(prog)))
             /\ w.hw = W!Capacity(w)

=============================================================================
