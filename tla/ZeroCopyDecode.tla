---------------------------- MODULE ZeroCopyDecode ----------------------------
(***************************************************************************)
(* One decode of one received message with the zero-copy reader: the     *)
(* generated decoder calls the read_<x> mirroring each write_<x> of the   *)
(* message's encoder (a written field_stop is read by read_field_begin)   *)
(* and stops at the first error, which the `?` operators propagate.       *)
(*                                                                         *)
(* The received bytes are the reference wire image of the call sequence  *)
(* (EncodePass checks the writers produce exactly that), or that image   *)
(* with one header byte damaged, to drive the reader's error paths.       *)
(***************************************************************************)
EXTENDS Integers, Sequences, SequencesExt, FiniteSets, ThriftBinary, WireInput

CONSTANTS
  ZeroCopy,             \* the zero_copy flag given to TBinaryProtocol::new
  ZERO_COPY_THRESHOLD,
  MaxCalls              \* bound on the length of one call sequence

VARIABLES
  prog,    \* the call sequence the message was written with
  fault,   \* the damaged byte of the received image, or NoFault
  pc,      \* next read of the decoder
  r,       \* the reader (see BufferReader)
  out      \* what each read returned: [val, err]

vars == << prog, fault, pc, r, out >>

R == INSTANCE BufferReader

Init ==
  /\ prog \in Programs(Calls, MaxCalls)
  /\ fault \in {NoFault} \cup Faults(prog)
  /\ pc = 1
  /\ r = R!NewReader(Received(prog, fault))
  /\ out = << >>

Reading(k) ==
  /\ pc <= Len(prog)
  /\ pc > 1 => out[pc - 1].err = "none"
  /\ prog[pc].op = k

Do(k, res) ==
  /\ Reading(k)
  /\ r' = res.st
  /\ out' = Append(out, [val |-> res.val, err |-> res.err])
  /\ pc' = pc + 1
  /\ UNCHANGED << prog, fault >>

Next ==
  \/ Do("message_begin", R!ReadMessageBegin(r))
  \/ Do("field_begin",   R!ReadFieldBegin(r))
  \/ Do("field_stop",    R!ReadFieldBegin(r))
  \/ Do("bool",          R!ReadBool(r))
  \/ Do("byte",          R!ReadByte(r))
  \/ Do("i8",            R!ReadI8(r))
  \/ Do("i16",           R!ReadI16(r))
  \/ Do("i32",           R!ReadI32(r))
  \/ Do("i64",           R!ReadI64(r))
  \/ Do("double",        R!ReadDouble(r))
  \/ Do("uuid",          R!ReadUuid(r))
  \/ Do("bytes",         R!ReadBytes(r))
  \/ Do("faststr",       R!ReadFaststr(r))
  \/ Do("string",        R!ReadString(r))
  \/ Do("bytes_vec",     R!ReadBytesVec(r))
  \/ Do("list_begin",    R!ReadListBegin(r))
  \/ Do("set_begin",     R!ReadSetBegin(r))
  \/ Do("map_begin",     R!ReadMapBegin(r))

Spec == Init /\ [][Next]_vars

-----------------------------------------------------------------------------
(* Properties.                                                             *)

(* Round trip (spec.md 8): each read returns the value that was written, *)
(* through splits that move the window and reads through both buf and    *)
(* trans; a damaged header byte makes exactly that read fail, with the   *)
(* kind spec.md 7 names; and a complete decode leaves the cursor exactly *)
(* at the end of the message.                                            *)
DecodesWhatWasEncoded ==
  /\ \A i \in 1..Len(out) :
       IF i = fault.call THEN out[i].err = fault.err
       ELSE out[i].err = "none" /\ out[i].val = Expected(prog[i])
  /\ (fault = NoFault /\ pc > Len(prog)) =>
       r.trans.start + r.index = Len(WirePrefix(prog, Len(prog)))

(* Memory safety of the unchecked loads (binary_unsafe.rs 1049-1143): on *)
(* a well-formed or tag-damaged message no load reaches past the         *)
(* received bytes.                                                       *)
LoadsWithinBuffer ==
  r.hw <= Cardinality(DOMAIN r.mem)

(* spec.md 4.4 and 8: a payload shorter than ZERO_COPY_THRESHOLD is      *)
(* copied; only one at or above it is detached from the buffer.         *)
CopiesBelowThreshold ==
  \A i \in DOMAIN r.detached : r.detached[i].n >= ZERO_COPY_THRESHOLD

(* The doc comment of TBinaryProtocol::new (lines 28-29): zero_copy      *)
(* decides whether input is read zero-copy; without it nothing is        *)
(* detached from the buffer.                                             *)
DetachOnlyWhenEnabled ==
  r.detached # << >> => ZeroCopy

=============================================================================
