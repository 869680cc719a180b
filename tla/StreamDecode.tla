----------------------------- MODULE StreamDecode -----------------------------
(***************************************************************************)
(* One decode of one message with the streaming reader on a live          *)
(* connection.  The peer sends the message's bytes (WireInput, possibly   *)
(* damaged) one at a time, and may close the stream at any moment; the    *)
(* generated decoder calls the read_<x> mirroring each write_<x> of the   *)
(* message's encoder and stops at the first error.  A read whose bytes    *)
(* have not arrived while the stream is open is Pending: the decoder      *)
(* task waits.                                                            *)
(***************************************************************************)
EXTENDS Integers, Sequences, SequencesExt, ThriftBinary, WireInput

CONSTANTS
  MaxCalls,      \* bound on the length of one call sequence
  LengthKinds    \* which damaged length prefixes the peer may send

VARIABLES
  prog,     \* the call sequence the message was written with
  fault,    \* the damaged bytes of what the peer sends, or NoFault
  wire,     \* what the peer sends
  arrived,  \* how many of those bytes have reached the stream
  ending,   \* "open", or "closed" by the peer or an I/O error
  pos,      \* the bytes the reader has consumed
  pc,       \* next read of the decoder
  out       \* what each read returned: [val, err, pos]

vars == << prog, fault, wire, arrived, ending, pos, pc, out >>

A == INSTANCE AsyncReader

(* read_<x> for prog[pc], the handler mirroring the write of that call.  *)
Handler(k, p, src) ==
  CASE k = "message_begin"           -> A!ReadMessageBegin(p, src)
    [] k \in {"field_begin", "field_stop"} -> A!ReadFieldBegin(p, src)
    [] k = "bool"                    -> A!ReadBool(p, src)
    [] k = "byte"                    -> A!ReadByte(p, src)
    [] k = "i8"                      -> A!ReadI8(p, src)
    [] k = "i16"                     -> A!ReadI16(p, src)
    [] k = "i32"                     -> A!ReadI32(p, src)
    [] k = "i64"                     -> A!ReadI64(p, src)
    [] k = "double"                  -> A!ReadDouble(p, src)
    [] k = "uuid"                    -> A!ReadUuid(p, src)
    [] k = "bytes"                   -> A!ReadBytes(p, src)
    [] k = "faststr"                 -> A!ReadFaststr(p, src)
    [] k = "string"                  -> A!ReadString(p, src)
    [] k = "bytes_vec"               -> A!ReadBytesVec(p, src)
    [] k = "list_begin"              -> A!ReadListBegin(p, src)
    [] k = "set_begin"               -> A!ReadSetBegin(p, src)
    [] k = "map_begin"               -> A!ReadMapBegin(p, src)

(* The outcome of polling read_<x> for call k at position p when n of   *)
(* the peer's bytes have arrived and the stream is e.                    *)
Poll(p, n, e, k) ==
  IF k <= Len(prog)
  THEN Handler(prog[k].op, p, [data |-> SubSeq(wire, 1, n), ending |-> e])
  ELSE A!Res(p, 0, "done")

Init ==
  /\ prog \in Programs(Calls, MaxCalls)
  /\ fault \in {NoFault} \cup Faults(prog) \cup LengthFaults(prog, LengthKinds)
  /\ wire = Received(prog, fault)
  /\ arrived = 0
  /\ ending = "open"
  /\ pos = 0
  /\ pc = 1
  /\ out = << >>

(* The decoder has not finished: calls are left and none has failed.     *)
Decoding == pc <= Len(prog) /\ (pc > 1 => out[pc - 1].err = "none")

(* The peer's next byte reaches the stream.                              *)
Deliver ==
  /\ ending = "open"
  /\ arrived < Len(wire)
  /\ arrived' = arrived + 1
  /\ UNCHANGED << prog, fault, wire, ending, pos, pc, out >>

(* The peer closes the connection or the connection fails.               *)
Close ==
  /\ ending = "open"
  /\ ending' = "closed"
  /\ UNCHANGED << prog, fault, wire, arrived, pos, pc, out >>

(* What polling the decoder's future yields now.                         *)
Polled == Poll(pos, arrived, ending, pc)

(* The decoder task is polled and the read completes.                    *)
ReadStep ==
  /\ Decoding
  /\ Polled.err # "Pending"
  /\ pos' = Polled.pos
  /\ out' = Append(out, Polled)
  /\ pc' = pc + 1
  /\ UNCHANGED << prog, fault, wire, arrived, ending >>

Next == Deliver \/ Close \/ ReadStep

(* The runtime polls the decoder whenever its waker fires, i.e. whenever *)
(* a read can complete; the peer is assumed to send the whole message it *)
(* started (it may still close early).  Close is not fair.  This is       *)
(* WF_vars(ReadStep) /\ WF_vars(Deliver) written with ENABLED spelled    *)
(* out: the primed conjuncts of both actions are assignments, and each    *)
(* action is the only one that changes pc, resp. arrived.                 *)
ReadEnabled    == Decoding /\ Polled.err # "Pending"
DeliverEnabled == ending = "open" /\ arrived < Len(wire)

Fairness ==
  /\ <>[]ReadEnabled => []<><<pc' = pc + 1>>_vars
  /\ <>[]DeliverEnabled => []<><<arrived' = arrived + 1>>_vars

Spec == Init /\ [][Next]_vars /\ Fairness

Done == ~Decoding

-----------------------------------------------------------------------------
(* Properties.                                                             *)

(* Round trip over a stream (spec.md 4.5, 7 and 8): a read that succeeds *)
(* returns the value written and leaves the reader exactly at the next   *)
(* call's bytes; a read fails with the kind its damaged byte calls for,  *)
(* or with an I/O error, and then only because the stream closed before *)
(* all of the call's bytes arrived, having consumed every byte that did  *)
(* (read_exact's partial consumption).                                    *)
StreamDecodesWhatWasEncoded ==
  \A i \in DOMAIN out :
    \/ /\ out[i].err = "none" /\ i # fault.call
       /\ out[i].val = Expected(prog[i])
       /\ out[i].pos = Offset(prog, i + 1)
    \/ /\ out[i].err = "Io" /\ ending = "closed"
       /\ arrived < Offset(prog, i + 1)
       /\ out[i].pos = arrived
    \/ /\ i = fault.call /\ out[i].err = fault.err

(* Every decode ends, with the message or an error, once the peer has    *)
(* sent what it started to send: no read waits for bytes that never come. *)
DecodeTerminates == <>Done

(* No read panics (spec.md 7: every decode failure is returned as a     *)
(* DecodeError, BadVersion, InvalidData or I/O): whatever length prefix *)
(* the peer sends, read_bytes_vec / read_string return a result and the *)
(* decoding task survives to report it.                                  *)
NoPanic == \A i \in DOMAIN out : out[i].err # "Panic"

=============================================================================
