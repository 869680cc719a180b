------------------------------ MODULE WireInput ------------------------------
(***************************************************************************)
(* The bytes a decoder receives: the reference wire image of the call     *)
(* sequence a message was written with, or that image with one tag or     *)
(* header byte damaged, to drive the readers' error paths.  Shared by the *)
(* zero-copy (ZeroCopyDecode) and the streaming (StreamDecode) decoders.  *)
(***************************************************************************)
EXTENDS Integers, Sequences, SequencesExt, ThriftBinary

CONSTANT Calls     \* the encode calls of the message's writer

(* The wire image of each call, evaluated once per model.               *)
WireTab == [c \in Calls |-> WireOf(c)]

WirePrefix(p, k) == FlattenSeq([i \in 1..k |-> WireTab[p[i]]])

(* Address of the first byte of call i in the wire image.                *)
Offset(p, i) == Len(WirePrefix(p, i - 1))

BadTType == 5     \* no TType has code 5

NoFault == [at |-> -1, bytes |-> << >>, call |-> 0, err |-> "none"]

(* A TType tag replaced by an invalid code, or a message header whose    *)
(* first byte is cleared (size > 0) or whose type nibble is cleared.     *)
Faults(p) ==
  LET tagged(ops) == {i \in DOMAIN p : p[i].op \in ops}
  IN {[at |-> Offset(p, i), bytes |-> << BadTType >>, call |-> i, err |-> "InvalidData"] :
        i \in tagged({"field_begin", "field_stop", "list_begin", "set_begin", "map_begin"})}
     \cup {[at |-> Offset(p, i) + 1, bytes |-> << BadTType >>, call |-> i, err |-> "InvalidData"] :
             i \in tagged({"map_begin"})}
     \cup {[at |-> Offset(p, i), bytes |-> << 0 >>, call |-> i, err |-> "BadVersion"] :
             i \in tagged({"message_begin"})}
     \cup {[at |-> Offset(p, i) + 3, bytes |-> << 0 >>, call |-> i, err |-> "InvalidData"] :
             i \in tagged({"message_begin"})}

(* A payload's i32 length prefix replaced by a negative length, when    *)
(* "negative" is among the kinds of damage the peer may send.            *)
LengthFaults(p, kinds) ==
  LET at(i) == IF p[i].op = "message_begin" THEN Offset(p, i) + 4 ELSE Offset(p, i)
      prefixed == {i \in DOMAIN p : p[i].op \in PayloadOps \cup {"message_begin"}}
  IN {[at |-> at(i), bytes |-> BE(4, -1), call |-> i, err |-> "Panic"] :
        i \in IF "negative" \in kinds THEN prefixed ELSE {}}

Received(p, f) ==
  LET wire == WirePrefix(p, Len(p))
  IN [j \in 1..Len(wire) |->
        IF f.at < j /\ j <= f.at + Len(f.bytes) THEN f.bytes[j - f.at] ELSE wire[j]]

(* What read_<x> must return for a call written with write_<x>.         *)
Expected(c) == IF c.op = "field_stop" THEN [type |-> STOP, id |-> 0] ELSE c.v

=============================================================================
