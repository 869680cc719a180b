---------------------------- MODULE ThriftBinary ----------------------------
(***************************************************************************)
(* Wire vocabulary of the Thrift binary protocol and the byte conversions *)
(* the codec performs: TType and TMessageType codes, the version word,    *)
(* big-endian two's-complement encoding of signed integers, and the       *)
(* reference wire image of one encode call (the table of spec.md 6), the  *)
(* yardstick the writers and readers are checked against.                 *)
(*                                                                         *)
(* A call of the generated encoder is a record [op |-> kind, v |-> args]. *)
(* Payloads (strings, byte strings, message names) are short sequences of *)
(* bytes; only their length and content identity matter to the codec.    *)
(***************************************************************************)
EXTENDS Integers, Sequences, SequencesExt

(* TType wire codes (the TType enum the protocol converts with `as u8`   *)
(* and `try_into`).                                                        *)
TTypeCode ==
  [Stop |-> 0, Void |-> 1, Bool |-> 2, I8 |-> 3, Double |-> 4, I16 |-> 6,
   I32 |-> 8, I64 |-> 10, Binary |-> 11, Struct |-> 12, Map |-> 13,
   Set |-> 14, List |-> 15, Uuid |-> 16]

TTypes == {TTypeCode[t] : t \in DOMAIN TTypeCode}

STOP == TTypeCode.Stop

(* TMessageType codes: Call, Reply, Exception, OneWay.                     *)
MessageTypes == 1..4

(* VERSION_1 = 0x80010000 and VERSION_MASK = 0xffff0000 reinterpreted     *)
(* `as i32`, the form in which read_message_begin compares them.          *)
VERSION_1_I32 == -2147418112
VERSION_MASK_LOW == 65536   \* x & VERSION_MASK keeps x minus its low 16 bits

(* x.to_be_bytes() of an n-byte two's-complement integer: floor division  *)
(* by 256 yields the bytes of a negative value without 2^(8n).            *)
RECURSIVE BE(_, _)
BE(n, x) == IF n = 0 THEN <<>> ELSE BE(n - 1, x \div 256) \o << x % 256 >>

(* u8 -> i8, as `as i8` does.                                            *)
AsI8(b) == IF b >= 128 THEN b - 256 ELSE b

(* iN::from_be_bytes: the first byte carries the sign.                    *)
FromBE(bs) ==
  LET acc[i \in 1..Len(bs)] == IF i = 1 THEN AsI8(bs[1]) ELSE acc[i - 1] * 256 + bs[i]
  IN acc[Len(bs)]

(* Kinds of encode calls that carry a length-prefixed payload.            *)
PayloadOps == {"bytes", "string", "faststr", "bytes_vec"}

CallKinds ==
  {"message_begin", "field_begin", "field_stop", "bool", "byte", "i8", "i16",
   "i32", "i64", "double", "uuid", "list_begin", "set_begin", "map_begin"}
  \cup PayloadOps

(***************************************************************************)
(* Reference wire image of one call, from the layout table of spec.md 6.  *)
(* double is represented by its to_bits() pattern.                        *)
(***************************************************************************)
LengthPrefixed(p) == BE(4, Len(p)) \o p

WireOf(c) ==
  CASE c.op = "message_begin" ->
         BE(4, VERSION_1_I32 + c.v.type) \o LengthPrefixed(c.v.name) \o BE(4, c.v.seq)
    [] c.op = "field_begin" -> << c.v.type >> \o BE(2, c.v.id)
    [] c.op = "field_stop"  -> << STOP >>
    [] c.op = "bool"        -> << IF c.v THEN 1 ELSE 0 >>
    [] c.op \in {"byte", "i8"} -> BE(1, c.v)
    [] c.op = "i16"         -> BE(2, c.v)
    [] c.op = "i32"         -> BE(4, c.v)
    [] c.op \in {"i64", "double"} -> BE(8, c.v)
    [] c.op = "uuid"        -> c.v
    [] c.op \in PayloadOps  -> LengthPrefixed(c.v)
    [] c.op \in {"list_begin", "set_begin"} -> << c.v.type >> \o BE(4, c.v.size)
    [] c.op = "map_begin"   -> << c.v.ktype, c.v.vtype >> \o BE(4, c.v.size)

(* Programs of the generated encoder: call sequences of length <= n.      *)
Programs(calls, n) == UNION {[1..k -> calls] : k \in 0..n}

=============================================================================
