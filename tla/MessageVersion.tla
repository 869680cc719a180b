--------------------------- MODULE MessageVersion ---------------------------
(***************************************************************************)
(* The version check of read_message_begin, shared by the zero-copy       *)
(* reader (binary_unsafe.rs 958-982) and the streaming reader (752-776):  *)
(* the first i32 of a message, `size`, is rejected when positive, its     *)
(* low nibble must name a TMessageType, and size & VERSION_MASK must be   *)
(* VERSION_1.  Rust's & on a negative i32 is modelled by what it does on  *)
(* the two's-complement pattern: x & 0xf = x % 16 and                     *)
(* x & 0xffff0000 = x - x % 65536 (floor modulus).                        *)
(***************************************************************************)
EXTENDS Integers, ThriftBinary

Outcome(err, type) == [err |-> err, type |-> type]

(* Plausible fault: the legacy `size > 0` test left out.                 *)
DecodeHeaderNoLegacyCheck(size) ==
  IF size % 16 \notin MessageTypes THEN Outcome("InvalidData", 0)
  ELSE IF size - (size % VERSION_MASK_LOW) # VERSION_1_I32 THEN Outcome("BadVersion", 0)
  ELSE Outcome("none", size % 16)

(* read_message_begin after its read_i32: the three checks in code order. *)
DecodeHeader(size) ==
  IF size > 0 THEN Outcome("BadVersion", 0)
  ELSE IF size % 16 \notin MessageTypes THEN Outcome("InvalidData", 0)
  ELSE IF size - (size % VERSION_MASK_LOW) # VERSION_1_I32 THEN Outcome("BadVersion", 0)
  ELSE Outcome("none", size % 16)

=============================================================================
