---------------------------- MODULE BinaryLength ----------------------------
(***************************************************************************)
(* TLengthProtocol for TBinaryProtocol<T> (binary_unsafe.rs 61-201): the  *)
(* length pass.  Each write_<x>_len call returns the bytes the matching   *)
(* write will occupy; write_bytes_len and write_faststr_len also add a    *)
(* payload at or above ZERO_COPY_THRESHOLD to zero_copy_len when the      *)
(* protocol was built with zero_copy.  The only state is zero_copy_len.   *)
(***************************************************************************)
EXTENDS Integers, Sequences, ThriftBinary

CONSTANTS ZeroCopy, ZERO_COPY_THRESHOLD

ASSUME ZeroCopy \in BOOLEAN /\ ZERO_COPY_THRESHOLD \in Nat \ {0}

VARIABLE zero_copy_len

(* Plausible fault: write_set_begin_len sized like a map header.         *)
FixedLenSetAsMap ==
  [bool |-> 1, byte |-> 1, i8 |-> 1, i16 |-> 2, i32 |-> 4, i64 |-> 8,
   double |-> 8, uuid |-> 16, field_begin |-> 1 + 2, field_stop |-> 1,
   list_begin |-> 1 + 4, set_begin |-> 1 + 1 + 4, map_begin |-> 1 + 1 + 4]

(* Fixed lengths: write_i8_len .. write_double_len, write_uuid_len, and   *)
(* the headers built from them (field = byte + i16, stop = byte,          *)
(* list/set = byte + i32, map = byte + byte + i32).                        *)
FixedLen ==
  [bool |-> 1, byte |-> 1, i8 |-> 1, i16 |-> 2, i32 |-> 4, i64 |-> 8,
   double |-> 8, uuid |-> 16, field_begin |-> 1 + 2, field_stop |-> 1,
   list_begin |-> 1 + 4, set_begin |-> 1 + 4, map_begin |-> 1 + 1 + 4]

(* The test of write_bytes_len and write_faststr_len.                     *)
ZeroCopyEligible(p) == ZeroCopy /\ Len(p) >= ZERO_COPY_THRESHOLD

(* Only bytes and faststr payloads (and the faststr message name) are     *)
(* counted; write_string_len and write_bytes_vec_len never are.           *)
ZcOf(c) ==
  LET zc(p) == IF ZeroCopyEligible(p) THEN Len(p) ELSE 0
  IN CASE c.op \in {"bytes", "faststr"} -> zc(c.v)
       [] c.op = "message_begin"        -> zc(c.v.name)
       [] OTHER                         -> 0

(* The value a write_<x>_len call returns.                                *)
LenOf(c) ==
  CASE c.op = "message_begin" -> 4 + (4 + Len(c.v.name)) + 4
    [] c.op \in PayloadOps    -> 4 + Len(c.v)
    [] OTHER                  -> FixedLen[c.op]

(* One write_<x>_len call.                                                *)
LenCall(c) == zero_copy_len' = zero_copy_len + ZcOf(c)

(* reset(): clears the accumulator between uses.                          *)
Reset == zero_copy_len' = 0

=============================================================================
