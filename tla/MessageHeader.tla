---------------------------- MODULE MessageHeader ----------------------------
(***************************************************************************)
(* Checks MessageVersion's DecodeHeader against the rules of spec.md 4.6, *)
(* which are stated on the unsigned bit pattern: one header word, drawn   *)
(* from the cases that matter to the checks, is read with read_i32 and    *)
(* decoded per behaviour.                                                 *)
(***************************************************************************)
EXTENDS Integers, Sequences, ThriftBinary, MessageVersion

CONSTANTS HighHalves, LowHalves   \* the 16-bit halves of the header word

ASSUME HighHalves \subseteq 0..65535 /\ LowHalves \subseteq 0..65535

VARIABLES word, result

vars == << word, result >>

Init ==
  /\ word \in {BE(2, hi) \o BE(2, lo) : hi \in HighHalves, lo \in LowHalves}
  /\ result = Outcome("pending", 0)

(* read_i32 of the four header bytes, then the checks.                   *)
Decode ==
  /\ result.err = "pending"
  /\ result' = DecodeHeader(FromBE(word))
  /\ UNCHANGED word

Spec == Init /\ [][Decode]_vars

-----------------------------------------------------------------------------
(* spec.md 4.6 and 8 on the unsigned pattern hi:lo of the word: a word    *)
(* without the top bit (other than zero) is a legacy header (BadVersion); *)
(* otherwise a low nibble outside 1..4 is InvalidData; otherwise the high *)
(* half must be 0x8001 (BadVersion); otherwise the message type is the    *)
(* low nibble.  read_message_begin must decide every word this way.       *)
SpecOutcome ==
  LET hi == word[1] * 256 + word[2]
      lo == word[3] * 256 + word[4]
  IN IF hi < 32768 /\ hi * 65536 + lo > 0 THEN Outcome("BadVersion", 0)
     ELSE IF lo % 16 \notin MessageTypes THEN Outcome("InvalidData", 0)
     ELSE IF hi # 32769 THEN Outcome("BadVersion", 0)
     ELSE Outcome("none", lo % 16)

HeaderDecodeMatchesSpec ==
  result.err # "pending" => result = SpecOutcome

=============================================================================
