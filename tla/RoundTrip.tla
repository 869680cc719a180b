------------------------------ MODULE RoundTrip ------------------------------
(***************************************************************************)
(* The writers and the zero-copy reader composed: one message is encoded  *)
(* by EncodePass (reset, length pass, reservation, write pass) and the    *)
(* bytes the transport then holds, chain segments and tail, are handed    *)
(* to a fresh TBinaryProtocol over a BytesMut and decoded by the reader   *)
(* as ZeroCopyDecode does.  Unlike ZeroCopyDecode, the reader gets what   *)
(* the writer really produced, not the reference image.  The hand-over    *)
(* (framing, the network, the server's read of the frame) is the RPC     *)
(* stack's, outside this repository.                                      *)
(***************************************************************************)
EXTENDS Integers, Sequences, ThriftBinary, WireInput

CONSTANTS Transport, ZeroCopy, ZERO_COPY_THRESHOLD, MaxCalls, Preamble, Leftover

VARIABLES
  prog, phase, pc, total, zero_copy_len, w,   \* the encoder (EncodePass)
  stage,   \* "encode" until the frame is handed over, then "decode"
  dpc,     \* next read of the decoder
  fault,   \* NoFault: the frame reaches the reader undamaged
  r,       \* the reader (BufferReader)
  out      \* what each read returned

vars == << prog, phase, pc, total, zero_copy_len, w, stage, dpc, fault, r, out >>

E == INSTANCE EncodePass
D == INSTANCE ZeroCopyDecode WITH pc <- dpc

Init ==
  /\ E!Init
  /\ stage = "encode"
  /\ dpc = 1
  /\ fault = NoFault
  /\ r = D!R!NewReader(<< >>)
  /\ out = << >>

(* One step of the encode (EncodePass's Next).                            *)
Encode ==
  /\ stage = "encode"
  /\ E!Next
  /\ UNCHANGED << stage, dpc, fault, r, out >>

(* The encoded frame, as the transport holds it, reaches the reader.      *)
HandOver ==
  /\ stage = "encode"
  /\ E!Encoded
  /\ stage' = "decode"
  /\ r' = D!R!NewReader(E!W!Image(w))
  /\ UNCHANGED << prog, phase, pc, total, zero_copy_len, w, dpc, fault, out >>

(* One read of the decoder (ZeroCopyDecode's Next).                       *)
Decode ==
  /\ stage = "decode"
  /\ D!Next
  /\ UNCHANGED << phase, pc, total, zero_copy_len, w, stage >>

Next == Encode \/ HandOver \/ Decode

(* The decode has read the whole message or stopped at an error.         *)
Finished ==
  /\ stage = "decode"
  /\ \/ dpc > Len(prog)
     \/ dpc > 1 /\ out[dpc - 1].err # "none"

(* Caller and decoder run to completion on their threads, and the RPC     *)
(* stack delivers the frame: WF_vars(Next), with ENABLED <<Next>>_vars    *)
(* written as ~Finished (a handler exists for every call, so a step is    *)
(* enabled until the decode ends) and <<Next>>_vars as any change of      *)
(* vars (within [][Next]_vars every such step is a Next step).            *)
Fairness == <>[]~Finished => []<><<TRUE>>_vars

Spec == Init /\ [][Next]_vars /\ Fairness

-----------------------------------------------------------------------------
(* Refinement.  The calls written so far are the calls sent; the values  *)
(* the reader returned are the values received.                          *)

C == INSTANCE Codec WITH
       Lossy <- FALSE,
       msg  <- prog,
       sent <- IF phase = "write" THEN pc - 1 ELSE 0,
       got  <- [i \in DOMAIN out |-> [err |-> out[i].err, val |-> out[i].val]]

(* Round trip through the real writers (spec.md 8 and 4.1-4.4): the pass *)
(* implements Codec.  Each write pass step sends the next call; each read *)
(* of the frame the writer produced returns the value of the next call   *)
(* sent, never a value out of order or not yet written; every call is    *)
(* eventually written and decoded.  A failed read, or a read that gets   *)
(* another value because the writer's bytes differ from what the reader  *)
(* parses, is a step Codec does not allow.                               *)
ImplementsCodec == C!FairSpec

=============================================================================
