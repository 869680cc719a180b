--------------------------- MODULE StreamRoundTrip ---------------------------
(***************************************************************************)
(* The writers and the streaming reader composed: one message is encoded  *)
(* by EncodePass, and the bytes the transport then holds are sent over a  *)
(* connection to a TAsyncBinaryProtocol, which decodes them as            *)
(* StreamDecode does: the bytes arrive one at a time and the connection   *)
(* may close at any moment.                                               *)
(***************************************************************************)
EXTENDS Integers, Sequences, ThriftBinary, WireInput

CONSTANTS Transport, ZeroCopy, ZERO_COPY_THRESHOLD, MaxCalls, Preamble, Leftover

VARIABLES
  prog, phase, pc, total, zero_copy_len, w,   \* the encoder (EncodePass)
  stage,    \* "encode" until the frame is sent, then "decode"
  fault,    \* NoFault: the frame is sent undamaged
  wire,     \* the frame on the connection
  arrived, ending, pos, dpc, out              \* the decoder (StreamDecode)

vars == << prog, phase, pc, total, zero_copy_len, w, stage, fault, wire,
           arrived, ending, pos, dpc, out >>

E == INSTANCE EncodePass
S == INSTANCE StreamDecode WITH pc <- dpc, LengthKinds <- {}

Encoder == << prog, phase, pc, total, zero_copy_len, w >>

Init ==
  /\ E!Init
  /\ stage = "encode"
  /\ fault = NoFault
  /\ wire = << >>
  /\ arrived = 0
  /\ ending = "open"
  /\ pos = 0
  /\ dpc = 1
  /\ out = << >>

Encode ==
  /\ stage = "encode"
  /\ E!Next
  /\ UNCHANGED << stage, fault, wire, arrived, ending, pos, dpc, out >>

(* The caller sends what the transport holds.                             *)
Send ==
  /\ stage = "encode"
  /\ E!Encoded
  /\ stage' = "decode"
  /\ wire' = E!W!Image(w)
  /\ UNCHANGED << prog, phase, pc, total, zero_copy_len, w, fault, arrived,
                  ending, pos, dpc, out >>

Deliver  == stage = "decode" /\ S!Deliver  /\ UNCHANGED << Encoder, stage >>
Close    == stage = "decode" /\ S!Close    /\ UNCHANGED << Encoder, stage >>
ReadStep == stage = "decode" /\ S!ReadStep /\ UNCHANGED << Encoder, stage >>

Next == Encode \/ Send \/ Deliver \/ Close \/ ReadStep

(* The caller runs the encode to completion and sends the frame; then    *)
(* StreamDecode's fairness: the decoder task is polled and the peer      *)
(* delivers the frame, in the same spelled-out WF form.                  *)
Fairness ==
  /\ <>[](stage = "encode") => []<><<TRUE>>_vars
  /\ <>[](stage = "decode" /\ S!ReadEnabled) => []<><<dpc' = dpc + 1>>_vars
  /\ <>[](stage = "decode" /\ S!DeliverEnabled) => []<><<arrived' = arrived + 1>>_vars

Spec == Init /\ [][Next]_vars /\ Fairness

-----------------------------------------------------------------------------
C == INSTANCE Codec WITH
       Lossy <- TRUE,
       msg   <- prog,
       sent  <- IF phase = "write" THEN pc - 1 ELSE 0,
       got   <- [i \in DOMAIN out |->
                   [err |-> out[i].err,
                    val |-> IF out[i].err = "none" THEN out[i].val ELSE 0]]

(* Round trip over a live connection (spec.md 4.5, 7 and 8): encoding    *)
(* through the real writer and decoding the frame with the streaming     *)
(* reader implements a lossy Codec.  Each read returns the value of the  *)
(* next call written, or an I/O error after which the decode stops; no  *)
(* read returns another value or another error, and every call is       *)
(* eventually decoded unless the connection closes first.               *)
ImplementsLossyCodec == C!FairSpec

=============================================================================
