-------------------------------- MODULE Codec --------------------------------
(***************************************************************************)
(* What the binary codec promises its caller (spec.md 8, round trip),     *)
(* abstracted from bytes: the calls of one message are sent one at a time *)
(* in order, and the receiver gets back, in the same order, the value of  *)
(* each call that has been sent and of none that has not.  Over a lossy  *)
(* connection the receive may instead end with an I/O error, after which *)
(* nothing more is received; otherwise no read fails.                     *)
(***************************************************************************)
EXTENDS Integers, Sequences, ThriftBinary, WireInput

CONSTANTS MaxCalls, Lossy

VARIABLES
  msg,    \* the calls of the message
  sent,   \* how many of them are on the wire
  got     \* the results the receiver's reads returned, in order

vars == << msg, sent, got >>

Init ==
  /\ msg \in Programs(Calls, MaxCalls)
  /\ sent = 0
  /\ got = << >>

Send ==
  /\ sent < Len(msg)
  /\ sent' = sent + 1
  /\ UNCHANGED << msg, got >>

(* No read has failed yet.                                               *)
Intact == \A i \in DOMAIN got : got[i].err = "none"

Recv ==
  /\ Intact
  /\ Len(got) < sent
  /\ got' = Append(got, [err |-> "none", val |-> Expected(msg[Len(got) + 1])])
  /\ UNCHANGED << msg, sent >>

(* The connection fails under the receiver's next read.                  *)
Lose ==
  /\ Lossy
  /\ Intact
  /\ Len(got) < Len(msg)
  /\ got' = Append(got, [err |-> "Io", val |-> 0])
  /\ UNCHANGED << msg, sent >>

Next == Send \/ Recv \/ Lose

Spec == Init /\ [][Next]_vars

(* Every call is eventually sent, and received unless the connection    *)
(* fails.                                                                  *)
FairSpec == Spec /\ WF_vars(Send) /\ WF_vars(Recv)

=============================================================================
