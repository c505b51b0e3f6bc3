------------------------------ MODULE Datagram -------------------------------
(***************************************************************************)
(* What a connection with forward error correction promises its two ends   *)
(* (FakeConn and Client with UseFec): an unreliable datagram service.      *)
(* Payloads may be lost, reordered or repeated, but what is delivered was  *)
(* sent, byte for byte.                                                    *)
(***************************************************************************)

VARIABLES
  sent,       \* the payloads given to Write
  delivered   \* the payloads Read has returned or is about to return

vars == <<sent, delivered>>

Init == sent = {} /\ delivered = {}

Send ==
  /\ \E m \in sent' \ sent : sent' = sent \cup {m}
  /\ UNCHANGED delivered

(* One packet may bring several: its own payload and the recovered ones.   *)
Deliver ==
  /\ delivered \subseteq delivered' /\ delivered' \subseteq sent
  /\ UNCHANGED sent

Next == Send \/ Deliver

Spec == Init /\ [][Next]_vars
=============================================================================
