------------------------------ MODULE SeqResync ------------------------------
(***************************************************************************)
(* How an end recovers its sequence number after a loss.  The ends are     *)
(* established; the network holds a few packets each way, which it loses   *)
(* or reorders.  Nothing is retransmitted: a lost packet leaves the peer's *)
(* ack where it was, and the peer's next packet sets seq back to it.       *)
(***************************************************************************)
EXTENDS TcpFlow, FiniteSets

CONSTANTS
  Lens,      \* end -> the lengths its application writes
  NetCap,    \* packets the network holds in one direction (a bound)
  Limited,   \* ends that stop writing MaxAhead bytes after the peer's ack
  MaxAhead   \* (a bound: seq must not come round to the ack by wrapping)

ASSUME SeqResyncAssumption ==
  /\ Lens \in [Ends -> SUBSET Nat]
  /\ NetCap \in Nat /\ MaxAhead \in Nat /\ Limited \subseteq Ends

VARIABLES
  flow,   \* end -> its tcpFlow
  net     \* the packets under way

vars == <<flow, net>>

(* The handshake is over and both ends have captured it (see SeqAck).      *)
Init ==
  /\ flow = [e \in Ends |-> [seq |-> Start(e), ack |-> Start(Peer(e)), handle |-> TRUE]]
  /\ net = {}

UnderWay(e) == {p \in net : p.to = e}
Ahead(e) == (flow[e].seq + SeqMod - flow[Peer(e)].ack) % SeqMod

(* The packet is lost at once, or there is room for it.                    *)
WriteTo(e, n) ==
  /\ e \in Limited => Ahead(e) + n <= MaxAhead
  /\ \/ UNCHANGED net
     \/ /\ Cardinality(UnderWay(Peer(e))) < NetCap
        /\ net' = net \cup {header(e, flow[e], n)}
  /\ flow' = [flow EXCEPT ![e] = written(flow[e], n)]

captureFlow(e, p) ==
  /\ p.to = e
  /\ flow' = [flow EXCEPT ![e] = capture(flow[e], p)]
  /\ net' = net \ {p}

Lose(p) ==
  /\ net' = net \ {p}
  /\ UNCHANGED flow

Next ==
  \/ \E e \in Ends : \E n \in Lens[e] : WriteTo(e, n)
  \/ \E p \in net : captureFlow(p.to, p) \/ Lose(p)

(* The premise of WriteTo's comment ("when the peer answers"): the server  *)
(* keeps writing, and of the packets it keeps sending with the same ack    *)
(* the network delivers one (fair loss).  Nothing is assumed of the other  *)
(* direction.                                                              *)
Answers == \E n \in Lens["server"] : WriteTo("server", n) /\ net' # net
Answered == \E p \in net : /\ p.to = "client"
                           /\ p.ack = flow["server"].ack
                           /\ captureFlow("client", p)
Fairness ==
  /\ SF_vars(Answers)
  /\ SF_vars(Answered)
  /\ WF_vars(\E p \in net : p.to = "client" /\ captureFlow("client", p))

Spec == Init /\ [][Next]_vars /\ Fairness

-----------------------------------------------------------------------------
(* The byte the server waits for is not under way and will not be sent     *)
(* with the numbers the client is using: the packet was lost, or overtaken *)
(* by an older ack.                                                        *)
Stuck ==
  /\ flow["client"].seq # flow["server"].ack
  /\ \A p \in UnderWay("server") : p.seq # flow["server"].ack

(* "If a packet is lost, however much is sent after it, the local seq will *)
(* at some time be set back by the peer's ack to the number before the     *)
(* loss" (WriteTo's comment).                                              *)
LossIsRepaired == Stuck ~> flow["client"].seq = flow["server"].ack

(* While stuck nothing moves the server's ack: the recovery has one fixed  *)
(* number to return to.                                                    *)
AckWaitsForTheHole ==
  [][Stuck /\ Stuck' => flow'["server"].ack = flow["server"].ack]_vars
=============================================================================
