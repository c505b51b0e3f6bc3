--------------------------- MODULE SeqResyncProofs ---------------------------
(***************************************************************************)
(* What an end that has lost a packet may rely on, for every modulus, every *)
(* set of lengths and every capacity of the network: SeqResync's numbers   *)
(* keep their width, and the server's ack does not move past the hole.     *)
(***************************************************************************)
EXTENDS SeqResync, TLAPS

(* Packets of an established flow: WriteTo never sets SYN.                 *)
Written == {p \in Packet : ~p.SYN /\ p.ACK /\ p.PSH}

(* The inductive invariant.  That no packet under way has SYN set is what  *)
(* keeps capture from starting over with an ack of the packet's own.       *)
IInv ==
  /\ flow \in [Ends -> Flow]
  /\ net \subseteq Written

LEMMA AddType ==
  ASSUME NEW s \in Seqs, NEW n \in Nat
  PROVE  Add(s, n) \in Seqs
BY TcpFlowAssumption DEF Add, Seqs

LEMMA StartType == \A e \in Ends : Start(e) \in Seqs
BY AddType, TcpFlowAssumption DEF Start

LEMMA PeerType == \A e \in Ends : Peer(e) \in Ends
BY DEF Ends, Peer

(* A written packet is one of an established flow.                         *)
LEMMA HeaderType ==
  ASSUME NEW e \in Ends, NEW f \in Flow, NEW n \in Nat
  PROVE  header(e, f, n) \in Written
BY PeerType DEF header, Written, Packet, Flow

LEMMA CaptureType ==
  ASSUME NEW f \in Flow, NEW p \in Packet
  PROVE  capture(f, p) \in Flow
<1>1. Add(p.seq, 1) \in Seqs /\ Add(p.seq, p.len) \in Seqs
  BY AddType DEF Packet
<1> QED BY <1>1 DEF capture, Flow, Packet

LEMMA WrittenType ==
  ASSUME NEW f \in Flow, NEW n \in Nat
  PROVE  written(f, n) \in Flow
<1>1. Add(f.seq, n) \in Seqs
  BY AddType DEF Flow
<1> QED BY <1>1 DEF written, Flow

LEMMA InitInv == Init => IInv
<1> SUFFICES ASSUME Init PROVE IInv
  OBVIOUS
<1>1. \A e \in Ends : Start(e) \in Seqs /\ Start(Peer(e)) \in Seqs
  BY StartType, PeerType
<1> QED BY <1>1 DEF Init, IInv, Flow

LEMMA NextInv == IInv /\ [Next]_vars => IInv'
<1> SUFFICES ASSUME IInv, [Next]_vars PROVE IInv'
  OBVIOUS
<1>1. ASSUME NEW e \in Ends, NEW n \in Lens[e], WriteTo(e, n)
      PROVE  IInv'
  <2>1. n \in Nat
    BY SeqResyncAssumption
  <2>2. flow[e] \in Flow
    BY DEF IInv
  <2>3. written(flow[e], n) \in Flow /\ header(e, flow[e], n) \in Written
    BY <2>1, <2>2, WrittenType, HeaderType
  <2> QED BY <1>1, <2>3 DEF WriteTo, IInv
<1>2. ASSUME NEW p \in net, captureFlow(p.to, p)
      PROVE  IInv'
  <2>1. p \in Packet /\ p.to \in Ends
    BY DEF IInv, Written, Packet
  <2>2. capture(flow[p.to], p) \in Flow
    BY <2>1, CaptureType DEF IInv
  <2> QED BY <1>2, <2>1, <2>2 DEF captureFlow, IInv
<1>3. ASSUME NEW p \in net, Lose(p)
      PROVE  IInv'
  BY <1>3 DEF Lose, IInv
<1>4. CASE UNCHANGED vars
  BY <1>4 DEF vars, IInv
<1> QED BY <1>1, <1>2, <1>3, <1>4 DEF Next

(* In every reachable state the numbers of both flows are 32-bit numbers   *)
(* and the packets under way are ones that WriteTo has built.              *)
THEOREM NumbersKeepTheirWidth == Spec => []IInv
BY InitInv, NextInv, PTL DEF Spec

-----------------------------------------------------------------------------
(* A packet that does not start at the hole leaves the ack alone.          *)
LEMMA OtherPacketsKeepAck ==
  ASSUME NEW f \in Flow, NEW p \in Written, p.seq # f.ack
  PROVE  capture(f, p).ack = f.ack
BY DEF capture, Written

LEMMA StuckStep ==
  ASSUME IInv, Stuck, [Next]_vars
  PROVE  flow'["server"].ack = flow["server"].ack
<1>1. ASSUME NEW e \in Ends, NEW n \in Lens[e], WriteTo(e, n)
      PROVE  flow'["server"].ack = flow["server"].ack
  <2>1. written(flow[e], n).ack = flow[e].ack
    BY DEF written, IInv, Flow
  <2> QED BY <1>1, <2>1 DEF WriteTo, IInv, Ends
<1>2. ASSUME NEW p \in net, captureFlow(p.to, p)
      PROVE  flow'["server"].ack = flow["server"].ack
  <2>1. CASE p.to = "server"
    <3>1. p \in Written /\ p.seq # flow["server"].ack
      BY <2>1 DEF Stuck, UnderWay, IInv
    <3>2. capture(flow["server"], p).ack = flow["server"].ack
      BY <3>1, OtherPacketsKeepAck DEF IInv, Ends
    <3> QED BY <1>2, <2>1, <3>2 DEF captureFlow, IInv, Ends
  <2>2. CASE p.to # "server"
    BY <1>2, <2>2 DEF captureFlow, IInv, Ends
  <2> QED BY <2>1, <2>2
<1>3. ASSUME NEW p \in net, Lose(p)
      PROVE  flow'["server"].ack = flow["server"].ack
  BY <1>3 DEF Lose
<1>4. CASE UNCHANGED vars
  BY <1>4 DEF vars
<1> QED BY <1>1, <1>2, <1>3, <1>4 DEF Next

(* While the byte the server waits for is lost, whatever either end writes *)
(* and whatever the network loses or reorders, no step moves the server's  *)
(* ack: the recovery described in WriteTo's comment has one fixed number   *)
(* to return to.                                                           *)
THEOREM TheHoleStays == Spec => AckWaitsForTheHole
<1>1. IInv /\ [Next]_vars => [Stuck /\ Stuck' => flow'["server"].ack = flow["server"].ack]_vars
  BY StuckStep DEF vars
<1> QED BY <1>1, NumbersKeepTheirWidth, PTL DEF Spec, AckWaitsForTheHole

-----------------------------------------------------------------------------
(* The only end of a loss is the one WriteTo's comment describes: the      *)
(* client's seq is the number the server waits for again.  No other packet *)
(* of the client, written before or after, takes its place.                *)
RepairIsExact ==
  [][Stuck /\ ~Stuck' => flow'["client"].seq = flow'["server"].ack]_vars

(* A packet that comes under way carries the client's seq.                 *)
LEMMA NewPackets ==
  ASSUME IInv, [Next]_vars, NEW p \in net', p \notin net, p.to = "server"
  PROVE  p.seq = flow["client"].seq
<1>1. PICK e \in Ends : \E n \in Lens[e] : p = header(e, flow[e], n)
  BY DEF Next, WriteTo, captureFlow, Lose, vars
<1>2. e = "client"
  BY <1>1 DEF header, Peer, Ends
<1> QED BY <1>1, <1>2 DEF header

LEMMA StuckEnds ==
  ASSUME IInv, Stuck, [Next]_vars, ~Stuck'
  PROVE  flow'["client"].seq = flow'["server"].ack
<1>1. flow'["server"].ack = flow["server"].ack
  BY StuckStep
<1>2. \A p \in net' : p.to = "server" => p.seq # flow'["server"].ack
  BY <1>1, NewPackets DEF Stuck, UnderWay
<1> QED BY <1>2 DEF Stuck, UnderWay

(* Whatever the network loses or reorders, a client that has lost the      *)
(* server's next byte goes on losing everything it sends until its seq is  *)
(* exactly the server's ack; LossIsRepaired says that this happens.        *)
THEOREM LossEndsAtTheHole == Spec => RepairIsExact
<1>1. IInv /\ [Next]_vars => [Stuck /\ ~Stuck' => flow'["client"].seq = flow'["server"].ack]_vars
  BY StuckEnds DEF vars
<1> QED BY <1>1, NumbersKeepTheirWidth, PTL DEF Spec, RepairIsExact
=============================================================================
