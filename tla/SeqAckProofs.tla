----------------------------- MODULE SeqAckProofs -----------------------------
(***************************************************************************)
(* SeqAck's safety properties for every modulus, every pair of initial     *)
(* sequence numbers, every set of lengths and any number of packets.       *)
(***************************************************************************)
EXTENDS SeqAck, TLAPS

-----------------------------------------------------------------------------
(* The inductive invariant.                                                *)

(* What is in the network: data packets are no SYN and carry an ack; the   *)
(* SYNs are those of the handshake.                                        *)
PacketsWellFormed ==
  \A p \in net :
    /\ p.PSH => p.ACK /\ ~p.SYN
    /\ p.SYN => p \in {Syn, SynAck}
    /\ p.to = "client" => p.ACK

(* An end captures the peer's SYN before anything else: whoever sends      *)
(* something else has already seen an answer to it.                        *)
SynFirst ==
  /\ \A p \in net : ~p.SYN => flow[p.to].handle
  /\ SynAck \in net => flow["server"].handle
  /\ flow["client"].handle => SynAck \in net
  /\ (\E p \in net : p.PSH /\ p.to = "server") => flow["client"].handle

(* The acks under way are covered by what the end they go to has sent.     *)
AcksCovered ==
  \A p \in net : p.ACK => Covered(p.ack, p.to, Sent(p.to))

(* seq is covered from the first captured ACK on; without one the end has  *)
(* nothing to write with.                                                  *)
SeqCovered ==
  \A e \in Ends :
    /\ (\E p \in got[e] : p.ACK) => Covered(flow[e].seq, e, Sent(e))
    /\ e = "client" /\ flow[e].handle => \E p \in got[e] : p.ACK

GotAddressed == \A e \in Ends : \A p \in got[e] : p.to = e

Inv ==
  /\ TypeOK
  /\ PacketsWellFormed
  /\ GotAddressed
  /\ SynFirst
  /\ NoGapAcked
  /\ AcksCovered
  /\ SeqCovered

-----------------------------------------------------------------------------
(* Sequence numbers stay in their field.                                   *)
LEMMA AddType ==
  ASSUME NEW s \in Nat, NEW n \in Nat
  PROVE  Add(s, n) \in Seqs
BY TcpFlowAssumption DEF Add, Seqs

(* The start of a stream is covered by nothing.                            *)
LEMMA StartCovered ==
  ASSUME NEW e \in Ends, NEW P
  PROVE  Covered(Start(e), e, P)
BY DEF Covered

(* More packets cover more.                                                *)
LEMMA CoveredMonotone ==
  ASSUME NEW x, NEW e, NEW P, NEW Q, P \subseteq Q, Covered(x, e, P)
  PROVE  Covered(x, e, Q)
BY DEF Covered

(* A packet that starts at a covered position covers the one after it.     *)
LEMMA CoveredStep ==
  ASSUME NEW e, NEW P, NEW p \in P, Covered(p.seq, e, P)
  PROVE  Covered(Add(p.seq, p.len), e, P)
BY DEF Covered

(* The first byte of a stream has a number.                                *)
LEMMA StartType == \A e \in Ends : Start(e) \in Seqs
<1>1. \A e \in Ends : Isn[e] \in Nat
  BY TcpFlowAssumption DEF Seqs
<1> QED  BY <1>1, AddType DEF Start

(* What the kernels send in the handshake are packets.                     *)
LEMMA HandshakePackets == Syn \in Packet /\ SynAck \in Packet /\ HandshakeAck \in Packet
BY TcpFlowAssumption, StartType DEF Syn, SynAck, HandshakeAck, Packet, Ends, Seqs

(* When only the SYN has been sent nothing is captured.                    *)
LEMMA InitInv ==
  ASSUME Init
  PROVE  Inv
<1>1. TypeOK
  BY TcpFlowAssumption, HandshakePackets DEF Init, TypeOK, Flow, newFlow, Seqs, Ends
<1>2. PacketsWellFormed /\ SynFirst /\ AcksCovered
  BY DEF Init, PacketsWellFormed, SynFirst, AcksCovered, Syn, SynAck, newFlow, Peer, Ends
<1>3. GotAddressed /\ NoGapAcked /\ SeqCovered
  BY DEF Init, GotAddressed, NoGapAcked, SeqCovered, newFlow
<1> QED  BY <1>1, <1>2, <1>3 DEF Inv

-----------------------------------------------------------------------------
(* The part of the invariant that a capture keeps: the flow follows the    *)
(* packet, and the kernel adds only its handshake answers.                 *)
LEMMA CaptureKeeps ==
  ASSUME NEW e \in Ends, NEW p \in net, Inv, captureFlow(e, p)
  PROVE  Inv'
<1> DEFINE f == flow[e]
           g == capture(f, p)
<1>1. /\ p.to = e /\ flow' = [flow EXCEPT ![e] = g]
      /\ got' = [got EXCEPT ![e] = @ \cup {p}] /\ net' = net \cup kernelReply(p)
  BY DEF captureFlow
<1>2. p \in Packet /\ f \in Flow
  BY DEF Inv, TypeOK
<1>3. kernelReply(p) \in SUBSET {SynAck, HandshakeAck}
  BY DEF kernelReply
<1>4. g \in Flow
  <2>1. Add(p.seq, 1) \in Seqs /\ Add(p.seq, p.len) \in Seqs
    BY <1>2, AddType DEF Packet, Seqs
  <2> QED  BY <1>2, <2>1 DEF capture, Flow, Packet
<1>5. TypeOK'
  BY <1>1, <1>3, <1>4, HandshakePackets DEF Inv, TypeOK
<1>6. PacketsWellFormed' /\ GotAddressed'
  BY <1>1, <1>3 DEF Inv, TypeOK, PacketsWellFormed, GotAddressed, SynAck, HandshakeAck
<1>7. flow'[e] = g /\ g.handle /\ \A d \in Ends \ {e} : flow'[d] = flow[d] /\ got'[d] = got[d]
  BY <1>1 DEF Inv, TypeOK, capture
<1>8. got'[e] = got[e] \cup {p}
  BY <1>1 DEF Inv, TypeOK
<1>9. \A d \in Ends : Sent(d)' = Sent(d)
  BY <1>1, <1>3 DEF Sent, SynAck, HandshakeAck
<1>10. SynFirst'
  <2>1. \A d \in Ends : flow[d].handle => flow'[d].handle
    BY <1>7
  <2>2. p = Syn => e = "server"
    BY <1>1 DEF Syn
  <2>3. p = SynAck => e = "client" /\ flow["server"].handle
    BY <1>1 DEF SynAck, Inv, SynFirst
  <2>4. CASE p = Syn
    BY <1>1, <1>3, <1>7, <2>1, <2>2, <2>4 DEF Inv, TypeOK, Packet, SynFirst, kernelReply, SynAck, HandshakeAck, Ends, Syn
  <2>5. CASE p = SynAck
    BY <1>1, <1>3, <1>7, <2>1, <2>3, <2>5 DEF Inv, TypeOK, Packet, SynFirst, kernelReply, SynAck, HandshakeAck, Ends, Syn
  <2>6. CASE p # Syn /\ p # SynAck
    <3>1. ~p.SYN /\ net' = net
      BY <1>1, <2>6 DEF Inv, PacketsWellFormed, kernelReply
    <3>2. flow[e].handle
      BY <1>1, <3>1 DEF Inv, SynFirst
    <3>3. \A d \in Ends : flow'[d].handle = flow[d].handle
      BY <1>2, <1>4, <1>7, <3>2 DEF Flow
    <3> QED  BY <3>1, <3>3 DEF Inv, TypeOK, Packet, SynFirst, Ends
  <2> QED  BY <2>4, <2>5, <2>6
<1>11. NoGapAcked'
  <2>1. ASSUME NEW d \in Ends \ {e}, flow'[d].handle
        PROVE  Covered(flow'[d].ack, Peer(d), Data(got'[d]))
    BY <1>7, <2>1 DEF Inv, NoGapAcked
  <2>2. Covered(g.ack, Peer(e), Data(got[e] \cup {p}))
    <3> DEFINE next == IF p.SYN THEN Add(p.seq, 1) ELSE f.ack
    <3>1. Data(got[e]) \subseteq Data(got[e] \cup {p}) /\ (p.PSH => p \in Data(got[e] \cup {p}))
      BY DEF Data
    <3>2. Covered(next, Peer(e), Data(got[e] \cup {p}))
      <4>1. CASE p.SYN
        <5>1. next = Start(Peer(e)) /\ Peer(e) \in Ends
          BY <1>1, <4>1 DEF Inv, PacketsWellFormed, Syn, SynAck, Start, Peer, Ends
        <5> QED  BY <5>1, StartCovered
      <4>2. CASE ~p.SYN
        <5>1. f.handle
          BY <1>1, <4>2 DEF Inv, SynFirst
        <5>2. Covered(f.ack, Peer(e), Data(got[e]))
          BY <5>1 DEF Inv, NoGapAcked
        <5> QED  BY SMTT(60), <3>1, <4>2, <5>2, CoveredMonotone
      <4> QED  BY <4>1, <4>2
    <3>3. g.ack = IF p.PSH /\ next = p.seq THEN Add(p.seq, p.len) ELSE next
      BY DEF capture
    <3>4. CASE p.PSH /\ next = p.seq
      BY <3>1, <3>2, <3>3, <3>4, CoveredStep
    <3> QED  BY <3>2, <3>3, <3>4
  <2> QED  BY <1>7, <1>8, <2>1, <2>2 DEF NoGapAcked
<1>12. AcksCovered'
  <2>1. ASSUME NEW q \in {SynAck, HandshakeAck}
        PROVE  Covered(q.ack, q.to, Sent(q.to))
    BY StartCovered DEF SynAck, HandshakeAck, Ends
  <2>2. ASSUME NEW q \in net'
        PROVE  q.to \in Ends
    BY <1>5 DEF TypeOK, Packet
  <2> QED  BY <1>1, <1>3, <1>9, <2>1, <2>2 DEF Inv, AcksCovered
<1>13. SeqCovered'
  <2>1. p.ACK => Covered(p.ack, e, Sent(e))
    BY <1>1 DEF Inv, AcksCovered
  <2>2. g.seq = IF p.ACK THEN p.ack ELSE f.seq
    BY DEF capture
  <2>3. (\E q \in got'[e] : q.ACK) => Covered(g.seq, e, Sent(e))
    BY <1>8, <2>1, <2>2 DEF Inv, SeqCovered
  <2>4. e = "client" => \E q \in got'[e] : q.ACK
    BY <1>1, <1>8 DEF Inv, PacketsWellFormed
  <2> QED  BY <1>7, <1>9, <2>3, <2>4 DEF Inv, SeqCovered
<1> QED  BY <1>5, <1>6, <1>10, <1>11, <1>12, <1>13 DEF Inv

(* A write keeps the invariant: the packet continues its end's stream and  *)
(* carries an ack that only covers what that end has captured.             *)
LEMMA WriteKeeps ==
  ASSUME NEW e \in Ends, NEW n \in Lens, Inv, WriteTo(e, n)
  PROVE  Inv'
<1> DEFINE f == flow[e]
           q == header(e, f, n)
<1>1. /\ MayWrite(e) /\ net' = net \cup {q} /\ got' = got
      /\ flow' = [flow EXCEPT ![e] = written(f, n)]
  BY DEF WriteTo
<1>2. f \in Flow /\ n \in Nat
  BY SeqAckAssumption DEF Inv, TypeOK
<1>3. /\ q.to = Peer(e) /\ q.PSH /\ q.ACK /\ ~q.SYN
      /\ q.seq = f.seq /\ q.ack = f.ack /\ q.len = n
  BY DEF header
<1>4. q \in Packet /\ Peer(e) \in Ends /\ Peer(Peer(e)) = e /\ Peer(e) # e
  BY <1>2 DEF header, Packet, Flow, Peer, Ends
<1>5. /\ written(f, n) \in Flow /\ written(f, n).seq = Add(f.seq, n)
      /\ written(f, n).ack = f.ack /\ written(f, n).handle = f.handle
  BY <1>2, AddType DEF written, Flow, Seqs
<1>6. TypeOK'
  BY <1>1, <1>4, <1>5 DEF Inv, TypeOK
<1>7. /\ flow'[e] = written(f, n) /\ \A d \in Ends \ {e} : flow'[d] = flow[d]
      /\ \A d \in Ends : flow'[d].handle = flow[d].handle /\ flow'[d].ack = flow[d].ack
  BY <1>1, <1>5 DEF Inv, TypeOK
<1>8. PacketsWellFormed' /\ GotAddressed'
  BY SMTT(60), <1>1, <1>3 DEF Inv, PacketsWellFormed, GotAddressed
<1>9. SynFirst'
  <2>1. flow[Peer(e)].handle
    <3>1. CASE e = "client"
      BY <1>1, <3>1 DEF Inv, SynFirst, MayWrite, Peer
    <3>2. CASE e = "server"
      <4>1. PICK p \in got["server"] : p.PSH
        BY <1>1, <3>2 DEF MayWrite, Data
      <4>2. p \in net /\ p.to = "server"
        BY <4>1 DEF Inv, TypeOK, GotAddressed, Ends
      <4> QED  BY <3>2, <4>1, <4>2 DEF Inv, SynFirst, Peer
    <3> QED  BY <3>1, <3>2 DEF Ends
  <2>2. e = "client" => flow["client"].handle
    BY <1>1 DEF MayWrite
  <2>3. q # SynAck
    BY <1>3 DEF SynAck
  <2> QED  BY <1>1, <1>3, <1>4, <1>7, <2>1, <2>2, <2>3 DEF Inv, TypeOK, Packet, SynFirst, Peer, Ends
<1>10. NoGapAcked'
  BY <1>1, <1>7 DEF Inv, NoGapAcked
<1>11. \A d \in Ends : Sent(d) \subseteq Sent(d)'
  BY <1>1 DEF Sent
<1>12. q \in Sent(e)'
  BY <1>1, <1>3 DEF Sent
<1>13. AcksCovered'
  <2>1. Covered(f.ack, Peer(e), Sent(Peer(e)))
    <3>1. Covered(f.ack, Peer(e), Data(got[e]))
      BY <1>1 DEF Inv, NoGapAcked, MayWrite
    <3>2. Data(got[e]) \subseteq Sent(Peer(e))
      BY <1>4 DEF Inv, TypeOK, GotAddressed, Data, Sent
    <3> QED  BY <3>1, <3>2, CoveredMonotone
  <2>2. ASSUME NEW p \in net, p.ACK
        PROVE  Covered(p.ack, p.to, Sent(p.to)')
    <3>1. Covered(p.ack, p.to, Sent(p.to)) /\ p.to \in Ends
      BY SMTT(60), <2>2 DEF Inv, TypeOK, Packet, AcksCovered
    <3> QED  BY <1>11, <3>1, CoveredMonotone
  <2>3. Covered(q.ack, Peer(e), Sent(Peer(e))')
    BY SMTT(60), <1>3, <1>4, <1>11, <2>1, CoveredMonotone
  <2>4. ASSUME NEW p \in net', p.ACK
        PROVE  Covered(p.ack, p.to, Sent(p.to)')
    BY SMTT(60), <1>1, <1>3, <2>2, <2>3, <2>4
  <2> QED  BY <2>4 DEF AcksCovered, Covered
<1>14. SeqCovered'
  <2>1. Covered(f.seq, e, Sent(e))
    <3>1. \E p \in got[e] : p.ACK
      <4>1. CASE e = "client"
        BY <1>1, <4>1 DEF Inv, SeqCovered, MayWrite
      <4>2. CASE e = "server"
        BY <1>1, <4>2 DEF Inv, TypeOK, PacketsWellFormed, MayWrite, Data
      <4> QED  BY SMTT(60), <4>1, <4>2 DEF Ends
    <3> QED  BY <3>1 DEF Inv, SeqCovered
  <2>2. Covered(f.seq, e, Sent(e)')
    BY <1>11, <2>1, CoveredMonotone
  <2>3. Covered(Add(f.seq, n), e, Sent(e)')
    BY <1>3, <1>12, <2>2, CoveredStep
  <2>4. ASSUME NEW d \in Ends \ {e}, \E p \in got[d] : p.ACK
        PROVE  Covered(flow[d].seq, d, Sent(d)')
    BY <1>11, <2>4, CoveredMonotone DEF Inv, SeqCovered
  <2> QED  BY <1>1, <1>5, <1>7, <2>3, <2>4 DEF Inv, SeqCovered
<1> QED  BY <1>6, <1>8, <1>9, <1>10, <1>13, <1>14 DEF Inv

-----------------------------------------------------------------------------
(* Inv is an invariant of the two ends over any such network.              *)
THEOREM Invariance == Spec => []Inv
<1>1. Init => Inv
  BY InitInv
<1>2. Inv /\ [Next]_vars => Inv'
  <2> SUFFICES ASSUME Inv, [Next]_vars
               PROVE  Inv'
    OBVIOUS
  <2>1. CASE \E e \in Ends, p \in net : captureFlow(e, p)
    BY <2>1, CaptureKeeps
  <2>2. CASE \E e \in Ends, n \in Lens : WriteTo(e, n)
    BY <2>2, WriteKeeps
  <2>3. CASE UNCHANGED vars
    BY Zenon, <2>3 DEF vars, Inv, TypeOK, PacketsWellFormed, GotAddressed, SynFirst, NoGapAcked,
       AcksCovered, SeqCovered, Sent
  <2> QED  BY <2>1, <2>2, <2>3 DEF Next
<1> QED  BY <1>1, <1>2, PTL DEF Spec

(* Sequence numbers stay 32 bits wide and captures are of sent packets.    *)
THEOREM TypeCorrect == Spec => []TypeOK
<1>1. Inv => TypeOK
  BY DEF Inv
<1> QED  BY <1>1, Invariance, PTL

(* Over any network that loses, repeats, delays and reorders, an end never *)
(* acknowledges a byte before it has captured all the bytes up to it.      *)
THEOREM AcksAreGapless == Spec => []NoGapAcked
<1>1. Inv => NoGapAcked
  BY DEF Inv
<1> QED  BY <1>1, Invariance, PTL

(* Whatever stale ack sets seq back, the next packet continues the stream. *)
THEOREM StreamIsGapless == Spec => []StreamHasNoHole
<1>1. Inv => StreamHasNoHole
  <2> SUFFICES ASSUME Inv, NEW e \in Ends, MayWrite(e)
               PROVE  Covered(flow[e].seq, e, Sent(e))
    BY DEF StreamHasNoHole
  <2>1. \E p \in got[e] : p.ACK
    <3>1. CASE e = "client"
      BY <3>1 DEF Inv, SeqCovered, MayWrite
    <3>2. CASE e = "server"
      BY <3>2 DEF Inv, TypeOK, PacketsWellFormed, MayWrite, Data
    <3> QED  BY <3>1, <3>2 DEF Ends
  <2> QED  BY <2>1 DEF Inv, SeqCovered
<1> QED  BY <1>1, Invariance, PTL
=============================================================================
