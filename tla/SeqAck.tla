------------------------------- MODULE SeqAck --------------------------------
(***************************************************************************)
(* Two ends that exchange tcpraw packets after a kernel handshake.  The    *)
(* network may lose, repeat, delay and reorder: `net` is every packet ever *)
(* sent, a lost packet is one that is never captured.                      *)
(*                                                                         *)
(* A packet reaches the raw handle's queue when it reaches the kernel, and *)
(* captureFlow takes the queue in order (faketcp/readme.md:6), so that the *)
(* kernel's answer to a handshake packet is one step with its capture.     *)
(***************************************************************************)
EXTENDS TcpFlow, FiniteSets

CONSTANTS
  Lens,     \* the lengths of what the applications write
  MaxSent   \* a bound on the packets in net

ASSUME SeqAckAssumption == Lens \subseteq Nat

VARIABLES
  flow,   \* end -> its tcpFlow
  net,    \* the packets sent so far
  got     \* end -> the packets it has captured (history)

vars == <<flow, net, got>>

(* Sequence numbers fit their field, and only sent packets are captured.   *)
TypeOK ==
  /\ flow \in [Ends -> Flow]
  /\ net \in SUBSET Packet
  /\ got \in [Ends -> SUBSET net]

Syn == [to |-> "server", SYN |-> TRUE, ACK |-> FALSE, PSH |-> FALSE,
        seq |-> Isn["client"], ack |-> 0, len |-> 0]
SynAck == [to |-> "client", SYN |-> TRUE, ACK |-> TRUE, PSH |-> FALSE,
           seq |-> Isn["server"], ack |-> Start("client"), len |-> 0]
HandshakeAck == [to |-> "server", SYN |-> FALSE, ACK |-> TRUE, PSH |-> FALSE,
                 seq |-> Start("client"), ack |-> Start("server"), len |-> 0]

(* DialTCP has sent its SYN.                                               *)
Init ==
  /\ flow = [e \in Ends |-> newFlow]
  /\ net = {Syn}
  /\ got = [e \in Ends |-> {}]

(* The kernel completes the handshake.                                     *)
kernelReply(p) == CASE p = Syn    -> {SynAck}
                    [] p = SynAck -> {HandshakeAck}
                    [] OTHER      -> {}

captureFlow(e, p) ==
  /\ p.to = e
  /\ flow' = [flow EXCEPT ![e] = capture(flow[e], p)]
  /\ got' = [got EXCEPT ![e] = @ \cup {p}]
  /\ net' = net \cup kernelReply(p)

(* The client's application writes to the address it has dialled; the      *)
(* server's only knows the addresses that ReadFrom has returned.           *)
Data(P) == {p \in P : p.PSH}
MayWrite(e) ==
  /\ flow[e].handle
  /\ e = "server" => Data(got[e]) # {}

WriteTo(e, n) ==
  /\ MayWrite(e)
  /\ Cardinality(net) < MaxSent
  /\ net' = net \cup {header(e, flow[e], n)}
  /\ flow' = [flow EXCEPT ![e] = written(flow[e], n)]
  /\ UNCHANGED got

Next ==
  \/ \E e \in Ends, p \in net : captureFlow(e, p)
  \/ \E e \in Ends, n \in Lens : WriteTo(e, n)

Spec == Init /\ [][Next]_vars

-----------------------------------------------------------------------------
Sent(e) == {p \in net : p.PSH /\ p.to = Peer(e)}

(* x is a position of e's stream that the packets of P cover without a     *)
(* hole: it is in every set that holds the start of the stream and, with   *)
(* the first byte of a packet of P, the byte after its last.               *)
Covered(x, e, P) ==
  \A S \in SUBSET Seqs :
    (Start(e) \in S /\ \A p \in P : p.seq \in S => Add(p.seq, p.len) \in S) => x \in S

(* An end acknowledges no byte unless it has captured every byte before    *)
(* it, whatever was lost, repeated or reordered and however often the      *)
(* numbers have wrapped ("only when ack equals the packet's number is ack  *)
(* updated", decodeTCPPacket).                                             *)
NoGapAcked ==
  \A e \in Ends : flow[e].handle => Covered(flow[e].ack, Peer(e), Data(got[e]))

(* The number an end sends its next packet with continues what it has      *)
(* already sent: setting seq to whatever ack arrives, stale or not, never  *)
(* leaves a hole in the stream an observer sees.                           *)
StreamHasNoHole ==
  \A e \in Ends : MayWrite(e) => Covered(flow[e].seq, e, Sent(e))
=============================================================================
