------------------------------- MODULE TcpFlow -------------------------------
(***************************************************************************)
(* The sequence numbers of one tcpFlow (tcp_linux.go): what a captured     *)
(* packet does to them and what a written one carries.  The network, the   *)
(* two ends and their interleavings are in SeqAck and SeqResync.           *)
(***************************************************************************)
EXTENDS Naturals

CONSTANTS
  SeqMod,   \* sequence numbers are uint32: 2^32 in the code
  Isn       \* end -> the initial sequence number its kernel has chosen

Ends == {"client", "server"}
Peer(e) == IF e = "client" THEN "server" ELSE "client"
Seqs == 0 .. SeqMod - 1

ASSUME TcpFlowAssumption ==
  /\ SeqMod \in Nat \ {0}
  /\ Isn \in [Ends -> Seqs]

Add(s, n) == (s + n) % SeqMod

(* The number of the first byte of data that e sends: the SYN counts for   *)
(* one byte.                                                               *)
Start(e) == Add(Isn[e], 1)

Flow == [seq : Seqs, ack : Seqs, handle : BOOLEAN]
Packet == [to : Ends, SYN : BOOLEAN, ACK : BOOLEAN, PSH : BOOLEAN,
           seq : Seqs, ack : Seqs, len : Nat]

(* new(tcpFlow): all zero, and no handle yet.                              *)
newFlow == [seq |-> 0, ack |-> 0, handle |-> FALSE]

captureAnyPSH(f, p) ==  \* faulty: every PSH packet moves ack
  [seq    |-> IF p.ACK THEN p.ack ELSE f.seq,
   ack    |-> IF p.PSH THEN Add(p.seq, p.len) ELSE IF p.SYN THEN Add(p.seq, 1) ELSE f.ack,
   handle |-> TRUE]

captureKeepsSeq(f, p) ==  \* faulty: an ACK only moves seq the first time
  [seq    |-> IF p.ACK /\ ~f.handle THEN p.ack ELSE f.seq,
   ack    |-> IF p.PSH /\ f.ack = p.seq THEN Add(p.seq, p.len)
              ELSE IF p.SYN THEN Add(p.seq, 1) ELSE f.ack,
   handle |-> TRUE]

(* The argument of decodeTCPPacket's lockflow on flow f and packet p.      *)
capture(f, p) ==
  LET next == IF p.SYN THEN Add(p.seq, 1) ELSE f.ack IN
  [seq    |-> IF p.ACK THEN p.ack ELSE f.seq,
   ack    |-> IF p.PSH /\ next = p.seq THEN Add(p.seq, p.len) ELSE next,
   handle |-> TRUE]

(* WriteTo of n bytes on e's flow f: the packet, and the flow after it.    *)
header(e, f, n) ==
  [to |-> Peer(e), SYN |-> FALSE, ACK |-> TRUE, PSH |-> TRUE,
   seq |-> f.seq, ack |-> f.ack, len |-> n]

writtenOneMore(f, n) ==  \* faulty: the packet counts for one byte more, like a SYN
  [f EXCEPT !.seq = Add(f.seq, n + 1)]

writtenUnwrapped(f, n) ==  \* faulty: seq is wider than the header's field
  [f EXCEPT !.seq = f.seq + n]

written(f, n) == [f EXCEPT !.seq = Add(f.seq, n)]
=============================================================================
