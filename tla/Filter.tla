------------------------------- MODULE Filter --------------------------------
(***************************************************************************)
(* The socket filter of a capture handle (sockfilter.go): the classic BPF  *)
(* program that the kernel runs on every IPv4 packet before it reaches     *)
(* captureFlow, and an interpreter for the instructions it uses.           *)
(***************************************************************************)
EXTENDS Integers, Sequences

CONSTANT IpPackets

(* What the program reads of an IPv4 packet: the protocol, the flags and   *)
(* the fragment offset, the header's length in words, the TCP or UDP port. *)
uint8 == 0 .. 255
uint16 == 0 .. 65535
HeaderWords == 5 .. 15
Header == [protocol : uint8, fragment : uint16, ihl : HeaderWords, port : uint16]

ASSUME FilterAssumption == IpPackets \subseteq Header

(* What a load at an offset of the packet finds; the destination port is   *)
(* two bytes into the segment, after a header of 4 * ihl bytes.            *)
loadAt(p, offset) ==
  CASE offset = 0 -> 64 + p.ihl
    [] offset = 6 -> p.fragment
    [] offset = 9 -> p.protocol
    [] offset = 4 * p.ihl + 2 -> p.port
    [] OTHER -> 0

programShortJump(port) ==  \* faulty: fragments jump to the instruction that accepts
  << [op |-> "ldb", k |-> 9], [op |-> "jeq", k |-> 6, jt |-> 0, jf |-> 6],
     [op |-> "ldh", k |-> 6], [op |-> "jset", k |-> 8191, jt |-> 3, jf |-> 0],
     [op |-> "ldxb", k |-> 0], [op |-> "ldhx", k |-> 2],
     [op |-> "jeq", k |-> port, jt |-> 0, jf |-> 1],
     [op |-> "ret", k |-> 262144], [op |-> "ret", k |-> 0] >>

(* The program SetBPFFilterPortByPacketConn installs.                      *)
program(port) ==
  << [op |-> "ldb", k |-> 9],
     [op |-> "jeq", k |-> 6, jt |-> 0, jf |-> 6],
     [op |-> "ldh", k |-> 6],
     [op |-> "jset", k |-> 8191, jt |-> 4, jf |-> 0],
     [op |-> "ldxb", k |-> 0],
     [op |-> "ldhx", k |-> 2],
     [op |-> "jeq", k |-> port, jt |-> 0, jf |-> 1],
     [op |-> "ret", k |-> 262144],
     [op |-> "ret", k |-> 0] >>

(* One instruction of the kernel's machine: accumulator a, index x, and    *)
(* the index of the next instruction.  jset is used with masks of low bits.*)
execute(p, m, i) ==
  LET goto(cond) == [m EXCEPT !.pc = m.pc + 1 + (IF cond THEN i.jt ELSE i.jf)]
      next == [m EXCEPT !.pc = m.pc + 1]
  IN CASE i.op \in {"ldb", "ldh"} -> [next EXCEPT !.a = loadAt(p, i.k)]
       [] i.op = "ldxb" -> [next EXCEPT !.x = 4 * (loadAt(p, i.k) % 16)]
       [] i.op = "ldhx" -> [next EXCEPT !.a = loadAt(p, m.x + i.k)]
       [] i.op = "jeq" -> goto(m.a = i.k)
       [] i.op = "jset" -> goto(m.a % (i.k + 1) # 0)
       [] i.op = "ret" -> [m EXCEPT !.pc = 0, !.ret = i.k]

(* The instruction n, when the machine is at it.                           *)
step(p, port, m, n) == IF m.pc = n THEN execute(p, m, program(port)[n]) ELSE m

(* Jumps only go forward, so one pass over the nine instructions runs them.*)
accepts(p, port) ==
  LET m1 == step(p, port, [pc |-> 1, a |-> 0, x |-> 0, ret |-> 0], 1)
      m2 == step(p, port, m1, 2)
      m3 == step(p, port, m2, 3)
      m4 == step(p, port, m3, 4)
      m5 == step(p, port, m4, 5)
      m6 == step(p, port, m5, 6)
      m7 == step(p, port, m6, 7)
      m8 == step(p, port, m7, 8)
      m9 == step(p, port, m8, 9)
  IN m9.ret > 0

-----------------------------------------------------------------------------
(* The ports for which the program passes exactly the TCP packets to the   *)
(* port at fragment offset 0, wherever options put the TCP header.         *)
ExactPorts ==
  {port \in {p.port : p \in IpPackets} :
     \A p \in IpPackets :
       accepts(p, port) <=> (p.protocol = 6 /\ p.fragment % 8192 = 0 /\ p.port = port)}
=============================================================================
