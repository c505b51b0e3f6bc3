------------------------------ MODULE MCFecV2 --------------------------------
EXTENDS FecV2

(* Decoders with the sender's parameters and with others.                  *)
Tuned == {[start |-> 0, data |-> DataShards, parity |-> ParityShards]}
Untuned == {[start |-> 0, data |-> 1, parity |-> 1], [start |-> 0, data |-> 3, parity |-> 1]}
(* The seqids wrap after the first group.                                  *)
NearWrap == {[start |-> paws - ShardSize, data |-> DataShards, parity |-> ParityShards]}

AllSessions == Tuned \cup Untuned \cup NearWrap

(* The instance the run checks is one the theorems speak of.               *)
ASSUME EachSeqidOnceHolds == EachSeqidOnce
=============================================================================
