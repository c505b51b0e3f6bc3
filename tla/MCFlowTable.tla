----------------------------- MODULE MCFlowTable -----------------------------
(* Finite instances of FlowTable for TLC.                                  *)
EXTENDS FlowTable, TLC

CONSTANTS k1, k2

OneKey == {k1}
TwoKeys == {k1, k2}
SameShard == [k \in OneKey |-> 0]
OwnShards == k1 :> 0 @@ k2 :> 1

\* Flow objects and sockets are interchangeable
PoolSymmetry == Permutations(Flows) \cup Permutations(Socks)
=============================================================================
