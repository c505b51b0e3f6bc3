------------------------------ MODULE AutoTune -------------------------------
(***************************************************************************)
(* The tuner of FEC v2 (faketcp/fecv2/autotune.go): it samples which of    *)
(* the received seqids are data (bit TRUE) and which are parity, and reads *)
(* the sender's parameters off the lengths of the runs of each.            *)
(***************************************************************************)
EXTENDS Integers, FiniteSetsExt

CONSTANTS
  SeqidMod,    \* seqids are uint32: 2^32 in the code
  MaxSamples   \* maxAutoTuneSamples, 258 in the code

ASSUME AutoTuneAssumption == SeqidMod \in Nat \ {0} /\ MaxSamples \in 2 .. SeqidMod

Pulse == [bit : BOOLEAN, seq : 0 .. SeqidMod - 1]

(* The zero value of autoTune: it reads as parity packets of seqid 0.      *)
noPulses == [i \in 0 .. MaxSamples - 1 |-> [bit |-> FALSE, seq |-> 0]]

(* Sample: a pulse is kept when its seqid is in the window that starts at  *)
(* pulses[0]; the sum is a uint32.                                         *)
Sample(pulses, b, s) ==
  IF s >= pulses[0].seq /\ s <= (pulses[0].seq + MaxSamples) % SeqidMod
  THEN [pulses EXCEPT ![s % MaxSamples] = [bit |-> b, seq |-> s]]
  ELSE pulses

anyPulses(pulses, i) ==  \* faulty: the seqids are not compared
  TRUE

(* The pulses before and at index i are of consecutive seqids.             *)
continuous(pulses, i) == (pulses[i - 1].seq + 1) % SeqidMod = pulses[i].seq

leftEdge(pulses, b) ==
  LET edges == {i \in 1 .. MaxSamples - 1 :
                  pulses[i - 1].bit # b /\ pulses[i].bit = b /\ continuous(pulses, i)}
  IN IF edges = {} THEN 0 ELSE Min(edges)

(* FindPeriod: the length of the first run of b, up to where it falls; -1  *)
(* when the pulses are not consecutive before that.  Without a left edge   *)
(* the run is taken to start at index 0, and without a right edge the      *)
(* length comes out as 0 - leftEdge.                                       *)
FindPeriod(pulses, b) ==
  LET left == leftEdge(pulses, b)
      falls(i) == pulses[i - 1].bit = b /\ pulses[i].bit # b
      stops == {i \in left + 1 .. MaxSamples - 1 : ~continuous(pulses, i) \/ falls(i)}
  IN CASE stops = {} -> 0 - left
       [] stops # {} /\ ~continuous(pulses, Min(stops)) -> -1
       [] OTHER -> Min(stops) - left
=============================================================================
