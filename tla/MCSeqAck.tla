------------------------------- MODULE MCSeqAck -------------------------------
EXTENDS SeqAck

(* The client's numbers wrap with its second byte.                         *)
IsnNearWrap == [client |-> SeqMod - 2, server |-> 2]
=============================================================================
