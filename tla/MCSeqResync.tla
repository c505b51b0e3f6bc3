------------------------------ MODULE MCSeqResync ------------------------------
EXTENDS SeqResync

(* The client's numbers wrap with its second byte.  The server's answers   *)
(* are empty: the length of a packet only matters to the stream it is part *)
(* of, and the property is about the client's.                             *)
IsnNearWrap == [client |-> SeqMod - 2, server |-> SeqMod - 1]
Answering == [client |-> {1, 2}, server |-> {0}]
=============================================================================
