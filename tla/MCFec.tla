-------------------------------- MODULE MCFec ---------------------------------
EXTENDS Fec

(* The seqids wrap while the second group is sent.                         *)
NearWrap == {paws - ShardSize}

(* The instances the runs check are ones the theorems speak of.            *)
ASSUME ShortStreamHolds == ShortStream
=============================================================================
