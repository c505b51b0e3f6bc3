-------------------------------- MODULE Fec ----------------------------------
(***************************************************************************)
(* Forward error correction (faketcp/fec.go): an encoder that adds         *)
(* ParityShards packets to every DataShards ones, and a decoder that finds *)
(* the packets of a group in an ordered queue and recovers what was lost.  *)
(*                                                                         *)
(* The network may lose, repeat, delay and reorder: `net` is every packet  *)
(* ever sent.  A payload is known by its group (counted, never wrapping)   *)
(* and its place in it; the decoder only sees the 32-bit seqid.            *)
(***************************************************************************)
EXTENDS Integers, Sequences, FiniteSets, FiniteSetsExt, Functions

CONSTANTS
  DataShards, ParityShards,
  SeqidMod,      \* seqids are uint32: 2^32 in the code
  RxLimit,     \* NewFec gives 3 * ShardSize, NewFECDecoder allows >= ShardSize
  Starts,      \* the seqids the encoder may have reached when the run begins
  MaxGroups    \* a bound on the groups sent

ShardSize == DataShards + ParityShards

(* The seqids in use: a multiple of ShardSize, so that groups stay aligned *)
(* with it when the numbers wrap.                                          *)
paws == ((SeqidMod - 1) \div ShardSize - 1) * ShardSize

ASSUME FecAssumption ==
  /\ DataShards \in Nat \ {0} /\ ParityShards \in Nat \ {0}
  /\ SeqidMod \in Nat /\ paws > 0
  /\ RxLimit \in Nat /\ RxLimit >= ShardSize
  /\ Starts \subseteq {s \in 0 .. paws - 1 : s % ShardSize = 0}
  /\ MaxGroups \in Nat

VARIABLES
  next,        \* encoder: next seqid
  shardCount,  \* encoder: data shards collected
  group,       \* groups finished so far
  net,         \* the packets sent so far
  rx,          \* decoder: ordered receive queue
  dataCh,      \* recovered payloads not read yet
  out,         \* the payloads the application has read (history)
  seen,        \* the packets decoded (history)
  evicted,     \* the groups of the packets that rxlimit removed (history)
  full         \* dataCh was full: decode has panicked

encVars == <<next, shardCount, group, net>>
decVars == <<rx, dataCh, out, seen, evicted, full>>
vars == <<encVars, decVars>>

Packet == [seqid : 0 .. SeqidMod - 1, flag : {"data", "fec"}, group : Nat, shard : 0 .. ShardSize - 1]
Garbage == [group |-> 0, shard |-> ShardSize]
Payload == [group : Nat, shard : 0 .. DataShards - 1] \cup {Garbage}

(* The shape of the state; neither the ordered queue nor the channel grows *)
(* beyond the limit NewFec gives it.                                       *)
TypeOK ==
  /\ next \in 0 .. SeqidMod - 1
  /\ shardCount \in 0 .. DataShards - 1
  /\ group \in Nat
  /\ net \subseteq Packet
  /\ rx \in Seq(Packet) /\ Len(rx) <= RxLimit
  /\ dataCh \in Seq(Payload) /\ Len(dataCh) <= ShardSize
  /\ out \subseteq Payload
  /\ seen \subseteq net
  /\ evicted \subseteq Nat
  /\ full \in BOOLEAN

Init ==
  /\ next \in Starts
  /\ shardCount = 0 /\ group = 0
  /\ net = {}
  /\ rx = <<>> /\ dataCh = <<>>
  /\ out = {} /\ seen = {} /\ evicted = {}
  /\ full = FALSE

-----------------------------------------------------------------------------
(* The encoder                                                             *)
markData(n) == (n + 1) % SeqidMod

markFECUnpadded(n) ==  \* faulty: the seqids wrap where uint32 does
  (n + 1) % SeqidMod

markFEC(n) == ((n + 1) % SeqidMod) % paws

(* markFEC applied i times.                                                *)
markedFEC[i \in Nat] == IF i = 0 THEN markData(next) ELSE markFEC(markedFEC[i - 1])

DataPacket == [seqid |-> next, flag |-> "data", group |-> group, shard |-> shardCount]
ParityPackets ==
  {[seqid |-> markedFEC[i], flag |-> "fec", group |-> group, shard |-> DataShards + i]
     : i \in 0 .. ParityShards - 1}

(* EncodeData: the packet and, when it completes a group, its parity are   *)
(* sent.  A send that fails ends the call; what it leaves out is lost.     *)
EncodeData ==
  /\ group < MaxGroups
  /\ IF shardCount + 1 = DataShards
     THEN /\ next' = markedFEC[ParityShards]
          /\ shardCount' = 0
          /\ group' = group + 1
          /\ net' = net \cup {DataPacket} \cup ParityPackets
     ELSE /\ next' = markData(next)
          /\ shardCount' = shardCount + 1
          /\ net' = net \cup {DataPacket}
          /\ UNCHANGED group
  /\ UNCHANGED decVars

-----------------------------------------------------------------------------
(* The decoder                                                             *)
itimediff(later, earlier) ==
  LET d == (later - earlier) % SeqidMod IN IF d < SeqidMod \div 2 THEN d ELSE d - SeqidMod

(* The place of a packet in its group, by its seqid.                       *)
place(pkt) == pkt.seqid % ShardSize

(* Scanning rx from its end for pkt's place: the position that stops the   *)
(* scan, 0 if none does.                                                   *)
stopIdx(pkt) ==
  Max({0} \cup {i \in DOMAIN rx : \/ rx[i].seqid = pkt.seqid
                                  \/ itimediff(pkt.seqid, rx[i].seqid) > 0})

isDuplicate(pkt) == stopIdx(pkt) > 0 /\ rx[stopIdx(pkt)].seqid = pkt.seqid

insertBefore(pkt) ==  \* faulty: in front of the packet that stops the scan
  Max({1, stopIdx(pkt)})

insertIdx(pkt) == stopIdx(pkt) + 1

searchShort(pkt, n) ==  \* faulty: the window is one packet short
  LET begin == Max({1, insertIdx(pkt) - place(pkt)})
  IN begin .. Min({begin + ShardSize - 2, n})

(* Where in the queue, of length n after the insertion, pkt's group can be.*)
search(pkt, n) ==
  LET begin == Max({1, insertIdx(pkt) - place(pkt)})
  IN begin .. Min({begin + ShardSize - 1, n})

assembleFromAnywhere(pkt, q) ==  \* faulty: the group's first seqid is not checked
  LET shardEnd == (pkt.seqid - place(pkt) + ShardSize - 1) % SeqidMod
  IN {i \in search(pkt, Len(q)) :
        \A j \in search(pkt, Len(q)) : j <= i => itimediff(q[j].seqid, shardEnd) <= 0}

(* Shard assembly: the positions of pkt's group in the window.             *)
assemble(pkt, q) ==
  LET shardBegin == pkt.seqid - place(pkt)
      shardEnd == (shardBegin + ShardSize - 1) % SeqidMod
  IN {i \in search(pkt, Len(q)) :
        /\ \A j \in search(pkt, Len(q)) : j <= i => itimediff(q[j].seqid, shardEnd) <= 0
        /\ itimediff(q[i].seqid, shardBegin) >= 0}

freeRange(first, n, q) == SubSeq(q, 1, first - 1) \o SubSeq(q, first + n, Len(q))

(* codec.ReconstructData: shards of one group, each in its own place, give *)
(* back its missing data; any others give bytes nobody has sent.           *)
ReconstructData(S, k) ==
  IF \A p, q \in S : p.group = q.group /\ p.shard = place(p)
  THEN [group |-> (CHOOSE p \in S : TRUE).group, shard |-> k]
  ELSE Garbage

(* The i-th smallest number of S: the data shards are visited in order.    *)
nth(S, i) == CHOOSE k \in S : Cardinality({j \in S : j < k}) = i - 1

keepAll(q) ==  \* faulty: no limit
  q

keepRxlimit(q) == IF Len(q) > RxLimit THEN Tail(q) ELSE q

(* The queue with e at position i, the packets from i on moved up by one.  *)
insertAt(q, i, e) == SubSeq(q, 1, i - 1) \o <<e>> \o SubSeq(q, i, Len(q))

(* FecDecoder.Decode of a packet that is not a duplicate: the queue and    *)
(* the payloads it recovers.                                               *)
Decode(pkt) ==
  LET q == insertAt(rx, insertIdx(pkt), pkt)
      at == assemble(pkt, q)
      shards == {q[i] : i \in at}
      have == {place(p) : p \in shards}
      dataAt == {i \in at : q[i].flag = "data"}
      lost == {k \in 0 .. DataShards - 1 : k \notin have}
      wide == Cardinality(search(pkt, Len(q))) >= DataShards
  IN CASE wide /\ Cardinality(dataAt) = DataShards ->
            [rx |-> freeRange(Min(at), Cardinality(at), q), recovered |-> <<>>]
       [] wide /\ Cardinality(dataAt) # DataShards /\ Cardinality(at) >= DataShards ->
            [rx |-> freeRange(Min(at), Cardinality(at), q),
             recovered |-> [i \in 1 .. Cardinality(lost) |-> ReconstructData(shards, nth(lost, i))]]
       [] OTHER -> [rx |-> q, recovered |-> <<>>]

(* DecodeData reads what was recovered first ...                           *)
readRecovered ==
  /\ ~full
  /\ dataCh # <<>>
  /\ out' = out \cup {Head(dataCh)}
  /\ dataCh' = Tail(dataCh)
  /\ UNCHANGED <<encVars, rx, seen, evicted, full>>

(* ... and a packet only when there is none.  A data packet's payload is   *)
(* returned as it is; recovered ones go to dataCh, which must have room.   *)
deliver(pkt, d) ==
  /\ rx' = keepRxlimit(d.rx)
  /\ evicted' = IF Len(d.rx) > RxLimit THEN evicted \cup {d.rx[1].group} ELSE evicted
  /\ seen' = seen \cup {pkt}
  /\ out' = IF pkt.flag = "data" THEN out \cup {[group |-> pkt.group, shard |-> pkt.shard]} ELSE out
  /\ LET all == dataCh \o d.recovered
     IN /\ dataCh' = SubSeq(all, 1, Min({Len(all), ShardSize}))
        /\ full' = (Len(all) > ShardSize)

decodeUndrained(pkt) ==  \* faulty: the connection is read before dataCh
  /\ ~full
  /\ deliver(pkt, IF isDuplicate(pkt) THEN [rx |-> rx, recovered |-> <<>>] ELSE Decode(pkt))
  /\ UNCHANGED encVars

decode(pkt) ==
  /\ ~full
  /\ dataCh = <<>>
  /\ deliver(pkt, IF isDuplicate(pkt) THEN [rx |-> rx, recovered |-> <<>>] ELSE Decode(pkt))
  /\ UNCHANGED encVars

Next ==
  \/ EncodeData
  \/ readRecovered
  \/ \E pkt \in net : decode(pkt)

Spec == Init /\ [][Next]_vars

-----------------------------------------------------------------------------
(* The stream uses fewer than half of the seqids, those the wrap at paws   *)
(* leaves out included: itimediff tells any two of its packets apart.      *)
ShortStream == MaxGroups * ShardSize + (SeqidMod - paws) <= SeqidMod \div 2

(* The receive queue is strictly ordered as serial numbers are, over the   *)
(* wrap of the seqids too: without it groups would not be contiguous and   *)
(* freeRange would free packets of others ("ordered receive queue").       *)
RxOrdered ==
  \A i, j \in DOMAIN rx : i < j => itimediff(rx[j].seqid, rx[i].seqid) > 0

(* As soon as any DataShards packets of a group have arrived, in whatever  *)
(* order and among whatever others, all of its data is read or ready to be *)
(* read, unless rxlimit has taken one of its packets: the search window    *)
(* never misses a packet of the group.                                     *)
EnoughShardsRecover ==
  \A g \in 0 .. group :
    (Cardinality({p \in seen : p.group = g}) >= DataShards /\ g \notin evicted)
      => \A k \in 0 .. DataShards - 1 : \/ [group |-> g, shard |-> k] \in out
                                        \/ \E i \in DOMAIN dataCh : dataCh[i] = [group |-> g, shard |-> k]

payloadOf(p) == [group |-> p.group, shard |-> p.shard]

Service == INSTANCE Datagram WITH
  sent <- {payloadOf(p) : p \in {q \in net : q.flag = "data"}},
  delivered <- out \cup Range(dataCh)

(* The encoder, the network and the decoder together are a datagram        *)
(* service: every call of DecodeData returns a payload EncodeData was      *)
(* given before.  It rests on the shards given to the codec being of one   *)
(* group and each in its place; otherwise decode panics on the size it     *)
(* finds ("fec data invalid size") or returns garbage.                     *)
IsDatagramService == Service!Spec

(* decode never finds dataCh full (its panic), because DecodeData reads    *)
(* dataCh first: "recovered data is read at once, with priority" (NewFec). *)
DataChHasRoom == ~full
=============================================================================
