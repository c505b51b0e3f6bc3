------------------------------- MODULE FecV2 ---------------------------------
(***************************************************************************)
(* Forward error correction, second version (faketcp/fecv2/fec.go): the    *)
(* decoder keeps one heap of packets per group ("shard set"), drops what   *)
(* is older than the newest group it has seen, and tunes its parameters to *)
(* the sender's when the packets do not fit the ones it has.               *)
(*                                                                         *)
(* As in Fec, `net` is every packet ever sent: it is lost, repeated,       *)
(* delayed or reordered by being decoded never, twice, late or in another  *)
(* order.  Groups are counted and never wrap; the decoder sees seqids.     *)
(***************************************************************************)
EXTENDS AutoTune, FiniteSets, Functions

CONSTANTS
  DataShards, ParityShards,   \* the parameters of the sender
  maxShardSets,               \* 3 in the code
  Sessions,                   \* seqid reached by the sender and parameters of the decoder at the start
  MaxGroups                   \* a bound on the groups sent

ShardSize == DataShards + ParityShards

(* The seqids in use, a multiple of ShardSize (newFECEncoder).             *)
paws == ((SeqidMod - 1) \div ShardSize) * ShardSize

ASSUME FecV2Assumption ==
  /\ DataShards \in Nat \ {0} /\ ParityShards \in Nat \ {0}
  /\ paws > 0
  /\ maxShardSets \in Nat
  /\ \A s \in Sessions : /\ s.start \in 0 .. paws - 1 /\ s.start % ShardSize = 0
                         /\ s.data \in Nat \ {0} /\ s.parity \in Nat \ {0}
  /\ MaxGroups \in Nat

VARIABLES
  session,     \* the member of Sessions this behaviour began with
  next,        \* encoder: next seqid
  shardCount,  \* encoder: data shards collected
  group,       \* the group being filled, counted from seqid 0
  net,         \* the packets sent so far
  params,      \* decoder: dataShards and parityShards
  shardSet,    \* decoder: the heap of each shard id it holds
  minShardId,  \* decoder: ids smaller than this are discarded
  pulses,      \* decoder: autoTune
  shouldTune,  \* decoder: the packets do not fit params
  recovered,   \* the payloads decode has returned (history)
  newest,      \* the largest group decoded (history)
  taken        \* the packets decoded in step and in time (history)

encVars == <<next, shardCount, group, net>>
tuneVars == <<params, pulses, shouldTune>>
vars == <<session, encVars, tuneVars, shardSet, minShardId, recovered, newest, taken>>

Packet == [seqid : 0 .. SeqidMod - 1, flag : {"data", "parity"}, group : Nat, shard : 0 .. ShardSize - 1]
Garbage == [group |-> 0, shard |-> ShardSize]
Payload == [group : Nat, shard : 0 .. ShardSize - 1] \cup {Garbage}

Peer == [data |-> DataShards, parity |-> ParityShards]
InStep == params = Peer
firstGroup == session.start \div ShardSize
size == params.data + params.parity

(* The shape of the state; never more than maxShardSets + 1 heaps.         *)
TypeOK ==
  /\ session \in Sessions
  /\ next \in 0 .. paws - 1
  /\ shardCount \in 0 .. DataShards - 1
  /\ group \in Nat
  /\ net \subseteq Packet
  /\ params \in [data : Nat \ {0}, parity : Nat \ {0}]
  /\ IsFiniteSet(DOMAIN shardSet) /\ Cardinality(DOMAIN shardSet) <= maxShardSets + 1
  /\ \A id \in DOMAIN shardSet : shardSet[id] \subseteq net
  /\ minShardId \in 0 .. SeqidMod - 1
  /\ pulses \in [0 .. MaxSamples - 1 -> Pulse]
  /\ shouldTune \in BOOLEAN
  /\ recovered \subseteq Payload
  /\ newest \in Nat
  /\ taken \subseteq net

Init ==
  /\ session \in Sessions
  /\ next = session.start
  /\ shardCount = 0 /\ group = firstGroup
  /\ net = {}
  /\ params = [data |-> session.data, parity |-> session.parity]
  /\ shardSet = [id \in {} |-> {}] /\ minShardId = 0
  /\ pulses = noPulses /\ shouldTune = FALSE
  /\ recovered = {} /\ newest = 0 /\ taken = {}

-----------------------------------------------------------------------------
(* The encoder                                                             *)
sealData(n) == ((n + 1) % SeqidMod) % paws

sealParityUnpadded(n) ==  \* faulty: the seqids wrap where uint32 does
  (n + 1) % SeqidMod

sealParity(n) == ((n + 1) % SeqidMod) % paws

(* sealParity applied i times.                                             *)
sealedParity[i \in Nat] == IF i = 0 THEN sealData(next) ELSE sealParity(sealedParity[i - 1])

skipNothing(n) ==  \* faulty: the seqids of a parity that is not sent are used for data
  n

skipParity(n) == ((n + ParityShards) % SeqidMod) % paws

DataPacket == [seqid |-> next, flag |-> "data", group |-> group, shard |-> shardCount]
DataSent == {p \in net : p.flag = "data"}
ParityPackets ==
  {[seqid |-> sealedParity[i], flag |-> "parity", group |-> group, shard |-> DataShards + i]
     : i \in 0 .. ParityShards - 1}

(* encode of a packet that does not complete a group ...                   *)
encodeData ==
  /\ group < firstGroup + MaxGroups
  /\ shardCount + 1 < DataShards
  /\ next' = sealData(next)
  /\ shardCount' = shardCount + 1
  /\ net' = net \cup {DataPacket}
  /\ UNCHANGED <<session, group, tuneVars, shardSet, minShardId, recovered, newest, taken>>

(* ... and of one that does: parity is sent when the packet follows the    *)
(* one before within the rto and the codec does not fail, else its seqids  *)
(* are skipped.                                                            *)
encodeGroup ==
  /\ group < firstGroup + MaxGroups
  /\ shardCount + 1 = DataShards
  /\ \/ /\ net' = net \cup {DataPacket} \cup ParityPackets
        /\ next' = sealedParity[ParityShards]
     \/ /\ net' = net \cup {DataPacket}
        /\ next' = skipParity(sealData(next))
  /\ shardCount' = 0
  /\ group' = group + 1
  /\ UNCHANGED <<session, tuneVars, shardSet, minShardId, recovered, newest, taken>>

-----------------------------------------------------------------------------
(* The decoder                                                             *)
(* _itimediff: the difference as an int32.                                 *)
itimediff(later, earlier) ==
  LET d == (later - earlier) % SeqidMod IN IF d < SeqidMod \div 2 THEN d ELSE d - SeqidMod

(* The flag of the packet is the one its place under params calls for.     *)
inPattern(pkt) == (pkt.seqid % size < params.data) <=> (pkt.flag = "data")

tuneKeepsHeaps(ds, ps) ==  \* faulty: the packets grouped under the old parameters stay
  /\ params' = [data |-> ds, parity |-> ps]
  /\ shouldTune' = FALSE
  /\ UNCHANGED shardSet

(* New parameters: what was grouped under the old ones is dropped, the     *)
(* minimum shard id stays.                                                 *)
adopt(ds, ps) ==
  /\ params' = [data |-> ds, parity |-> ps]
  /\ shardSet' = [id \in {} |-> {}]
  /\ shouldTune' = FALSE

(* Out of step: the packet is not decoded.  Tuning ends only when the      *)
(* pulses show parameters other than the present ones.                     *)
tune ==
  LET ds == FindPeriod(pulses', TRUE)
      ps == FindPeriod(pulses', FALSE)
  IN IF ds > 0 /\ ps > 0 /\ ds < 256 /\ ps < 256 /\ params # [data |-> ds, parity |-> ps]
     THEN adopt(ds, ps)
     ELSE shouldTune' = TRUE /\ UNCHANGED <<params, shardSet>>

getShardId(seqid) == seqid \div size
place(pkt) == pkt.seqid % size

(* shardHeap: a set of packets with distinct seqids.                       *)
heapOf(id) == IF id \in DOMAIN shardSet THEN shardSet[id] ELSE {}
Has(heap, seqid) == \E p \in heap : p.seqid = seqid

(* codec.ReconstructData: shards of one group, each in its own place, give *)
(* back the missing data to a decoder with the sender's parameters; any    *)
(* others give bytes nobody has sent.                                      *)
ReconstructData(shards, k) ==
  IF InStep /\ \A p, q \in shards : p.group = q.group /\ p.shard = place(p)
  THEN [group |-> (CHOOSE p \in shards : TRUE).group, shard |-> k]
  ELSE Garbage

enough(heap) == Cardinality(heap) >= params.data

recoverNothing(heap) ==  \* faulty: parity counts as data
  LET have == {place(p) : p \in heap}
  IN IF Cardinality(heap) = params.data THEN {}
     ELSE {ReconstructData(heap, k) : k \in (0 .. params.data - 1) \ have}

(* What decode returns for a heap with enough packets.                     *)
recover(heap) ==
  LET have == {place(p) : p \in heap}
      full == Cardinality({p \in heap : p.flag = "data"}) = params.data
  IN IF full THEN {} ELSE {ReconstructData(heap, k) : k \in (0 .. params.data - 1) \ have}

flushNothing(sets, min) ==  \* faulty: old heaps stay
  sets

flushShards(sets, min) == Restrict(sets, {id \in DOMAIN sets : itimediff(min, id) <= maxShardSets})

(* The rest of decode, for a packet in step: it joins the heap of its id,  *)
(* which is emptied once it has enough; the minimum id follows the newest. *)
collect(pkt) ==
  LET id == getShardId(pkt.seqid)
      heap == heapOf(id) \cup {pkt}
      min == IF itimediff(id, minShardId) > 0 THEN id ELSE minShardId
      put(h) == flushShards([i \in DOMAIN shardSet \cup {id} |-> IF i = id THEN h ELSE shardSet[i]], min)
      ignored == itimediff(id, minShardId) < 0 \/ Has(heapOf(id), pkt.seqid)
  IN /\ IF ignored
        THEN UNCHANGED <<shardSet, minShardId, recovered>>
        ELSE /\ minShardId' = min
             /\ shardSet' = put(IF enough(heap) THEN {} ELSE heap)
             /\ recovered' = IF enough(heap) THEN recovered \cup recover(heap) ELSE recovered
     /\ UNCHANGED <<params, shouldTune>>

(* The packet comes in step, before any of a later group and, when the    *)
(* parameters were tuned, not below a minimum counted under the old ones.  *)
inTime(pkt) ==
  /\ InStep
  /\ pkt.group >= newest
  /\ \/ session.data = DataShards /\ session.parity = ParityShards
     \/ getShardId(pkt.seqid) >= minShardId

decode(pkt) ==
  /\ pulses' = Sample(pulses, pkt.flag = "data", pkt.seqid)
  /\ IF shouldTune \/ ~inPattern(pkt)
     THEN tune /\ UNCHANGED <<minShardId, recovered, taken>>
     ELSE /\ collect(pkt)
          /\ taken' = IF inTime(pkt) THEN taken \cup {pkt} ELSE taken
  /\ newest' = Max({newest, pkt.group})
  /\ UNCHANGED <<session, encVars>>

Next ==
  \/ encodeData
  \/ encodeGroup
  \/ \E pkt \in net : decode(pkt)

Spec == Init /\ [][Next]_vars

-----------------------------------------------------------------------------
(* What the code keeps                                                     *)

(* Whether parity is sent, skipped or fails, over the wrap of the seqids   *)
(* too, a group starts at a multiple of ShardSize ("to keep the seqid      *)
(* aligned with 0 start", encode): otherwise the decoder would be out of   *)
(* step for good.                                                          *)
EncoderAligned == next % ShardSize = shardCount

(* Only the heaps of the newest maxShardSets + 1 groups are kept, under    *)
(* reordering, duplicates and changes of parameters: flushShards is called *)
(* only for a packet that is collected, so the bound on what the decoder   *)
(* holds rests on when decode returns early.                               *)
HeapsAreRecent == \A id \in DOMAIN shardSet : itimediff(minShardId, id) \in 0 .. maxShardSets

(* The stream uses no seqid twice: a seqid stands for one packet.          *)
EachSeqidOnce == MaxGroups * ShardSize <= paws

(* The wrap of the seqids lies between the groups before g and g.          *)
wrapped(g) == g >= paws \div ShardSize

recoveredFrom(g) ==
  LET mine == {p \in taken : p.group = g}
  IN Cardinality(mine) >= DataShards
       => \A k \in 0 .. DataShards - 1 : \/ [group |-> g, shard |-> k] \in recovered
                                         \/ \E p \in mine : p.shard = k

(* As soon as DataShards packets of a group have arrived in step and in    *)
(* time, all of its data has arrived or been recovered, whatever was lost, *)
(* repeated or came in between, as long as the seqids have not wrapped.    *)
EnoughShardsRecover == \A g \in firstGroup .. group : ~wrapped(g) => recoveredFrom(g)

(* A decoder that has the sender's parameters only returns payloads that   *)
(* were sent, also right after it has taken them from the tuner while      *)
(* packets were in its heaps.                                              *)
InStepRecoversSent ==
  [][InStep => recovered' \ recovered
                 \subseteq {[group |-> p.group, shard |-> p.shard] : p \in DataSent}]_vars

(* The tuner only ever changes the parameters to the sender's, provided    *)
(* the packet of seqid 0 was sampled: FindPeriod reads the zero value of   *)
(* pulses[0] as a parity packet of that seqid.                             *)
TunesToPeer == [][params' # params => (params' = Peer \/ ~pulses'[0].bit)]_vars

=============================================================================
