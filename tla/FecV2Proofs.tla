----------------------------- MODULE FecV2Proofs -----------------------------
(***************************************************************************)
(* Proofs about FecV2.                                                     *)
(*                                                                         *)
(* Types, alignment and the bound on the heaps hold for every stream.      *)
(* What a decoder returns needs seqids that mean one packet                *)
(* (EachSeqidOnce): then in step the id of a heap determines the group of  *)
(* its packets (OneGroup), and until a later group is seen the heap of a   *)
(* group holds the packets taken of it (Gathered).                         *)
(***************************************************************************)
EXTENDS FecV2, FiniteSetTheorems, TLAPS

-----------------------------------------------------------------------------
(* Numbers                                                                 *)

(* A set of natural numbers has a least one: the form of induction used    *)
(* below.                                                                  *)
LEMMA LeastNat ==
  ASSUME NEW S, S \subseteq Nat, S # {}
  PROVE  \E n \in S : \A m \in S : n <= m
<1> DEFINE R == {ss \in Nat \X Nat : ss[1] < ss[2]}
<1>1. IsWellFoundedOn(R, Nat)
  BY NatLessThanWellFounded, Zenon DEF OpToRel
<1>2. PICK n \in S : \A m \in S : <<m, n>> \notin R
  <2> HIDE DEF R
  <2> QED BY <1>1, WFMin, Zenon
<1>3. ASSUME NEW m \in S PROVE n <= m
  BY <1>2, <<m, n>> \in Nat \X Nat
<1> QED BY <1>3, Zenon

LEMMA MinOf ==
  ASSUME NEW S, S \subseteq Nat, S # {}
  PROVE  Min(S) \in S /\ \A m \in S : Min(S) <= m
BY LeastNat, Zenon DEF Min

LEMMA MaxOfTwo ==
  ASSUME NEW a \in Int, NEW b \in Int
  PROVE  Max({a, b}) = IF a >= b THEN a ELSE b
<1>1. CASE a >= b
  BY DEF Max
<1>2. CASE b > a
  BY DEF Max
<1> QED BY <1>1, <1>2

(* Division with remainder: it exists and is unique.                       *)
LEMMA DivMod ==
  ASSUME NEW x \in Int, NEW m \in Nat \ {0}
  PROVE  /\ x \div m \in Int /\ x % m \in 0 .. m - 1
         /\ x = (x \div m) * m + (x % m)
OBVIOUS

LEMMA ModUnique ==
  ASSUME NEW m \in Nat \ {0}, NEW q \in Int, NEW r \in 0 .. m - 1
  PROVE  (q * m + r) % m = r /\ (q * m + r) \div m = q
OBVIOUS

LEMMA MulMono ==
  ASSUME NEW a \in Int, NEW b \in Int, NEW c \in Nat, a <= b
  PROVE  a * c <= b * c
OBVIOUS

LEMMA MulNext ==
  ASSUME NEW a \in Int, NEW c \in Int
  PROVE  (a + 1) * c = a * c + c
OBVIOUS

LEMMA ModSmall ==
  ASSUME NEW m \in Nat \ {0}, NEW x \in Int
  PROVE  /\ x \in 0 .. m - 1 => x % m = x
         /\ x \in -m .. -1 => x % m = x + m
OBVIOUS

LEMMA ModNext ==
  ASSUME NEW x \in Nat, NEW m \in Nat \ {0}
  PROVE  (x + 1) % m = IF x % m = m - 1 THEN 0 ELSE (x % m) + 1
<1>1. PICK q \in Int, r \in 0 .. m - 1 : x = q * m + r /\ r = x % m
  BY DivMod, x \in Int, Zenon
<1>2. CASE r = m - 1
  <2>2. ((q + 1) * m + 0) % m = 0
    OBVIOUS
  <2> QED BY <2>2, <1>1, <1>2, MulNext
<1>3. CASE r # m - 1
  <2>1. x + 1 = q * m + (r + 1) /\ r + 1 \in 0 .. m - 1
    BY <1>1, <1>3
  <2>2. (q * m + (r + 1)) % m = r + 1
    BY <2>1, ModUnique, Zenon
  <2> QED BY <2>2, <1>1
<1> QED BY <1>2, <1>3, Zenon

(* Counting to the end of a group leads to the start of the next.          *)
LEMMA NextMultiple ==
  ASSUME NEW x \in Int, NEW m \in Nat \ {0}
  PROVE  (x - (x % m) + m) % m = 0
<1>1. PICK q \in Int, r \in 0 .. m - 1 : x = q * m + r /\ r = x % m
  BY DivMod, Zenon
<1>4. ((q + 1) * m + 0) % m = 0
  OBVIOUS
<1> QED BY <1>1, <1>4

-----------------------------------------------------------------------------
(* The encoder                                                             *)
LEMMA SizeFacts ==
  /\ ShardSize \in Nat /\ DataShards \in 1 .. ShardSize - 1
  /\ ParityShards \in Nat \ {0} /\ ParityShards = ShardSize - DataShards
BY FecV2Assumption DEF ShardSize

(* The groups that fit below paws.                                         *)
wrapAt == paws \div ShardSize

LEMMA PawsFacts ==
  /\ paws \in Nat \ {0} /\ SeqidMod \in Nat \ {0} /\ paws < SeqidMod
  /\ wrapAt \in Nat \ {0} /\ paws = wrapAt * ShardSize
<1> DEFINE D == (SeqidMod - 1) \div ShardSize
<1>1. ShardSize \in Nat \ {0} /\ SeqidMod - 1 \in Int /\ SeqidMod \in Nat \ {0}
  BY SizeFacts, AutoTuneAssumption
<1>2. D \in Int /\ D * ShardSize <= SeqidMod - 1
  BY <1>1
<1>3. paws = D * ShardSize /\ paws > 0
  BY FecV2Assumption, Zenon DEF paws
<1> HIDE DEF D
<1> QED BY <1>1, <1>2, <1>3 DEF wrapAt

(* A group that starts below paws ends below it.                           *)
LEMMA AlignedRoom ==
  ASSUME NEW x \in 0 .. paws - 1
  PROVE  x - (x % ShardSize) + ShardSize <= paws
<1>1. ShardSize \in Nat \ {0} /\ x \in Int
  BY SizeFacts
<1>2. PICK K \in Nat : paws = K * ShardSize
  BY PawsFacts, Zenon
<1>3. PICK q \in Int, r \in 0 .. ShardSize - 1 : x = q * ShardSize + r /\ r = x % ShardSize
  BY <1>1, DivMod, Zenon
<1>5. (q + 1) * ShardSize <= K * ShardSize
  BY <1>1, <1>2, <1>3
<1> QED BY <1>1, <1>2, <1>3, <1>5

(* What sealParity computes when it is applied again and again: the seqids    *)
(* count up and wrap at paws.                                              *)
LEMMA SealedParity ==
  ASSUME next \in 0 .. paws - 1
  PROVE  \A i \in Nat : sealedParity[i] = (next + 1 + i) % paws
<1> DEFINE g == [i \in Nat |-> (next + 1 + i) % paws]
<1>1. paws \in Nat \ {0} /\ SeqidMod \in Nat \ {0} /\ paws < SeqidMod /\ next \in Nat
  BY PawsFacts
<1>3. ASSUME NEW x \in Nat
      PROVE  sealParity(x % paws) = (x + 1) % paws
  <2>3. ((x % paws) + 1) % SeqidMod = (x % paws) + 1
    BY <1>1
  <2>5. ((x % paws) + 1) % paws = IF x % paws = paws - 1 THEN 0 ELSE (x % paws) + 1
    <3>1. (x % paws) % paws = x % paws
      BY <1>1, ModSmall, x % paws \in Int
    <3> QED BY <1>1, <3>1, ModNext, x % paws \in Nat, Zenon
  <2> QED BY <2>3, <2>5, <1>1, ModNext, Zenon DEF sealParity
<1>4. g = [i \in Nat |-> IF i = 0 THEN sealData(next) ELSE sealParity(g[i - 1])]
  <2>1. g[0] = sealData(next)
    BY <1>1 DEF sealData
  <2>2. ASSUME NEW i \in Nat, i # 0 PROVE g[i] = sealParity(g[i - 1])
    BY <1>3, <2>2
  <2> QED BY <2>1, <2>2, Zenon
<1>5. sealedParity = [i \in Nat |-> IF i = 0 THEN sealData(next) ELSE sealParity(sealedParity[i - 1])]
  <2> HIDE DEF g
  <2> QED BY <1>4, Zenon DEF sealedParity
<1> DEFINE Wrong == {i \in Nat : sealedParity[i] # g[i]}
<1>6. Wrong = {}
  <2> SUFFICES ASSUME Wrong # {} PROVE FALSE
    BY Zenon
  <2>1. PICK i \in Wrong : \A j \in Wrong : i <= j
    <3>1. Wrong \subseteq Nat
      BY Zenon
    <3> HIDE DEF Wrong
    <3> QED BY <3>1, LeastNat, Zenon
  <2> HIDE DEF g, sealedParity
  <2> QED BY <1>4, <1>5, <2>1
<1> QED BY <1>6, Zenon

(* With EncoderAligned: the seqids of a group follow each other, and the   *)
(* group after it starts at the next multiple of ShardSize or at 0.        *)
LEMMA EncoderSeqids ==
  ASSUME next \in 0 .. paws - 1, shardCount \in 0 .. DataShards - 1, EncoderAligned
  PROVE  /\ next - shardCount + ShardSize <= paws
         /\ sealData(next) = next + 1
         /\ shardCount + 1 = DataShards =>
              /\ \A i \in 0 .. ParityShards - 1 : sealedParity[i] = next + 1 + i
              /\ sealedParity[ParityShards] = IF next - shardCount + ShardSize = paws
                                              THEN 0 ELSE next - shardCount + ShardSize
              /\ skipParity(sealData(next)) = sealedParity[ParityShards]
<1>1. /\ paws \in Nat \ {0} /\ SeqidMod \in Nat \ {0} /\ paws < SeqidMod
      /\ next \in Nat /\ shardCount \in Nat /\ ShardSize \in Nat
  BY PawsFacts, SizeFacts
<1>2. next - shardCount + ShardSize <= paws
  BY AlignedRoom, Zenon DEF EncoderAligned
<1>3. \A i \in Nat : sealedParity[i] = (next + 1 + i) % paws
  BY SealedParity, Zenon
<1>4. sealData(next) = next + 1 /\ next + 1 \in 0 .. paws - 1
  BY <1>1, <1>2, SizeFacts DEF sealData
<1>5. ASSUME shardCount + 1 = DataShards, NEW i \in 0 .. ParityShards - 1
      PROVE  sealedParity[i] = next + 1 + i
  <2>1. next + 1 + i \in 0 .. paws - 1 /\ next + 1 + i \in Int /\ i \in Nat
    BY <1>1, <1>2, SizeFacts
  <2> QED BY <1>3, <2>1, <1>1, ModSmall, Zenon
<1>6. ASSUME shardCount + 1 = DataShards
      PROVE  /\ sealedParity[ParityShards] = IF next - shardCount + ShardSize = paws
                                             THEN 0 ELSE next - shardCount + ShardSize
             /\ skipParity(sealData(next)) = sealedParity[ParityShards]
  <2> DEFINE e == next - shardCount + ShardSize
  <2>1. next + 1 + ParityShards = e /\ ParityShards \in Nat /\ e \in 0 .. paws /\ e \in Int
    BY <1>2, <1>6, SizeFacts
  <2> HIDE DEF e
  <2>5. e % paws = IF e = paws THEN 0 ELSE e
    BY <1>1, <2>1
  <2>7. e % SeqidMod = e
    BY <1>1, <2>1
  <2> QED BY <2>5, <2>7, <1>3, <2>1, <1>4, Zenon DEF e, skipParity
<1> QED BY <1>2, <1>4, <1>5, <1>6, Zenon

-----------------------------------------------------------------------------
(* The decoder                                                             *)
Half == SeqidMod \div 2

LEMMA HalfFacts == Half \in Nat \ {0} /\ 2 * Half <= SeqidMod /\ SeqidMod - 1 <= 2 * Half
<1>1. SeqidMod \in Nat /\ SeqidMod >= 2
  BY PawsFacts
<1>2. PICK q \in Int, r \in 0 .. 2 - 1 : q = Half /\ SeqidMod = q * 2 + r
  BY <1>1, DivMod, SeqidMod \in Int, 2 \in Nat \ {0}, Zenon DEF Half
<1> QED BY <1>1, <1>2

(* Shard ids are so small that itimediff is their difference.              *)
LEMMA IdDiff ==
  ASSUME NEW a \in 0 .. Half - 1, NEW b \in 0 .. Half - 1
  PROVE  itimediff(a, b) = a - b
<1>1. SeqidMod \in Nat \ {0} /\ Half \in Nat \ {0} /\ 2 * Half <= SeqidMod /\ a - b \in Int
  BY PawsFacts, HalfFacts
<1>2. CASE a >= b
  <2> QED BY <1>1, <1>2 DEF itimediff, Half
<1>3. CASE a < b
  <2> QED BY <1>1 DEF itimediff, Half
<1> QED BY <1>2, <1>3

LEMMA IdType ==
  ASSUME params \in [data : Nat \ {0}, parity : Nat \ {0}], NEW seqid \in 0 .. paws - 1
  PROVE  getShardId(seqid) \in 0 .. Half - 1
<1>1. size \in Nat /\ size >= 2 /\ seqid \in Int /\ size \in Nat \ {0} /\ seqid < 2 * Half /\ Half \in Nat
  BY PawsFacts, HalfFacts DEF size
<1>2. PICK q \in Int, r \in 0 .. size - 1 : q = seqid \div size /\ seqid = q * size + r
  BY <1>1, DivMod, Zenon
<1> HIDE DEF size
<1> QED BY <1>1 DEF getShardId

LEMMA SampleType ==
  ASSUME NEW ps \in [0 .. MaxSamples - 1 -> Pulse], NEW b \in BOOLEAN, NEW s \in 0 .. SeqidMod - 1
  PROVE  Sample(ps, b, s) \in [0 .. MaxSamples - 1 -> Pulse]
<1> QED BY DivMod, s \in Int, AutoTuneAssumption, Zenon DEF Sample, Pulse

LEMMA LeftEdgeType ==
  ASSUME NEW ps, NEW b
  PROVE  leftEdge(ps, b) \in Nat
<1> DEFINE edges == {i \in 1 .. MaxSamples - 1 :
                       ps[i - 1].bit # b /\ ps[i].bit = b /\ continuous(ps, i)}
<1>1. leftEdge(ps, b) = IF edges = {} THEN 0 ELSE Min(edges)
  BY Zenon DEF leftEdge
<1>2. edges \subseteq Nat
  OBVIOUS
<1> HIDE DEF edges
<1>3. edges # {} => Min(edges) \in Nat
  BY <1>2, MinOf, Zenon
<1> QED BY <1>1, <1>3

LEMMA PeriodType ==
  ASSUME NEW ps, NEW b
  PROVE  FindPeriod(ps, b) \in Int
<1> DEFINE left == leftEdge(ps, b)
           falls(i) == ps[i - 1].bit = b /\ ps[i].bit # b
           stops == {i \in left + 1 .. MaxSamples - 1 : ~continuous(ps, i) \/ falls(i)}
<1>2. left \in Nat
  BY LeftEdgeType, Zenon
<1> HIDE DEF left
<1>3. stops \subseteq Nat
  BY <1>2
<1>4. FindPeriod(ps, b) = CASE stops = {} -> 0 - left
                            [] stops # {} /\ ~continuous(ps, Min(stops)) -> -1
                            [] OTHER -> Min(stops) - left
  BY Zenon DEF FindPeriod, left
<1> HIDE DEF stops
<1> QED BY <1>2, <1>4, <1>3, MinOf

-----------------------------------------------------------------------------
(* Types                                                                   *)
NetFits == \A p \in net : /\ p.seqid \in 0 .. paws - 1
                          /\ p.shard = p.seqid % ShardSize
                          /\ p.flag = "data" <=> p.shard < DataShards
IdsFit ==
  /\ minShardId \in 0 .. Half - 1
  /\ \A id \in DOMAIN shardSet : id \in 0 .. Half - 1

TypeInv == TypeOK /\ EncoderAligned /\ NetFits /\ IdsFit /\ HeapsAreRecent

(* The heaps of the newest maxShardSets + 1 ids are maxShardSets + 1 heaps.*)
LEMMA FewHeaps ==
  ASSUME NEW min \in 0 .. Half - 1, NEW S,
         \A id \in S : id \in 0 .. Half - 1 /\ itimediff(min, id) \in 0 .. maxShardSets
  PROVE  IsFiniteSet(S) /\ Cardinality(S) <= maxShardSets + 1
<1> DEFINE I == min - maxShardSets .. min
<1>1. maxShardSets \in Nat /\ min \in Int
  BY FecV2Assumption
<1>2. \A id \in S : id \in I
  BY <1>1, IdDiff
<1>3. IsFiniteSet(I) /\ Cardinality(I) = maxShardSets + 1
  BY <1>1, FS_Interval
<1> HIDE DEF I
<1> QED BY <1>3, FS_Subset, <1>2, Zenon

LEMMA InitType == Init => TypeInv
<1>1. SUFFICES ASSUME Init PROVE TypeInv
  BY Zenon
<1>2. /\ session \in Sessions /\ next = session.start /\ shardCount = 0
      /\ group = firstGroup /\ net = {} /\ params = [data |-> session.data, parity |-> session.parity]
      /\ shardSet = [id \in {} |-> {}] /\ minShardId = 0
      /\ pulses = noPulses /\ shouldTune = FALSE
      /\ recovered = {} /\ newest = 0 /\ taken = {}
  BY <1>1, Zenon DEF Init
<1>3. /\ next \in 0 .. paws - 1 /\ next % ShardSize = 0
      /\ session.data \in Nat \ {0} /\ session.parity \in Nat \ {0}
  BY <1>2, FecV2Assumption, Zenon
<1>4. firstGroup \in Nat
  <2>1. ShardSize \in Nat \ {0} /\ next \in Int
    BY <1>3, SizeFacts
  <2>2. PICK q \in Int, r \in 0 .. ShardSize - 1 : q = next \div ShardSize /\ next = q * ShardSize + r
    BY <2>1, DivMod, Zenon
  <2>4. firstGroup = next \div ShardSize
    BY <1>2, Zenon DEF firstGroup
  <2> QED BY <2>4, <2>1, <1>3
<1>6. IsFiniteSet(DOMAIN shardSet) /\ Cardinality(DOMAIN shardSet) <= maxShardSets + 1 /\ DOMAIN shardSet = {}
  BY <1>2, FS_EmptySet, FecV2Assumption
<1>7. params \in [data : Nat \ {0}, parity : Nat \ {0}] /\ shardCount \in 0 .. DataShards - 1
  BY <1>2, <1>3, SizeFacts
<1>8. TypeOK
  <2>1. minShardId \in 0 .. SeqidMod - 1
    BY <1>2, PawsFacts
  <2> QED BY <1>2, <1>3, <1>4, <1>6, <1>7, <2>1, AutoTuneAssumption, Zenon DEF TypeOK, noPulses, Pulse
<1> QED BY <1>2, <1>3, <1>8, HalfFacts DEF TypeInv, EncoderAligned, NetFits, IdsFit, HeapsAreRecent

(* The packets of one encode, and the alignment after it.                  *)
LEMMA EncodePackets ==
  ASSUME TypeInv, encodeData \/ encodeGroup
  PROVE  /\ next' \in 0 .. paws - 1 /\ shardCount' \in 0 .. DataShards - 1 /\ group' \in Nat
         /\ next' % ShardSize = shardCount'
         /\ \A p \in net' \ net : /\ p \in Packet
                                  /\ p.seqid \in 0 .. paws - 1
                                  /\ p.shard = p.seqid % ShardSize
                                  /\ p.flag = "data" <=> p.shard < DataShards
<1>1. /\ next \in 0 .. paws - 1 /\ shardCount \in 0 .. DataShards - 1 /\ group \in Nat
      /\ EncoderAligned /\ next % ShardSize = shardCount
  BY Zenon DEF TypeInv, TypeOK, EncoderAligned
<1>2. /\ paws \in Nat \ {0} /\ SeqidMod \in Nat \ {0} /\ paws < SeqidMod
      /\ ShardSize \in Nat \ {0} /\ DataShards \in 1 .. ShardSize - 1 /\ ParityShards = ShardSize - DataShards
      /\ ParityShards \in Nat
  BY PawsFacts, SizeFacts
<1>3. next - shardCount + ShardSize <= paws /\ sealData(next) = next + 1
  BY <1>1, EncoderSeqids, Zenon
<1>4. PICK q \in Int : next = q * ShardSize + shardCount
  BY <1>1, <1>2, DivMod, next \in Int, Zenon
<1>5. ASSUME NEW k \in 0 .. ShardSize - 1 PROVE (next - shardCount + k) % ShardSize = k
  BY <1>2, <1>1, <1>4
<1>6. /\ DataPacket \in Packet /\ DataPacket.seqid \in 0 .. paws - 1
      /\ DataPacket.shard = DataPacket.seqid % ShardSize
      /\ DataPacket.flag = "data" <=> DataPacket.shard < DataShards
  BY <1>1, <1>2 DEF DataPacket, Packet
<1>7. CASE encodeData
  BY <1>3, <1>7, <1>1, <1>2, <1>5, <1>6 DEF encodeData
<1>8. CASE encodeGroup
  <2>1. /\ shardCount + 1 = DataShards /\ shardCount' = 0 /\ group' = group + 1
        /\ next' = sealedParity[ParityShards]
        /\ net' \subseteq net \cup {DataPacket} \cup ParityPackets
    BY <1>1, <1>8, EncoderSeqids, Zenon DEF encodeGroup
  <2>2. next' = IF next - shardCount + ShardSize = paws THEN 0 ELSE next - shardCount + ShardSize
    BY <1>1, <2>1, EncoderSeqids, Zenon
  <2>3. next' \in 0 .. paws - 1
    BY <1>1, <1>2, <1>3, <2>2
  <2>4. next' % ShardSize = 0
    <3>1. 0 % ShardSize = 0
      BY <1>2, ModSmall, 0 \in 0 .. ShardSize - 1, 0 \in Int, Zenon
    <3> QED BY <1>1, <2>2, <3>1, <1>2, NextMultiple
  <2>5. ASSUME NEW p \in ParityPackets
        PROVE  /\ p \in Packet /\ p.seqid \in 0 .. paws - 1
               /\ p.shard = p.seqid % ShardSize
               /\ p.flag = "data" <=> p.shard < DataShards
    <3>1. PICK i \in 0 .. ParityShards - 1 :
            p = [seqid |-> sealedParity[i], flag |-> "parity", group |-> group, shard |-> DataShards + i]
      BY Zenon DEF ParityPackets
    <3>5. next + 1 + i \in 0 .. paws - 1 /\ next + 1 + i \in 0 .. SeqidMod - 1 /\ ~(DataShards + i < DataShards)
      BY <1>1, <1>2, <1>3
    <3> QED BY <1>1, <3>1, <3>5, <1>5, <2>1, EncoderSeqids, <1>2 DEF Packet
  <2> QED BY <1>1, <1>6, <2>1, <2>3, <2>4, <2>5
<1> QED BY <1>7, <1>8, Zenon

LEMMA EncodeType ==
  ASSUME TypeInv, encodeData \/ encodeGroup
  PROVE  TypeInv'
<1>2. /\ net \subseteq net'
      /\ UNCHANGED <<session, tuneVars, shardSet, minShardId, recovered, newest, taken>>
  BY Zenon DEF encodeData, encodeGroup
<1> QED BY <1>2, EncodePackets, Zenon DEF TypeInv, EncoderAligned, TypeOK, tuneVars, NetFits, IdsFit, HeapsAreRecent

(* What decode does with a packet it takes in: the heap of its id is       *)
(* empty or short, and the others are kept or flushed.                     *)
LEMMA CollectEffect ==
  ASSUME TypeInv, NEW pkt \in net, collect(pkt), NEW id, id = getShardId(pkt.seqid),
         ~(itimediff(id, minShardId) < 0), ~Has(heapOf(id), pkt.seqid)
  PROVE  /\ id \in 0 .. Half - 1
         /\ id >= minShardId /\ minShardId' = id
         /\ DOMAIN shardSet' = {i \in DOMAIN shardSet \cup {id} : id - i <= maxShardSets}
         /\ \A i \in DOMAIN shardSet' :
              shardSet'[i] = IF i # id THEN shardSet[i]
                             ELSE IF enough(heapOf(id) \cup {pkt}) THEN {} ELSE heapOf(id) \cup {pkt}
         /\ recovered' = IF enough(heapOf(id) \cup {pkt})
                         THEN recovered \cup recover(heapOf(id) \cup {pkt}) ELSE recovered
<1> DEFINE heap == heapOf(id) \cup {pkt}
           h == IF enough(heap) THEN {} ELSE heap
           sets == [i \in DOMAIN shardSet \cup {id} |-> IF i = id THEN h ELSE shardSet[i]]
           min == IF itimediff(id, minShardId) > 0 THEN id ELSE minShardId
<1>1. /\ minShardId' = min
      /\ shardSet' = flushShards(sets, min)
      /\ recovered' = IF enough(heap) THEN recovered \cup recover(heap) ELSE recovered
  BY Zenon DEF collect
<1>2. /\ minShardId \in 0 .. Half - 1 /\ \A i \in DOMAIN shardSet : i \in 0 .. Half - 1
      /\ params \in [data : Nat \ {0}, parity : Nat \ {0}] /\ pkt.seqid \in 0 .. paws - 1
  BY Zenon DEF TypeInv, TypeOK, IdsFit, NetFits
<1>3. id \in 0 .. Half - 1
  BY <1>2, IdType, Zenon
<1>5. id >= minShardId /\ min = id
  BY <1>2, <1>3, IdDiff
<1>6. \A i \in DOMAIN sets : itimediff(min, i) = id - i
  BY <1>2, <1>3, IdDiff
<1> HIDE DEF min, h
<1> QED BY <1>1, <1>3, <1>5, <1>6, Zenon DEF h, flushShards, Restrict

(* The tuner leaves the heaps alone or drops them all.                     *)
LEMMA TuneEffect ==
  ASSUME TypeInv, tune
  PROVE  \/ params' = params /\ shardSet' = shardSet /\ shouldTune' = TRUE
         \/ /\ params' \in [data : Nat \ {0}, parity : Nat \ {0}]
            /\ DOMAIN shardSet' = {} /\ shouldTune' = FALSE
<1> DEFINE ds == FindPeriod(pulses', TRUE)
           ps == FindPeriod(pulses', FALSE)
<1>1. ds \in Int /\ ps \in Int
  BY PeriodType, Zenon
<1>2. \/ params' = params /\ shardSet' = shardSet /\ shouldTune' = TRUE
      \/ ds > 0 /\ ps > 0 /\ adopt(ds, ps)
  BY Zenon DEF tune
<1> HIDE DEF ds, ps
<1>3. CASE ds > 0 /\ ps > 0 /\ adopt(ds, ps)
  BY <1>3, <1>1 DEF adopt
<1> QED BY <1>2, <1>3, Zenon

LEMMA RecoverType ==
  ASSUME TypeInv, NEW heap, heap \subseteq net, heap # {}
  PROVE  recover(heap) \subseteq Payload
<1>1. SUFFICES ASSUME NEW k \in 0 .. params.data - 1 PROVE ReconstructData(heap, k) \in Payload
  BY Zenon DEF recover
<1>2. CASE ReconstructData(heap, k) = Garbage
  BY <1>2, Zenon DEF Payload
<1>3. CASE InStep /\ ReconstructData(heap, k) = [group |-> (CHOOSE p \in heap : TRUE).group, shard |-> k]
  BY <1>3, SizeFacts DEF InStep, Peer, TypeInv, TypeOK, Packet, Payload
<1> QED BY <1>2, <1>3, Zenon DEF ReconstructData

LEMMA HeapInNet ==
  ASSUME TypeInv, NEW id
  PROVE  heapOf(id) \subseteq net
BY Zenon DEF TypeInv, TypeOK, heapOf

(* What decode changes, packet by packet.                                  *)
LEMMA DecodeType ==
  ASSUME TypeInv, NEW pkt \in net, decode(pkt)
  PROVE  TypeInv'
<1>1. /\ pulses' = Sample(pulses, pkt.flag = "data", pkt.seqid)
      /\ newest' = Max({newest, pkt.group})
      /\ UNCHANGED <<session, encVars>>
  BY Zenon DEF decode
<1>2. TypeOK /\ NetFits /\ IdsFit /\ HeapsAreRecent /\ EncoderAligned
  BY Zenon DEF TypeInv
<1>3. pkt \in Packet /\ pkt.seqid \in 0 .. SeqidMod - 1 /\ pkt.group \in Nat /\ newest \in Nat
  BY <1>2, Zenon DEF TypeOK, Packet
<1>4. pulses' \in [0 .. MaxSamples - 1 -> Pulse] /\ newest' \in Nat
  <2>2. newest' = IF newest >= pkt.group THEN newest ELSE pkt.group
    BY <1>1, <1>3, MaxOfTwo
  <2> QED BY <1>1, <1>3, <2>2, SampleType, <1>2, Zenon DEF TypeOK
<1>6. SUFFICES /\ params' \in [data : Nat \ {0}, parity : Nat \ {0}]
               /\ shouldTune' \in BOOLEAN
               /\ minShardId' \in 0 .. Half - 1
               /\ \A i \in DOMAIN shardSet' :
                    /\ i \in 0 .. Half - 1 /\ itimediff(minShardId', i) \in 0 .. maxShardSets
                    /\ shardSet'[i] \subseteq net
               /\ recovered' \subseteq Payload
               /\ taken' \subseteq net
  <2> SUFFICES ASSUME /\ params' \in [data : Nat \ {0}, parity : Nat \ {0}]
                      /\ shouldTune' \in BOOLEAN
                      /\ minShardId' \in 0 .. Half - 1
                      /\ \A i \in DOMAIN shardSet' :
                           /\ i \in 0 .. Half - 1 /\ itimediff(minShardId', i) \in 0 .. maxShardSets
                           /\ shardSet'[i] \subseteq net
                      /\ recovered' \subseteq Payload
                      /\ taken' \subseteq net
               PROVE TypeInv'
    BY Zenon
  <2>2. minShardId' \in 0 .. SeqidMod - 1
    BY HalfFacts, PawsFacts
  <2>3. TypeOK'
    BY <1>1, <1>2, <1>4, <2>2, FewHeaps, Zenon DEF TypeOK, encVars
  <2> QED BY <2>3, <1>1, Zenon DEF TypeInv, EncoderAligned, NetFits, encVars, IdsFit, HeapsAreRecent
<1>7. /\ params \in [data : Nat \ {0}, parity : Nat \ {0}] /\ shouldTune \in BOOLEAN
      /\ minShardId \in 0 .. Half - 1
      /\ \A i \in DOMAIN shardSet :
           /\ i \in 0 .. Half - 1 /\ itimediff(minShardId, i) \in 0 .. maxShardSets
           /\ shardSet[i] \subseteq net
      /\ recovered \subseteq Payload /\ taken \subseteq net
  BY <1>2, Zenon DEF TypeOK, IdsFit, HeapsAreRecent
<1>8. CASE shouldTune \/ ~inPattern(pkt)
  BY <1>8, TuneEffect, <1>7, Zenon DEF decode
<1>9. CASE ~(shouldTune \/ ~inPattern(pkt))
  <2> DEFINE id == getShardId(pkt.seqid)
             heap == heapOf(id) \cup {pkt}
  <2>1. collect(pkt) /\ taken' \subseteq taken \cup {pkt}
    BY <1>9, Zenon DEF decode
  <2>2. params' = params /\ shouldTune' = shouldTune
    BY <2>1, Zenon DEF collect
  <2>3. taken' \subseteq net
    BY <1>7, <2>1, Zenon
  <2>4. CASE itimediff(id, minShardId) < 0 \/ Has(heapOf(id), pkt.seqid)
    BY <2>1, <2>4, <1>7, Zenon DEF collect
  <2>5. CASE ~(itimediff(id, minShardId) < 0) /\ ~Has(heapOf(id), pkt.seqid)
    <3>1. /\ id \in 0 .. Half - 1
          /\ id >= minShardId /\ minShardId' = id
          /\ DOMAIN shardSet' = {i \in DOMAIN shardSet \cup {id} : id - i <= maxShardSets}
          /\ \A i \in DOMAIN shardSet' :
               shardSet'[i] = IF i # id THEN shardSet[i] ELSE IF enough(heap) THEN {} ELSE heap
          /\ recovered' = IF enough(heap) THEN recovered \cup recover(heap) ELSE recovered
      BY <2>1, <2>5, CollectEffect, Zenon
    <3>2. heap \subseteq net /\ heap # {}
      BY HeapInNet, Zenon
    <3> HIDE DEF id, heap
    <3>4. ASSUME NEW i \in DOMAIN shardSet'
          PROVE  /\ i \in 0 .. Half - 1 /\ itimediff(minShardId', i) \in 0 .. maxShardSets
                 /\ shardSet'[i] \subseteq net
      BY <3>1, <1>7, IdDiff, <3>2
    <3> QED BY <1>7, <2>2, <2>3, <3>1, <3>4, <3>2, RecoverType, Zenon
  <2> QED BY <2>4, <2>5, Zenon
<1> QED BY <1>8, <1>9, Zenon

LEMMA NextType == TypeInv /\ [Next]_vars => TypeInv'
<1>1. SUFFICES ASSUME TypeInv, [Next]_vars PROVE TypeInv'
  BY Zenon
<1>2. CASE encodeData \/ encodeGroup
  BY <1>1, <1>2, EncodeType, Zenon
<1>3. ASSUME NEW pkt \in net, decode(pkt) PROVE TypeInv'
  BY <1>1, <1>3, DecodeType, Zenon
<1>4. CASE UNCHANGED vars
  BY <1>1, <1>4, Zenon DEF TypeInv, TypeOK, EncoderAligned, NetFits, IdsFit, HeapsAreRecent,
     vars, encVars, tuneVars
<1> QED BY <1>1, <1>2, <1>3, <1>4, Zenon DEF Next

LEMMA Typing == Spec => []TypeInv
BY InitType, NextType, PTL DEF Spec

(* The decoder holds at most maxShardSets + 1 heaps of packets that were   *)
(* sent, whatever the parameters it starts with or tunes to (TypeOK).      *)
THEOREM TypeCorrect == Spec => []TypeOK
<1>1. TypeInv => TypeOK
  BY Zenon DEF TypeInv
<1> QED BY <1>1, Typing, PTL

(* Every group starts at a multiple of ShardSize, whether the parity of    *)
(* the groups before was sent or skipped (EncoderAligned).                 *)
THEOREM StaysAligned == Spec => []EncoderAligned
<1>1. TypeInv => EncoderAligned
  BY Zenon DEF TypeInv
<1> QED BY <1>1, Typing, PTL

(* flushShards keeps the heaps within maxShardSets of the newest id, over  *)
(* changes of the parameters too (HeapsAreRecent): ids are at most half of *)
(* the seqids, so itimediff never wraps between two of them.               *)
THEOREM OldHeapsGo == Spec => []HeapsAreRecent
<1>1. TypeInv => HeapsAreRecent
  BY Zenon DEF TypeInv
<1> QED BY <1>1, Typing, PTL

-----------------------------------------------------------------------------
(* The stream                                                              *)

(* The shard id of a group for a decoder in step: ids start again from 0   *)
(* where the seqids wrap.                                                  *)
idOf(g) == IF g < wrapAt THEN g ELSE g - wrapAt

LEMMA GroupIds ==
  ASSUME EachSeqidOnce, session \in Sessions
  PROVE  /\ firstGroup \in 0 .. wrapAt - 1 /\ session.start = firstGroup * ShardSize
         /\ \A g \in firstGroup .. firstGroup + MaxGroups : g \in Nat /\ idOf(g) \in 0 .. wrapAt - 1 /\ idOf(g) <= g
         /\ \A g, h \in firstGroup .. firstGroup + MaxGroups - 1 : idOf(g) = idOf(h) => g = h
         /\ \A g, h \in firstGroup .. firstGroup + MaxGroups - 1 :
              g < wrapAt /\ idOf(h) >= g => h >= g
         /\ \A g \in firstGroup .. firstGroup + MaxGroups - 1 :
              idOf(g + 1) = IF idOf(g) + 1 = wrapAt THEN 0 ELSE idOf(g) + 1
<1>1. /\ ShardSize \in Nat \ {0} /\ wrapAt \in Nat \ {0} /\ paws = wrapAt * ShardSize /\ MaxGroups \in Nat
      /\ session.start \in 0 .. paws - 1 /\ session.start \in Int /\ session.start % ShardSize = 0
  BY SizeFacts, PawsFacts, FecV2Assumption
<1>3. PICK q \in Int : q = firstGroup /\ session.start = q * ShardSize + 0
  BY <1>1, DivMod, Zenon DEF firstGroup
<1> QED BY <1>1, <1>3 DEF idOf, EachSeqidOnce

sentData == {[group |-> p.group, shard |-> p.shard] : p \in DataSent}

StreamInv ==
  /\ group \in firstGroup .. firstGroup + MaxGroups
  /\ next = idOf(group) * ShardSize + shardCount
  /\ \A p \in net : /\ p.group \in firstGroup .. group /\ p.group \in firstGroup .. firstGroup + MaxGroups - 1
                    /\ p.seqid = idOf(p.group) * ShardSize + p.shard
                    /\ p.group = group => p.shard < shardCount
  /\ \A g \in firstGroup .. group, k \in 0 .. DataShards - 1 :
       g < group \/ k < shardCount => [group |-> g, shard |-> k] \in sentData

LEMMA InitStream ==
  ASSUME EachSeqidOnce, Init
  PROVE  StreamInv
<1>1. /\ session \in Sessions /\ next = session.start /\ shardCount = 0 /\ group = firstGroup /\ net = {}
  BY Zenon DEF Init
<1> QED BY <1>1, FecV2Assumption, PawsFacts, GroupIds DEF StreamInv, idOf

LEMMA EncodeStream ==
  ASSUME EachSeqidOnce, TypeInv, StreamInv, encodeData \/ encodeGroup
  PROVE  StreamInv'
<1> DEFINE b == idOf(group) * ShardSize
<1>1. /\ group \in firstGroup .. firstGroup + MaxGroups - 1 /\ firstGroup \in Nat /\ MaxGroups \in Nat
      /\ next = b + shardCount /\ group \in Nat
      /\ session \in Sessions /\ next \in 0 .. paws - 1 /\ shardCount \in 0 .. DataShards - 1 /\ EncoderAligned
  <2>2. firstGroup \in Nat /\ MaxGroups \in Nat
    BY GroupIds, FecV2Assumption DEF TypeInv, TypeOK
  <2> QED BY <2>2 DEF StreamInv, TypeInv, TypeOK, encodeData, encodeGroup
<1>2. /\ idOf(group) \in 0 .. wrapAt - 1 /\ ShardSize \in Nat /\ b \in Nat
      /\ DataShards \in 1 .. ShardSize - 1 /\ ParityShards = ShardSize - DataShards
      /\ wrapAt \in Nat /\ paws = wrapAt * ShardSize
  BY <1>1, GroupIds, SizeFacts, PawsFacts
<1> HIDE DEF b
<1>3. /\ firstGroup' = firstGroup
  BY Zenon DEF encodeData, encodeGroup, firstGroup
<1>4. /\ DataPacket.flag = "data" /\ DataPacket.group = group /\ DataPacket.shard = shardCount
      /\ DataPacket.seqid = next
      /\ [group |-> DataPacket.group, shard |-> DataPacket.shard] = [group |-> group, shard |-> shardCount]
  BY Zenon DEF DataPacket
<1>5. ASSUME DataPacket \in net', net \subseteq net',
             \A p \in net' \ net : p = DataPacket \/ p.flag # "data"
      PROVE  sentData' = sentData \cup {[group |-> group, shard |-> shardCount]}
  BY <1>4, <1>5, Zenon DEF sentData, DataSent
<1>6. ASSUME sentData' = sentData \cup {[group |-> group, shard |-> shardCount]},
             NEW g \in firstGroup .. group, NEW k \in 0 .. DataShards - 1,
             g < group \/ k <= shardCount
      PROVE  [group |-> g, shard |-> k] \in sentData'
  BY <1>6, <1>1 DEF StreamInv
<1>7. CASE encodeData
  <2>1. /\ next' = next + 1 /\ shardCount' = shardCount + 1 /\ group' = group
        /\ net' = net \cup {DataPacket} /\ shardCount + 1 < DataShards
    BY <1>1, <1>7, EncoderSeqids, Zenon DEF encodeData
  <2>3. ASSUME NEW p \in net'
        PROVE  /\ p.group \in firstGroup .. group' /\ p.group \in firstGroup .. firstGroup + MaxGroups - 1
               /\ p.seqid = idOf(p.group) * ShardSize + p.shard
               /\ p.group = group' => p.shard < shardCount'
    <3>1. CASE p = DataPacket
      BY <1>1, <1>4, <2>1, <3>1 DEF b
    <3>2. CASE p \in net
      <4>1. p.shard \in Int
        BY <3>2 DEF TypeInv, TypeOK, Packet
      <4> QED BY <1>1, <2>1, <3>2, <4>1 DEF StreamInv
    <3> QED BY <2>1, <3>1, <3>2, Zenon
  <2>5. ASSUME NEW g \in firstGroup .. group', NEW k \in 0 .. DataShards - 1, g < group' \/ k < shardCount'
        PROVE  [group |-> g, shard |-> k] \in sentData'
    BY <1>1, <2>1, <2>5, <1>6, <1>5
  <2> QED BY <1>3, <2>1, <2>3, <2>5, <1>1, <1>2 DEF StreamInv, b
<1>8. CASE encodeGroup
  <2>1. /\ shardCount + 1 = DataShards /\ shardCount' = 0 /\ group' = group + 1
        /\ next' = sealedParity[ParityShards]
        /\ DataPacket \in net' /\ net \subseteq net'
        /\ net' \subseteq net \cup {DataPacket} \cup ParityPackets
    BY <1>1, <1>8, EncoderSeqids, Zenon DEF encodeGroup
  <2>2. next' = IF b + ShardSize = paws THEN 0 ELSE b + ShardSize
    BY <1>1, <1>2, <2>1, EncoderSeqids
  <2>3. next' = idOf(group') * ShardSize + shardCount'
    <3>1. idOf(group + 1) = IF idOf(group) + 1 = wrapAt THEN 0 ELSE idOf(group) + 1
      BY <1>1, GroupIds, Zenon
    <3>2. (idOf(group) + 1) * ShardSize = b + ShardSize
      BY <1>2 DEF b
    <3>4. CASE idOf(group) + 1 = wrapAt
      BY <1>2, <3>2, <2>1, <2>2, <3>1
    <3>5. CASE idOf(group) + 1 # wrapAt
      <4> QED BY <2>1, <2>2, <3>1, <3>2, <3>5, <1>2
    <3> QED BY <3>4, <3>5, Zenon
  <2>4. ASSUME NEW p \in ParityPackets
        PROVE  /\ p.flag = "parity" /\ p.group = group /\ p.seqid = b + p.shard
    <3>1. PICK i \in 0 .. ParityShards - 1 :
            p = [seqid |-> sealedParity[i], flag |-> "parity", group |-> group, shard |-> DataShards + i]
      BY Zenon DEF ParityPackets
    <3> QED BY <1>1, <1>2, <2>1, <3>1, EncoderSeqids
  <2>5. ASSUME NEW p \in net'
        PROVE  /\ p.group \in firstGroup .. group' /\ p.group \in firstGroup .. firstGroup + MaxGroups - 1
               /\ p.seqid = idOf(p.group) * ShardSize + p.shard
               /\ p.group # group'
    BY <1>1, <1>4, <2>1, <2>4 DEF StreamInv, b
  <2>7. ASSUME NEW g \in firstGroup .. group', NEW k \in 0 .. DataShards - 1, g < group' \/ k < shardCount'
        PROVE  [group |-> g, shard |-> k] \in sentData'
    BY <1>1, <2>1, <2>7, <1>6, <1>5, <2>4
  <2> QED BY <1>3, <2>3, <2>5, <2>7, <1>1, <2>1 DEF StreamInv
<1> QED BY <1>7, <1>8, Zenon

(* A seqid stands for one packet.                                          *)
LEMMA SeqidOfOne ==
  ASSUME EachSeqidOnce, TypeInv, StreamInv, NEW p \in net, NEW q \in net
  PROVE  /\ p.seqid \div ShardSize = idOf(p.group) /\ p.seqid % ShardSize = p.shard
         /\ p.seqid = q.seqid => p = q
         /\ p.group = q.group /\ p.shard = q.shard => p = q
<1>1. ShardSize \in Nat \ {0} /\ wrapAt \in Nat \ {0} /\ session \in Sessions
  BY SizeFacts, PawsFacts DEF TypeInv, TypeOK
<1>2. ASSUME NEW r \in net
      PROVE  /\ r \in Packet /\ r.shard \in 0 .. ShardSize - 1
             /\ r.group \in firstGroup .. firstGroup + MaxGroups - 1 /\ r.group \in Nat
             /\ r.seqid = idOf(r.group) * ShardSize + r.shard
             /\ r.flag \in {"data", "parity"}
             /\ r.flag = "data" <=> r.shard < DataShards
  BY Zenon DEF TypeInv, TypeOK, StreamInv, NetFits, Packet
<1>3. ASSUME NEW r \in net
      PROVE  r.seqid \div ShardSize = idOf(r.group) /\ r.seqid % ShardSize = r.shard
  <2>1. /\ r.shard \in 0 .. ShardSize - 1 /\ r.seqid = idOf(r.group) * ShardSize + r.shard
        /\ r.group \in firstGroup .. firstGroup + MaxGroups - 1
    BY <1>2, Zenon
  <2>2. idOf(r.group) \in Int
    BY <1>1, GroupIds, FecV2Assumption, <2>1
  <2> QED BY <2>1, <1>1, <2>2, ModUnique, Zenon
<1>5. ASSUME p.group = q.group, p.shard = q.shard PROVE p = q
  BY <1>2, <1>5 DEF Packet
<1> QED BY <1>3, <1>5, <1>1, <1>2, GroupIds

(* The packets of a group counted: as many data packets as the group has   *)
(* are all of them, and enough packets with data missing have a parity.    *)
LEMMA GroupShards ==
  ASSUME EachSeqidOnce, TypeInv, StreamInv, NEW H, H \subseteq net, NEW g, \A p \in H : p.group = g,
         NEW D, D = {p \in H : p.flag = "data"}
  PROVE  /\ IsFiniteSet(H)
         /\ Cardinality(D) = DataShards => \A k \in 0 .. DataShards - 1 : \E p \in H : p.shard = k
         /\ Cardinality(H) >= DataShards /\ Cardinality(D) # DataShards => \E p \in H : p.flag = "parity"
<1>1. DataShards \in Nat /\ ShardSize \in Nat
  BY SizeFacts
<1>2. \A p \in H : /\ p.shard \in 0 .. ShardSize - 1 /\ p.flag \in {"data", "parity"}
                   /\ p.flag = "data" => p.shard \in 0 .. DataShards - 1
  BY <1>1 DEF TypeInv, TypeOK, NetFits, Packet
<1>3. \A p, q \in H : p.shard = q.shard => p = q
  BY SeqidOfOne, Zenon
<1>4. IsFiniteSet(H)
  <2> DEFINE f == [p \in H |-> p.shard]
  <2>1. f \in Injection(H, 0 .. ShardSize - 1)
    BY <1>2, <1>3, Zenon DEF Injection, IsInjective
  <2>2. IsFiniteSet(0 .. ShardSize - 1)
    BY <1>1, FS_Interval
  <2> HIDE DEF f
  <2> QED BY <2>1, <2>2, FS_Injection, Zenon
<1> DEFINE f == [p \in D |-> p.shard]
<1>5. f \in Injection(D, 0 .. DataShards - 1)
  BY <1>2, <1>3 DEF Injection, IsInjective
<1>6. IsFiniteSet(0 .. DataShards - 1) /\ Cardinality(0 .. DataShards - 1) = DataShards
  BY <1>1, FS_Interval
<1>7. /\ Cardinality(D) <= DataShards
      /\ Cardinality(D) = DataShards => f \in Surjection(D, 0 .. DataShards - 1)
  <2> HIDE DEF f
  <2> QED BY <1>6, <1>5, FS_Injection
<1>8. ASSUME Cardinality(D) = DataShards, NEW k \in 0 .. DataShards - 1
      PROVE  \E p \in H : p.shard = k
  BY <1>7, <1>8, Zenon DEF Surjection
<1>9. ASSUME Cardinality(H) >= DataShards, Cardinality(D) # DataShards
      PROVE  \E p \in H : p.flag = "parity"
  <2> SUFFICES ASSUME \A p \in H : p.flag # "parity" PROVE FALSE
    BY Zenon
  <2>4. \A n \in Nat : n >= DataShards /\ n <= DataShards => n = DataShards
    BY <1>1
  <2> QED BY <1>9, <2>4, <1>4, FS_CardinalityType, <1>7, <1>2, Zenon
<1> QED BY <1>4, <1>8, <1>9, Zenon

(* A decoder in step finds every packet of the stream in its place.        *)
LEMMA InStepFacts ==
  ASSUME EachSeqidOnce, TypeInv, StreamInv, InStep, NEW p \in net
  PROVE  /\ params.data = DataShards /\ inPattern(p)
         /\ getShardId(p.seqid) = idOf(p.group) /\ place(p) = p.shard
<1>1. params.data = DataShards /\ size = ShardSize
  BY Zenon DEF InStep, Peer, size, ShardSize
<1> QED BY <1>1, SeqidOfOne, Zenon DEF getShardId, place, inPattern, TypeInv, NetFits

(* The heaps hold the packets of their ids, and a decoder that is in step  *)
(* has finished tuning.                                                    *)
StepInv ==
  /\ InStep => ~shouldTune
  /\ ~InStep => taken = {}
  /\ \A id \in DOMAIN shardSet : \A p \in shardSet[id] : getShardId(p.seqid) = id
  /\ session.data = DataShards /\ session.parity = ParityShards => InStep /\ minShardId <= newest

LEMMA InitStep == Init => StepInv
BY DEF Init, StepInv, InStep, Peer

(* In step a packet is collected, never given to the tuner.                *)
LEMMA StaysInStep ==
  ASSUME EachSeqidOnce, TypeInv, StreamInv, StepInv, InStep, NEW pkt \in net, decode(pkt)
  PROVE  InStep' /\ collect(pkt) /\ taken' = IF inTime(pkt) THEN taken \cup {pkt} ELSE taken
<1>2. collect(pkt) /\ taken' = IF inTime(pkt) THEN taken \cup {pkt} ELSE taken
  BY InStepFacts, Zenon DEF decode, StepInv
<1>3. params' = params
  BY <1>2, Zenon DEF collect
<1> QED BY <1>2, <1>3, Zenon DEF InStep, Peer

(* The heap a packet joins is the heap of its group.                       *)
LEMMA HeapIsOfId ==
  ASSUME StepInv, NEW pkt, NEW id, id = getShardId(pkt.seqid)
  PROVE  \A p \in heapOf(id) \cup {pkt} : getShardId(p.seqid) = id
BY Zenon DEF StepInv, heapOf

LEMMA DecodeStep ==
  ASSUME EachSeqidOnce, TypeInv, StreamInv, StepInv, NEW pkt \in net, decode(pkt)
  PROVE  StepInv'
<1>1. UNCHANGED <<session, encVars>> /\ newest' = Max({newest, pkt.group})
  BY Zenon DEF decode
<1>2. newest \in Nat /\ pkt.group \in Nat /\ minShardId \in 0 .. Half - 1 /\ session \in Sessions
  BY Zenon DEF TypeInv, TypeOK, Packet, IdsFit
<1>3. newest' >= newest /\ newest' >= pkt.group /\ newest' \in Nat
  BY <1>1, <1>2, MaxOfTwo
<1>4. CASE shouldTune \/ ~inPattern(pkt)
  BY <1>4, InStepFacts, TuneEffect, <1>1, Zenon DEF decode, StepInv, InStep, Peer, getShardId, size
<1>5. CASE ~(shouldTune \/ ~inPattern(pkt))
  <2> DEFINE id == getShardId(pkt.seqid)
             heap == heapOf(id) \cup {pkt}
  <2>1. collect(pkt) /\ taken' = IF inTime(pkt) THEN taken \cup {pkt} ELSE taken
    BY <1>5, Zenon DEF decode
  <2>2. params' = params /\ shouldTune' = shouldTune /\ InStep' = InStep
    BY <2>1, Zenon DEF collect, InStep, Peer
  <2>3. (InStep' => ~shouldTune') /\ (~InStep' => taken' = {})
    BY <2>1, <2>2, Zenon DEF StepInv, inTime
  <2>4. \A s : getShardId(s)' = getShardId(s)
    BY <2>2, Zenon DEF getShardId, size
  <2>5. CASE itimediff(id, minShardId) < 0 \/ Has(heapOf(id), pkt.seqid)
    <3>1. UNCHANGED <<shardSet, minShardId, recovered>>
      BY <2>1, <2>5, Zenon DEF collect
    <3> QED BY <1>1, <2>3, <2>4, <3>1, <1>2, <1>3, <2>2 DEF StepInv
  <2>6. CASE ~(itimediff(id, minShardId) < 0) /\ ~Has(heapOf(id), pkt.seqid)
    <3>1. /\ id \in 0 .. Half - 1 /\ minShardId' = id
          /\ DOMAIN shardSet' = {i \in DOMAIN shardSet \cup {id} : id - i <= maxShardSets}
          /\ \A i \in DOMAIN shardSet' :
               shardSet'[i] = IF i # id THEN shardSet[i] ELSE IF enough(heap) THEN {} ELSE heap
      BY <2>1, <2>6, CollectEffect, Zenon
    <3>2. \A p \in heap : getShardId(p.seqid) = id
      BY HeapIsOfId, Zenon
    <3>3. InStep => id <= pkt.group
      BY InStepFacts, <1>2, GroupIds, FecV2Assumption DEF StreamInv
    <3> HIDE DEF id, heap
    <3>4. ASSUME NEW i \in DOMAIN shardSet', NEW p \in shardSet'[i] PROVE getShardId(p.seqid)' = i
      BY <3>1, <3>2, <2>4, Zenon DEF StepInv
    <3>5. session.data = DataShards /\ session.parity = ParityShards => InStep' /\ minShardId' <= newest'
      BY <1>2, <1>3, <2>2, <3>1, <3>3 DEF StepInv
    <3> QED BY <1>1, <2>3, <3>4, <3>5, Zenon DEF StepInv
  <2> QED BY <2>5, <2>6, Zenon
<1> QED BY <1>4, <1>5, Zenon

(* What a decoder in step returns for packets of one group: the data that  *)
(* is missing among them.                                                  *)
LEMMA RecoverGroup ==
  ASSUME EachSeqidOnce, TypeInv, StreamInv, InStep,
         NEW H, H \subseteq net, H # {}, NEW g, \A p \in H : p.group = g,
         NEW D, D = {p \in H : p.flag = "data"}
  PROVE  /\ Cardinality(D) = DataShards => recover(H) = {}
         /\ Cardinality(D) # DataShards
              => \A r : r \in recover(H) <=> \E k \in 0 .. DataShards - 1 :
                          r = [group |-> g, shard |-> k] /\ \A p \in H : p.shard # k
<1>1. params.data = DataShards /\ \A p \in H : place(p) = p.shard
  BY InStepFacts, Zenon
<1>2. ASSUME NEW k PROVE ReconstructData(H, k) = [group |-> g, shard |-> k]
  BY <1>1, Zenon DEF ReconstructData
<1>4. recover(H) = IF Cardinality(D) = params.data THEN {}
                   ELSE {ReconstructData(H, k) : k \in (0 .. params.data - 1) \ {place(p) : p \in H}}
  BY Zenon DEF recover
<1>5. ASSUME Cardinality(D) # DataShards, NEW r
      PROVE  r \in recover(H) <=> \E k \in 0 .. DataShards - 1 :
               r = [group |-> g, shard |-> k] /\ \A p \in H : p.shard # k
  <2> DEFINE K == {j \in 0 .. DataShards - 1 : \A p \in H : p.shard # j}
  <2>1. recover(H) = {ReconstructData(H, k) : k \in K}
    BY <1>1, <1>4, <1>5, Zenon
  <2> HIDE DEF K
  <2> QED BY <1>2, <2>1, Zenon DEF K
<1> QED BY <1>1, <1>4, <1>5, Zenon

(* Packets in step with one id are of one group.                           *)
LEMMA OneGroup ==
  ASSUME EachSeqidOnce, TypeInv, StreamInv, StepInv, InStep, NEW pkt \in net
  PROVE  \A p \in heapOf(getShardId(pkt.seqid)) \cup {pkt} : p \in net /\ p.group = pkt.group
<1> DEFINE H == heapOf(getShardId(pkt.seqid)) \cup {pkt}
<1>1. H \subseteq net
  BY HeapInNet, Zenon
<1>2. ASSUME NEW p \in H PROVE idOf(p.group) = idOf(pkt.group)
  BY HeapIsOfId, <1>1, InStepFacts, Zenon
<1>3. session \in Sessions /\ \A p \in net : p.group \in firstGroup .. firstGroup + MaxGroups - 1
  BY Zenon DEF TypeInv, TypeOK, StreamInv
<1> QED BY <1>1, <1>2, <1>3, GroupIds, Zenon

(* What a decode returns in step was sent: the missing data of a group of  *)
(* which a parity packet has arrived, hence of a complete group.           *)
LEMMA ReturnsSent ==
  ASSUME EachSeqidOnce, TypeInv, StreamInv, StepInv, InStep, NEW pkt \in net, decode(pkt)
  PROVE  recovered' \ recovered \subseteq sentData
<1> DEFINE id == getShardId(pkt.seqid)
           H == heapOf(id) \cup {pkt}
           D == {p \in H : p.flag = "data"}
<1>3. SUFFICES ASSUME enough(H), NEW r \in recover(H) PROVE r \in sentData
  BY StaysInStep, Zenon DEF collect
<1>4. H \subseteq net /\ H # {} /\ \A p \in H : p.group = pkt.group
  BY OneGroup, Zenon
<1>5. Cardinality(H) >= DataShards
  BY <1>3, InStepFacts, Zenon DEF enough
<1> HIDE DEF H, D
<1>6. D = {p \in H : p.flag = "data"}
  BY Zenon DEF D
<1>8. Cardinality(D) # DataShards /\ \E k \in 0 .. DataShards - 1 : r = [group |-> pkt.group, shard |-> k]
  BY <1>3, <1>4, <1>6, RecoverGroup
<1>9. PICK p \in H : p.flag = "parity"
  BY <1>4, <1>5, <1>6, <1>8, GroupShards, Zenon
<1>10. /\ p.shard >= DataShards /\ p.group = pkt.group /\ p.group \in firstGroup .. group
       /\ p.shard \in Int /\ shardCount \in 0 .. DataShards - 1
       /\ p.group = group => p.shard < shardCount
  <2>1. p \in net /\ p.group = pkt.group
    BY <1>4, Zenon
  <2>2. /\ p.shard \in Int /\ shardCount \in 0 .. DataShards - 1 /\ ~(p.shard < DataShards)
    BY <1>9, <2>1 DEF TypeInv, TypeOK, NetFits, Packet
  <2> QED BY <2>1, <2>2, SizeFacts DEF StreamInv
<1>11. pkt.group < group /\ pkt.group \in firstGroup .. group
  <2>1. p.group # group
    BY <1>10, SizeFacts
  <2>2. group \in Nat
    BY Zenon DEF TypeInv, TypeOK
  <2> QED BY <1>10, <2>1, <2>2
<1> QED BY <1>8, <1>11, Zenon DEF StreamInv

-----------------------------------------------------------------------------
(* Recovery                                                                *)
mine(g) == {p \in taken : p.group = g}

(* While no later group has been seen, the heap of a group holds the       *)
(* packets taken, until there were enough of them.                         *)
Gathered(g) ==
  InStep /\ newest <= g
    => /\ heapOf(g) \subseteq mine(g)
       /\ Cardinality(mine(g)) >= DataShards \/ mine(g) \subseteq heapOf(g)

GroupInv == \A g \in 0 .. wrapAt - 1 : Gathered(g) /\ recoveredFrom(g)

LEMMA NoneTaken ==
  ASSUME taken = {}, NEW g
  PROVE  recoveredFrom(g)
<1> QED BY FS_EmptySet, SizeFacts DEF recoveredFrom

LEMMA InitGroups == Init => GroupInv
<1> SUFFICES ASSUME Init, NEW g \in 0 .. wrapAt - 1 PROVE Gathered(g) /\ recoveredFrom(g)
  BY Zenon DEF GroupInv
<1> QED BY NoneTaken, Zenon DEF Gathered, heapOf, mine, Init

(* The packets taken of a group are finite in number, and only grow.       *)
LEMMA MineGrows ==
  ASSUME EachSeqidOnce, TypeInv, StreamInv, NEW g, NEW pkt \in net
  PROVE  /\ mine(g) \subseteq net /\ IsFiniteSet(mine(g)) /\ IsFiniteSet(mine(g) \cup {pkt})
         /\ Cardinality(mine(g)) \in Nat /\ Cardinality(mine(g) \cup {pkt}) \in Nat
         /\ Cardinality(mine(g)) >= DataShards => Cardinality(mine(g) \cup {pkt}) >= DataShards
<1>1. mine(g) \subseteq net /\ \A p \in mine(g) : p.group = g
  BY Zenon DEF mine, TypeInv, TypeOK
<1>2. IsFiniteSet(mine(g))
  <2> DEFINE D == {p \in mine(g) : p.flag = "data"}
  <2>1. D = {p \in mine(g) : p.flag = "data"}
    BY Zenon
  <2> HIDE DEF D
  <2> QED BY <1>1, <2>1, GroupShards, Zenon
<1> QED BY <1>1, <1>2, SizeFacts, FS_CardinalityType, FS_Subset, FS_AddElement

LEMMA DecodeGroupInStep ==
  ASSUME EachSeqidOnce, TypeInv, StreamInv, StepInv, GroupInv, InStep,
         NEW pkt \in net, decode(pkt), NEW g \in 0 .. wrapAt - 1
  PROVE  Gathered(g)' /\ recoveredFrom(g)'
<1> DEFINE id == getShardId(pkt.seqid)
           H == heapOf(id) \cup {pkt}
<1>1. InStep' /\ collect(pkt) /\ taken' = IF inTime(pkt) THEN taken \cup {pkt} ELSE taken
  BY StaysInStep, Zenon
<1>2. /\ newest \in Nat /\ pkt.group \in Nat /\ wrapAt \in Nat /\ minShardId \in 0 .. Half - 1
      /\ session \in Sessions /\ pkt.group \in firstGroup .. firstGroup + MaxGroups - 1
      /\ params.data = DataShards
  BY PawsFacts, InStepFacts, Zenon DEF TypeInv, TypeOK, Packet, IdsFit, StreamInv
<1>4. id = idOf(pkt.group) /\ id \in 0 .. Half - 1 /\ id <= pkt.group /\ (id = pkt.group \/ pkt.group >= wrapAt)
  <2>2. id \in 0 .. Half - 1
    BY IdType, Zenon DEF TypeInv, TypeOK, NetFits
  <2> QED BY <1>2, <2>2, InStepFacts DEF idOf
<1>5. /\ itimediff(id, minShardId) = id - minShardId
  BY <1>2, <1>4, IdDiff, Zenon
<1>6. Gathered(g) /\ recoveredFrom(g)
  BY Zenon DEF GroupInv
<1>7. mine(g)' = IF inTime(pkt) /\ pkt.group = g THEN mine(g) \cup {pkt} ELSE mine(g)
  BY <1>1, Zenon DEF mine
<1>8. recovered \subseteq recovered'
  BY <1>1, Zenon DEF collect
<1>9. \A p \in H : p \in net /\ p.group = pkt.group
  BY OneGroup, Zenon
<1>10. ASSUME pkt.group = g, newest <= g
       PROVE  /\ id = g
              /\ inTime(pkt) <=> id >= minShardId
  BY <1>2, <1>4, <1>10 DEF StepInv, inTime
<1>11. CASE ~(pkt.group = g /\ newest <= g)
  <2>1. mine(g)' = mine(g)
    BY <1>7, <1>11, Zenon DEF inTime
  <2>2. recoveredFrom(g)'
    BY <1>6, <1>8, <2>1, Zenon DEF recoveredFrom, mine
  <2>3. ASSUME newest' <= g PROVE heapOf(g)' = heapOf(g) /\ newest <= g
    <3>1. newest <= g /\ pkt.group <= g /\ pkt.group # g /\ pkt.group < wrapAt
      BY <1>2, <1>11, <2>3, MaxOfTwo DEF decode
    <3>2. id # g /\ id <= g
      BY <1>2, <1>4, <3>1
    <3>3. CASE itimediff(id, minShardId) < 0 \/ Has(heapOf(id), pkt.seqid)
      BY <1>1, <3>3, <3>1, Zenon DEF collect, heapOf
    <3>4. CASE ~(itimediff(id, minShardId) < 0) /\ ~Has(heapOf(id), pkt.seqid)
      <4>1. /\ DOMAIN shardSet' = {i \in DOMAIN shardSet \cup {id} : id - i <= maxShardSets}
            /\ \A i \in DOMAIN shardSet' : i # id => shardSet'[i] = shardSet[i]
        BY <1>1, <3>4, CollectEffect, Zenon
      <4>2. id - g <= maxShardSets
        BY <1>4, <3>2, FecV2Assumption
      <4> HIDE DEF id
      <4> QED BY <3>1, <3>2, <4>1, <4>2, Zenon DEF heapOf
    <3> QED BY <3>3, <3>4, Zenon
  <2> QED BY <2>2, <1>6, <2>1, <2>3, Zenon DEF Gathered
<1>12. CASE pkt.group = g /\ newest <= g
  <2>1. id = g /\ (inTime(pkt) <=> id >= minShardId)
    BY <1>10, <1>12, Zenon
  <2>2. /\ heapOf(g) \subseteq mine(g)
        /\ Cardinality(mine(g)) >= DataShards \/ mine(g) \subseteq heapOf(g)
    BY <1>6, <1>12, Zenon DEF Gathered
  <2>3. CASE ~(id >= minShardId)
    <3>2. mine(g)' = mine(g) /\ heapOf(g)' = heapOf(g)
      BY <1>7, <2>1, <2>3, <1>1, <1>2, <1>4, <1>5 DEF heapOf, collect
    <3> QED BY <1>6, <1>8, <2>2, <3>2, Zenon DEF Gathered, recoveredFrom, mine
  <2>4. CASE id >= minShardId /\ Has(heapOf(id), pkt.seqid)
    <3>2. PICK p \in heapOf(id) : p.seqid = pkt.seqid
      BY <2>4, Zenon DEF Has
    <3>3. p \in net /\ p = pkt
      BY <1>9, <3>2, SeqidOfOne, Zenon
    <3>4. mine(g)' = mine(g) /\ heapOf(g)' = heapOf(g)
      BY <2>1, <2>2, <3>3, <1>7, <1>1, <2>4, Zenon DEF heapOf, collect
    <3> QED BY <1>6, <1>8, <2>2, <3>4, Zenon DEF Gathered, recoveredFrom, mine
  <2>5. CASE id >= minShardId /\ ~Has(heapOf(id), pkt.seqid)
    <3>1. /\ DOMAIN shardSet' = {i \in DOMAIN shardSet \cup {id} : id - i <= maxShardSets}
          /\ \A i \in DOMAIN shardSet' :
               shardSet'[i] = IF i # id THEN shardSet[i] ELSE IF enough(H) THEN {} ELSE H
          /\ recovered' = IF enough(H) THEN recovered \cup recover(H) ELSE recovered
      <4>1. ~(itimediff(id, minShardId) < 0)
        BY <1>2, <1>4, <1>5, <2>5
      <4> QED BY <1>1, <2>5, <4>1, CollectEffect, Zenon
    <3>2. mine(g)' = mine(g) \cup {pkt}
      BY <1>7, <1>12, <2>1, <2>5, Zenon
    <3>3. H = heapOf(g) \cup {pkt}
      BY <2>1, Zenon
    <3> HIDE DEF id, H
    <3>4. heapOf(g)' = IF enough(H) THEN {} ELSE H
      BY <3>1, FecV2Assumption, <2>1 DEF heapOf
    <3>5. /\ mine(g) \subseteq net /\ IsFiniteSet(mine(g) \cup {pkt})
          /\ Cardinality(mine(g)) \in Nat /\ Cardinality(mine(g) \cup {pkt}) \in Nat
          /\ Cardinality(mine(g)) >= DataShards => Cardinality(mine(g) \cup {pkt}) >= DataShards
      BY MineGrows, Zenon
    <3>6. H \subseteq mine(g) \cup {pkt}
      BY <2>2, <3>3, Zenon
    <3>7. IsFiniteSet(H) /\ Cardinality(H) \in Nat /\ Cardinality(H) <= Cardinality(mine(g) \cup {pkt})
      BY <3>5, <3>6, FS_Subset, FS_CardinalityType, Zenon
    <3>8. enough(H) <=> Cardinality(H) >= DataShards
      BY <1>2, Zenon DEF enough
    <3>9. Gathered(g)'
      <4>2. Cardinality(mine(g)') >= DataShards \/ mine(g)' \subseteq heapOf(g)'
        <5>1. CASE enough(H)
          BY <3>2, <3>5, <3>7, <3>8, <5>1, SizeFacts
        <5>2. CASE Cardinality(mine(g)) >= DataShards
          BY <3>2, <3>5, <5>2, Zenon
        <5>3. CASE ~enough(H) /\ mine(g) \subseteq heapOf(g)
          BY <3>2, <3>3, <3>4, <5>3, Zenon
        <5> QED BY <2>2, <5>1, <5>2, <5>3, Zenon
      <4> QED BY <4>2, <3>2, <3>4, <3>6, Zenon DEF Gathered
    <3> DEFINE D == {p \in H : p.flag = "data"}
    <3>10. D = {p \in H : p.flag = "data"} /\ H \subseteq net /\ H # {} /\ \A p \in H : p.group = g
      BY <1>9, <1>12, Zenon DEF H
    <3> HIDE DEF D
    <3>12. recoveredFrom(g)'
      <4>1. SUFFICES ASSUME Cardinality(mine(g) \cup {pkt}) >= DataShards, NEW k \in 0 .. DataShards - 1
                     PROVE  [group |-> g, shard |-> k] \in recovered' \/ \E p \in mine(g) \cup {pkt} : p.shard = k
        BY <3>2, Zenon DEF recoveredFrom, mine
      <4>2. CASE Cardinality(mine(g)) >= DataShards
        BY <1>6, <1>8, <4>2, Zenon DEF recoveredFrom, mine
      <4>3. CASE mine(g) \subseteq heapOf(g)
        <5>1. H = mine(g) \cup {pkt}
          BY <3>3, <3>6, <4>3, Zenon
        <5>5. CASE Cardinality(D) = DataShards
          BY <3>10, <5>1, <5>5, GroupShards, Zenon
        <5>6. CASE Cardinality(D) # DataShards
          BY <5>1, <4>1, <5>6, <3>10, RecoverGroup, <3>1, <3>8
        <5> QED BY <5>5, <5>6, Zenon
      <4> QED BY <2>2, <4>2, <4>3, Zenon
    <3> QED BY <3>9, <3>12, Zenon
  <2> QED BY <2>3, <2>4, <2>5, Zenon
<1> QED BY <1>11, <1>12, Zenon

LEMMA DecodeGroup ==
  ASSUME EachSeqidOnce, TypeInv, StreamInv, StepInv, GroupInv, NEW pkt \in net, decode(pkt)
  PROVE  GroupInv'
<1>2. SUFFICES ASSUME NEW g \in 0 .. wrapAt - 1 PROVE Gathered(g)' /\ recoveredFrom(g)'
  BY Zenon DEF GroupInv
<1>3. CASE InStep
  BY <1>3, DecodeGroupInStep, Zenon
<1>4. CASE ~InStep
  <2>1. taken = {} /\ taken' = taken
    BY <1>4, Zenon DEF StepInv, decode, inTime
  <2>3. ASSUME InStep' PROVE DOMAIN shardSet' = {}
    BY <1>4, <2>3, TuneEffect, Zenon DEF InStep, Peer, decode, collect
  <2> QED BY <2>1, FS_EmptySet, SizeFacts, <2>3 DEF recoveredFrom, Gathered, heapOf, mine
<1> QED BY <1>3, <1>4, Zenon

(* The inductive invariant of a stream that uses no seqid twice.           *)
IInv == TypeInv /\ StreamInv /\ StepInv /\ GroupInv

LEMMA NextIInv ==
  ASSUME EachSeqidOnce, IInv, [Next]_vars
  PROVE  IInv'
<1>1. TypeInv /\ StreamInv /\ StepInv /\ GroupInv
  BY Zenon DEF IInv
<1>2. TypeInv'
  BY <1>1, NextType, Zenon
<1>3. CASE encodeData \/ encodeGroup
  <2>2. UNCHANGED <<session, tuneVars, shardSet, minShardId, recovered, newest, taken>>
    BY <1>3, Zenon DEF encodeData, encodeGroup
  <2>4. GroupInv'
    BY <1>1, <2>2, Zenon DEF GroupInv, Gathered, recoveredFrom, mine, heapOf, InStep, Peer, tuneVars
  <2> QED BY <1>2, <2>4, <1>3, EncodeStream, <2>2, Zenon DEF IInv, StepInv, InStep, Peer, getShardId, size, tuneVars
<1>4. ASSUME NEW pkt \in net, decode(pkt) PROVE IInv'
  BY <1>4, DecodeStep, DecodeGroup, <1>2, Zenon DEF decode, StreamInv, firstGroup, sentData, DataSent, encVars, IInv
<1>5. CASE UNCHANGED vars
  <2>1. StreamInv' /\ StepInv'
    BY <1>1, <1>5, Zenon DEF vars, encVars, tuneVars, StreamInv, firstGroup, sentData, DataSent,
       StepInv, InStep, Peer, getShardId, size
  <2>2. GroupInv'
    BY <1>1, <1>5, Zenon DEF vars, tuneVars, GroupInv, Gathered, recoveredFrom, mine, heapOf, InStep, Peer
  <2> QED BY <1>2, <2>1, <2>2, Zenon DEF IInv
<1> QED BY <1>3, <1>4, <1>5, Zenon DEF Next

LEMMA Invariance == ASSUME EachSeqidOnce PROVE Spec => []IInv
<1>1. Init => IInv
  BY InitType, InitStream, InitStep, InitGroups, Zenon DEF IInv
<1>2. IInv /\ [Next]_vars => IInv'
  BY NextIInv, Zenon
<1> QED BY <1>1, <1>2, PTL DEF Spec

(* A decoder with the sender's parameters only returns payloads that were  *)
(* sent (InStepRecoversSent), also just after it has tuned: decode repairs *)
(* a group only with packets of that group, and with a parity among them,  *)
(* which the encoder has sent after all of its data.                       *)
THEOREM RecoversWhatWasSent == ASSUME EachSeqidOnce PROVE Spec => InStepRecoversSent
<1>1. IInv /\ [Next]_vars
        => [InStep => recovered' \ recovered
                        \subseteq {[group |-> p.group, shard |-> p.shard] : p \in DataSent}]_vars
  BY ReturnsSent, Zenon DEF sentData, encodeData, encodeGroup, IInv, Next
<1> QED BY <1>1, Invariance, PTL DEF Spec, InStepRecoversSent

(* As soon as DataShards packets of a group have arrived in step and in    *)
(* time, all of its data has arrived or been recovered                     *)
(* (EnoughShardsRecover): until a later group is seen, the heap of a group *)
(* that lies before the wrap is neither flushed nor below the minimum id.  *)
THEOREM EnoughRecover == ASSUME EachSeqidOnce PROVE Spec => []EnoughShardsRecover
<1>1. IInv => EnoughShardsRecover
  BY PawsFacts, GroupIds DEF EnoughShardsRecover, IInv, TypeInv, TypeOK, wrapped, wrapAt, GroupInv
<1> QED BY <1>1, Invariance, PTL

-----------------------------------------------------------------------------
(* The tuner                                                               *)

(* A pulse that was sampled: at the index of its seqid, and data where the *)
(* encoder sends data.                                                     *)
Sampled(u, i) ==
  /\ u.seq \in 0 .. paws - 1 /\ u.seq % MaxSamples = i
  /\ \/ u.bit = TRUE /\ u.seq % ShardSize < DataShards
     \/ u.bit = FALSE /\ u.seq % ShardSize >= DataShards

PulsesFit(u) ==
  /\ u \in [0 .. MaxSamples - 1 -> Pulse]
  /\ \A i \in 0 .. MaxSamples - 1 : u[i] = [bit |-> FALSE, seq |-> 0] \/ Sampled(u[i], i)

LEMMA SampleFits ==
  ASSUME TypeInv, NEW u, PulsesFit(u), NEW p \in net
  PROVE  PulsesFit(Sample(u, p.flag = "data", p.seqid))
<1> DEFINE b == p.flag = "data"
           s == p.seqid
           v == [bit |-> b, seq |-> s]
<1>1. MaxSamples \in Nat \ {0} /\ u \in [0 .. MaxSamples - 1 -> Pulse]
  BY AutoTuneAssumption DEF PulsesFit
<1>2. /\ s \in 0 .. paws - 1 /\ s \in 0 .. SeqidMod - 1 /\ b \in BOOLEAN
      /\ b <=> s % ShardSize < DataShards
  BY Zenon DEF TypeInv, TypeOK, NetFits, Packet
<1>3. s \in Int /\ ShardSize \in Nat \ {0} /\ DataShards \in Int /\ paws \in Int
  BY <1>2, SizeFacts, PawsFacts
<1>4. s % MaxSamples \in 0 .. MaxSamples - 1 /\ s % ShardSize \in Int
  <2>1. s % ShardSize \in 0 .. ShardSize - 1
    BY <1>3, DivMod, Zenon
  <2>2. s % MaxSamples \in 0 .. MaxSamples - 1
    BY <1>1, <1>3, DivMod, Zenon
  <2> QED BY <2>1, <2>2
<1> HIDE DEF b, s
<1>6. Sampled(v, s % MaxSamples)
  BY <1>2, <1>3 DEF Sampled
<1> DEFINE w == [u EXCEPT ![s % MaxSamples] = v]
<1>7. Sample(u, b, s) = u \/ Sample(u, b, s) = w
  BY Zenon DEF Sample
<1>8. PulsesFit(w)
  <2>1. v \in Pulse
    BY <1>2, Zenon DEF Pulse
  <2> HIDE DEF v
  <2>2. w \in [0 .. MaxSamples - 1 -> Pulse]
    BY <1>1, <1>4, <2>1, Zenon
  <2>3. ASSUME NEW i \in 0 .. MaxSamples - 1 PROVE w[i] = [bit |-> FALSE, seq |-> 0] \/ Sampled(w[i], i)
    <3>1. w[i] = IF i = s % MaxSamples THEN v ELSE u[i]
      BY <1>1, Zenon
    <3> HIDE DEF w
    <3> QED BY <1>6, <3>1, Zenon DEF PulsesFit
  <2> HIDE DEF w
  <2> QED BY <2>2, <2>3, Zenon DEF PulsesFit
<1> HIDE DEF w, v
<1> QED BY <1>7, <1>8, Zenon DEF b, s

isData(u, i) == u[i].bit = TRUE

(* A pulse of the sender's packets, data where the encoder sends data.     *)
Genuine(u, i) ==
  /\ u[i].seq \in 0 .. paws - 1
  /\ isData(u, i) <=> u[i].seq % ShardSize < DataShards

(* Pulses that are continuous, with a data packet at index 0, are pulses   *)
(* that were sampled: a zero value is continuous with nothing.             *)
LEMMA ContinuousSampled ==
  ASSUME NEW u, PulsesFit(u), isData(u, 0), NEW i \in 1 .. MaxSamples - 1, continuous(u, i)
  PROVE  /\ Genuine(u, i - 1) /\ Genuine(u, i)
         /\ u[i].seq = u[i - 1].seq + 1
<1>1. MaxSamples \in Nat \ {0} /\ MaxSamples >= 2 /\ SeqidMod \in Nat \ {0}
      /\ i - 1 \in 0 .. MaxSamples - 1 /\ i \in 0 .. MaxSamples - 1
      /\ paws \in Nat \ {0} /\ paws < SeqidMod
  BY AutoTuneAssumption, PawsFacts
<1>2. \A j \in 0 .. MaxSamples - 1 : u[j] = [bit |-> FALSE, seq |-> 0] \/ Sampled(u[j], j)
  BY Zenon DEF PulsesFit
<1>3. \A j \in 0 .. MaxSamples - 1 : u[j].seq \in 0 .. paws - 1
  BY <1>1, <1>2 DEF Sampled
<1>4. u[i].seq = u[i - 1].seq + 1
  BY <1>1, <1>3 DEF continuous
<1>5. Sampled(u[i], i)
  BY <1>1, <1>3, <1>4, <1>2
<1>6. Sampled(u[i - 1], i - 1)
  <2> SUFFICES ASSUME u[i - 1] = [bit |-> FALSE, seq |-> 0] PROVE FALSE
    BY <1>1, <1>2, Zenon
  <2> QED BY <1>5, <1>4, <1>1 DEF isData, Sampled
<1>7. ASSUME NEW j \in 0 .. MaxSamples - 1, Sampled(u[j], j) PROVE Genuine(u, j)
  <2> QED BY <1>7, SizeFacts DEF Genuine, Sampled, isData
<1> QED BY <1>1, <1>4, <1>5, <1>6, <1>7, Zenon

(* From the first data packet of a group to the first parity packet, and   *)
(* on to the next group.                                                   *)
LEMMA DataRun ==
  ASSUME NEW s \in Nat \ {0}, NEW n \in Nat,
         (s - 1) % ShardSize >= DataShards, s % ShardSize < DataShards,
         \A j \in 0 .. n - 1 : (s + j) % ShardSize < DataShards, (s + n) % ShardSize >= DataShards
  PROVE  n = DataShards
<1>1. ShardSize \in Nat \ {0} /\ DataShards \in 1 .. ShardSize - 1 /\ s - 1 \in Nat /\ s \in Int
  BY SizeFacts
<1>2. s % ShardSize = 0
  <2>1. ((s - 1) + 1) % ShardSize
          = IF (s - 1) % ShardSize = ShardSize - 1 THEN 0 ELSE ((s - 1) % ShardSize) + 1
    BY <1>1, ModNext, Zenon
  <2> QED BY <1>1, <2>1
<1>3. PICK q \in Int : s = q * ShardSize + 0
  BY <1>1, <1>2, DivMod, Zenon
<1>4. ASSUME NEW j \in 0 .. ShardSize - 1 PROVE (s + j) % ShardSize = j
  <2>1. (q * ShardSize + j) % ShardSize = j
    BY <1>1, ModUnique, Zenon
  <2>2. s + j = q * ShardSize + j
    BY <1>1, <1>3
  <2> QED BY <2>1, <2>2, Zenon
<1>5. ~(DataShards < n)
  <2>1. (s + DataShards) % ShardSize = DataShards
    <3>1. DataShards \in 0 .. ShardSize - 1
      BY <1>1
    <3> QED BY <1>4, <3>1, Zenon
  <2> QED BY <1>1, <2>1
<1>6. ~(n < DataShards)
  <2> SUFFICES ASSUME n < DataShards PROVE FALSE
    BY Zenon
  <2>1. n \in 0 .. ShardSize - 1
    BY <1>1
  <2>2. (s + n) % ShardSize = n
    BY <1>4, <2>1, Zenon
  <2> QED BY <1>1, <2>2
<1> QED BY <1>1, <1>5, <1>6

LEMMA ParityRun ==
  ASSUME NEW s \in Nat \ {0}, NEW n \in Nat,
         (s - 1) % ShardSize < DataShards, s % ShardSize >= DataShards,
         \A j \in 0 .. n - 1 : (s + j) % ShardSize >= DataShards, (s + n) % ShardSize < DataShards
  PROVE  n = ParityShards
<1>1. /\ ShardSize \in Nat \ {0} /\ DataShards \in 1 .. ShardSize - 1 /\ s - 1 \in Nat /\ s \in Int
      /\ ParityShards = ShardSize - DataShards /\ ParityShards \in Nat
  BY SizeFacts
<1>2. s % ShardSize = DataShards
  <2>1. ((s - 1) + 1) % ShardSize
          = IF (s - 1) % ShardSize = ShardSize - 1 THEN 0 ELSE ((s - 1) % ShardSize) + 1
    BY <1>1, ModNext, Zenon
  <2> QED BY <1>1, <2>1
<1>3. PICK q \in Int : s = q * ShardSize + DataShards
  BY <1>1, <1>2, DivMod, Zenon
<1>5. ASSUME NEW j \in 0 .. ParityShards - 1 PROVE (s + j) % ShardSize = DataShards + j
  BY <1>1, <1>3
<1>6. (s + ParityShards) % ShardSize = 0
  <2> QED BY <1>1, ModUnique, q + 1 \in Int, 0 \in 0 .. ShardSize - 1, <1>3
<1> QED BY <1>1, <1>5, <1>6

(* A run of pulses between two edges, continuous all the way.              *)
LEMMA RunSeqids ==
  ASSUME NEW u, PulsesFit(u), isData(u, 0), NEW B,
         NEW left \in 1 .. MaxSamples - 1, NEW stop \in left + 1 .. MaxSamples - 1,
         \A i \in left .. stop : continuous(u, i),
         left \in B, \A i \in left + 1 .. stop - 1 : i - 1 \in B => i \in B
  PROVE  /\ Genuine(u, left - 1) /\ u[left].seq = u[left - 1].seq + 1
         /\ \A i \in left .. stop : /\ Genuine(u, i) /\ u[i].seq = u[left].seq + (i - left)
                                    /\ i # stop => i \in B
<1> DEFINE ok(i) == /\ u[i].seq = u[left].seq + (i - left)
                    /\ i # stop => i \in B
           bad == {i \in left .. stop : ~ok(i)}
<1>1. MaxSamples \in Nat
  BY AutoTuneAssumption
<1>2. \A i \in left .. stop : /\ Genuine(u, i - 1) /\ Genuine(u, i)
                              /\ u[i].seq = u[i - 1].seq + 1
  BY <1>1, ContinuousSampled
<1>4. bad = {}
  <2> SUFFICES ASSUME bad # {} PROVE FALSE
    BY Zenon
  <2>1. bad \subseteq Nat
    OBVIOUS
  <2>2. PICK n \in bad : \A m \in bad : n <= m
    BY <2>1, LeastNat, Zenon
  <2>3. u[left].seq \in Int /\ u[n].seq = u[n - 1].seq + 1
    BY <2>2, <1>1, <1>2 DEF Genuine
  <2>4. ok(left)
    BY <2>3
  <2>5. n # left
    BY <2>2, <2>4, Zenon
  <2> HIDE DEF ok
  <2>6. n - 1 \in left .. stop /\ n - 1 \notin bad /\ n \in left + 1 .. stop /\ ~ok(n)
    BY <2>2, <2>5, <1>1
  <2>7. ok(n - 1)
    BY <2>6, Zenon
  <2>8. ok(n)
    BY <2>3, <2>6, <2>7, <1>1 DEF ok
  <2> QED BY <2>6, <2>8, Zenon
<1> QED BY <1>2, <1>4

(* The seqids of a run, from the one before it to the one after it.        *)
LEMMA RunPlaces ==
  ASSUME NEW u, PulsesFit(u), isData(u, 0), NEW B,
         NEW left \in 1 .. MaxSamples - 1, NEW stop \in left + 1 .. MaxSamples - 1,
         \A i \in left .. stop : continuous(u, i),
         left \in B, \A i \in left + 1 .. stop - 1 : i - 1 \in B => i \in B,
         NEW s, s = u[left].seq
  PROVE  /\ s \in Nat \ {0} /\ stop - left \in Nat \ {0}
         /\ isData(u, left - 1) <=> (s - 1) % ShardSize < DataShards
         /\ \A j \in 0 .. stop - left - 1 :
              left + j \in B /\ (isData(u, left + j) <=> (s + j) % ShardSize < DataShards)
         /\ isData(u, stop) <=> (s + (stop - left)) % ShardSize < DataShards
<1>2. /\ Genuine(u, left - 1) /\ s = u[left - 1].seq + 1
      /\ \A i \in left .. stop : /\ Genuine(u, i) /\ u[i].seq = s + (i - left)
                                 /\ i # stop => i \in B
  BY RunSeqids
<1> QED BY <1>2 DEF Genuine

LEMMA DataPeriod ==
  ASSUME NEW u, PulsesFit(u), isData(u, 0),
         NEW left \in 1 .. MaxSamples - 1, NEW stop \in left + 1 .. MaxSamples - 1,
         \A i \in left .. stop : continuous(u, i),
         ~isData(u, left - 1), isData(u, left), ~isData(u, stop),
         \A i \in left + 1 .. stop - 1 : isData(u, i - 1) => isData(u, i)
  PROVE  stop - left = DataShards
<1> DEFINE B == {i \in 0 .. MaxSamples - 1 : isData(u, i)}
           s == u[left].seq
           n == stop - left
<1>2. left \in B /\ \A i \in left + 1 .. stop - 1 : i - 1 \in B => i \in B
  BY AutoTuneAssumption
<1>3. \A i : i \in B => isData(u, i)
  BY Zenon
<1> HIDE DEF B
<1>4. /\ s \in Nat \ {0} /\ n \in Nat \ {0}
      /\ isData(u, left - 1) <=> (s - 1) % ShardSize < DataShards
      /\ \A j \in 0 .. n - 1 : left + j \in B /\ (isData(u, left + j) <=> (s + j) % ShardSize < DataShards)
      /\ isData(u, stop) <=> (s + n) % ShardSize < DataShards
  BY <1>2, RunPlaces, Zenon
<1> HIDE DEF s, n
<1>5. ASSUME NEW x \in Int PROVE ~(x % ShardSize < DataShards) => x % ShardSize >= DataShards
  BY SizeFacts
<1>6. (s - 1) % ShardSize >= DataShards /\ (s + n) % ShardSize >= DataShards
  BY <1>4, <1>5
<1>8. s % ShardSize < DataShards
  BY <1>4
<1> QED BY <1>4, <1>6, <1>8, DataRun, <1>3, Zenon DEF n

LEMMA ParityPeriod ==
  ASSUME NEW u, PulsesFit(u), isData(u, 0),
         NEW left \in 1 .. MaxSamples - 1, NEW stop \in left + 1 .. MaxSamples - 1,
         \A i \in left .. stop : continuous(u, i),
         isData(u, left - 1), ~isData(u, left), isData(u, stop),
         \A i \in left + 1 .. stop - 1 : isData(u, i) => isData(u, i - 1)
  PROVE  stop - left = ParityShards
<1> DEFINE B == {i \in 0 .. MaxSamples - 1 : ~isData(u, i)}
           s == u[left].seq
           n == stop - left
<1>2. left \in B /\ \A i \in left + 1 .. stop - 1 : i - 1 \in B => i \in B
  BY AutoTuneAssumption
<1>3. \A i : i \in B => ~isData(u, i)
  BY Zenon
<1> HIDE DEF B
<1>4. /\ s \in Nat \ {0} /\ n \in Nat \ {0}
      /\ isData(u, left - 1) <=> (s - 1) % ShardSize < DataShards
      /\ \A j \in 0 .. n - 1 : left + j \in B /\ (isData(u, left + j) <=> (s + j) % ShardSize < DataShards)
      /\ isData(u, stop) <=> (s + n) % ShardSize < DataShards
  BY <1>2, RunPlaces
<1> HIDE DEF s, n
<1>5. ASSUME NEW x \in Int PROVE ~(x % ShardSize < DataShards) => x % ShardSize >= DataShards
  BY SizeFacts
<1>7. \A j \in 0 .. n - 1 : (s + j) % ShardSize >= DataShards
  BY <1>3, <1>4, <1>5, \A j \in 0 .. n - 1 : s + j \in Int, Zenon
<1>8. s % ShardSize >= DataShards
  BY <1>4, <1>7
<1> QED BY <1>4, <1>7, <1>8, ParityRun, Zenon DEF n

(* What FindPeriod returns when it is positive: the length of a run that   *)
(* falls at its end, from the first edge if there is one.                  *)
LEMMA PositivePeriod ==
  ASSUME NEW u, NEW b, FindPeriod(u, b) > 0
  PROVE  \E stop \in leftEdge(u, b) + 1 .. MaxSamples - 1 :
           /\ FindPeriod(u, b) = stop - leftEdge(u, b)
           /\ continuous(u, stop) /\ u[stop - 1].bit = b /\ u[stop].bit # b
           /\ \A i \in leftEdge(u, b) + 1 .. stop - 1 :
                continuous(u, i) /\ ~(u[i - 1].bit = b /\ u[i].bit # b)
<1> DEFINE left == leftEdge(u, b)
           falls(i) == u[i - 1].bit = b /\ u[i].bit # b
           stops == {i \in left + 1 .. MaxSamples - 1 : ~continuous(u, i) \/ falls(i)}
<1>1. MaxSamples \in Nat /\ left \in Nat
  BY LeftEdgeType, AutoTuneAssumption
<1>2. FindPeriod(u, b) = CASE stops = {} -> 0 - left
                           [] stops # {} /\ ~continuous(u, Min(stops)) -> -1
                           [] OTHER -> Min(stops) - left
  BY Zenon DEF FindPeriod
<1>3. stops \subseteq Nat /\ \A i \in stops : i \in left + 1 .. MaxSamples - 1
  BY <1>1
<1> HIDE DEF left, falls
<1>4. /\ stops # {} /\ continuous(u, Min(stops)) /\ FindPeriod(u, b) = Min(stops) - left
  <2> HIDE DEF stops
  <2> QED BY <1>1, <1>2
<1>5. Min(stops) \in stops /\ \A m \in stops : Min(stops) <= m
  <2> HIDE DEF stops
  <2> QED BY <1>3, <1>4, MinOf, Zenon
<1> DEFINE stop == Min(stops)
<1>6. stop \in left + 1 .. MaxSamples - 1 /\ falls(stop)
  BY <1>4, <1>5, Zenon
<1>7. ASSUME NEW i \in left + 1 .. stop - 1 PROVE continuous(u, i) /\ ~falls(i)
  BY <1>1, <1>5
<1> HIDE DEF stops, stop
<1> QED BY <1>4, <1>6, <1>7, Zenon DEF left, falls, stop

(* The edges where a run of b begins; leftEdge is one, when there is one.  *)
rising(u, b) == {j \in 1 .. MaxSamples - 1 : u[j - 1].bit # b /\ u[j].bit = b /\ continuous(u, j)}

LEMMA EdgeProps ==
  ASSUME NEW u, NEW b, NEW i \in rising(u, b)
  PROVE  leftEdge(u, b) \in rising(u, b)
<1> QED BY MinOf DEF leftEdge, rising

(* Positive periods of both kinds are the sender's parameters: the end of  *)
(* a run of one kind is the start of a run of the other, so both runs were *)
(* measured from an edge.                                                  *)
LEMMA PeriodsArePeers ==
  ASSUME NEW u, PulsesFit(u), isData(u, 0), FindPeriod(u, TRUE) > 0, FindPeriod(u, FALSE) > 0
  PROVE  FindPeriod(u, TRUE) = DataShards /\ FindPeriod(u, FALSE) = ParityShards
<1> DEFINE l == leftEdge(u, TRUE)
           m == leftEdge(u, FALSE)
<1>1. MaxSamples \in Nat /\ l \in Nat /\ m \in Nat
  <2>1. MaxSamples \in Nat
    BY AutoTuneAssumption
  <2> QED BY <2>1, LeftEdgeType, Zenon
<1> HIDE DEF l, m
<1>3. \A i \in 0 .. MaxSamples - 1 : /\ u[i].bit = TRUE <=> isData(u, i)
                                     /\ u[i].bit = FALSE <=> ~isData(u, i)
  BY Zenon DEF isData, PulsesFit, Pulse
<1>4. PICK s \in l + 1 .. MaxSamples - 1 :
        /\ FindPeriod(u, TRUE) = s - l
        /\ continuous(u, s) /\ u[s - 1].bit = TRUE /\ u[s].bit # TRUE
        /\ \A i \in l + 1 .. s - 1 : continuous(u, i) /\ ~(u[i - 1].bit = TRUE /\ u[i].bit # TRUE)
  BY PositivePeriod, Zenon DEF l
<1>5. PICK r \in m + 1 .. MaxSamples - 1 :
        /\ FindPeriod(u, FALSE) = r - m
        /\ continuous(u, r) /\ u[r - 1].bit = FALSE /\ u[r].bit # FALSE
        /\ \A i \in m + 1 .. r - 1 : continuous(u, i) /\ ~(u[i - 1].bit = FALSE /\ u[i].bit # FALSE)
  <2> DEFINE b == FALSE
  <2> HIDE DEF b
  <2>1. FindPeriod(u, b) > 0
    BY Zenon DEF b
  <2>2. \E r \in leftEdge(u, b) + 1 .. MaxSamples - 1 :
          /\ FindPeriod(u, b) = r - leftEdge(u, b)
          /\ continuous(u, r) /\ u[r - 1].bit = b /\ u[r].bit # b
          /\ \A i \in leftEdge(u, b) + 1 .. r - 1 :
               continuous(u, i) /\ ~(u[i - 1].bit = b /\ u[i].bit # b)
    BY <2>1, PositivePeriod
  <2> QED BY <2>2, Zenon DEF b, m
<1>6. /\ s \in 1 .. MaxSamples - 1 /\ s \in 0 .. MaxSamples - 1 /\ s - 1 \in 0 .. MaxSamples - 1
      /\ r \in 1 .. MaxSamples - 1 /\ r \in 0 .. MaxSamples - 1 /\ r - 1 \in 0 .. MaxSamples - 1
  BY <1>1
<1>7. l \in 1 .. MaxSamples - 1 /\ continuous(u, l) /\ u[l - 1].bit # TRUE /\ u[l].bit = TRUE
  BY <1>3, <1>5, <1>6, EdgeProps, Zenon DEF rising, l
<1>8. m \in 1 .. MaxSamples - 1 /\ continuous(u, m) /\ u[m - 1].bit # FALSE /\ u[m].bit = FALSE
  <2>2. s \in rising(u, FALSE)
    BY <1>4, <1>6, <1>3, Zenon DEF rising
  <2> QED BY <2>2, EdgeProps, Zenon DEF rising, m
<1>9. s - l = DataShards
  <2>1. /\ l - 1 \in 0 .. MaxSamples - 1 /\ l \in 0 .. MaxSamples - 1
        /\ \A i \in l + 1 .. s - 1 : i \in 0 .. MaxSamples - 1 /\ i - 1 \in 0 .. MaxSamples - 1
        /\ \A i \in l .. s : i = l \/ i = s \/ i \in l + 1 .. s - 1
    BY <1>1, <1>7
  <2>2. ~isData(u, l - 1) /\ isData(u, l) /\ ~isData(u, s)
    BY <1>3, <1>4, <1>6, <1>7, <2>1, Zenon
  <2>3. \A i \in l + 1 .. s - 1 : isData(u, i - 1) => isData(u, i)
    BY <1>3, <1>4, <2>1, Zenon
  <2>4. \A i \in l .. s : continuous(u, i)
    BY <1>4, <1>7, <2>1, Zenon
  <2> QED BY <1>7, <2>2, <2>3, <2>4, DataPeriod, Zenon
<1>10. r - m = ParityShards
  <2>1. /\ m - 1 \in 0 .. MaxSamples - 1 /\ m \in 0 .. MaxSamples - 1
        /\ \A i \in m + 1 .. r - 1 : i \in 0 .. MaxSamples - 1 /\ i - 1 \in 0 .. MaxSamples - 1
        /\ \A i \in m .. r : i = m \/ i = r \/ i \in m + 1 .. r - 1
    BY <1>1, <1>8
  <2> QED BY <1>8, ParityPeriod, <1>5, <2>1, <1>3, <1>6, Zenon
<1> QED BY <1>4, <1>5, <1>9, <1>10, Zenon

LEMMA InitPulses == Init => PulsesFit(pulses)
<1> QED BY AutoTuneAssumption DEF Init, PulsesFit, noPulses, Pulse

LEMMA NextPulses ==
  ASSUME TypeInv, PulsesFit(pulses), [Next]_vars
  PROVE  PulsesFit(pulses')
<1>2. ASSUME NEW pkt \in net, decode(pkt) PROVE PulsesFit(pulses')
  BY <1>2, SampleFits, Zenon DEF decode
<1>3. CASE encodeData \/ encodeGroup \/ UNCHANGED vars
  BY <1>3, Zenon DEF encodeData, encodeGroup, vars, tuneVars
<1> QED BY <1>2, <1>3, Zenon DEF Next

(* The tuner only ever changes the parameters to the sender's once a data  *)
(* packet lies at index 0 of the pulses (TunesToPeer), whatever was lost,  *)
(* repeated or reordered, for every ratio and every number of samples.     *)
THEOREM TunerFindsPeer == Spec => TunesToPeer
<1> DEFINE PInv == TypeInv /\ PulsesFit(pulses)
<1>1. Init => PInv
  BY InitType, InitPulses, Zenon
<1>2. PInv /\ [Next]_vars => PInv'
  BY NextType, NextPulses, Zenon
<1>3. PInv /\ [Next]_vars => [params' # params => (params' = Peer \/ ~pulses'[0].bit)]_vars
  <2> SUFFICES ASSUME TypeInv, PulsesFit(pulses), Next, params' # params, pulses'[0].bit
               PROVE  params' = Peer
    BY Zenon
  <2>1. PICK pkt \in net : decode(pkt)
    BY Zenon DEF Next, encodeData, encodeGroup, tuneVars
  <2>5. /\ FindPeriod(pulses', TRUE) > 0 /\ FindPeriod(pulses', FALSE) > 0
        /\ params' = [data |-> FindPeriod(pulses', TRUE), parity |-> FindPeriod(pulses', FALSE)]
    BY <2>1, Zenon DEF tune, adopt, decode, collect
  <2> QED BY <2>5, PeriodsArePeers, AutoTuneAssumption, NextPulses, Zenon DEF Peer, PulsesFit, Pulse, isData
<1> HIDE DEF PInv
<1> QED BY <1>1, <1>2, <1>3, PTL DEF Spec, TunesToPeer
=============================================================================
