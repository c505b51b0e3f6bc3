------------------------------ MODULE FecProofs -------------------------------
(***************************************************************************)
(* Proofs about Fec.                                                       *)
(*                                                                         *)
(* Types, alignment and the room in dataCh need no more than the numbers   *)
(* of the encoder.  Order, recovery and the datagram service rest on what  *)
(* a seqid means: in a stream that fits in half of the seqid space         *)
(* (ShortStream), itimediff orders the packets as they were sent, so the   *)
(* receive queue is in that order (InTurn), and the packets that Decode    *)
(* assembles around a new one are exactly those of its group               *)
(* (FoundIsGroup), side by side (FoundStretch).                            *)
(***************************************************************************)
EXTENDS Fec, FiniteSetTheorems, TLAPS

-----------------------------------------------------------------------------
(* Numbers                                                                 *)

(* A set of natural numbers has a least one: the form of induction used    *)
(* below.                                                                  *)
LEMMA LeastNat ==
  ASSUME NEW S, S \subseteq Nat, S # {}
  PROVE  \E n \in S : \A m \in S : n <= m
<1> DEFINE R == {ss \in Nat \X Nat : ss[1] < ss[2]}
<1>1. IsWellFoundedOn(R, Nat)
  BY NatLessThanWellFounded, Zenon DEF OpToRel
<1>2. PICK n \in S : \A m \in S : <<m, n>> \notin R
  <2> HIDE DEF R
  <2> QED BY <1>1, WFMin, Zenon
<1>3. ASSUME NEW m \in S PROVE n <= m
  BY <1>2, <<m, n>> \in Nat \X Nat
<1> QED BY <1>3, Zenon

LEMMA MaxOf ==
  ASSUME NEW n \in Nat, NEW S, S \subseteq 0 .. n, S # {}
  PROVE  Max(S) \in S /\ \A m \in S : m <= Max(S)
<1> DEFINE T == {k \in Nat : n - k \in S}
<1>1. T \subseteq Nat /\ T # {}
  <2>1. PICK m \in S : TRUE
    BY Zenon
  <2> QED OBVIOUS
<1>2. PICK k \in T : \A m \in T : k <= m
  <2> HIDE DEF T
  <2> QED BY <1>1, LeastNat, Zenon
<1>4. ASSUME NEW m \in S PROVE n - k >= m
  BY <1>2
<1> QED BY <1>4, Zenon DEF Max

LEMMA MinOf ==
  ASSUME NEW S, S \subseteq Nat, S # {}
  PROVE  Min(S) \in S /\ \A m \in S : Min(S) <= m
BY LeastNat, Zenon DEF Min

LEMMA MaxOfTwo ==
  ASSUME NEW a \in Int, NEW b \in Int
  PROVE  Max({a, b}) = IF a >= b THEN a ELSE b
<1>1. CASE a >= b
  BY DEF Max
<1>2. CASE b > a
  BY DEF Max
<1> QED BY <1>1, <1>2

LEMMA MinOfTwo ==
  ASSUME NEW a \in Int, NEW b \in Int
  PROVE  Min({a, b}) = IF a <= b THEN a ELSE b
<1>1. CASE a <= b
  BY DEF Min
<1>2. CASE b < a
  BY DEF Min
<1> QED BY <1>1, <1>2

(* Division with remainder: it exists and is unique.                       *)
LEMMA DivMod ==
  ASSUME NEW x \in Int, NEW m \in Nat \ {0}
  PROVE  /\ x \div m \in Int /\ x % m \in 0 .. m - 1
         /\ x = (x \div m) * m + (x % m)
OBVIOUS

LEMMA ModUnique ==
  ASSUME NEW m \in Nat \ {0}, NEW q \in Int, NEW r \in 0 .. m - 1
  PROVE  (q * m + r) % m = r /\ (q * m + r) \div m = q
OBVIOUS

LEMMA MulMono ==
  ASSUME NEW a \in Int, NEW b \in Int, NEW c \in Nat, a <= b
  PROVE  a * c <= b * c
OBVIOUS

LEMMA MulNext ==
  ASSUME NEW a \in Int, NEW c \in Int
  PROVE  (a + 1) * c = a * c + c
OBVIOUS

LEMMA ModSmall ==
  ASSUME NEW m \in Nat \ {0}, NEW x \in Int
  PROVE  /\ x \in 0 .. m - 1 => x % m = x
         /\ x \in -m .. -1 => x % m = x + m
OBVIOUS

LEMMA ModNext ==
  ASSUME NEW x \in Nat, NEW m \in Nat \ {0}
  PROVE  (x + 1) % m = IF x % m = m - 1 THEN 0 ELSE (x % m) + 1
<1>1. PICK q \in Int, r \in 0 .. m - 1 : x = q * m + r /\ r = x % m
  BY DivMod, x \in Int, Zenon
<1>2. CASE r = m - 1
  <2>1. x + 1 = (q + 1) * m + 0
    BY <1>1, <1>2
  <2> QED BY <2>1, <1>1
<1>3. CASE r # m - 1
  <2>1. x + 1 = q * m + (r + 1) /\ r + 1 \in 0 .. m - 1
    BY <1>1, <1>3
  <2>2. (q * m + (r + 1)) % m = r + 1
    BY <2>1, ModUnique, Zenon
  <2> QED BY <2>2, <1>1
<1> QED BY <1>2, <1>3, Zenon

(* Counting to the end of a group leads to the start of the next.          *)
LEMMA NextMultiple ==
  ASSUME NEW x \in Int, NEW m \in Nat \ {0}
  PROVE  (x - (x % m) + m) % m = 0
<1>1. PICK q \in Int, r \in 0 .. m - 1 : x = q * m + r /\ r = x % m
  BY DivMod, Zenon
<1>4. ((q + 1) * m + 0) % m = 0
  OBVIOUS
<1> QED BY <1>1, <1>4

-----------------------------------------------------------------------------
(* The encoder                                                             *)
LEMMA SizeFacts ==
  /\ ShardSize \in Nat /\ DataShards \in 1 .. ShardSize - 1
  /\ ParityShards \in Nat /\ ParityShards = ShardSize - DataShards
BY FecAssumption DEF ShardSize

(* paws is a multiple of ShardSize, and more than ShardSize below the end  *)
(* of the seqids.                                                          *)
LEMMA PawsFacts ==
  /\ paws \in Nat \ {0} /\ SeqidMod \in Nat \ {0}
  /\ paws + ShardSize < SeqidMod
  /\ \E K \in Nat : paws = K * ShardSize
<1> DEFINE D == (SeqidMod - 1) \div ShardSize
<1>1. ShardSize \in Nat \ {0} /\ SeqidMod - 1 \in Int
  BY SizeFacts, FecAssumption
<1>2. D \in Int /\ D * ShardSize <= SeqidMod - 1
  <2> QED BY <1>1
<1>3. paws = (D - 1) * ShardSize /\ paws > 0
  BY FecAssumption, Zenon DEF paws
<1> HIDE DEF D
<1> QED BY <1>1, <1>2, <1>3, FecAssumption

(* A group that starts below paws ends below it.                           *)
LEMMA AlignedRoom ==
  ASSUME NEW x \in 0 .. paws - 1
  PROVE  x - (x % ShardSize) + ShardSize <= paws
<1>1. ShardSize \in Nat \ {0} /\ x \in Int
  BY SizeFacts
<1>2. PICK K \in Nat : paws = K * ShardSize
  BY PawsFacts, Zenon
<1>3. PICK q \in Int, r \in 0 .. ShardSize - 1 : x = q * ShardSize + r /\ r = x % ShardSize
  BY <1>1, DivMod, Zenon
<1>5. (q + 1) * ShardSize <= K * ShardSize
  BY <1>1, <1>2, <1>3
<1> QED BY <1>1, <1>2, <1>3, <1>5

(* What markFEC computes when it is applied again and again: the seqids    *)
(* count up and wrap at paws.                                              *)
LEMMA MarkedFEC ==
  ASSUME next \in 0 .. paws - 2
  PROVE  \A i \in Nat : markedFEC[i] = (next + 1 + i) % paws
<1> DEFINE g == [i \in Nat |-> (next + 1 + i) % paws]
<1>1. paws \in Nat \ {0} /\ SeqidMod \in Nat \ {0} /\ paws < SeqidMod /\ next \in Nat
  BY PawsFacts, SizeFacts
<1>3. ASSUME NEW x \in Nat
      PROVE  markFEC(x % paws) = (x + 1) % paws
  <2>3. ((x % paws) + 1) % SeqidMod = (x % paws) + 1
    BY <1>1
  <2>5. ((x % paws) + 1) % paws = IF x % paws = paws - 1 THEN 0 ELSE (x % paws) + 1
    <3>1. (x % paws) % paws = x % paws
      BY <1>1, ModSmall, x % paws \in Int
    <3> QED BY <1>1, <3>1, ModNext, x % paws \in Nat, Zenon
  <2> QED BY <2>3, <2>5, <1>1, ModNext, Zenon DEF markFEC
<1>4. g = [i \in Nat |-> IF i = 0 THEN markData(next) ELSE markFEC(g[i - 1])]
  <2>1. g[0] = markData(next)
    BY <1>1 DEF markData
  <2>2. ASSUME NEW i \in Nat, i # 0 PROVE g[i] = markFEC(g[i - 1])
    BY <1>3, <2>2
  <2> QED BY <2>1, <2>2, Zenon
<1>5. markedFEC = [i \in Nat |-> IF i = 0 THEN markData(next) ELSE markFEC(markedFEC[i - 1])]
  <2> HIDE DEF g
  <2> QED BY <1>4, Zenon DEF markedFEC
<1> DEFINE Wrong == {i \in Nat : markedFEC[i] # g[i]}
<1>6. Wrong = {}
  <2> SUFFICES ASSUME Wrong # {} PROVE FALSE
    BY Zenon
  <2>1. PICK i \in Wrong : \A j \in Wrong : i <= j
    <3>1. Wrong \subseteq Nat
      BY Zenon
    <3> HIDE DEF Wrong
    <3> QED BY <3>1, LeastNat, Zenon
  <2> HIDE DEF g, markedFEC
  <2> QED BY <1>4, <1>5, <2>1
<1> QED BY <1>6, Zenon

-----------------------------------------------------------------------------
(* The operators of the decoder                                            *)

(* q is the sequence s over T with e in front of its i-th element.         *)
Inserted(q, T, s, i, e) ==
  /\ q \in Seq(T) /\ Len(q) = Len(s) + 1
  /\ q[i] = e
  /\ \A j \in 1 .. i - 1 : q[j] = s[j]
  /\ \A j \in i + 1 .. Len(s) + 1 : q[j] = s[j - 1]

LEMMA Concat ==
  ASSUME NEW T, NEW a \in Seq(T), NEW b \in Seq(T)
  PROVE  /\ a \o b \in Seq(T) /\ Len(a \o b) = Len(a) + Len(b)
         /\ \A j \in 1 .. Len(a) + Len(b) : (a \o b)[j] = IF j <= Len(a) THEN a[j] ELSE b[j - Len(a)]
OBVIOUS

LEMMA InsertAtProps ==
  ASSUME NEW T, NEW s \in Seq(T), NEW e \in T, NEW i \in 1 .. Len(s) + 1
  PROVE  Inserted(insertAt(s, i, e), T, s, i, e)
<1> DEFINE a == SubSeq(s, 1, i - 1)
           b == SubSeq(s, i, Len(s))
<1>1. /\ a \in Seq(T) /\ Len(a) = i - 1
      /\ \A j \in 1 .. i - 1 : a[j] = s[j]
  OBVIOUS
<1>2. /\ b \in Seq(T) /\ Len(b) = Len(s) - i + 1
      /\ \A j \in 1 .. Len(s) - i + 1 : b[j] = s[i + j - 1]
  OBVIOUS
<1> HIDE DEF a, b
<1> DEFINE c == a \o <<e>>
<1>4. /\ c \in Seq(T) /\ Len(c) = i
      /\ \A j \in 1 .. i - 1 : c[j] = s[j]
      /\ c[i] = e
  BY <1>1
<1> HIDE DEF c
<1>5. /\ c \o b \in Seq(T) /\ Len(c \o b) = Len(s) + 1
      /\ \A j \in 1 .. i : (c \o b)[j] = c[j]
      /\ \A j \in i + 1 .. Len(s) + 1 : (c \o b)[j] = b[j - i]
  BY <1>2, <1>4
<1>7. insertAt(s, i, e) = c \o b
  BY Zenon DEF insertAt, a, b, c
<1> QED BY <1>5, <1>7, <1>2, <1>4 DEF Inserted

LEMMA FreeRangeProps ==
  ASSUME NEW T, NEW s \in Seq(T), NEW f \in 1 .. Len(s), NEW n \in Nat
  PROVE  /\ freeRange(f, n, s) \in Seq(T)
         /\ Len(freeRange(f, n, s)) = (IF f + n <= Len(s) + 1 THEN Len(s) - n ELSE f - 1)
         /\ \A j \in 1 .. f - 1 : freeRange(f, n, s)[j] = s[j]
         /\ \A j \in f .. Len(s) - n : freeRange(f, n, s)[j] = s[j + n]
<1> DEFINE a == SubSeq(s, 1, f - 1)
           b == SubSeq(s, f + n, Len(s))
<1>1. /\ a \in Seq(T) /\ Len(a) = f - 1
      /\ \A j \in 1 .. f - 1 : a[j] = s[j]
  OBVIOUS
<1>2. /\ b \in Seq(T) /\ Len(b) = (IF f + n <= Len(s) + 1 THEN Len(s) - f - n + 1 ELSE 0)
      /\ \A j \in 1 .. Len(s) - f - n + 1 : b[j] = s[f + n + j - 1]
  OBVIOUS
<1> HIDE DEF a, b
<1>3. /\ a \o b \in Seq(T)
      /\ Len(a \o b) = (IF f + n <= Len(s) + 1 THEN Len(s) - n ELSE f - 1)
      /\ \A j \in 1 .. f - 1 : (a \o b)[j] = s[j]
      /\ \A j \in f .. Len(s) - n : (a \o b)[j] = b[j - f + 1]
  <2>1. /\ a \o b \in Seq(T) /\ Len(a \o b) = Len(a) + Len(b)
        /\ \A j \in 1 .. Len(a) + Len(b) : (a \o b)[j] = IF j <= Len(a) THEN a[j] ELSE b[j - Len(a)]
    BY <1>1, <1>2, Concat, Zenon
  <2>2. Len(s) \in Nat /\ Len(a) = f - 1
    BY <1>1
  <2>4. Len(a) + Len(b) = (IF f + n <= Len(s) + 1 THEN Len(s) - n ELSE f - 1)
    BY <2>2, <1>2
  <2>5. \A j \in 1 .. f - 1 : (a \o b)[j] = s[j]
    BY <1>1
  <2>6. \A j \in f .. Len(s) - n : (a \o b)[j] = b[j - f + 1]
    <3>1. SUFFICES ASSUME NEW j \in f .. Len(s) - n PROVE (a \o b)[j] = b[j - f + 1]
      BY Zenon
    <3>2. j \in 1 .. Len(a) + Len(b) /\ ~(j <= Len(a)) /\ j - Len(a) = j - f + 1
      BY <2>2, <2>4
    <3> QED BY <2>1, <3>2, Zenon
  <2> QED BY <2>1, <2>4, <2>5, <2>6, Zenon
<1>4. ASSUME NEW j \in f .. Len(s) - n PROVE b[j - f + 1] = s[j + n]
  <2> DEFINE i == j - f + 1
  <2>1. i \in 1 .. Len(s) - f - n + 1 /\ f + n + i - 1 = j + n
    OBVIOUS
  <2> HIDE DEF i
  <2>2. b[i] = s[j + n]
    BY <1>2, <2>1, Zenon
  <2> QED BY <2>2, Zenon DEF i
<1> QED BY <1>3, <1>4, Zenon DEF freeRange, a, b

(* nth counts through a finite set of numbers without leaving one out.     *)
LEMMA NthProps ==
  ASSUME NEW S, S \subseteq Nat, IsFiniteSet(S)
  PROVE  /\ Cardinality(S) \in Nat
         /\ \A i \in 1 .. Cardinality(S) : nth(S, i) \in S
         /\ \A k \in S : \E i \in 1 .. Cardinality(S) : nth(S, i) = k
<1> DEFINE below(k) == {j \in S : j < k}
           rank == [k \in S |-> Cardinality(below(k)) + 1]
<1>1. Cardinality(S) \in Nat
  BY FS_CardinalityType, Zenon
<1>2. ASSUME NEW k \in S
      PROVE  /\ IsFiniteSet(below(k)) /\ Cardinality(below(k)) \in Nat
             /\ rank[k] \in 1 .. Cardinality(S)
  BY FS_Subset, FS_CardinalityType
<1>3. ASSUME NEW j \in S, NEW k \in S, j < k
      PROVE  Cardinality(below(j)) < Cardinality(below(k))
  <2>1. below(j) \in SUBSET below(k) /\ below(k) # below(j)
    <3>2. j \in below(k) /\ j \notin below(j)
      BY <1>3
    <3>3. \A i \in S : i < j => i < k
      BY <1>3
    <3> QED BY <3>2, <3>3, Zenon
  <2> QED BY <1>2, <2>1, FS_Subset
<1>4. \A j, k \in S : rank[j] = rank[k] => j = k
  BY <1>2, <1>3
<1>5. rank \in Injection(S, 1 .. Cardinality(S))
  BY <1>2, <1>4, Zenon DEF Injection, IsInjective
<1>6. rank \in Surjection(S, 1 .. Cardinality(S))
  <2>1. IsFiniteSet(1 .. Cardinality(S)) /\ Cardinality(1 .. Cardinality(S)) = Cardinality(S)
    BY <1>1, FS_Interval
  <2> HIDE DEF rank
  <2> QED BY <1>5, <2>1, FS_Injection, Zenon
<1>7. ASSUME NEW i \in 1 .. Cardinality(S)
      PROVE  nth(S, i) \in S /\ rank[nth(S, i)] = i
  <2>1. PICK k \in S : rank[k] = i
    BY <1>6, Zenon DEF Surjection
  <2>2. Cardinality(below(k)) = i - 1
    BY <2>1, <1>2
  <2>3. nth(S, i) \in S /\ Cardinality(below(nth(S, i))) = i - 1
    BY <2>2, Zenon DEF nth
  <2> QED BY <2>3
<1>8. ASSUME NEW k \in S
      PROVE  \E i \in 1 .. Cardinality(S) : nth(S, i) = k
  <2> HIDE DEF rank
  <2> QED BY <1>2, <1>4, <1>7, Zenon
<1> QED BY <1>1, <1>7, <1>8, Zenon

-----------------------------------------------------------------------------
(* The parts of Decode, for a packet that is not a duplicate: the queue it *)
(* is inserted in, where its group was found there, and what is missing.   *)
queueWith(pkt) == insertAt(rx, insertIdx(pkt), pkt)
found(pkt) == assemble(pkt, queueWith(pkt))
shardsOf(pkt) == {queueWith(pkt)[i] : i \in found(pkt)}
dataFound(pkt) == {i \in found(pkt) : queueWith(pkt)[i].flag = "data"}
lostOf(pkt) == {k \in 0 .. DataShards - 1 : k \notin {place(p) : p \in shardsOf(pkt)}}
wideEnough(pkt) == Cardinality(search(pkt, Len(queueWith(pkt)))) >= DataShards
freed(pkt) == freeRange(Min(found(pkt)), Cardinality(found(pkt)), queueWith(pkt))

complete(pkt) == wideEnough(pkt) /\ Cardinality(dataFound(pkt)) = DataShards
repairable(pkt) ==
  wideEnough(pkt) /\ Cardinality(dataFound(pkt)) # DataShards /\ Cardinality(found(pkt)) >= DataShards

LEMMA DecodeCases ==
  ASSUME NEW pkt
  PROVE  /\ complete(pkt) => Decode(pkt) = [rx |-> freed(pkt), recovered |-> <<>>]
         /\ repairable(pkt) => Decode(pkt) =
              [rx |-> freed(pkt),
               recovered |-> [i \in 1 .. Cardinality(lostOf(pkt)) |->
                                ReconstructData(shardsOf(pkt), nth(lostOf(pkt), i))]]
         /\ ~complete(pkt) /\ ~repairable(pkt) =>
              Decode(pkt) = [rx |-> queueWith(pkt), recovered |-> <<>>]
BY Zenon DEF Decode, complete, repairable, wideEnough, lostOf, dataFound, shardsOf, found, freed, queueWith

LEMMA StopIdxProps ==
  ASSUME rx \in Seq(Packet), NEW pkt \in Packet
  PROVE  /\ stopIdx(pkt) \in 0 .. Len(rx)
         /\ insertIdx(pkt) \in 1 .. Len(rx) + 1
         /\ stopIdx(pkt) # 0 => \/ rx[stopIdx(pkt)].seqid = pkt.seqid
                                \/ itimediff(pkt.seqid, rx[stopIdx(pkt)].seqid) > 0
         /\ \A i \in 1 .. Len(rx) : \/ rx[i].seqid = pkt.seqid
                                    \/ itimediff(pkt.seqid, rx[i].seqid) > 0
                                    => i <= stopIdx(pkt)
<1> DEFINE S == {i \in DOMAIN rx : \/ rx[i].seqid = pkt.seqid
                                   \/ itimediff(pkt.seqid, rx[i].seqid) > 0}
<1>1. Len(rx) \in Nat /\ DOMAIN rx = 1 .. Len(rx)
  OBVIOUS
<1>2. {0} \cup S \subseteq 0 .. Len(rx) /\ {0} \cup S # {}
  OBVIOUS
<1>3. stopIdx(pkt) = Max({0} \cup S)
  BY Zenon DEF stopIdx
<1>4. stopIdx(pkt) \in {0} \cup S /\ \A i \in {0} \cup S : i <= stopIdx(pkt)
  <2> HIDE DEF S
  <2> QED BY <1>1, <1>2, <1>3, MaxOf, Zenon
<1> QED BY <1>4 DEF insertIdx

LEMMA QueueProps ==
  ASSUME rx \in Seq(Packet), NEW pkt \in Packet
  PROVE  /\ queueWith(pkt) \in Seq(Packet)
         /\ Len(queueWith(pkt)) = Len(rx) + 1
         /\ queueWith(pkt)[insertIdx(pkt)] = pkt
         /\ \A j \in 1 .. stopIdx(pkt) : queueWith(pkt)[j] = rx[j]
         /\ \A j \in stopIdx(pkt) + 2 .. Len(rx) + 1 : queueWith(pkt)[j] = rx[j - 1]
<1>1. stopIdx(pkt) \in 0 .. Len(rx) /\ insertIdx(pkt) = stopIdx(pkt) + 1
  BY StopIdxProps, Zenon DEF insertIdx
<1>3. Inserted(queueWith(pkt), Packet, rx, insertIdx(pkt), pkt)
  BY InsertAtProps, <1>1 DEF queueWith
<1> QED BY <1>3, <1>1 DEF Inserted

LEMMA PlaceType ==
  ASSUME NEW pkt \in Packet
  PROVE  place(pkt) \in 0 .. ShardSize - 1
<1> QED BY SizeFacts DEF place, Packet

(* The window is the ShardSize positions that pkt's group can take up, cut *)
(* off at the ends of the queue.                                           *)
first(pkt) == IF insertIdx(pkt) - place(pkt) >= 1 THEN insertIdx(pkt) - place(pkt) ELSE 1

LEMMA SearchProps ==
  ASSUME rx \in Seq(Packet), NEW pkt \in Packet
  PROVE  /\ first(pkt) \in 1 .. Len(rx) + 1
         /\ search(pkt, Len(rx) + 1) =
              {i \in 1 .. Len(rx) + 1 : first(pkt) <= i /\ i <= first(pkt) + ShardSize - 1}
<1> DEFINE n == Len(rx) + 1
           e == first(pkt) + ShardSize - 1
<1>1. n \in Nat /\ insertIdx(pkt) \in 1 .. n /\ place(pkt) \in Nat /\ ShardSize \in Nat
  BY StopIdxProps, PlaceType, SizeFacts
<1>2. first(pkt) \in 1 .. n /\ e \in Int
  BY <1>1 DEF first
<1>3. Max({1, insertIdx(pkt) - place(pkt)}) = first(pkt)
  BY <1>1, MaxOfTwo DEF first
<1>4. Min({e, n}) = IF e <= n THEN e ELSE n
  <2> HIDE DEF e, n
  <2> QED BY <1>1, <1>2, MinOfTwo
<1>5. search(pkt, n) = first(pkt) .. Min({e, n})
  BY <1>3, Zenon DEF search
<1> HIDE DEF e
<1> QED BY <1>2, <1>4, <1>5 DEF e

LEMMA FoundType ==
  ASSUME rx \in Seq(Packet), NEW pkt \in Packet
  PROVE  /\ found(pkt) \subseteq 1 .. Len(rx) + 1
         /\ IsFiniteSet(found(pkt)) /\ Cardinality(found(pkt)) \in Nat
         /\ IsFiniteSet(dataFound(pkt)) /\ Cardinality(dataFound(pkt)) \in Nat
         /\ Cardinality(dataFound(pkt)) <= Cardinality(found(pkt))
         /\ IsFiniteSet(lostOf(pkt)) /\ Cardinality(lostOf(pkt)) \in 0 .. DataShards
<1>3. search(pkt, Len(rx) + 1) \subseteq 1 .. Len(rx) + 1
  BY SearchProps, Zenon
<1>4. IsFiniteSet(1 .. Len(rx) + 1)
  BY FS_Interval
<1>5. found(pkt) \in SUBSET (1 .. Len(rx) + 1)
  BY <1>3, QueueProps, Zenon DEF found, assemble
<1>9. lostOf(pkt) \in SUBSET (0 .. DataShards - 1)
  BY Zenon DEF lostOf
<1>10. IsFiniteSet(0 .. DataShards - 1) /\ Cardinality(0 .. DataShards - 1) = DataShards
  BY SizeFacts, FS_Interval
<1>11. IsFiniteSet(lostOf(pkt)) /\ Cardinality(lostOf(pkt)) <= DataShards
  <2>1. IsFiniteSet(lostOf(pkt)) /\ Cardinality(lostOf(pkt)) <= Cardinality(0 .. DataShards - 1)
    BY <1>9, <1>10, FS_Subset, Zenon
  <2> QED BY <2>1, <1>10, Zenon
<1> QED BY <1>5, <1>11, FS_CardinalityType, FS_Subset, <1>4 DEF dataFound

-----------------------------------------------------------------------------
(* Types, the alignment of the groups, and the room in dataCh              *)

(* A group starts at a multiple of ShardSize, below paws.                  *)
Aligned == next \in 0 .. paws - 1 /\ next % ShardSize = shardCount

(* The flag says which places of a group are data.                         *)
FlagsFit == \A p \in net : p.flag = "data" <=> p.shard < DataShards

TypeInv == TypeOK /\ Aligned /\ FlagsFit /\ DataChHasRoom

LEMMA InitType == Init => TypeInv
<1> SUFFICES ASSUME Init PROVE TypeInv
  BY Zenon
<1>1. next \in 0 .. paws - 1 /\ next % ShardSize = 0
  BY FecAssumption, Zenon DEF Init
<1>2. next \in 0 .. SeqidMod - 1 /\ 0 \in 0 .. DataShards - 1 /\ 0 <= RxLimit /\ 0 <= ShardSize
  BY <1>1, PawsFacts, SizeFacts, FecAssumption
<1>3. <<>> \in Seq(Packet) /\ <<>> \in Seq(Payload) /\ Len(<<>>) = 0
  OBVIOUS
<1> QED BY <1>1, <1>2, <1>3, Zenon DEF Init, TypeInv, Aligned, FlagsFit, DataChHasRoom, TypeOK

(* The seqids of one call of EncodeData: consecutive, and the next group   *)
(* starts where this one ends, or at 0.                                    *)
LEMMA EncoderSeqids ==
  ASSUME TypeInv
  PROVE  /\ next - shardCount + ShardSize <= paws
         /\ markData(next) = next + 1
         /\ shardCount + 1 = DataShards =>
              /\ \A i \in 0 .. ParityShards - 1 : markedFEC[i] = next + 1 + i
              /\ markedFEC[ParityShards] = IF next - shardCount + ShardSize = paws
                                           THEN 0 ELSE next - shardCount + ShardSize
<1>1. next \in 0 .. paws - 1 /\ next % ShardSize = shardCount /\ shardCount \in 0 .. DataShards - 1
  BY Zenon DEF TypeInv, TypeOK, Aligned
<1>2. next - shardCount + ShardSize <= paws
  BY <1>1, AlignedRoom, Zenon
<1>3. paws \in Nat \ {0} /\ paws < SeqidMod /\ SeqidMod \in Nat \ {0}
  BY PawsFacts, SizeFacts
<1>4. next \in 0 .. paws - 2
  BY <1>1, <1>2, <1>3, SizeFacts
<1>6. ASSUME shardCount + 1 = DataShards
      PROVE  /\ \A i \in 0 .. ParityShards - 1 : markedFEC[i] = next + 1 + i
             /\ markedFEC[ParityShards] = IF next - shardCount + ShardSize = paws
                                          THEN 0 ELSE next - shardCount + ShardSize
  <2>1. ASSUME NEW i \in 0 .. ParityShards - 1
        PROVE  markedFEC[i] = next + 1 + i
    <3>1. next + 1 + i \in 0 .. paws - 1
      BY <1>1, <1>2, <1>3, SizeFacts
    <3>2. i \in Nat /\ next + 1 + i \in Int
      BY <1>1
    <3> QED BY <1>3, <3>1, <3>2, ModSmall, <1>4, MarkedFEC, Zenon
  <2>2. next + 1 + ParityShards = next - shardCount + ShardSize
    BY <1>1, <1>6, SizeFacts
  <2>3. markedFEC[ParityShards] = (next + 1 + ParityShards) % paws
    BY <1>4, MarkedFEC, SizeFacts, Zenon
  <2>6. markedFEC[ParityShards] = IF next - shardCount + ShardSize = paws
                                  THEN 0 ELSE next - shardCount + ShardSize
    <3>1. CASE next + 1 + ParityShards = paws
      BY <2>2, <2>3, <3>1, <1>3
    <3>2. CASE next + 1 + ParityShards # paws
      <4>1. next + 1 + ParityShards \in 0 .. paws - 1
        BY <1>3, <3>2, <1>1, <1>2, SizeFacts
      <4> QED BY <2>2, <2>3, <3>2, <1>3, <4>1, ModSmall, next + 1 + ParityShards \in Int, Zenon
    <3> QED BY <3>1, <3>2, Zenon
  <2> QED BY <2>1, <2>6, Zenon
<1> QED BY <1>2, <1>6, <1>3, <1>4 DEF markData

LEMMA EncodeType ==
  ASSUME TypeInv, EncodeData
  PROVE  TypeInv'
<1>1. /\ next \in 0 .. paws - 1 /\ next % ShardSize = shardCount
      /\ shardCount \in 0 .. DataShards - 1 /\ group \in Nat /\ net \subseteq Packet
  BY Zenon DEF TypeInv, TypeOK, Aligned
<1>2. paws \in Nat \ {0} /\ paws < SeqidMod /\ SeqidMod \in Nat \ {0}
  BY PawsFacts, SizeFacts
<1>3. DataPacket \in Packet /\ DataPacket.flag = "data" /\ DataPacket.shard < DataShards
  BY <1>1, <1>2, SizeFacts DEF DataPacket, Packet
<1>4. CASE shardCount + 1 = DataShards
  <2>1. ASSUME NEW i \in 0 .. ParityShards - 1
        PROVE  [seqid |-> markedFEC[i], flag |-> "fec", group |-> group, shard |-> DataShards + i] \in Packet
    BY <1>4, EncoderSeqids, <1>1, <1>2, SizeFacts DEF Packet
  <2>3. net' \subseteq Packet /\ net \subseteq net' /\ FlagsFit'
    BY <1>1, <1>3, <2>1 DEF EncodeData, ParityPackets, TypeInv, FlagsFit
  <2>4. next' = IF next - shardCount + ShardSize = paws THEN 0 ELSE next - shardCount + ShardSize
    BY <1>4, EncoderSeqids, Zenon DEF EncodeData
  <2>5. next' \in 0 .. paws - 1
    BY <1>1, <1>2, <2>4, EncoderSeqids, SizeFacts
  <2>6. next' % ShardSize = 0
    <3>2. 0 % ShardSize = 0
      BY SizeFacts
    <3> QED BY <1>1, <2>4, <3>2, NextMultiple, SizeFacts, next \in Int, ShardSize \in Nat \ {0}, Zenon
  <2>7. shardCount' = 0 /\ group' = group + 1 /\ UNCHANGED decVars
    BY <1>4, Zenon DEF EncodeData
  <2>8. /\ next' \in 0 .. SeqidMod - 1 /\ shardCount' \in 0 .. DataShards - 1
        /\ group' \in Nat /\ seen \subseteq net'
    BY <1>2, <2>3, <2>5, <2>7, SizeFacts DEF TypeInv, TypeOK
  <2> QED BY <2>3, <2>5, <2>6, <2>7, <2>8, Zenon
          DEF TypeInv, TypeOK, Aligned, DataChHasRoom, decVars
<1>5. CASE shardCount + 1 # DataShards
  <2>1. /\ next' = next + 1 /\ shardCount' = shardCount + 1 /\ group' = group
        /\ net' = net \cup {DataPacket} /\ UNCHANGED decVars
    BY <1>5, EncoderSeqids, Zenon DEF EncodeData
  <2>2. next' \in 0 .. paws - 1
    BY <1>1, <1>2, <2>1, EncoderSeqids, SizeFacts
  <2>3. next' % ShardSize = shardCount + 1
    <3>1. shardCount # ShardSize - 1 /\ next \in Nat /\ ShardSize \in Nat \ {0}
      BY <1>1, SizeFacts
    <3> QED BY <1>1, <2>1, <3>1, ModNext, Zenon
  <2>4. shardCount' \in 0 .. DataShards - 1
    BY <1>1, <1>5, <2>1, SizeFacts
  <2> QED BY <1>2, <2>1, <2>2, <2>3, <2>4, <1>1, <1>3 DEF TypeInv, TypeOK, Aligned, DataChHasRoom, decVars, FlagsFit
<1> QED BY <1>4, <1>5, Zenon

LEMMA ReconstructType ==
  ASSUME NEW S, S \subseteq Packet, S # {}, NEW k \in 0 .. DataShards - 1
  PROVE  ReconstructData(S, k) \in Payload
<1> QED BY Zenon DEF ReconstructData, Payload, Packet

(* What is freed is a stretch of the queue.                                *)
LEMMA FreedType ==
  ASSUME rx \in Seq(Packet), NEW pkt \in Packet, complete(pkt) \/ repairable(pkt)
  PROVE  /\ found(pkt) # {}
         /\ Min(found(pkt)) \in found(pkt) /\ \A i \in found(pkt) : Min(found(pkt)) <= i
         /\ freed(pkt) \in Seq(Packet) /\ Len(freed(pkt)) <= Len(rx) + 1
<1>1. /\ found(pkt) \subseteq 1 .. Len(rx) + 1 /\ IsFiniteSet(found(pkt))
      /\ Cardinality(found(pkt)) \in Nat /\ Cardinality(dataFound(pkt)) \in Nat
      /\ Cardinality(dataFound(pkt)) <= Cardinality(found(pkt))
  BY FoundType, Zenon
<1>3. found(pkt) # {}
  BY FS_EmptySet, <1>1, SizeFacts DEF complete, repairable
<1>5. Min(found(pkt)) \in found(pkt) /\ \A i \in found(pkt) : Min(found(pkt)) <= i
  BY <1>3, MinOf, <1>1
<1>6. queueWith(pkt) \in Seq(Packet) /\ Len(queueWith(pkt)) = Len(rx) + 1
  BY QueueProps, Zenon
<1>7. Min(found(pkt)) \in 1 .. Len(queueWith(pkt))
  BY <1>1, <1>5, <1>6, Zenon
<1>8. /\ freed(pkt) \in Seq(Packet)
      /\ \/ Len(freed(pkt)) = Len(queueWith(pkt)) - Cardinality(found(pkt))
         \/ Len(freed(pkt)) = Min(found(pkt)) - 1
  <2> DEFINE q == queueWith(pkt)
             a == Min(found(pkt))
             c == Cardinality(found(pkt))
  <2>1. freed(pkt) = freeRange(a, c, q)
    BY Zenon DEF freed
  <2>2. q \in Seq(Packet) /\ a \in 1 .. Len(q) /\ c \in Nat
    BY <1>1, <1>6, <1>7, Zenon
  <2> HIDE DEF q, a, c
  <2>3. /\ freeRange(a, c, q) \in Seq(Packet)
        /\ Len(freeRange(a, c, q)) = (IF a + c <= Len(q) + 1 THEN Len(q) - c ELSE a - 1)
    BY <2>2, FreeRangeProps, Zenon
  <2> QED BY <2>1, <2>3, Zenon DEF q, a, c
<1> QED
  <2>1. Len(freed(pkt)) <= Len(rx) + 1
    BY <1>1, <1>6, <1>7, <1>8
  <2> QED BY <1>3, <1>5, <1>8, <2>1, Zenon

(* What the rest of decode works on.                                       *)
decoded(pkt) == IF isDuplicate(pkt) THEN [rx |-> rx, recovered |-> <<>>] ELSE Decode(pkt)

LEMMA DecodedIs ==
  ASSUME NEW pkt
  PROVE  /\ isDuplicate(pkt) => decoded(pkt) = [rx |-> rx, recovered |-> <<>>]
         /\ ~isDuplicate(pkt) => decoded(pkt) = Decode(pkt)
BY Zenon DEF decoded

LEMMA DecodedRx ==
  ASSUME NEW pkt, ~isDuplicate(pkt)
  PROVE  /\ complete(pkt) \/ repairable(pkt) => decoded(pkt).rx = freed(pkt)
         /\ ~complete(pkt) /\ ~repairable(pkt) => decoded(pkt).rx = queueWith(pkt)
<1> DEFINE r == [i \in 1 .. Cardinality(lostOf(pkt)) |->
                   ReconstructData(shardsOf(pkt), nth(lostOf(pkt), i))]
<1>1. /\ complete(pkt) => decoded(pkt) = [rx |-> freed(pkt), recovered |-> <<>>]
      /\ repairable(pkt) => decoded(pkt) = [rx |-> freed(pkt), recovered |-> r]
      /\ ~complete(pkt) /\ ~repairable(pkt) =>
           decoded(pkt) = [rx |-> queueWith(pkt), recovered |-> <<>>]
  BY DecodedIs, DecodeCases, Zenon
<1> HIDE DEF r
<1> QED BY <1>1

LEMMA DecodedType ==
  ASSUME rx \in Seq(Packet), NEW pkt \in Packet
  PROVE  /\ decoded(pkt).rx \in Seq(Packet) /\ Len(decoded(pkt).rx) <= Len(rx) + 1
         /\ decoded(pkt).recovered \in Seq(Payload)
         /\ Len(decoded(pkt).recovered) <= DataShards
<1>1. Len(rx) \in Nat /\ <<>> \in Seq(Payload) /\ Len(<<>>) = 0 /\ DataShards \in Nat
  BY SizeFacts
<1>2. CASE isDuplicate(pkt)
  BY <1>1, <1>2 DEF decoded
<1>3. CASE ~isDuplicate(pkt) /\ complete(pkt)
  <2>1. decoded(pkt) = [rx |-> freed(pkt), recovered |-> <<>>]
    BY <1>3, DecodeCases, Zenon DEF decoded
  <2> QED BY <1>1, <2>1, <1>3, FreedType
<1>4. CASE ~isDuplicate(pkt) /\ repairable(pkt)
  <2> DEFINE n == Cardinality(lostOf(pkt))
             r == [i \in 1 .. n |-> ReconstructData(shardsOf(pkt), nth(lostOf(pkt), i))]
  <2>1. decoded(pkt) = [rx |-> freed(pkt), recovered |-> r]
    BY <1>4, DecodeCases, Zenon DEF decoded
  <2>2. freed(pkt) \in Seq(Packet) /\ Len(freed(pkt)) <= Len(rx) + 1 /\ found(pkt) # {}
    BY <1>4, FreedType, Zenon
  <2>3. shardsOf(pkt) \subseteq Packet /\ shardsOf(pkt) # {}
    <3>1. \A i \in found(pkt) : queueWith(pkt)[i] \in Packet
      <4>1. \A i \in found(pkt) : i \in 1 .. Len(queueWith(pkt))
        BY FoundType, QueueProps, Zenon
      <4>2. queueWith(pkt) \in Seq(Packet)
        BY QueueProps, Zenon
      <4> QED BY <4>1, <4>2
    <3> QED BY <2>2, <3>1, Zenon DEF shardsOf
  <2>4. n \in 0 .. DataShards /\ IsFiniteSet(lostOf(pkt)) /\ lostOf(pkt) \subseteq 0 .. DataShards - 1
    BY FoundType, Zenon DEF lostOf
  <2>6. \A i \in 1 .. n : ReconstructData(shardsOf(pkt), nth(lostOf(pkt), i)) \in Payload
    BY <2>3, ReconstructType, <2>4, NthProps
  <2> HIDE DEF n
  <2>7. r \in Seq(Payload) /\ Len(r) = n
    BY <2>4, <2>6
  <2> HIDE DEF r
  <2> QED BY <2>1, <2>2, <2>4, <2>7
<1>5. CASE ~isDuplicate(pkt) /\ ~complete(pkt) /\ ~repairable(pkt)
  <2>1. decoded(pkt) = [rx |-> queueWith(pkt), recovered |-> <<>>]
    BY <1>5, DecodeCases, Zenon DEF decoded
  <2> QED BY <1>1, <2>1, QueueProps
<1> QED BY <1>2, <1>3, <1>4, <1>5, Zenon

(* One call of decode, in full: dataCh was drained, so that all that is    *)
(* recovered fits.                                                         *)
LEMMA DecodeEffect ==
  ASSUME TypeInv, NEW pkt \in net, decode(pkt)
  PROVE  /\ rx' = keepRxlimit(decoded(pkt).rx)
         /\ evicted' = IF Len(decoded(pkt).rx) > RxLimit
                       THEN evicted \cup {decoded(pkt).rx[1].group} ELSE evicted
         /\ seen' = seen \cup {pkt}
         /\ out' = IF pkt.flag = "data" THEN out \cup {payloadOf(pkt)} ELSE out
         /\ dataCh = <<>> /\ dataCh' = decoded(pkt).recovered
         /\ full' = FALSE
         /\ UNCHANGED encVars
<1> DEFINE r == decoded(pkt).recovered
<1>2. r \in Seq(Payload) /\ Len(r) \in Nat /\ Len(r) < ShardSize /\ ShardSize \in Nat
  BY DecodedType, SizeFacts DEF TypeInv, TypeOK
<1>3. deliver(pkt, decoded(pkt)) /\ dataCh = <<>> /\ UNCHANGED encVars
  BY Zenon DEF decode, decoded
<1> HIDE DEF r
<1>5. Min({Len(r), ShardSize}) = Len(r)
  BY <1>2, MinOfTwo
<1>7. dataCh' = r /\ full' = (Len(r) > ShardSize)
  BY <1>3, <1>5, <1>2 DEF deliver, r
<1>8. full' = FALSE
  <2>1. (Len(r) > ShardSize) = FALSE
    BY <1>2
  <2> QED BY <1>7, <2>1, Zenon
<1> QED BY <1>3, <1>7, <1>8, Zenon DEF deliver, payloadOf, r

LEMMA DecodeType ==
  ASSUME TypeInv, NEW pkt \in net, decode(pkt)
  PROVE  TypeInv'
<1> DEFINE d == decoded(pkt).rx
<1>1. pkt \in Packet /\ rx \in Seq(Packet) /\ Len(rx) <= RxLimit /\ RxLimit \in Nat \ {0}
  BY FecAssumption, SizeFacts DEF TypeInv, TypeOK
<1>2. d \in Seq(Packet) /\ Len(d) <= RxLimit + 1 /\ Len(d) \in Nat
  BY <1>1, DecodedType
<1>3. decoded(pkt).recovered \in Seq(Payload) /\ Len(decoded(pkt).recovered) <= ShardSize
  BY <1>1, DecodedType, SizeFacts
<1> HIDE DEF d
<1>5. Len(d) > RxLimit => d[1].group \in Nat
  <2>1. Len(d) > RxLimit => d[1] \in Packet
    BY <1>1, <1>2
  <2> QED BY <2>1, Zenon DEF Packet
<1>6. pkt.flag = "data" => payloadOf(pkt) \in Payload
  BY <1>1, SizeFacts DEF TypeInv, FlagsFit, Packet, payloadOf, Payload
<1>7. /\ rx' = keepRxlimit(d)
      /\ evicted' = IF Len(d) > RxLimit THEN evicted \cup {d[1].group} ELSE evicted
      /\ seen' = seen \cup {pkt}
      /\ out' = IF pkt.flag = "data" THEN out \cup {payloadOf(pkt)} ELSE out
      /\ dataCh' = decoded(pkt).recovered
      /\ full' = FALSE /\ UNCHANGED encVars
  BY DecodeEffect, Zenon DEF d
<1>10. rx' \in Seq(Packet) /\ Len(rx') <= RxLimit
  BY <1>7, <1>1, <1>2 DEF keepRxlimit
<1> QED BY <1>7, <1>10, <1>5, <1>6, <1>3, Zenon DEF TypeInv, TypeOK, Aligned, FlagsFit, DataChHasRoom, encVars

LEMMA ReadType ==
  ASSUME TypeInv, readRecovered
  PROVE  TypeInv'
<1> QED BY SizeFacts DEF TypeInv, TypeOK, Aligned, FlagsFit, DataChHasRoom, encVars, readRecovered

LEMMA NextType == TypeInv /\ [Next]_vars => TypeInv'
<1> SUFFICES ASSUME TypeInv, [Next]_vars PROVE TypeInv'
  BY Zenon
<1>1. CASE EncodeData
  BY <1>1, EncodeType, Zenon
<1>2. CASE readRecovered
  BY <1>2, ReadType
<1>3. CASE \E pkt \in net : decode(pkt)
  BY <1>3, DecodeType, Zenon
<1>4. CASE UNCHANGED vars
  BY <1>4, Zenon DEF vars, encVars, decVars, TypeInv, TypeOK, Aligned, FlagsFit, DataChHasRoom
<1> QED BY <1>1, <1>2, <1>3, <1>4, Zenon DEF Next

LEMMA Typing == Spec => []TypeInv
BY InitType, NextType, PTL DEF Spec

(* The queue keeps to rxlimit and dataCh to its capacity, whatever is      *)
(* lost, repeated or reordered (TypeOK).                                   *)
THEOREM TypeCorrect == Spec => []TypeOK
<1>1. TypeInv => TypeOK
  BY Zenon DEF TypeInv
<1> QED BY <1>1, Typing, PTL

(* Over the wrap of the seqids at paws too, every group starts at a        *)
(* multiple of ShardSize, which is what the decoder takes for its start.   *)
THEOREM GroupsAligned == Spec => []Aligned
<1>1. TypeInv => Aligned
  BY Zenon DEF TypeInv
<1> QED BY <1>1, Typing, PTL

(* decode does not panic on a full dataCh: DecodeData reads the recovered  *)
(* payloads first, and one packet recovers fewer than dataCh can hold.     *)
THEOREM RecoveredFits == Spec => []DataChHasRoom
<1>1. TypeInv => DataChHasRoom
  BY Zenon DEF TypeInv
<1> QED BY <1>1, Typing, PTL

-----------------------------------------------------------------------------
(* Serial numbers                                                          *)

(* The seqids of a stream that starts at s, as if they never wrapped: the  *)
(* slot of a packet counts up, and by SeqidMod - paws more at the wrap.    *)
lin(s, g) == s + g * ShardSize
slot(s, g) == lin(s, g) + (IF lin(s, g) < paws THEN 0 ELSE SeqidMod - paws)

(* The seqid of the first packet of a group.                               *)
base(s, g) == lin(s, g) - (IF lin(s, g) < paws THEN 0 ELSE paws)

LEMMA StartFacts ==
  ASSUME NEW s \in Starts
  PROVE  s \in 0 .. paws - 1 /\ s % ShardSize = 0
BY FecAssumption, Zenon

LEMMA LinFacts ==
  ASSUME NEW s \in Starts, NEW g \in Nat
  PROVE  /\ lin(s, g) \in Nat /\ s <= lin(s, g)
         /\ lin(s, g) % ShardSize = 0
         /\ lin(s, g + 1) = lin(s, g) + ShardSize
         /\ \A h \in Nat : g < h => lin(s, g) + ShardSize <= lin(s, h)
<1>1. s \in Nat /\ s % ShardSize = 0 /\ ShardSize \in Nat \ {0}
  BY StartFacts, SizeFacts
<1>3. PICK q \in Int, r \in 0 .. ShardSize - 1 : s = q * ShardSize + r /\ r = s % ShardSize
  BY <1>1, DivMod, s \in Int, Zenon
<1>5. ((q + g) * ShardSize + 0) % ShardSize = 0
  BY <1>1
<1>7. ASSUME NEW h \in Nat, g < h
      PROVE  lin(s, g) + ShardSize <= lin(s, h)
  <2> QED BY <1>1, <1>7 DEF lin
<1> QED BY <1>1, <1>5, <1>7, <1>3 DEF lin

(* With a short stream the numbers wrap once at most.                      *)
LEMMA ShortFacts ==
  ASSUME ShortStream, NEW s \in Starts, NEW g \in 0 .. MaxGroups
  PROVE  /\ lin(s, g) < 2 * paws
         /\ g < MaxGroups => lin(s, g) + ShardSize + (SeqidMod - paws) <= s + SeqidMod \div 2
<1> DEFINE T == MaxGroups * ShardSize
           H == SeqidMod \div 2
<1>1. s \in 0 .. paws - 1 /\ ShardSize \in Nat /\ MaxGroups \in Nat
  BY SizeFacts, FecAssumption, Zenon
<1>2. paws \in Nat /\ SeqidMod \in Nat /\ paws < SeqidMod
  BY PawsFacts, SizeFacts
<1>4. T + (SeqidMod - paws) <= H
  BY Zenon DEF ShortStream
<1>5. g * ShardSize <= T /\ g * ShardSize \in Int /\ T \in Int
  BY <1>1
<1>6. g < MaxGroups => g * ShardSize + ShardSize <= T
  BY <1>1
<1> HIDE DEF T, H
<1> QED BY <1>1, <1>2, <1>4, <1>5, <1>6 DEF lin, H

LEMMA BaseFacts ==
  ASSUME ShortStream, NEW s \in Starts, NEW g \in 0 .. MaxGroups
  PROVE  /\ base(s, g) \in 0 .. paws - 1
         /\ base(s, g) + ShardSize <= paws
         /\ \A k \in 0 .. ShardSize - 1 : (base(s, g) + k) % ShardSize = k
<1>1. lin(s, g) \in Nat /\ lin(s, g) % ShardSize = 0 /\ lin(s, g) < 2 * paws
  BY LinFacts, ShortFacts
<1>2. paws \in Nat \ {0} /\ ShardSize \in Nat \ {0}
  BY PawsFacts, SizeFacts
<1>3. base(s, g) \in 0 .. paws - 1
  BY <1>1, <1>2 DEF base
<1>4. PICK K \in Nat : paws = K * ShardSize
  BY PawsFacts, Zenon
<1>5. PICK q \in Int, r \in 0 .. ShardSize - 1 :
        lin(s, g) = q * ShardSize + r /\ r = lin(s, g) % ShardSize
  BY <1>1, <1>2, DivMod, lin(s, g) \in Int, Zenon
<1>6. lin(s, g) = q * ShardSize
  BY <1>1, <1>2, <1>5
<1>7. PICK c \in Int : base(s, g) = c * ShardSize
  BY <1>6, <1>2, <1>4 DEF base
<1> QED BY <1>2, <1>3, base(s, g) + 0 = base(s, g), AlignedRoom, <1>7

LEMMA SlotFacts ==
  ASSUME ShortStream, NEW s \in Starts, NEW g \in 0 .. MaxGroups - 1
  PROVE  /\ slot(s, g) \in Nat
         /\ s <= slot(s, g) /\ slot(s, g) + ShardSize <= s + SeqidMod \div 2
         /\ base(s, g) = slot(s, g) \/ base(s, g) = slot(s, g) - SeqidMod
         /\ \A h \in 0 .. MaxGroups - 1 : g < h => slot(s, g) + ShardSize <= slot(s, h)
<1>1. paws \in Nat \ {0} /\ ShardSize \in Nat \ {0} /\ SeqidMod \in Nat /\ paws < SeqidMod
  BY PawsFacts, SizeFacts
<1>3. lin(s, g) \in Nat /\ s <= lin(s, g)
  BY LinFacts
<1>5. ASSUME NEW h \in 0 .. MaxGroups - 1, g < h
      PROVE  slot(s, g) + ShardSize <= slot(s, h)
  <2>1. lin(s, g) + ShardSize <= lin(s, h) /\ lin(s, h) \in Nat
    BY <1>5, LinFacts
  <2> QED BY <1>1, <1>3, <2>1 DEF slot
<1> QED BY <1>5, <1>1, <1>3, ShortFacts, FecAssumption DEF slot, base

(* itimediff of two seqids less than half of them apart is how far apart   *)
(* they are.                                                               *)
LEMMA ItimediffProps ==
  ASSUME NEW x \in 0 .. SeqidMod - 1, NEW y \in 0 .. SeqidMod - 1,
         NEW u \in Int, NEW v \in Int,
         x = u \/ x = u - SeqidMod, y = v \/ y = v - SeqidMod,
         u - v < SeqidMod \div 2, v - u < SeqidMod \div 2
  PROVE  itimediff(x, y) = u - v
<1> DEFINE H == SeqidMod \div 2
           d == (x - y) % SeqidMod
<1>1. SeqidMod \in Nat \ {0} /\ H \in Nat /\ 2 * H <= SeqidMod
  BY PawsFacts
<1>2. x - y \in Int /\ (x - y \in 0 .. SeqidMod - 1 \/ x - y \in -SeqidMod .. -1)
  BY <1>1
<1>3. d = IF x - y >= 0 THEN x - y ELSE x - y + SeqidMod
  <2>1. /\ x - y \in 0 .. SeqidMod - 1 => d = x - y
        /\ x - y \in -SeqidMod .. -1 => d = x - y + SeqidMod
    BY <1>1, <1>2, ModSmall, Zenon
  <2> HIDE DEF d
  <2> QED BY <1>2, <2>1
<1>4. itimediff(x, y) = IF d < H THEN d ELSE d - SeqidMod
  BY Zenon DEF itimediff
<1>5. u - v < H /\ v - u < H
  BY Zenon
<1> HIDE DEF d, H
<1> QED BY <1>1, <1>3, <1>4, <1>5

LEMMA SeqidOrder ==
  ASSUME ShortStream, NEW s \in Starts,
         NEW g \in 0 .. MaxGroups - 1, NEW h \in 0 .. MaxGroups - 1,
         NEW j \in 0 .. ShardSize - 1, NEW k \in 0 .. ShardSize - 1
  PROVE  itimediff(base(s, g) + j, base(s, h) + k) = (slot(s, g) + j) - (slot(s, h) + k)
<1>2. MaxGroups \in Nat /\ ShardSize \in Nat /\ paws < SeqidMod /\ paws \in Nat
  BY FecAssumption, SizeFacts, PawsFacts
<1>3. /\ base(s, g) \in 0 .. paws - 1 /\ base(s, g) + ShardSize <= paws
      /\ base(s, h) \in 0 .. paws - 1 /\ base(s, h) + ShardSize <= paws
  BY <1>2, BaseFacts
<1>4. base(s, g) + j \in 0 .. SeqidMod - 1 /\ base(s, h) + k \in 0 .. SeqidMod - 1
  BY <1>2, <1>3, PawsFacts
<1> DEFINE u == slot(s, g) + j
           v == slot(s, h) + k
<1>6. /\ u \in Int /\ v \in Int
      /\ base(s, g) + j = u \/ base(s, g) + j = u - SeqidMod
      /\ base(s, h) + k = v \/ base(s, h) + k = v - SeqidMod
      /\ u - v < SeqidMod \div 2 /\ v - u < SeqidMod \div 2
  BY <1>2, SlotFacts, StartFacts, PawsFacts
<1> HIDE DEF u, v
<1> QED BY <1>4, <1>6, ItimediffProps, Zenon DEF u, v

-----------------------------------------------------------------------------
(* What has been sent                                                      *)
sentData == {payloadOf(p) : p \in {q \in net : q.flag = "data"}}

(* The packets of a stream that began at s: each carries the seqid of its  *)
(* place, the group being filled has the data it has so far, and the       *)
(* groups before have all of theirs.                                       *)
NetInv(s) ==
  /\ group \in 0 .. MaxGroups
  /\ next = base(s, group) + shardCount
  /\ \A p \in net : /\ p.group \in 0 .. group /\ p.group < MaxGroups
                    /\ p.seqid = base(s, p.group) + p.shard
                    /\ p.group = group => p.shard < shardCount
  /\ \A g \in 0 .. group, k \in 0 .. DataShards - 1 :
       g < group \/ k < shardCount => [group |-> g, shard |-> k] \in sentData

LEMMA NextBase ==
  ASSUME ShortStream, NEW s \in Starts, NEW g \in 0 .. MaxGroups - 1
  PROVE  base(s, g + 1) = IF base(s, g) + ShardSize = paws THEN 0 ELSE base(s, g) + ShardSize
<1>1. MaxGroups \in Nat /\ g \in Nat /\ g \in 0 .. MaxGroups /\ g + 1 \in 0 .. MaxGroups
  BY FecAssumption
<1>2. lin(s, g + 1) = lin(s, g) + ShardSize /\ lin(s, g) \in Nat
  BY LinFacts
<1>4. base(s, g) + ShardSize <= paws /\ base(s, g) \in 0 .. paws - 1
  BY <1>1, BaseFacts, Zenon
<1> QED BY <1>2, <1>4, <1>1, ShortFacts, PawsFacts, SizeFacts DEF base

LEMMA EncodeNet ==
  ASSUME ShortStream, TypeInv, NEW s \in Starts, NetInv(s), EncodeData
  PROVE  /\ NetInv(s)'
         /\ payloadOf(DataPacket) \notin sentData
         /\ sentData' = sentData \cup {payloadOf(DataPacket)}
<1>1. /\ group \in 0 .. MaxGroups - 1 /\ MaxGroups \in Nat /\ shardCount \in 0 .. DataShards - 1
      /\ next = base(s, group) + shardCount
  BY FecAssumption DEF EncodeData, NetInv, TypeInv, TypeOK
<1>2. base(s, group) \in Nat /\ DataShards \in 1 .. ShardSize - 1 /\ ShardSize \in Nat
  BY <1>1, BaseFacts, SizeFacts
<1>3. /\ DataPacket.flag = "data" /\ DataPacket.group = group /\ DataPacket.shard = shardCount
      /\ DataPacket.seqid = next
      /\ payloadOf(DataPacket) = [group |-> group, shard |-> shardCount]
  BY Zenon DEF DataPacket, payloadOf
<1>4. payloadOf(DataPacket) \notin sentData
  <2>1. ASSUME NEW p \in net, payloadOf(p) = payloadOf(DataPacket) PROVE FALSE
    BY <2>1, <1>3, <1>1 DEF payloadOf, NetInv
  <2> QED BY <2>1, Zenon DEF sentData
<1>5. CASE shardCount + 1 = DataShards
  <2>1. /\ next' = markedFEC[ParityShards] /\ shardCount' = 0 /\ group' = group + 1
        /\ net' = net \cup {DataPacket} \cup ParityPackets
    BY <1>5, Zenon DEF EncodeData
  <2>2. ASSUME NEW p \in ParityPackets
        PROVE  /\ p.flag = "fec" /\ p.group = group /\ p.seqid = base(s, group) + p.shard
    <3>1. PICK i \in 0 .. ParityShards - 1 :
            p = [seqid |-> markedFEC[i], flag |-> "fec", group |-> group, shard |-> DataShards + i]
      BY Zenon DEF ParityPackets
    <3> QED BY <1>1, <1>2, <1>5, <3>1, EncoderSeqids
  <2>3. sentData' = sentData \cup {payloadOf(DataPacket)}
    BY <1>3, <2>1, <2>2, Zenon DEF sentData, payloadOf
  <2>5. next' = base(s, group') + shardCount'
    <3> QED BY <2>1, <1>1, BaseFacts, <1>5, EncoderSeqids, NextBase, <1>2
  <2>6. ASSUME NEW p \in net'
        PROVE  /\ p.group \in 0 .. group' /\ p.group < MaxGroups
               /\ p.seqid = base(s, p.group) + p.shard
               /\ p.group = group' => p.shard < shardCount'
    BY <1>1, <1>3, <2>1, <2>2 DEF NetInv
  <2>7. ASSUME NEW g \in 0 .. group', NEW k \in 0 .. DataShards - 1, g < group' \/ k < shardCount'
        PROVE  [group |-> g, shard |-> k] \in sentData'
    <3>1. CASE g = group /\ k = shardCount
      BY <1>3, <2>3, <3>1, Zenon
    <3>2. CASE ~(g = group /\ k = shardCount)
      <4> QED BY <2>3, <1>1, <1>5, <2>1, <2>7, <3>2 DEF NetInv
    <3> QED BY <3>1, <3>2, Zenon
  <2> QED BY <1>4, <2>3, <2>5, <2>6, <2>7, <1>1, <2>1 DEF NetInv
<1>6. CASE shardCount + 1 # DataShards
  <2>1. /\ next' = next + 1 /\ shardCount' = shardCount + 1 /\ group' = group
        /\ net' = net \cup {DataPacket}
    BY <1>6, EncoderSeqids, Zenon DEF EncodeData
  <2>2. sentData' = sentData \cup {payloadOf(DataPacket)}
    BY <1>3, <2>1, Zenon DEF sentData, payloadOf
  <2>4. ASSUME NEW p \in net'
        PROVE  /\ p.group \in 0 .. group' /\ p.group < MaxGroups
               /\ p.seqid = base(s, p.group) + p.shard
               /\ p.group = group' => p.shard < shardCount'
    <3>1. CASE p = DataPacket
      BY <1>1, <1>3, <2>1, <3>1
    <3>2. CASE p \in net
      <4>1. p.shard \in Int
        BY <3>2 DEF TypeInv, TypeOK, Packet
      <4> QED BY <1>1, <2>1, <3>2, <4>1 DEF NetInv
    <3> QED BY <2>1, <3>1, <3>2, Zenon
  <2>5. ASSUME NEW g \in 0 .. group', NEW k \in 0 .. DataShards - 1, g < group' \/ k < shardCount'
        PROVE  [group |-> g, shard |-> k] \in sentData'
    BY <1>3, <2>2, <1>1, <2>1, <2>5 DEF NetInv
  <2> QED BY <1>4, <2>2, <2>4, <2>5, <1>1, <1>2, <2>1 DEF NetInv
<1> QED BY <1>5, <1>6, Zenon

-----------------------------------------------------------------------------
(* The order of the packets of a stream                                    *)

(* The packets a stream that starts at s can have, and the turn of each:   *)
(* its place in the stream.                                                *)
Stream(s) == {p \in Packet : /\ p.group < MaxGroups
                             /\ p.seqid = base(s, p.group) + p.shard
                             /\ p.flag = "data" <=> p.shard < DataShards}
turn(s, p) == slot(s, p.group) + p.shard

LEMMA NetInStream ==
  ASSUME TypeInv, NEW s \in Starts, NetInv(s)
  PROVE  net \subseteq Stream(s)
BY Zenon DEF TypeInv, TypeOK, FlagsFit, NetInv, Stream

LEMMA StreamFacts ==
  ASSUME ShortStream, NEW s \in Starts, NEW p \in Stream(s)
  PROVE  /\ p \in Packet /\ p.group \in 0 .. MaxGroups - 1 /\ p.shard \in 0 .. ShardSize - 1
         /\ p.seqid = base(s, p.group) + p.shard
         /\ place(p) = p.shard
         /\ turn(s, p) \in Nat /\ turn(s, p) = slot(s, p.group) + p.shard
<1> QED BY BaseFacts, SlotFacts, FecAssumption DEF turn, place, Stream, Packet

(* itimediff counts the turns from a place of a group to a packet.         *)
LEMMA TurnsFrom ==
  ASSUME ShortStream, NEW s \in Starts, NEW p \in Stream(s),
         NEW g \in 0 .. MaxGroups - 1, NEW k \in 0 .. ShardSize - 1
  PROVE  itimediff(p.seqid, base(s, g) + k) = turn(s, p) - (slot(s, g) + k)
<1> DEFINE h == p.group
           j == p.shard
<1>1. /\ h \in 0 .. MaxGroups - 1 /\ j \in 0 .. ShardSize - 1
      /\ p.seqid = base(s, h) + j /\ turn(s, p) = slot(s, h) + j
  BY StreamFacts, Zenon
<1> HIDE DEF h, j
<1>2. itimediff(base(s, h) + j, base(s, g) + k) = (slot(s, h) + j) - (slot(s, g) + k)
  BY <1>1, SeqidOrder
<1> QED BY <1>1, <1>2, Zenon

(* itimediff orders the packets by their turns, which tell them apart.     *)
LEMMA TurnOrder ==
  ASSUME ShortStream, NEW s \in Starts, NEW p \in Stream(s), NEW q \in Stream(s)
  PROVE  /\ itimediff(p.seqid, q.seqid) = turn(s, p) - turn(s, q)
         /\ p.seqid = q.seqid => p = q
         /\ turn(s, p) = turn(s, q) => p = q
<1>1. /\ p \in Packet /\ p.group \in 0 .. MaxGroups - 1 /\ p.shard \in 0 .. ShardSize - 1
      /\ p.seqid = base(s, p.group) + p.shard
      /\ turn(s, p) \in Nat /\ turn(s, p) = slot(s, p.group) + p.shard
  BY StreamFacts, Zenon
<1>2. /\ q \in Packet /\ q.group \in 0 .. MaxGroups - 1 /\ q.shard \in 0 .. ShardSize - 1
      /\ q.seqid = base(s, q.group) + q.shard
      /\ turn(s, q) \in Nat /\ turn(s, q) = slot(s, q.group) + q.shard
  BY StreamFacts, Zenon
<1>3. itimediff(p.seqid, q.seqid) = turn(s, p) - turn(s, q)
  BY <1>1, <1>2, SeqidOrder
<1>5. p.seqid = q.seqid => turn(s, p) = turn(s, q)
  BY <1>1, <1>2, SeqidOrder
<1> QED BY <1>3, <1>5, <1>1, <1>2, SlotFacts, SizeFacts DEF Stream, Packet

(* A group takes up ShardSize turns of its own.                            *)
LEMMA GroupTurns ==
  ASSUME ShortStream, NEW s \in Starts, NEW p \in Stream(s), NEW g \in 0 .. MaxGroups - 1
  PROVE  p.group = g <=> slot(s, g) <= turn(s, p) /\ turn(s, p) <= slot(s, g) + ShardSize - 1
<1>1. /\ p.group \in 0 .. MaxGroups - 1 /\ p.shard \in 0 .. ShardSize - 1
      /\ turn(s, p) = slot(s, p.group) + p.shard
  BY StreamFacts, Zenon
<1>2. /\ p.group < g => slot(s, p.group) + ShardSize <= slot(s, g)
      /\ g < p.group => slot(s, g) + ShardSize <= slot(s, p.group)
      /\ slot(s, p.group) \in Nat /\ slot(s, g) \in Nat
  BY <1>1, SlotFacts, Zenon
<1>3. ShardSize \in Nat /\ MaxGroups \in Nat
  BY SizeFacts, FecAssumption, Zenon
<1>5. p.group < g => turn(s, p) < slot(s, g)
  BY <1>1, <1>2, <1>3
<1>6. p.group > g => turn(s, p) > slot(s, g) + ShardSize - 1
  BY <1>1, <1>2, <1>3
<1>8. turn(s, p) \in Int /\ slot(s, g) \in Int /\ ShardSize \in Int
  BY <1>1, <1>2, <1>3
<1> QED BY <1>5, <1>6, <1>8, <1>1

(* In a strictly increasing sequence of integers, positions that are d     *)
(* apart hold numbers at least d apart.                                    *)
LEMMA Gaps ==
  ASSUME NEW n \in Nat, NEW f, \A i \in 1 .. n : f[i] \in Int,
         \A i, j \in 1 .. n : i < j => f[i] < f[j]
  PROVE  \A i, j \in 1 .. n : i <= j => j - i <= f[j] - f[i]
<1> DEFINE S == {d \in Nat : \E i, j \in 1 .. n : j = i + d /\ d > f[j] - f[i]}
<1>1. ASSUME S # {} PROVE FALSE
  <2>1. PICK d \in S : \A m \in S : d <= m
    BY <1>1, LeastNat, Zenon
  <2>2. PICK i \in 1 .. n, j \in 1 .. n : d \in Nat /\ j = i + d /\ d > f[j] - f[i]
    BY Zenon
  <2> QED BY <2>1
<1>2. SUFFICES ASSUME NEW i \in 1 .. n, NEW j \in 1 .. n, i <= j PROVE j - i <= f[j] - f[i]
  BY Zenon
<1> QED BY <1>2, <1>1

-----------------------------------------------------------------------------
(* The receive queue                                                       *)

(* A queue of packets of the stream, each before its turn's successors.    *)
InTurn(s, q) ==
  /\ q \in Seq(Packet)
  /\ \A i \in 1 .. Len(q) : q[i] \in Stream(s)
  /\ \A i, j \in 1 .. Len(q) : i < j => turn(s, q[i]) < turn(s, q[j])

LEMMA QueueGaps ==
  ASSUME ShortStream, NEW s \in Starts, NEW q, InTurn(s, q)
  PROVE  \A i, j \in 1 .. Len(q) : i <= j => j - i <= turn(s, q[j]) - turn(s, q[i])
<1> DEFINE f == [i \in 1 .. Len(q) |-> turn(s, q[i])]
<1>1. Len(q) \in Nat
  BY DEF InTurn
<1>2. \A i \in 1 .. Len(q) : f[i] \in Int /\ f[i] = turn(s, q[i])
  BY StreamFacts DEF InTurn
<1>3. \A i, j \in 1 .. Len(q) : i < j => f[i] < f[j]
  BY Zenon DEF InTurn
<1> HIDE DEF f
<1> QED BY <1>2, <1>1, <1>3, Gaps, Zenon

(* A packet that is not a duplicate is put in its turn.                    *)
LEMMA WithInTurn ==
  ASSUME ShortStream, NEW s \in Starts, InTurn(s, rx), NEW pkt \in Stream(s), ~isDuplicate(pkt)
  PROVE  InTurn(s, queueWith(pkt))
<1> DEFINE q == queueWith(pkt)
           x == stopIdx(pkt)
           n == Len(rx)
<1>1. rx \in Seq(Packet) /\ pkt \in Packet /\ n \in Nat
  BY DEF InTurn, Stream
<1>2. /\ x \in 0 .. n
      /\ x # 0 => itimediff(pkt.seqid, rx[x].seqid) > 0
      /\ \A i \in 1 .. n : i > x => rx[i].seqid # pkt.seqid /\ ~(itimediff(pkt.seqid, rx[i].seqid) > 0)
  <2>1. /\ x \in 0 .. n
        /\ x # 0 => \/ rx[x].seqid = pkt.seqid \/ itimediff(pkt.seqid, rx[x].seqid) > 0
        /\ \A i \in 1 .. n : \/ rx[i].seqid = pkt.seqid
                             \/ itimediff(pkt.seqid, rx[i].seqid) > 0
                             => i <= x
    BY <1>1, StopIdxProps, Zenon
  <2>2. ~(x > 0 /\ rx[x].seqid = pkt.seqid)
    BY Zenon DEF isDuplicate
  <2> HIDE DEF x
  <2> QED BY <2>1, <2>2
<1>3. /\ q \in Seq(Packet) /\ Len(q) = n + 1 /\ q[x + 1] = pkt
      /\ \A j \in 1 .. x : q[j] = rx[j]
      /\ \A j \in x + 2 .. n + 1 : q[j] = rx[j - 1]
  BY <1>1, QueueProps, Zenon DEF insertIdx
<1>4. turn(s, pkt) \in Int /\ \A i \in 1 .. n : rx[i] \in Stream(s) /\ turn(s, rx[i]) \in Int
  BY StreamFacts DEF InTurn
<1>5. \A i \in 1 .. n : /\ itimediff(pkt.seqid, rx[i].seqid) = turn(s, pkt) - turn(s, rx[i])
                        /\ turn(s, pkt) = turn(s, rx[i]) => pkt = rx[i]
  BY <1>4, TurnOrder, Zenon
<1>6. \A i, j \in 1 .. n : i < j => turn(s, rx[i]) < turn(s, rx[j])
  BY Zenon DEF InTurn
<1> HIDE DEF q, x, n
<1>7. \A i \in 1 .. x : turn(s, rx[i]) < turn(s, pkt)
  BY <1>1, <1>2, <1>4, <1>5, <1>6
<1>8. \A i \in 1 .. n : i > x => turn(s, pkt) < turn(s, rx[i])
  BY <1>2, <1>4, <1>5
<1>9. \A j \in 1 .. n + 1 : q[j] \in Stream(s)
  <2>1. SUFFICES ASSUME NEW j \in 1 .. n + 1 PROVE q[j] \in Stream(s)
    BY Zenon
  <2>2. j \in 1 .. x \/ j = x + 1 \/ (j \in x + 2 .. n + 1 /\ j - 1 \in 1 .. n)
    BY <1>1, <1>2
  <2>3. j \in 1 .. x => j \in 1 .. n
    BY <1>1, <1>2
  <2> QED BY <1>3, <1>4, <2>2, <2>3, Zenon
<1>10. ASSUME NEW i \in 1 .. n + 1, NEW j \in 1 .. n + 1, i < j
       PROVE  turn(s, q[i]) < turn(s, q[j])
  <2>1. CASE i \in 1 .. x /\ j \in 1 .. x
    <3>1. i \in 1 .. n /\ j \in 1 .. n
      BY <1>1, <1>2, <2>1
    <3> QED BY <1>3, <1>6, <1>10, <2>1, <3>1, Zenon
  <2>2. CASE i \in 1 .. x /\ j = x + 1
    BY <1>3, <1>7, <2>2, Zenon
  <2>3. CASE i \in 1 .. x /\ j \in x + 2 .. n + 1
    <3>1. i \in 1 .. n /\ j - 1 \in 1 .. n /\ i < j - 1
      BY <1>1, <1>2, <2>3
    <3> QED BY <1>3, <1>6, <2>3, <3>1, Zenon
  <2>4. CASE i = x + 1 /\ j \in x + 2 .. n + 1
    <3>1. j - 1 \in 1 .. n /\ j - 1 > x
      BY <1>1, <1>2, <2>4
    <3> QED BY <1>3, <1>8, <2>4, <3>1, Zenon
  <2>5. CASE i \in x + 2 .. n + 1 /\ j \in x + 2 .. n + 1
    <3>1. i - 1 \in 1 .. n /\ j - 1 \in 1 .. n /\ i - 1 < j - 1
      BY <1>1, <1>2, <1>10, <2>5
    <3> QED BY <1>3, <1>6, <2>5, <3>1, Zenon
  <2> QED BY <1>2, <1>10, <2>1, <2>2, <2>3, <2>4, <2>5
<1> QED BY <1>3, <1>9, <1>10, Zenon DEF InTurn, q

(* Shard assembly finds the packets of pkt's group, all of them and no     *)
(* others: the window is wide enough, whatever else is in the queue.       *)
LEMMA FoundIsGroup ==
  ASSUME ShortStream, NEW s \in Starts, InTurn(s, rx), NEW pkt \in Stream(s), ~isDuplicate(pkt)
  PROVE  found(pkt) = {i \in 1 .. Len(rx) + 1 : queueWith(pkt)[i].group = pkt.group}
<1> DEFINE q == queueWith(pkt)
           x == insertIdx(pkt)
           n == Len(rx) + 1
           g == pkt.group
           b == base(s, g)
           win == search(pkt, n)
<1>1. rx \in Seq(Packet) /\ pkt \in Packet /\ Len(rx) \in Nat /\ n \in Nat
  BY DEF InTurn, Stream
<1>2. Len(q) = n /\ q[x] = pkt
  BY <1>1, QueueProps, Zenon
<1>3. InTurn(s, q)
  BY WithInTurn, Zenon
<1>4. x \in 1 .. n
  BY <1>1, StopIdxProps, Zenon
<1>5. /\ g \in 0 .. MaxGroups - 1 /\ g \in 0 .. MaxGroups
      /\ pkt.shard \in 0 .. ShardSize - 1 /\ pkt.seqid = b + pkt.shard
      /\ place(pkt) = pkt.shard /\ turn(s, pkt) = slot(s, g) + pkt.shard
  BY StreamFacts, FecAssumption
<1>6. ShardSize \in Nat /\ ShardSize > 1 /\ slot(s, g) \in Nat /\ b \in Nat /\ b + ShardSize <= paws
  BY <1>5, SizeFacts, SlotFacts, BaseFacts
<1>8. (b + ShardSize - 1) % SeqidMod = b + ShardSize - 1
  BY <1>6, PawsFacts
<1>9. found(pkt) = {i \in win :
                      /\ \A j \in win : j <= i => itimediff(q[j].seqid, b + ShardSize - 1) <= 0
                      /\ itimediff(q[i].seqid, b) >= 0}
  <2> DEFINE e == (pkt.seqid - place(pkt) + ShardSize - 1) % SeqidMod
  <2>1. found(pkt) = {i \in search(pkt, Len(q)) :
                        /\ \A j \in search(pkt, Len(q)) : j <= i => itimediff(q[j].seqid, e) <= 0
                        /\ itimediff(q[i].seqid, pkt.seqid - place(pkt)) >= 0}
    BY Zenon DEF found, assemble
  <2>2. pkt.seqid - place(pkt) = b
    BY <1>5, <1>6
  <2>3. e = b + ShardSize - 1
    BY <1>8, <2>2, Zenon
  <2> HIDE DEF e, b
  <2> QED BY <1>2, <2>1, <2>2, <2>3, Zenon
<1>10. win = {i \in 1 .. n : first(pkt) <= i /\ i <= first(pkt) + ShardSize - 1}
  BY <1>1, SearchProps, Zenon
<1>11. \A i \in 1 .. n :
         /\ turn(s, q[i]) \in Int
         /\ q[i].group = g <=> slot(s, g) <= turn(s, q[i]) /\ turn(s, q[i]) <= slot(s, g) + ShardSize - 1
         /\ itimediff(q[i].seqid, b + ShardSize - 1) = turn(s, q[i]) - (slot(s, g) + ShardSize - 1)
         /\ itimediff(q[i].seqid, b) = turn(s, q[i]) - slot(s, g)
  <2>1. SUFFICES ASSUME NEW i \in 1 .. n
        PROVE  /\ turn(s, q[i]) \in Int
               /\ q[i].group = g <=> slot(s, g) <= turn(s, q[i]) /\ turn(s, q[i]) <= slot(s, g) + ShardSize - 1
               /\ itimediff(q[i].seqid, b + ShardSize - 1) = turn(s, q[i]) - (slot(s, g) + ShardSize - 1)
               /\ itimediff(q[i].seqid, b) = turn(s, q[i]) - slot(s, g)
    BY Zenon
  <2> DEFINE p == q[i]
  <2>2. p \in Stream(s)
    BY <1>2, <1>3, Zenon DEF InTurn
  <2> HIDE DEF p
  <2>3. /\ p.group \in 0 .. MaxGroups - 1 /\ p.shard \in 0 .. ShardSize - 1
        /\ p.seqid = base(s, p.group) + p.shard
        /\ turn(s, p) \in Nat /\ turn(s, p) = slot(s, p.group) + p.shard
    BY <2>2, StreamFacts, Zenon
  <2>4. p.group = g <=> slot(s, g) <= turn(s, p) /\ turn(s, p) <= slot(s, g) + ShardSize - 1
    BY <2>2, <1>5, GroupTurns, Zenon
  <2>5. /\ itimediff(p.seqid, b + (ShardSize - 1)) = turn(s, p) - (slot(s, g) + (ShardSize - 1))
        /\ itimediff(p.seqid, b + 0) = turn(s, p) - (slot(s, g) + 0)
    <3>1. 0 \in 0 .. ShardSize - 1 /\ ShardSize - 1 \in 0 .. ShardSize - 1
      BY <1>6
    <3> QED BY <2>2, <1>5, <3>1, TurnsFrom, Zenon
  <2>6. b + (ShardSize - 1) = b + ShardSize - 1 /\ b + 0 = b
    BY <1>6
  <2>7. /\ turn(s, p) - (slot(s, g) + (ShardSize - 1)) = turn(s, p) - (slot(s, g) + ShardSize - 1)
        /\ turn(s, p) - (slot(s, g) + 0) = turn(s, p) - slot(s, g) /\ turn(s, p) \in Int
    BY <1>6, <2>3
  <2> HIDE DEF q, n, g, b
  <2> QED BY <2>4, <2>5, <2>6, <2>7, Zenon DEF p
<1>12. \A i, j \in 1 .. n : i <= j => j - i <= turn(s, q[j]) - turn(s, q[i])
  BY <1>2, <1>3, QueueGaps, Zenon
<1>13. first(pkt) = IF x - pkt.shard >= 1 THEN x - pkt.shard ELSE 1
  BY <1>5, Zenon DEF first
<1>14. turn(s, q[x]) = slot(s, g) + pkt.shard
  BY <1>2, <1>5, Zenon
<1> HIDE DEF q, x, n, g, b, win
<1>15. ASSUME NEW i \in found(pkt) PROVE i \in 1 .. n /\ q[i].group = g
  <2> QED BY <1>6, <1>11, <1>9, <1>10
<1>16. ASSUME NEW i \in 1 .. n, q[i].group = g PROVE i \in found(pkt)
  <2>1. slot(s, g) <= turn(s, q[i]) /\ turn(s, q[i]) <= slot(s, g) + ShardSize - 1 /\ turn(s, q[i]) \in Int
    BY <1>11, <1>16, Zenon
  <2>2. i < x => x - i <= pkt.shard
    BY <1>4, <1>5, <1>6, <1>12, <1>14, <2>1
  <2>3. i >= x => i - x <= ShardSize - 1 - pkt.shard
    BY <1>4, <1>5, <1>6, <1>12, <1>14, <2>1
  <2>4. first(pkt) <= i /\ i <= first(pkt) + ShardSize - 1
    <3> QED BY <1>6, <1>13, <2>2, <2>3, <1>4, <1>5
  <2>6. ASSUME NEW j \in win, j <= i PROVE itimediff(q[j].seqid, b + ShardSize - 1) <= 0
    BY <1>10, <1>11, <1>6, <2>1, <2>6, <1>12
  <2> QED BY <2>6, <1>9, <1>10, <2>4, <2>1, <1>11, <1>6
<1> QED BY <1>15, <1>16, Zenon DEF q, n, g

members(q) == {q[i] : i \in 1 .. Len(q)}

LEMMA QueueMembers ==
  ASSUME rx \in Seq(Packet), NEW pkt \in Packet
  PROVE  members(queueWith(pkt)) = members(rx) \cup {pkt}
<1> DEFINE q == queueWith(pkt)
           x == stopIdx(pkt)
           n == Len(rx)
<1>1. n \in Nat /\ x \in 0 .. n
  BY StopIdxProps
<1>2. /\ Len(q) = n + 1 /\ q[x + 1] = pkt
      /\ \A j \in 1 .. x : q[j] = rx[j]
      /\ \A j \in x + 2 .. n + 1 : q[j] = rx[j - 1]
  BY QueueProps, Zenon DEF insertIdx
<1> HIDE DEF q, x, n
<1>3. ASSUME NEW i \in 1 .. n PROVE \E j \in 1 .. n + 1 : q[j] = rx[i]
  <2>1. CASE i <= x
    BY <1>1, <1>2, <2>1
  <2>2. CASE i > x
    <3>2. q[i + 1] = rx[i]
      BY <1>2, <1>1, <2>2
    <3> QED BY <3>2, <1>1
  <2> QED BY <1>1, <2>1, <2>2
<1>4. ASSUME NEW j \in 1 .. n + 1 PROVE q[j] = pkt \/ \E i \in 1 .. n : q[j] = rx[i]
  BY <1>1, <1>2
<1>5. x + 1 \in 1 .. n + 1
  BY <1>1
<1> QED BY <1>2, <1>3, <1>4, <1>5 DEF members, q, n

(* The packets of a group are next to each other in the queue.             *)
LEMMA FoundStretch ==
  ASSUME ShortStream, NEW s \in Starts, InTurn(s, rx), NEW pkt \in Stream(s), ~isDuplicate(pkt)
  PROVE  /\ Min(found(pkt)) \in 1 .. Len(rx) + 1
         /\ Cardinality(found(pkt)) \in Nat
         /\ Min(found(pkt)) + Cardinality(found(pkt)) <= Len(rx) + 2
         /\ found(pkt) = Min(found(pkt)) .. Min(found(pkt)) + Cardinality(found(pkt)) - 1
<1> DEFINE q == queueWith(pkt)
           n == Len(rx) + 1
           S == found(pkt)
           a == Min(S)
           z == Max(S)
<1>1. rx \in Seq(Packet) /\ pkt \in Packet /\ Len(rx) \in Nat /\ n \in Nat
  BY DEF InTurn, Stream
<1>2. S = {i \in 1 .. n : q[i].group = pkt.group}
  BY FoundIsGroup, Zenon
<1>3. Len(q) = n /\ q[insertIdx(pkt)] = pkt /\ insertIdx(pkt) \in 1 .. n
  BY <1>1, QueueProps, StopIdxProps, Zenon
<1>4. InTurn(s, q)
  BY WithInTurn
<1> HIDE DEF S
<1>5. S # {} /\ S \subseteq Nat /\ S \subseteq 0 .. n
  BY <1>2, <1>3
<1>6. a \in S /\ z \in S /\ \A i \in S : a <= i /\ i <= z
  BY <1>1, <1>5, MinOf, MaxOf, Zenon
<1> HIDE DEF a, z, n, q
<1>7. a \in 1 .. n /\ z \in 1 .. n /\ a <= z
  BY <1>2, <1>6, Zenon
<1>8. ASSUME NEW i \in a .. z PROVE i \in S
  <2>2. q[a] \in Stream(s) /\ q[i] \in Stream(s) /\ q[z] \in Stream(s)
    BY <1>3, <1>4, <1>7 DEF InTurn
  <2>3. turn(s, q[a]) \in Nat /\ turn(s, q[i]) \in Nat /\ turn(s, q[z]) \in Nat
    BY <2>2, StreamFacts, Zenon
  <2>5. turn(s, q[a]) <= turn(s, q[i]) /\ turn(s, q[i]) <= turn(s, q[z])
    BY <2>3, <1>1, <1>3, <1>4, <1>7 DEF InTurn
  <2>6. pkt.group \in 0 .. MaxGroups - 1 /\ slot(s, pkt.group) \in Nat /\ ShardSize \in Nat
    BY StreamFacts, SlotFacts, SizeFacts, Zenon
  <2>7. slot(s, pkt.group) <= turn(s, q[a])
    BY <1>2, <1>6, <2>2, <2>6, GroupTurns, Zenon
  <2>8. turn(s, q[z]) <= slot(s, pkt.group) + ShardSize - 1
    BY <1>2, <1>6, <2>2, <2>6, GroupTurns, Zenon
  <2>9. slot(s, pkt.group) <= turn(s, q[i]) /\ turn(s, q[i]) <= slot(s, pkt.group) + ShardSize - 1
    BY <2>3, <2>5, <2>6, <2>7, <2>8
  <2>10. q[i].group = pkt.group
    BY <2>2, <2>6, <2>9, GroupTurns, Zenon
  <2>11. i \in 1 .. n
    BY <1>1, <1>7
  <2> QED BY <1>2, <2>10, <2>11, Zenon
<1>9. S = a .. z
  BY <1>2, <1>6, <1>8
<1>10. Cardinality(S) = z - a + 1
  BY <1>7, <1>9, FS_Interval
<1> QED BY <1>7, <1>9, <1>10 DEF S, a, n

LEMMA FreedProps ==
  ASSUME ShortStream, NEW s \in Starts, InTurn(s, rx), NEW pkt \in Stream(s), ~isDuplicate(pkt)
  PROVE  /\ InTurn(s, freed(pkt))
         /\ members(freed(pkt)) = {p \in members(rx) : p.group # pkt.group}
<1> DEFINE q == queueWith(pkt)
           n == Len(rx) + 1
           a == Min(found(pkt))
           c == Cardinality(found(pkt))
           f == freed(pkt)
           pos(j) == IF j < a THEN j ELSE j + c
<1>1. rx \in Seq(Packet) /\ pkt \in Packet /\ Len(rx) \in Nat /\ n \in Nat
  BY DEF InTurn, Stream
<1>2. found(pkt) = {i \in 1 .. n : q[i].group = pkt.group}
  BY FoundIsGroup, Zenon
<1>3. q \in Seq(Packet) /\ Len(q) = n
  BY <1>1, QueueProps, Zenon
<1>4. InTurn(s, q)
  BY WithInTurn
<1>5. a \in 1 .. n /\ c \in Nat /\ a + c <= n + 1 /\ found(pkt) = a .. a + c - 1
  BY FoundStretch
<1>6. /\ f \in Seq(Packet)
      /\ Len(f) = n - c
      /\ \A j \in 1 .. a - 1 : f[j] = q[j]
      /\ \A j \in a .. n - c : f[j] = q[j + c]
  <2>1. /\ f \in Seq(Packet)
        /\ Len(f) = (IF a + c <= n + 1 THEN n - c ELSE a - 1)
        /\ \A j \in 1 .. a - 1 : f[j] = q[j]
        /\ \A j \in a .. n - c : f[j] = q[j + c]
    <3>1. f = freeRange(a, c, q)
      BY Zenon DEF freed
    <3> HIDE DEF q, n, a, c, f
    <3> QED BY <1>3, <1>5, <3>1, FreeRangeProps, Zenon
  <2> QED BY <2>1, <1>5, Zenon
<1>7. members(q) = members(rx) \cup {pkt}
  BY <1>1, QueueMembers, Zenon
<1> HIDE DEF q, n, a, c, f
<1>8. \A j \in 1 .. n - c : f[j] = q[pos(j)] /\ pos(j) \in 1 .. n /\ pos(j) \notin found(pkt)
  <2>1. SUFFICES ASSUME NEW j \in 1 .. n - c
                 PROVE  f[j] = q[pos(j)] /\ pos(j) \in 1 .. n /\ pos(j) \notin found(pkt)
    BY Zenon
  <2>2. pos(j) \in 1 .. n /\ pos(j) \notin a .. a + c - 1
    BY <1>1, <1>5
  <2>3. CASE j < a
    BY <1>1, <1>5, <1>6, <2>2, <2>3
  <2>4. CASE ~(j < a)
    BY <1>1, <1>5, <1>6, <2>2, <2>4
  <2> QED BY <2>3, <2>4, Zenon
<1>9. \A i \in 1 .. n : i \notin found(pkt) => \E j \in 1 .. n - c : i = pos(j)
  <2>1. SUFFICES ASSUME NEW i \in 1 .. n, i \notin found(pkt) PROVE \E j \in 1 .. n - c : i = pos(j)
    BY Zenon
  <2>2. CASE i < a
    BY <1>1, <1>5, <2>2
  <2>3. CASE i >= a + c
    <3>1. i - c \in 1 .. n - c /\ i = pos(i - c)
      BY <1>1, <1>5, <2>3
    <3> QED BY <3>1, Zenon
  <2> QED BY <1>5, <2>1, <2>2, <2>3
<1>10. InTurn(s, f)
  <2>1. \A j \in 1 .. n - c : f[j] \in Stream(s)
    BY <1>3, <1>4, <1>8, Zenon DEF InTurn
  <2>2. ASSUME NEW i \in 1 .. n - c, NEW j \in 1 .. n - c, i < j
        PROVE  turn(s, f[i]) < turn(s, f[j])
    <3>1. pos(i) \in 1 .. n /\ pos(j) \in 1 .. n /\ f[i] = q[pos(i)] /\ f[j] = q[pos(j)]
      BY <1>8, Zenon
    <3>2. pos(i) < pos(j)
      BY <2>2, <1>5
    <3> HIDE DEF pos
    <3> QED BY <3>1, <3>2, <1>3, <1>4, Zenon DEF InTurn
  <2> QED BY <1>6, <2>1, <2>2, Zenon DEF InTurn
<1> HIDE DEF pos
<1>11. members(f) = {p \in members(q) : p.group # pkt.group}
  <2>1. ASSUME NEW p \in members(f) PROVE p \in members(q) /\ p.group # pkt.group
    <3>1. PICK j \in 1 .. n - c : p = f[j]
      BY <1>6, Zenon DEF members
    <3> QED BY <1>3, <3>1, <1>2, <1>8, Zenon DEF members
  <2>2. ASSUME NEW p \in members(q), p.group # pkt.group PROVE p \in members(f)
    <3>1. PICK i \in 1 .. n : p = q[i]
      BY <1>3, Zenon DEF members
    <3>2. PICK j \in 1 .. n - c : i = pos(j)
      BY <3>1, <2>2, <1>2, <1>9, Zenon
    <3> QED BY <1>6, <3>1, <3>2, <1>8, Zenon DEF members
  <2> QED BY <2>1, <2>2, Zenon
<1> QED BY <1>7, <1>10, <1>11, Zenon DEF f

(* What Decode leaves in the queue.                                        *)
LEMMA DecodedQueue ==
  ASSUME ShortStream, NEW s \in Starts, InTurn(s, rx), NEW pkt \in Stream(s)
  PROVE  /\ InTurn(s, decoded(pkt).rx)
         /\ members(decoded(pkt).rx) \subseteq members(rx) \cup {pkt}
         /\ isDuplicate(pkt) => decoded(pkt).rx = rx
         /\ ~isDuplicate(pkt) /\ (complete(pkt) \/ repairable(pkt)) =>
              members(decoded(pkt).rx) = {p \in members(rx) : p.group # pkt.group}
         /\ ~isDuplicate(pkt) /\ ~complete(pkt) /\ ~repairable(pkt) =>
              members(decoded(pkt).rx) = members(rx) \cup {pkt}
<1>2. CASE isDuplicate(pkt)
  BY <1>2, Zenon DEF decoded
<1>3. CASE ~isDuplicate(pkt) /\ (complete(pkt) \/ repairable(pkt))
  BY <1>3, DecodedRx, FreedProps, Zenon
<1>4. CASE ~isDuplicate(pkt) /\ ~complete(pkt) /\ ~repairable(pkt)
  BY <1>4, DecodedRx, WithInTurn, QueueMembers, Zenon DEF InTurn, Stream
<1> QED BY <1>2, <1>3, <1>4, Zenon

(* rxlimit takes the first packet of the queue.                            *)
LEMMA KeepProps ==
  ASSUME NEW s \in Starts, NEW q, InTurn(s, q)
  PROVE  /\ InTurn(s, keepRxlimit(q))
         /\ members(keepRxlimit(q)) \subseteq members(q)
         /\ Len(q) > RxLimit => \A p \in members(q) : p = q[1] \/ p \in members(keepRxlimit(q))
         /\ ~(Len(q) > RxLimit) => keepRxlimit(q) = q
<1>2. CASE Len(q) > RxLimit
  <2> DEFINE t == Tail(q)
  <2>1. keepRxlimit(q) = t
    BY <1>2, Zenon DEF keepRxlimit
  <2>2. t \in Seq(Packet) /\ Len(t) = Len(q) - 1 /\ \A i \in 1 .. Len(q) - 1 : t[i] = q[i + 1]
    BY <1>2, FecAssumption DEF InTurn
  <2> HIDE DEF t
  <2>3. InTurn(s, t)
    <3>3. ASSUME NEW i \in 1 .. Len(t), NEW j \in 1 .. Len(t), i < j
          PROVE  turn(s, t[i]) < turn(s, t[j])
      <4>1. /\ i + 1 \in 1 .. Len(q) /\ j + 1 \in 1 .. Len(q) /\ i + 1 < j + 1
            /\ t[i] = q[i + 1] /\ t[j] = q[j + 1]
        BY <3>3, <2>2 DEF InTurn
      <4> QED BY <4>1, Zenon DEF InTurn
    <3> QED BY <2>2, <3>3 DEF InTurn
  <2>5. ASSUME NEW p \in members(q) PROVE p = q[1] \/ p \in members(t)
    <3>1. PICK i \in 1 .. Len(q) : p = q[i]
      BY Zenon DEF members
    <3>2. CASE i # 1
      <4>1. i - 1 \in 1 .. Len(t) /\ t[i - 1] = q[(i - 1) + 1] /\ (i - 1) + 1 = i
        BY <2>2, <3>2
      <4> QED BY <3>1, <4>1, Zenon DEF members
    <3> QED BY <3>1, <3>2, Zenon
  <2> QED BY <1>2, <2>1, <2>3, <2>5, <2>2 DEF members
<1>3. CASE ~(Len(q) > RxLimit)
  BY <1>3, Zenon DEF keepRxlimit
<1> QED BY <1>2, <1>3, Zenon

-----------------------------------------------------------------------------
(* The stream over time                                                    *)
StreamInv(s) ==
  /\ NetInv(s)
  /\ InTurn(s, rx)
  /\ members(rx) \subseteq seen

LEMMA InitStream ==
  ASSUME Init
  PROVE  \E s \in Starts : StreamInv(s)
<1>1. next \in Starts /\ shardCount = 0 /\ group = 0 /\ net = {} /\ rx = <<>> /\ seen = {}
  BY Zenon DEF Init
<1>2. next \in Nat /\ next < paws /\ ShardSize \in Nat /\ DataShards \in Nat /\ MaxGroups \in Nat
  BY <1>1, SizeFacts, PawsFacts, FecAssumption
<1>3. base(next, 0) = next
  <2>1. lin(next, 0) = next
    BY <1>2 DEF lin
  <2> QED BY <1>2, <2>1 DEF base
<1> QED BY <1>1, <1>2, <1>3 DEF StreamInv, NetInv, InTurn, members

LEMMA DecodeStream ==
  ASSUME ShortStream, TypeInv, NEW s \in Starts, StreamInv(s), NEW pkt \in net, decode(pkt)
  PROVE  StreamInv(s)'
<1>1. NetInv(s) /\ InTurn(s, rx) /\ members(rx) \subseteq seen /\ pkt \in Stream(s)
  BY NetInStream, Zenon DEF StreamInv
<1>2. /\ rx' = keepRxlimit(decoded(pkt).rx) /\ seen' = seen \cup {pkt}
      /\ UNCHANGED encVars
  BY DecodeEffect, Zenon
<1>3. InTurn(s, decoded(pkt).rx) /\ members(decoded(pkt).rx) \subseteq members(rx) \cup {pkt}
  BY <1>1, DecodedQueue, Zenon
<1>4. /\ InTurn(s, keepRxlimit(decoded(pkt).rx))
      /\ members(keepRxlimit(decoded(pkt).rx)) \subseteq members(decoded(pkt).rx)
  BY <1>3, KeepProps, Zenon
<1> QED BY <1>1, <1>2, <1>4, <1>3, Zenon DEF StreamInv, InTurn, members, NetInv, sentData, encVars

LEMMA NextStream ==
  ASSUME ShortStream, TypeInv, NEW s \in Starts, StreamInv(s), [Next]_vars
  PROVE  StreamInv(s)'
<1>1. CASE EncodeData
  BY <1>1, EncodeNet, Zenon DEF StreamInv, EncodeData, decVars, InTurn, members
<1>2. CASE readRecovered
  BY <1>2, Zenon DEF StreamInv, NetInv, sentData, InTurn, members, readRecovered, encVars
<1>3. ASSUME NEW pkt \in net, decode(pkt) PROVE StreamInv(s)'
  BY <1>3, DecodeStream, Zenon
<1>4. CASE UNCHANGED vars
  BY <1>4, Zenon DEF StreamInv, NetInv, sentData, InTurn, members, vars, encVars, decVars
<1> QED BY <1>1, <1>2, <1>3, <1>4, Zenon DEF Next

StreamTyped == TypeInv /\ \E s \in Starts : StreamInv(s)

LEMMA Streaming ==
  ASSUME ShortStream
  PROVE  Spec => []StreamTyped
<1>1. Init => StreamTyped
  BY InitType, InitStream, Zenon DEF StreamTyped
<1>2. StreamTyped /\ [Next]_vars => StreamTyped'
  BY NextType, NextStream, Zenon DEF StreamTyped
<1> QED BY <1>1, <1>2, PTL DEF Spec

(* The queue is strictly ordered over the wrap of the seqids too, with any *)
(* loss, repetition and reordering (RxOrdered), for a stream of less than  *)
(* half of the seqids.                                                     *)
THEOREM QueueOrdered ==
  ASSUME ShortStream
  PROVE  Spec => []RxOrdered
<1>1. ASSUME NEW s \in Starts, InTurn(s, rx) PROVE RxOrdered
  <2>1. \A i \in 1 .. Len(rx) : rx[i] \in Stream(s) /\ turn(s, rx[i]) \in Nat
    BY <1>1, StreamFacts, Zenon DEF InTurn
  <2>2. \A i, j \in 1 .. Len(rx) :
          itimediff(rx[j].seqid, rx[i].seqid) = turn(s, rx[j]) - turn(s, rx[i])
    BY <2>1, TurnOrder, Zenon
  <2>3. \A i, j \in 1 .. Len(rx) : i < j => turn(s, rx[i]) < turn(s, rx[j])
    BY <1>1, Zenon DEF InTurn
  <2>4. ASSUME NEW i \in 1 .. Len(rx), NEW j \in 1 .. Len(rx), i < j
        PROVE  itimediff(rx[j].seqid, rx[i].seqid) > 0
    <3>1. /\ itimediff(rx[j].seqid, rx[i].seqid) = turn(s, rx[j]) - turn(s, rx[i])
          /\ turn(s, rx[i]) < turn(s, rx[j])
          /\ turn(s, rx[i]) \in Nat /\ turn(s, rx[j]) \in Nat
      BY <2>1, <2>2, <2>3, <2>4, Zenon
    <3> QED BY <3>1
  <2>5. DOMAIN rx = 1 .. Len(rx)
    BY <1>1 DEF InTurn
  <2> QED BY <2>4, <2>5, Zenon DEF RxOrdered
<1>2. StreamTyped => RxOrdered
  BY <1>1, Zenon DEF StreamTyped, StreamInv
<1> QED BY <1>2, Streaming, PTL

-----------------------------------------------------------------------------
(* The shards of a group                                                   *)

(* Shard assembly gives the codec the packets of pkt's group that are in   *)
(* the queue, each in its place, and the codec gives back its data.        *)
LEMMA ShardsOfGroup ==
  ASSUME ShortStream, NEW s \in Starts, InTurn(s, rx), NEW pkt \in Stream(s), ~isDuplicate(pkt)
  PROVE  /\ shardsOf(pkt) = {p \in members(rx) \cup {pkt} : p.group = pkt.group}
         /\ pkt \in shardsOf(pkt)
         /\ \A p \in shardsOf(pkt) : p \in Stream(s) /\ p.group = pkt.group /\ place(p) = p.shard
         /\ \A k : ReconstructData(shardsOf(pkt), k) = [group |-> pkt.group, shard |-> k]
<1> DEFINE q == queueWith(pkt)
           n == Len(rx) + 1
           S == shardsOf(pkt)
<1>2. members(q) = members(rx) \cup {pkt} /\ Len(q) = n
  BY QueueMembers, QueueProps, Zenon DEF InTurn, Stream
<1>3. found(pkt) = {i \in 1 .. n : q[i].group = pkt.group}
  BY FoundIsGroup
<1>4. S = {p \in members(q) : p.group = pkt.group}
  <2>1. S = {q[i] : i \in found(pkt)}
    BY Zenon DEF shardsOf
  <2> HIDE DEF q, n, S
  <2> QED BY <2>1, <1>2, <1>3 DEF members
<1>6. \A p \in S : p \in Stream(s) /\ p.group = pkt.group
  BY <1>4, WithInTurn, Zenon DEF InTurn, members
<1>7. \A p \in S : place(p) = p.shard
  BY <1>6, StreamFacts, Zenon
<1>8. pkt \in S
  BY <1>2, <1>4, Zenon
<1>9. ASSUME NEW k PROVE ReconstructData(S, k) = [group |-> pkt.group, shard |-> k]
  <2> HIDE DEF S
  <2> QED BY <1>6, <1>7, <1>8, Zenon DEF ReconstructData
<1> QED BY <1>2, <1>4, <1>6, <1>7, <1>9, Zenon

(* A position of the queue stands for one packet, and a packet of a group  *)
(* for one shard number.                                                   *)
LEMMA ShardNumbers ==
  ASSUME ShortStream, NEW s \in Starts, InTurn(s, rx), NEW pkt \in Stream(s), ~isDuplicate(pkt)
  PROVE  /\ \A i, j \in found(pkt) : queueWith(pkt)[i].shard = queueWith(pkt)[j].shard => i = j
         /\ \A i \in dataFound(pkt) : queueWith(pkt)[i].shard \in 0 .. DataShards - 1
         /\ IsFiniteSet(shardsOf(pkt)) /\ Cardinality(shardsOf(pkt)) = Cardinality(found(pkt))
<1> DEFINE q == queueWith(pkt)
           n == Len(rx) + 1
           S == shardsOf(pkt)
           F == found(pkt)
<1>1. rx \in Seq(Packet) /\ pkt \in Packet /\ Len(rx) \in Nat
  BY DEF InTurn, Stream
<1>2. F = {i \in 1 .. n : q[i].group = pkt.group} /\ Len(q) = n
  BY <1>1, FoundIsGroup, QueueProps, Zenon
<1>3. InTurn(s, q)
  BY WithInTurn
<1>4. IsFiniteSet(F)
  BY <1>1, FoundType, Zenon
<1>5. S = {q[i] : i \in F}
  BY Zenon DEF shardsOf
<1>6. dataFound(pkt) = {i \in F : q[i].flag = "data"}
  BY Zenon DEF dataFound
<1> HIDE DEF q, n, S, F
<1>7. \A i \in F : /\ i \in 1 .. n /\ q[i] \in Stream(s) /\ q[i].group = pkt.group
                   /\ turn(s, q[i]) \in Nat /\ turn(s, q[i]) = slot(s, pkt.group) + q[i].shard
                   /\ q[i].shard \in 0 .. ShardSize - 1
  <2>1. \A i \in F : i \in 1 .. n /\ q[i] \in Stream(s) /\ q[i].group = pkt.group
    BY <1>2, <1>3, Zenon DEF InTurn
  <2> QED BY <2>1, StreamFacts, Zenon
<1>8. \A i, j \in F : q[i] = q[j] \/ q[i].shard = q[j].shard => i = j
  <2>1. \A i, j \in F : i < j => turn(s, q[i]) < turn(s, q[j])
    BY <1>2, <1>3, <1>7, Zenon DEF InTurn
  <2>2. \A i \in F : i \in Int /\ turn(s, q[i]) \in Nat
    BY <1>7
  <2>3. \A i, j \in F : turn(s, q[i]) = turn(s, q[j]) => i = j
    BY <2>1, <2>2
  <2>4. ASSUME NEW i \in F, NEW j \in F, q[i] = q[j] \/ q[i].shard = q[j].shard PROVE i = j
    <3>1. q[i].shard = q[j].shard
      BY <2>4, Zenon
    <3>2. turn(s, q[i]) = turn(s, q[j])
      BY <1>7, <3>1, Zenon
    <3> QED BY <2>3, <3>2, Zenon
  <2> QED BY <2>4, Zenon
<1>10. IsFiniteSet(S) /\ Cardinality(S) = Cardinality(F)
  <2> DEFINE m == [i \in F |-> q[i]]
  <2>1. m \in Bijection(F, S)
    BY <1>5, <1>8, Zenon DEF Bijection, Injection, Surjection, IsInjective
  <2> QED BY <2>1, <1>4, FS_Bijection, Zenon DEF ExistsBijection
<1>11. \A i \in dataFound(pkt) : q[i].shard \in 0 .. DataShards - 1
  <2>1. ASSUME NEW p \in Stream(s), p.flag = "data", p.shard \in 0 .. ShardSize - 1
        PROVE  p.shard \in 0 .. DataShards - 1
    <3>1. p.shard < DataShards
      BY <2>1, Zenon DEF Stream
    <3> QED BY <2>1, <3>1, SizeFacts
  <2> QED BY <1>6, <1>7, <2>1, Zenon
<1> QED BY <1>8, <1>10, <1>11, Zenon DEF q, S, F

(* At most DataShards data packets are found, and when so many are, every  *)
(* data shard of the group is among them.  A repair uses a parity packet.  *)
LEMMA EnoughFound ==
  ASSUME ShortStream, NEW s \in Starts, InTurn(s, rx), NEW pkt \in Stream(s), ~isDuplicate(pkt)
  PROVE  /\ complete(pkt) => \A k \in 0 .. DataShards - 1 :
                               \E p \in shardsOf(pkt) : p.flag = "data" /\ p.shard = k
         /\ repairable(pkt) => \E p \in shardsOf(pkt) : p.flag = "fec"
         /\ Cardinality(found(pkt)) >= DataShards => complete(pkt) \/ repairable(pkt)
<1> DEFINE q == queueWith(pkt)
           F == found(pkt)
           D == dataFound(pkt)
           K == 0 .. DataShards - 1
           m == [i \in D |-> q[i].shard]
<1>1. rx \in Seq(Packet) /\ pkt \in Packet /\ Len(rx) \in Nat
  BY DEF InTurn, Stream
<1>2. IsFiniteSet(F) /\ Cardinality(F) \in Nat /\ Cardinality(D) \in Nat
  BY <1>1, FoundType, Zenon
<1>3. D = {i \in F : q[i].flag = "data"} /\ shardsOf(pkt) = {q[i] : i \in F}
  BY Zenon DEF dataFound, shardsOf
<1>4. /\ \A i, j \in F : q[i].shard = q[j].shard => i = j
      /\ \A i \in D : q[i].shard \in K
  BY ShardNumbers, Zenon
<1>5. IsFiniteSet(K) /\ Cardinality(K) = DataShards /\ DataShards \in Nat
  BY SizeFacts, FS_Interval
<1>6. \A i \in F : q[i].flag \in {"data", "fec"}
  <2>1. \A i \in F : q[i] \in Packet
    BY <1>3, ShardsOfGroup, Zenon DEF Stream
  <2> QED BY <2>1 DEF Packet
<1> HIDE DEF q, F, D, K
<1>7. m \in Injection(D, K)
  BY <1>3, <1>4 DEF Injection, IsInjective
<1> HIDE DEF m
<1>8. Cardinality(D) <= DataShards /\ (Cardinality(D) = DataShards => m \in Surjection(D, K))
  BY <1>5, <1>7, FS_Injection, Zenon
<1>9. ASSUME complete(pkt), NEW k \in K PROVE \E p \in shardsOf(pkt) : p.flag = "data" /\ p.shard = k
  <2>2. PICK i \in D : m[i] = k
    BY <1>8, <1>9, Zenon DEF Surjection, complete, D
  <2> QED BY <2>2, <1>3, Zenon DEF m
<1>10. ASSUME repairable(pkt) PROVE \E p \in shardsOf(pkt) : p.flag = "fec"
  <2>1. Cardinality(D) # DataShards /\ Cardinality(F) >= DataShards
    BY <1>10, Zenon DEF repairable, D, F
  <2>2. D # F
    BY <2>1, <1>2, <1>5, <1>8
  <2>3. PICK i \in F : q[i].flag # "data"
    BY <2>2, <1>3, Zenon
  <2> QED BY <2>3, <1>3, <1>6, Zenon
<1>11. ASSUME Cardinality(F) >= DataShards PROVE complete(pkt) \/ repairable(pkt)
  <2> DEFINE W == search(pkt, Len(q))
  <2>2. W \subseteq 1 .. Len(rx) + 1
    BY <1>1, SearchProps, QueueProps, Zenon DEF q
  <2>3. IsFiniteSet(W)
    <3>1. IsFiniteSet(1 .. Len(rx) + 1)
      BY FS_Interval
    <3> HIDE DEF W
    <3> QED BY <2>2, <3>1, FS_Subset, Zenon
  <2>4. F \in SUBSET W
    BY Zenon DEF F, q, found, assemble
  <2> HIDE DEF W
  <2>5. Cardinality(F) <= Cardinality(W) /\ Cardinality(W) \in Nat
    BY <2>3, <2>4, FS_Subset, FS_CardinalityType, Zenon
  <2>6. Cardinality(W) >= DataShards
    BY <1>2, <1>5, <1>11, <2>5
  <2> QED BY <1>11, <2>6, Zenon DEF complete, repairable, wideEnough, W, q, F
<1> QED BY <1>9, <1>10, <1>11, Zenon DEF K, F

-----------------------------------------------------------------------------
(* The datagram service                                                    *)
delivered == out \cup Range(dataCh)

(* The payloads recovered have been sent: a repair uses a parity packet,   *)
(* which the encoder makes of a whole group.                               *)
LEMMA RecoveredSent ==
  ASSUME ShortStream, TypeInv, NEW s \in Starts, StreamInv(s), NEW pkt \in net
  PROVE  Range(decoded(pkt).recovered) \subseteq sentData
<1>1. NetInv(s) /\ InTurn(s, rx) /\ members(rx) \subseteq net /\ pkt \in Stream(s)
  BY NetInStream, Zenon DEF StreamInv, TypeInv, TypeOK
<1>2. CASE isDuplicate(pkt) \/ ~repairable(pkt)
  <2>1. \/ decoded(pkt) = [rx |-> rx, recovered |-> <<>>]
        \/ decoded(pkt) = [rx |-> freed(pkt), recovered |-> <<>>]
        \/ decoded(pkt) = [rx |-> queueWith(pkt), recovered |-> <<>>]
    BY <1>2, DecodedIs, DecodeCases, Zenon
  <2>2. decoded(pkt).recovered = <<>>
    BY <2>1
  <2>3. Range(<<>>) = {}
    BY DEF Range
  <2> QED BY <2>2, <2>3, Zenon
<1>3. CASE ~isDuplicate(pkt) /\ repairable(pkt)
  <2> DEFINE L == lostOf(pkt)
  <2>1. decoded(pkt).recovered = [i \in 1 .. Cardinality(L) |-> ReconstructData(shardsOf(pkt), nth(L, i))]
    <3> DEFINE r == [i \in 1 .. Cardinality(L) |-> ReconstructData(shardsOf(pkt), nth(L, i))]
    <3>1. Decode(pkt) = [rx |-> freed(pkt), recovered |-> r]
      BY <1>3, DecodeCases, Zenon
    <3> HIDE DEF r
    <3> QED BY <1>3, <3>1 DEF r, decoded
  <2>2. IsFiniteSet(L) /\ L \subseteq 0 .. DataShards - 1 /\ L \subseteq Nat
    <3>2. IsFiniteSet(L)
      BY FoundType, <1>1, Zenon DEF InTurn, Stream
    <3> QED BY <3>2 DEF lostOf
  <2>3. \A i \in 1 .. Cardinality(L) : nth(L, i) \in 0 .. DataShards - 1
    BY <2>2, NthProps, Zenon
  <2>4. PICK p \in shardsOf(pkt) : p.flag = "fec"
    BY <1>1, <1>3, EnoughFound, Zenon
  <2>5. p \in net /\ p.group = pkt.group /\ p \in Stream(s)
    BY <1>1, <1>3, ShardsOfGroup
  <2>6. p.shard >= DataShards
    BY <2>4, <2>5, StreamFacts, SizeFacts DEF Stream
  <2>7. pkt.group \in 0 .. group /\ pkt.group < group
    <3>3. p.shard \in 0 .. ShardSize - 1
      BY <2>5, StreamFacts, Zenon
    <3> QED BY <3>3, <2>5, <2>6, SizeFacts, <1>1 DEF TypeInv, TypeOK, NetInv
  <2>8. \A k \in 0 .. DataShards - 1 : [group |-> pkt.group, shard |-> k] \in sentData
    BY <1>1, <2>7, Zenon DEF NetInv
  <2>9. \A k : ReconstructData(shardsOf(pkt), k) = [group |-> pkt.group, shard |-> k]
    BY <1>1, <1>3, ShardsOfGroup, Zenon
  <2> HIDE DEF L
  <2>10. \A i \in 1 .. Cardinality(L) : ReconstructData(shardsOf(pkt), nth(L, i)) \in sentData
    BY <2>3, <2>8, <2>9, Zenon
  <2> QED BY <2>1, <2>10, Zenon DEF Range
<1> QED BY <1>2, <1>3, Zenon

(* The application gets nothing that was not sent.                         *)
DeliveredSent == delivered \subseteq sentData

LEMMA DecodeDelivers ==
  ASSUME ShortStream, TypeInv, NEW s \in Starts, StreamInv(s), DeliveredSent,
         NEW pkt \in net, decode(pkt)
  PROVE  sentData' = sentData /\ delivered \subseteq delivered' /\ delivered' \subseteq sentData
<1>1. /\ out' = IF pkt.flag = "data" THEN out \cup {payloadOf(pkt)} ELSE out
      /\ dataCh = <<>> /\ dataCh' = decoded(pkt).recovered
      /\ UNCHANGED encVars
  BY DecodeEffect, Zenon
<1>4. Range(dataCh) = {}
  BY <1>1 DEF Range
<1> QED BY <1>1, <1>4, RecoveredSent, Zenon DEF delivered, DeliveredSent, sentData, encVars

LEMMA ReadDelivers ==
  ASSUME TypeInv, readRecovered
  PROVE  sentData' = sentData /\ delivered' = delivered
<1>1. /\ dataCh \in Seq(Payload) /\ dataCh # <<>>
      /\ out' = out \cup {Head(dataCh)} /\ dataCh' = Tail(dataCh)
      /\ UNCHANGED encVars
  BY Zenon DEF TypeInv, TypeOK, readRecovered
<1>2. Range(dataCh) = {Head(dataCh)} \cup Range(Tail(dataCh))
  <2>1. Len(dataCh) \in Nat /\ Len(dataCh) # 0 /\ Tail(dataCh) \in Seq(Payload) /\ Len(Tail(dataCh)) = Len(dataCh) - 1
    BY <1>1
  <2> DEFINE t == Tail(dataCh)
  <2>3. Range(dataCh) = {dataCh[i] : i \in 1 .. Len(dataCh)}
    BY DEF Range
  <2>4. t \in Seq(Payload) /\ Len(t) = Len(dataCh) - 1
    BY <2>1, Zenon
  <2> HIDE DEF t
  <2>5. Range(t) = {t[i] : i \in 1 .. Len(dataCh) - 1}
    BY <2>4 DEF Range
  <2>9. ASSUME NEW i \in 1 .. Len(dataCh) PROVE dataCh[i] \in {dataCh[1]} \cup Range(t)
    <3>1. CASE i # 1
      <4>1. i - 1 \in 1 .. Len(dataCh) - 1 /\ t[i - 1] = dataCh[i]
        BY <3>1 DEF t
      <4> QED BY <4>1, <2>5, Zenon
    <3> QED BY <3>1, Zenon
  <2> QED BY <2>3, <2>9, <2>1, <2>5 DEF t
<1> QED BY <1>1, <1>2, Zenon DEF delivered, sentData, encVars, Range

ServiceInv == TypeInv /\ DeliveredSent /\ \E s \in Starts : StreamInv(s)

(* Every step of the code is a Send, a Deliver or neither.                 *)
LEMMA ServiceStep ==
  ASSUME ShortStream, ServiceInv, [Next]_vars
  PROVE  \/ /\ \E m \in sentData' \ sentData : sentData' = sentData \cup {m}
            /\ delivered' = delivered
         \/ /\ delivered \subseteq delivered' /\ delivered' \subseteq sentData
            /\ sentData' = sentData
<1>1. PICK s \in Starts : StreamInv(s)
  BY Zenon DEF ServiceInv
<1>2. TypeInv /\ DeliveredSent /\ NetInv(s)
  BY <1>1, Zenon DEF ServiceInv, StreamInv
<1>3. CASE EncodeData
  BY <1>2, <1>3, EncodeNet, Zenon DEF EncodeData, decVars, delivered, Range
<1>4. CASE readRecovered
  BY <1>2, <1>4, ReadDelivers, Zenon DEF DeliveredSent
<1>5. ASSUME NEW pkt \in net, decode(pkt)
      PROVE  sentData' = sentData /\ delivered \subseteq delivered' /\ delivered' \subseteq sentData
  BY <1>1, <1>2, <1>5, DecodeDelivers
<1>6. CASE UNCHANGED vars
  BY <1>6, <1>2, Zenon DEF vars, encVars, decVars, sentData, delivered, Range, DeliveredSent
<1> QED BY <1>3, <1>4, <1>5, <1>6, Zenon DEF Next

LEMMA Serving ==
  ASSUME ShortStream
  PROVE  Spec => []ServiceInv
<1>1. Init => ServiceInv
  <2>1. Init => delivered = {}
    BY DEF Init, delivered, Range
  <2> QED BY <2>1, InitType, InitStream, Zenon DEF ServiceInv, DeliveredSent
<1>2. ServiceInv /\ [Next]_vars => ServiceInv'
  BY NextType, NextStream, ServiceStep, Zenon DEF ServiceInv, DeliveredSent
<1> QED BY <1>1, <1>2, PTL DEF Spec

(* The encoder, a network that loses, repeats and reorders, and the        *)
(* decoder implement the datagram service (IsDatagramService): DecodeData  *)
(* returns no payload that EncodeData was not given.                       *)
THEOREM ImplementsDatagram ==
  ASSUME ShortStream
  PROVE  Spec => IsDatagramService
<1>1. Init => Service!Init
  BY DEF Init, sentData, delivered, Range, Service!Init
<1>2. ServiceInv /\ [Next]_vars => [Service!Next]_(Service!vars)
  BY ServiceStep, Zenon DEF Service!Next, Service!Send, Service!Deliver, Service!vars, sentData, delivered
<1> QED BY <1>1, <1>2, Serving, PTL DEF Spec, IsDatagramService, Service!Spec

-----------------------------------------------------------------------------
(* Recovery                                                                *)
ofGroup(S, g) == {p \in S : p.group = g}

Done(g) == \A k \in 0 .. DataShards - 1 : [group |-> g, shard |-> k] \in delivered

(* A group none of whose packets rxlimit has taken is either delivered or  *)
(* short of DataShards packets, all of which are in the queue.             *)
Waiting(S, q, g) ==
  /\ ofGroup(S, g) \subseteq members(q)
  /\ IsFiniteSet(ofGroup(S, g)) /\ Cardinality(ofGroup(S, g)) < DataShards
RecoverInv ==
  /\ \A p \in seen : p.flag = "data" => payloadOf(p) \in out
  /\ \A g \in Nat : g \notin evicted => Done(g) \/ Waiting(seen, rx, g)

LEMMA DuplicateInQueue ==
  ASSUME ShortStream, NEW s \in Starts, InTurn(s, rx), NEW pkt \in Stream(s), isDuplicate(pkt)
  PROVE  pkt \in members(rx)
<1>2. stopIdx(pkt) \in 1 .. Len(rx) /\ rx[stopIdx(pkt)].seqid = pkt.seqid
  BY StopIdxProps DEF isDuplicate, InTurn, Stream
<1> QED BY <1>2, TurnOrder, Zenon DEF members, InTurn

(* A group that has enough packets is delivered.                           *)
LEMMA GroupDelivered ==
  ASSUME ShortStream, TypeInv, NEW s \in Starts, InTurn(s, rx), members(rx) \subseteq seen, RecoverInv,
         NEW pkt \in Stream(s), pkt \in net, decode(pkt), ~isDuplicate(pkt),
         complete(pkt) \/ repairable(pkt)
  PROVE  Done(pkt.group)'
<1>1. /\ out' = IF pkt.flag = "data" THEN out \cup {payloadOf(pkt)} ELSE out
      /\ dataCh' = decoded(pkt).recovered
  BY DecodeEffect, Zenon
<1>2. delivered' = out' \cup Range(dataCh')
  BY Zenon DEF delivered, Range
<1>4. ASSUME NEW p \in shardsOf(pkt), p.flag = "data"
      PROVE  [group |-> pkt.group, shard |-> p.shard] \in delivered'
  <2>1. p.group = pkt.group /\ (p = pkt \/ p \in members(rx))
    <3>1. shardsOf(pkt) = {x \in members(rx) \cup {pkt} : x.group = pkt.group}
      BY ShardsOfGroup, Zenon
    <3> QED BY <1>4, <3>1, Zenon
  <2> QED BY <1>1, <1>2, <1>4, <2>1, Zenon DEF RecoverInv, payloadOf
<1>5. SUFFICES ASSUME NEW k \in 0 .. DataShards - 1
      PROVE  [group |-> pkt.group, shard |-> k] \in delivered'
  BY Zenon DEF Done
<1>6. CASE complete(pkt)
  <2>1. PICK p \in shardsOf(pkt) : p.flag = "data" /\ p.shard = k
    BY <1>6, EnoughFound, Zenon
  <2> QED BY <2>1, <1>4, Zenon
<1>7. CASE repairable(pkt) /\ k \notin lostOf(pkt)
  <2>1. PICK p \in shardsOf(pkt) : place(p) = k
    BY <1>7, Zenon DEF lostOf
  <2>2. p.shard = k /\ p \in Stream(s)
    BY <1>7, <2>1, ShardsOfGroup, Zenon
  <2>3. p.flag = "data"
    <3>1. p.flag = (IF p.shard < DataShards THEN "data" ELSE "fec") /\ k < DataShards
      BY <2>2, SizeFacts DEF Stream
    <3> QED BY <2>2, <3>1, Zenon
  <2> QED BY <1>4, <2>1, <2>2, <2>3, Zenon
<1>8. CASE repairable(pkt) /\ k \in lostOf(pkt)
  <2> DEFINE L == lostOf(pkt)
             r == [i \in 1 .. Cardinality(L) |-> ReconstructData(shardsOf(pkt), nth(L, i))]
  <2>1. Decode(pkt) = [rx |-> freed(pkt), recovered |-> r]
    BY <1>8, DecodeCases, Zenon
  <2>3. IsFiniteSet(L) /\ L \subseteq Nat
    <3>1. IsFiniteSet(L)
      BY FoundType, Zenon DEF InTurn, Stream
    <3> QED BY <3>1 DEF lostOf
  <2>4. PICK i \in 1 .. Cardinality(L) : nth(L, i) = k
    BY <1>8, <2>3, NthProps, Zenon
  <2>6. i \in DOMAIN r /\ r[i] = [group |-> pkt.group, shard |-> k]
    BY <2>4, ShardsOfGroup, Zenon
  <2>7. dataCh' = r
    <3> HIDE DEF r
    <3> QED BY <1>1, <2>1, DecodedIs
  <2>8. r[i] \in Range(r)
    <3> HIDE DEF r
    <3> QED BY <2>6, Zenon DEF Range
  <2> HIDE DEF r, L
  <2> QED BY <1>2, <2>6, <2>7, <2>8, Zenon
<1> QED BY <1>6, <1>7, <1>8, Zenon

(* What Decode does to a group, before rxlimit.                            *)
LEMMA DecodeWaits ==
  ASSUME ShortStream, TypeInv, NEW s \in Starts, StreamInv(s), DeliveredSent, RecoverInv,
         NEW pkt \in net, decode(pkt), NEW g \in Nat, g \notin evicted
  PROVE  Done(g)' \/ Waiting(seen', decoded(pkt).rx, g)
<1> DEFINE r == decoded(pkt).rx
<1>1. InTurn(s, rx) /\ members(rx) \subseteq seen /\ pkt \in Stream(s)
  BY NetInStream, Zenon DEF StreamInv
<1>2. seen' = seen \cup {pkt}
  BY DecodeEffect, Zenon
<1>5. SUFFICES ASSUME ~Done(g) PROVE Done(g)' \/ Waiting(seen', r, g)
  BY DecodeDelivers, Zenon DEF Done
<1>6. Waiting(seen, rx, g)
  BY <1>5, Zenon DEF RecoverInv
<1>7. CASE isDuplicate(pkt)
  <2>1. pkt \in members(rx)
    BY <1>1, <1>7, DuplicateInQueue, Zenon
  <2>2. seen' = seen /\ r = rx
    BY <1>1, <1>2, <1>7, <2>1, Zenon DEF decoded
  <2> QED BY <1>6, <2>2, Zenon
<1>8. CASE ~isDuplicate(pkt) /\ g # pkt.group
  <2>3. ofGroup(seen, g) \subseteq members(r)
    <3>1. ofGroup(seen, g) \subseteq members(rx)
      BY <1>6, Zenon DEF Waiting
    <3>2. CASE complete(pkt) \/ repairable(pkt)
      <4>1. members(r) = {p \in members(rx) : p.group # pkt.group}
        BY <1>1, <1>8, <3>2, DecodedQueue
      <4> QED BY <1>8, <3>1, <4>1, Zenon DEF ofGroup
    <3>3. CASE ~complete(pkt) /\ ~repairable(pkt)
      <4>1. members(r) = members(rx) \cup {pkt}
        BY <1>1, <1>8, <3>3, DecodedQueue, Zenon
      <4> QED BY <3>1, <4>1, Zenon
    <3> QED BY <3>2, <3>3, Zenon
  <2> QED BY <1>6, <2>3, <1>2, <1>8, Zenon DEF Waiting, ofGroup
<1>9. CASE ~isDuplicate(pkt) /\ g = pkt.group /\ (complete(pkt) \/ repairable(pkt))
  BY <1>1, <1>9, GroupDelivered, Zenon
<1>10. CASE ~isDuplicate(pkt) /\ g = pkt.group /\ ~complete(pkt) /\ ~repairable(pkt)
  <2>1. members(r) = members(rx) \cup {pkt}
    BY <1>1, <1>10, DecodedQueue, Zenon
  <2>2. shardsOf(pkt) = {p \in members(rx) \cup {pkt} : p.group = pkt.group}
    BY <1>1, <1>10, ShardsOfGroup, Zenon
  <2>3. ofGroup(seen', g) = shardsOf(pkt)
    BY <1>1, <1>2, <1>6, <1>10, <2>2, Zenon DEF Waiting, ofGroup
  <2>4. IsFiniteSet(shardsOf(pkt)) /\ Cardinality(shardsOf(pkt)) = Cardinality(found(pkt))
    BY <1>1, <1>10, ShardNumbers, Zenon
  <2>5. ~(Cardinality(found(pkt)) >= DataShards)
    BY <1>1, <1>10, EnoughFound, Zenon
  <2>6. Cardinality(found(pkt)) \in Nat /\ DataShards \in Nat
    BY <2>4, FS_CardinalityType, SizeFacts
  <2> HIDE DEF r
  <2> QED BY <2>1, <2>2, <2>3, <2>4, <2>5, <2>6 DEF Waiting
<1> QED BY <1>7, <1>8, <1>9, <1>10, Zenon

LEMMA DecodeRecovers ==
  ASSUME ShortStream, TypeInv, NEW s \in Starts, StreamInv(s), DeliveredSent, RecoverInv,
         NEW pkt \in net, decode(pkt)
  PROVE  RecoverInv'
<1> DEFINE r == decoded(pkt).rx
<1>2. /\ rx' = keepRxlimit(r)
      /\ evicted' = IF Len(r) > RxLimit THEN evicted \cup {r[1].group} ELSE evicted
      /\ seen' = seen \cup {pkt}
      /\ out' = IF pkt.flag = "data" THEN out \cup {payloadOf(pkt)} ELSE out
  BY DecodeEffect, Zenon
<1>4. /\ Len(r) > RxLimit => \A p \in members(r) : p = r[1] \/ p \in members(keepRxlimit(r))
      /\ ~(Len(r) > RxLimit) => keepRxlimit(r) = r
  BY KeepProps, DecodedQueue, NetInStream, Zenon DEF StreamInv
<1>5. \A p \in seen' : p.flag = "data" => payloadOf(p) \in out'
  BY <1>2, Zenon DEF RecoverInv
<1>6. ASSUME NEW g \in Nat, g \notin evicted' PROVE Done(g)' \/ Waiting(seen', rx', g)
  <2>1. g \notin evicted
    BY <1>2, <1>6, Zenon
  <2>2. Done(g)' \/ Waiting(seen', r, g)
    BY <2>1, DecodeWaits, Zenon
  <2> HIDE DEF r
  <2>3. CASE Waiting(seen', r, g)
    BY <1>2, <1>6, <1>4, <2>3, Zenon DEF Waiting, ofGroup
  <2> QED BY <2>2, <2>3, Zenon
<1> QED BY <1>5, <1>6, Zenon DEF RecoverInv, Waiting, ofGroup, members, payloadOf

LEMMA ReadRecovers ==
  ASSUME TypeInv, RecoverInv, readRecovered
  PROVE  RecoverInv'
<1>2. rx' = rx /\ seen' = seen /\ evicted' = evicted /\ out' = out \cup {Head(dataCh)}
  BY Zenon DEF readRecovered
<1> QED BY <1>2, ReadDelivers, Zenon DEF RecoverInv, payloadOf, Waiting, ofGroup, members, Done

RecoveryInv == ServiceInv /\ RecoverInv

LEMMA RecoverySame ==
  ASSUME RecoverInv, UNCHANGED decVars
  PROVE  RecoverInv'
<1>1. rx' = rx /\ seen' = seen /\ evicted' = evicted /\ out' = out /\ dataCh' = dataCh
  BY Zenon DEF decVars
<1>3. \A g : Done(g)' <=> Done(g)
  BY <1>1 DEF Done, delivered, Range
<1> QED BY <1>1, <1>3, Zenon DEF RecoverInv, payloadOf, Waiting, ofGroup, members

LEMMA Recovering ==
  ASSUME ShortStream
  PROVE  Spec => []RecoveryInv
<1>1. Init => RecoverInv
  BY FS_EmptySet, SizeFacts DEF Init, ofGroup, Waiting, RecoverInv
<1>2. RecoverInv /\ ServiceInv /\ [Next]_vars => RecoverInv'
  <2>1. SUFFICES ASSUME RecoverInv, ServiceInv, [Next]_vars PROVE RecoverInv'
    BY Zenon
  <2>2. TypeInv /\ DeliveredSent
    BY <2>1, Zenon DEF ServiceInv
  <2>3. PICK s \in Starts : StreamInv(s)
    BY <2>1, Zenon DEF ServiceInv
  <2>4. CASE EncodeData
    BY <2>1, <2>4, RecoverySame, Zenon DEF EncodeData
  <2>5. CASE readRecovered
    BY <2>1, <2>2, <2>5, ReadRecovers, Zenon
  <2>6. ASSUME NEW pkt \in net, decode(pkt) PROVE RecoverInv'
    BY <2>1, <2>2, <2>3, <2>6, DecodeRecovers, Zenon
  <2>7. CASE UNCHANGED vars
    BY <2>1, <2>7, RecoverySame, Zenon DEF vars
  <2> QED BY <2>1, <2>4, <2>5, <2>6, <2>7, Zenon DEF Next
<1> QED BY <1>1, <1>2, Serving, PTL DEF Spec, RecoveryInv

(* Any DataShards packets of a group, in whatever order and among whatever *)
(* others, give back all of its data, unless rxlimit has taken one of them *)
(* (EnoughShardsRecover).                                                  *)
THEOREM EnoughRecover ==
  ASSUME ShortStream
  PROVE  Spec => []EnoughShardsRecover
<1>1. RecoveryInv => EnoughShardsRecover
  <2>1. SUFFICES ASSUME RecoveryInv, NEW g \in 0 .. group, g \notin evicted,
                        Cardinality(ofGroup(seen, g)) >= DataShards,
                        NEW k \in 0 .. DataShards - 1
                 PROVE  \/ [group |-> g, shard |-> k] \in out
                        \/ \E i \in DOMAIN dataCh : dataCh[i] = [group |-> g, shard |-> k]
    BY Zenon DEF EnoughShardsRecover, ofGroup
  <2>4. Done(g)
    BY <2>1, SizeFacts, FS_CardinalityType DEF RecoveryInv, RecoverInv, ServiceInv, TypeInv, TypeOK, Waiting
  <2> QED BY <2>4, Zenon DEF Range, Done, delivered
<1> QED BY <1>1, Recovering, PTL
=============================================================================
