--------------------------- MODULE ListenersProofs ---------------------------
(***************************************************************************)
(* Proofs about Listeners: the connections of each listener come through   *)
(* the shared connChan as through an accept queue of their own.            *)
(*                                                                         *)
(* The mapping takes from connChan the connections of one listener         *)
(* (`only`); the lemmas about sequences say how that part changes at the   *)
(* two ends of the channel.                                                *)
(***************************************************************************)
EXTENDS Listeners, FiniteSetTheorems, SequenceTheorems, TLAPS

-----------------------------------------------------------------------------
(* Sequences                                                               *)
LEMMA TailProps ==
  ASSUME NEW T, NEW a \in Seq(T), a # <<>>
  PROVE  /\ Len(a) \in Nat \ {0} /\ Head(a) = a[1] /\ Head(a) \in T
         /\ Tail(a) \in Seq(T) /\ Len(Tail(a)) = Len(a) - 1
         /\ \A j \in 1 .. Len(a) - 1 : Tail(a)[j] = a[j + 1]
OBVIOUS

LEMMA One ==
  ASSUME NEW T, NEW e \in T
  PROVE  <<e>> \in Seq(T) /\ Len(<<e>>) = 1 /\ <<e>>[1] = e
OBVIOUS

(* A sequence is its head and its tail.                                    *)
LEMMA HeadAndTail ==
  ASSUME NEW T, NEW a \in Seq(T), NEW e \in T
  PROVE  /\ <<e>> \o a # <<>> /\ Head(<<e>> \o a) = e /\ Tail(<<e>> \o a) = a
         /\ a # <<>> => a = <<Head(a)>> \o Tail(a)
<1> DEFINE x == <<e>> \o a
<1>1. <<e>> \in Seq(T) /\ Len(<<e>>) = 1 /\ <<e>>[1] = e /\ Len(a) \in Nat
  BY One
<1>2. /\ x \in Seq(T) /\ Len(x) = 1 + Len(a)
      /\ \A j \in 1 .. 1 + Len(a) : x[j] = IF j <= 1 THEN <<e>>[j] ELSE a[j - 1]
  BY <1>1, ConcatProperties, Zenon
<1> HIDE DEF x
<1>3. x # <<>> /\ x[1] = e
  BY <1>1, <1>2
<1>4. /\ Head(x) = x[1] /\ Tail(x) \in Seq(T) /\ Len(Tail(x)) = Len(a)
      /\ \A j \in 1 .. Len(a) : Tail(x)[j] = x[j + 1]
  BY <1>1, <1>2, <1>3, TailProps
<1>6. Tail(x) = a
  BY <1>1, <1>4, SeqEqual, <1>2
<1>7. ASSUME a # <<>> PROVE a = <<Head(a)>> \o Tail(a)
  <2> DEFINE h == Head(a)
             t == Tail(a)
             y == <<h>> \o t
  <2>1. /\ Len(a) \in Nat \ {0} /\ h = a[1] /\ h \in T
        /\ t \in Seq(T) /\ Len(t) = Len(a) - 1
        /\ \A j \in 1 .. Len(a) - 1 : t[j] = a[j + 1]
    BY <1>7, TailProps, Zenon
  <2> HIDE DEF h, t
  <2>2. <<h>> \in Seq(T) /\ Len(<<h>>) = 1 /\ <<h>>[1] = h
    BY <2>1, One, Zenon
  <2>3. /\ y \in Seq(T) /\ Len(y) = 1 + Len(t)
        /\ \A j \in 1 .. 1 + Len(t) : y[j] = IF j <= 1 THEN <<h>>[j] ELSE t[j - 1]
    BY <2>1, <2>2, ConcatProperties
  <2> HIDE DEF y
  <2>5. ASSUME NEW j \in 1 .. Len(a) PROVE y[j] = a[j]
    <3>1. CASE j = 1
      BY <2>1, <2>2, <2>3, <3>1
    <3>2. CASE j > 1
      <4> QED BY <2>1, <2>3, <3>2
    <3> QED BY <2>1, <3>1, <3>2
  <2> QED BY <2>3, <2>5, SeqEqual, <2>1 DEF y, h, t
<1> QED BY <1>3, <1>4, <1>6, <1>7, Zenon DEF x

(* What becomes of the three parts of `pending` put together.              *)
LEMMA EndGrows ==
  ASSUME NEW T, NEW a \in Seq(T), NEW q \in Seq(T), NEW e \in T
  PROVE  a \o Append(q, e) = Append(a \o q, e)
<1> QED BY ConcatAssociative, AppendIsConcat, One, ConcatProperties

(* Three sequences may be put together from either end.                    *)
Joined(a, b, c) == (a \o b) \o c = a \o (b \o c)

LEMMA Joins ==
  ASSUME NEW T, NEW a \in Seq(T), NEW b \in Seq(T), NEW c \in Seq(T)
  PROVE  Joined(a, b, c)
BY ConcatAssociative DEF Joined

LEMMA HandTakesHead ==
  ASSUME NEW T, NEW a \in Seq(T), NEW q \in Seq(T), q # <<>>
  PROVE  a \o <<>> \o q = a \o <<Head(q)>> \o Tail(q)
<1>1. Head(q) \in T /\ Tail(q) \in Seq(T) /\ q = <<Head(q)>> \o Tail(q)
  BY TailProps, HeadAndTail
<1>2. <<Head(q)>> \in Seq(T) /\ a \o <<>> = a
  BY <1>1, One, ConcatEmptySeq, Zenon
<1> DEFINE h == <<Head(q)>>
           t == Tail(q)
<1>3. h \in Seq(T) /\ t \in Seq(T)
  BY <1>1, <1>2, Zenon
<1> HIDE DEF h, t
<1>4. Joined(a, h, t)
  BY <1>3, Joins
<1> QED BY <1>1, <1>2, <1>4, Zenon DEF Joined, h, t

(* Moving the connection in hand to the end of the channel changes nothing.*)
Moved(a, e, q) == a \o <<e>> \o q = Append(a, e) \o <<>> \o q

LEMMA HandSends ==
  ASSUME NEW T, NEW a \in Seq(T), NEW q, NEW e \in T
  PROVE  Moved(a, e, q)
<1> QED BY ConcatEmptySeq, One, AppendIsConcat, ConcatProperties DEF Moved

(* e is the head of x and t its tail.                                      *)
Splits(x, e, t) == x # <<>> /\ Head(x) = e /\ Tail(x) = t

LEMMA HeadLeaves ==
  ASSUME NEW a \in Seq(Conns), NEW h \in Seq(Conns), NEW q \in Seq(Conns), NEW e \in Conns
  PROVE  Splits((<<e>> \o a) \o h \o q, e, a \o h \o q)
<1> DEFINE w == (a \o h) \o q
           x == (<<e>> \o a) \o h \o q
<1>1. <<e>> \in Seq(Conns) /\ a \o h \in Seq(Conns) /\ w \in Seq(Conns)
  BY One, ConcatProperties, Zenon
<1>2. x = <<e>> \o w
  <2> DEFINE o == <<e>>
             b == a \o h
  <2>1. o \in Seq(Conns) /\ b \in Seq(Conns)
    BY <1>1, Zenon
  <2> HIDE DEF o, b
  <2>2. Joined(o, a, h) /\ Joined(o, b, q)
    BY <2>1, Joins
  <2> QED BY <2>2, Zenon DEF Joined, o, b
<1> HIDE DEF w, x
<1>3. <<e>> \o w # <<>> /\ Head(<<e>> \o w) = e /\ Tail(<<e>> \o w) = w
  BY <1>1, HeadAndTail
<1> QED BY <1>2, <1>3, Zenon DEF w, x, Splits

-----------------------------------------------------------------------------
(* nth: the elements of a set of numbers, in increasing order              *)
LEMMA NthProps ==
  ASSUME NEW S, S \subseteq Nat, IsFiniteSet(S)
  PROVE  /\ Cardinality(S) \in Nat
         /\ \A i \in 1 .. Cardinality(S) : nth(S, i) \in S
         /\ \A i, j \in 1 .. Cardinality(S) : i < j => nth(S, i) < nth(S, j)
         /\ \A k \in S : \E i \in 1 .. Cardinality(S) : nth(S, i) = k
         /\ \A k \in S : \A i \in Nat :
              Cardinality({j \in S : j < k}) = i - 1 => nth(S, i) = k
<1> DEFINE below(k) == {j \in S : j < k}
           rank == [k \in S |-> Cardinality(below(k)) + 1]
<1>1. Cardinality(S) \in Nat
  BY FS_CardinalityType, Zenon
<1>2. ASSUME NEW k \in S
      PROVE  /\ IsFiniteSet(below(k)) /\ Cardinality(below(k)) \in Nat
             /\ rank[k] \in 1 .. Cardinality(S)
  BY FS_Subset, <1>1, FS_CardinalityType
<1>3. ASSUME NEW j \in S, NEW k \in S, j < k
      PROVE  Cardinality(below(j)) < Cardinality(below(k))
  <2>1. below(j) \in SUBSET below(k) /\ below(k) # below(j)
    <3>1. j \in Nat /\ k \in Nat
      BY Zenon
    <3>2. j \in below(k) /\ j \notin below(j)
      BY <1>3, <3>1
    <3>3. \A i \in S : i < j => i < k
      BY <1>3, <3>1
    <3> QED BY <3>2, <3>3, Zenon
  <2> QED BY <1>2, <2>1, FS_Subset
<1>4. \A j, k \in S : rank[j] = rank[k] => j = k
  BY <1>2, <1>3
<1>5. rank \in Injection(S, 1 .. Cardinality(S))
  BY <1>2, <1>4, Zenon DEF Injection, IsInjective
<1>6. rank \in Surjection(S, 1 .. Cardinality(S))
  <2>1. IsFiniteSet(1 .. Cardinality(S)) /\ Cardinality(1 .. Cardinality(S)) = Cardinality(S)
    BY <1>1, FS_Interval
  <2> HIDE DEF rank
  <2> QED BY <1>5, <2>1, FS_Injection, Zenon
<1>7. ASSUME NEW i \in 1 .. Cardinality(S)
      PROVE  nth(S, i) \in S /\ rank[nth(S, i)] = i
  <2>1. PICK k \in S : rank[k] = i
    BY <1>6, Zenon DEF Surjection
  <2>2. Cardinality(below(k)) = i - 1
    BY <2>1, <1>2
  <2>3. nth(S, i) \in S /\ Cardinality(below(nth(S, i))) = i - 1
    BY <2>2, Zenon DEF nth
  <2> QED BY <2>3
<1>8. ASSUME NEW k \in S
      PROVE  \E i \in 1 .. Cardinality(S) : nth(S, i) = k
  <2> HIDE DEF rank
  <2> QED BY <1>2, <1>4, <1>7, Zenon
<1>9. ASSUME NEW i \in 1 .. Cardinality(S), NEW j \in 1 .. Cardinality(S), i < j
      PROVE  nth(S, i) < nth(S, j)
  <2> DEFINE a == nth(S, i)
             b == nth(S, j)
  <2>1. a \in S /\ b \in S /\ rank[a] = i /\ rank[b] = j
    BY <1>7, Zenon
  <2> HIDE DEF a, b
  <2>2. ASSUME b < a PROVE FALSE
    <3> QED BY <1>1, <1>9, <2>1, <2>2, <1>2, <1>3
  <2>3. ASSUME a = b PROVE FALSE
    BY <1>1, <1>9, <2>1, <2>3
  <2>4. a < b
    BY <2>1, <2>2, <2>3
  <2> QED BY <2>4, Zenon DEF a, b
<1>10. ASSUME NEW k \in S, NEW i \in Nat, Cardinality(below(k)) = i - 1
       PROVE  nth(S, i) = k
  <2>1. nth(S, i) \in S /\ Cardinality(below(nth(S, i))) = i - 1
    BY <1>10, Zenon DEF nth
  <2> HIDE DEF below
  <2> QED BY <1>4, <1>10, <2>1, Zenon
<1> QED BY <1>1, <1>7, <1>8, <1>9, <1>10, Zenon

(* f lists the n elements of S in increasing order.                        *)
Enumerates(f, n, S) ==
  /\ n \in Nat /\ f \in [1 .. n -> S]
  /\ \A i, j \in 1 .. n : i < j => f[i] < f[j]
  /\ \A k \in S : \E i \in 1 .. n : f[i] = k

(* There is one such list, the one nth gives.                              *)
LEMMA Enumerated ==
  ASSUME NEW S, S \subseteq Nat, NEW n, NEW f, Enumerates(f, n, S)
  PROVE  /\ IsFiniteSet(S) /\ Cardinality(S) = n
         /\ \A i \in 1 .. n : nth(S, i) = f[i]
<1> USE DEF Enumerates
<1>1. \A i, j \in 1 .. n : f[i] = f[j] => i = j
  <2> SUFFICES ASSUME NEW i \in 1 .. n, NEW j \in 1 .. n, f[i] = f[j], i # j PROVE FALSE
    BY Zenon
  <2>2. f[i] \in Nat
    BY Zenon
  <2> QED BY <2>2
<1>3. ExistsBijection(1 .. n, S)
  BY <1>1, Zenon DEF ExistsBijection, Bijection, Injection, Surjection, IsInjective
<1>4. IsFiniteSet(S) /\ Cardinality(S) = n
  BY <1>3, FS_NatBijection, FS_CountingElements, Zenon
<1>5. ASSUME NEW i \in 1 .. n PROVE nth(S, i) = f[i]
  <2> DEFINE B == {j \in S : j < f[i]}
             g == [j \in 1 .. i - 1 |-> f[j]]
  <2>1. g \in [1 .. i - 1 -> B]
    OBVIOUS
  <2>2. \A k \in B : \E j \in 1 .. i - 1 : g[j] = k
    <3> SUFFICES ASSUME NEW k \in B PROVE \E j \in 1 .. i - 1 : g[j] = k
      BY Zenon
    <3>1. PICK j \in 1 .. n : f[j] = k
      BY Zenon
    <3>2. f[j] \in Nat /\ f[i] \in Nat /\ f[j] < f[i]
      BY <3>1, Zenon
    <3> QED BY <3>1, <3>2
  <2>3. \A j, k \in 1 .. i - 1 : g[j] = g[k] => j = k
    BY <1>1
  <2>4. g \in Bijection(1 .. i - 1, B)
    <3> HIDE DEF g, B
    <3> QED BY <2>1, <2>2, <2>3, Zenon DEF Bijection, Injection, Surjection, IsInjective
  <2>5. i - 1 \in Nat
    OBVIOUS
  <2>6. Cardinality(B) = i - 1
    <3> HIDE DEF g, B
    <3> QED BY <2>5, FS_CountingElements, <2>4, Zenon DEF ExistsBijection
  <2>7. f[i] \in S /\ i \in Nat
    OBVIOUS
  <2>8. \A k \in S : \A m \in Nat :
          Cardinality({j \in S : j < k}) = m - 1 => nth(S, m) = k
    BY <1>4, NthProps, Zenon
  <2> QED BY <2>6, <2>7, <2>8, Zenon
<1> QED BY <1>4, <1>5, Zenon

-----------------------------------------------------------------------------
(* only: the elements of a sequence that are in a set                      *)
At(s, C) == {i \in 1 .. Len(s) : s[i] \in C}

LEMMA AtProps ==
  ASSUME NEW T, NEW s \in Seq(T), NEW C
  PROVE  /\ At(s, C) \subseteq Nat /\ IsFiniteSet(At(s, C))
         /\ Cardinality(At(s, C)) \in Nat
<1>1. At(s, C) \in SUBSET (1 .. Len(s)) /\ Len(s) \in Nat
  BY DEF At
<1>2. IsFiniteSet(1 .. Len(s))
  BY <1>1, FS_Interval
<1> QED BY <1>1, FS_CardinalityType, <1>2, FS_Subset

(* An increasing enumeration of the positions gives the elements.          *)
LEMMA OnlyIs ==
  ASSUME NEW T, NEW s \in Seq(T), NEW C, NEW n, NEW f, Enumerates(f, n, At(s, C))
  PROVE  /\ only(s, C) \in Seq(T) /\ Len(only(s, C)) = n
         /\ \A i \in 1 .. n : only(s, C)[i] = s[f[i]]
<1> DEFINE A == At(s, C)
<1>1. /\ Cardinality(A) = n
      /\ \A i \in 1 .. n : nth(A, i) = f[i]
  BY AtProps, Enumerated, Zenon
<1>2. n \in Nat /\ \A i \in 1 .. n : f[i] \in 1 .. Len(s)
  BY Zenon DEF At, Enumerates
<1>3. only(s, C) = [i \in 1 .. Cardinality(A) |-> s[nth(A, i)]]
  BY Zenon DEF only, At
<1> HIDE DEF A
<1> QED BY <1>2, <1>1, <1>3

(* The enumeration there is.                                               *)
Place(s, C) == [i \in 1 .. Cardinality(At(s, C)) |-> nth(At(s, C), i)]

LEMMA OnlyProps ==
  ASSUME NEW T, NEW s \in Seq(T), NEW C, NEW n, n = Cardinality(At(s, C)),
         NEW f, f = Place(s, C)
  PROVE  /\ Enumerates(f, n, At(s, C))
         /\ only(s, C) \in Seq(T) /\ Len(only(s, C)) = n
         /\ \A i \in 1 .. n : only(s, C)[i] = s[f[i]]
<1> DEFINE A == At(s, C)
<1>1. /\ n \in Nat
      /\ \A i \in 1 .. n : nth(A, i) \in A
      /\ \A i, j \in 1 .. n : i < j => nth(A, i) < nth(A, j)
      /\ \A k \in A : \E i \in 1 .. n : nth(A, i) = k
  BY AtProps, NthProps, Zenon
<1>2. f = [i \in 1 .. n |-> nth(A, i)]
  BY Zenon DEF Place
<1> HIDE DEF A
<1>3. Enumerates(f, n, A)
  BY <1>1, <1>2 DEF Enumerates
<1> QED BY <1>3, OnlyIs DEF A

LEMMA OnlyAppend ==
  ASSUME NEW T, NEW s \in Seq(T), NEW C, NEW e \in T
  PROVE  only(Append(s, e), C) = IF e \in C THEN Append(only(s, C), e) ELSE only(s, C)
<1> DEFINE r == Append(s, e)
           o == only(s, C)
           n == Cardinality(At(s, C))
           f == Place(s, C)
<1>1. /\ n \in Nat /\ f \in [1 .. n -> At(s, C)]
      /\ \A i, j \in 1 .. n : i < j => f[i] < f[j]
      /\ \A k \in At(s, C) : \E i \in 1 .. n : f[i] = k
      /\ o \in Seq(T) /\ Len(o) = n
      /\ \A i \in 1 .. n : o[i] = s[f[i]]
  <2>1. /\ Enumerates(f, n, At(s, C))
        /\ o \in Seq(T) /\ Len(o) = n /\ \A i \in 1 .. n : o[i] = s[f[i]]
    BY OnlyProps
  <2> HIDE DEF n, f, o
  <2> QED BY <2>1, Zenon DEF Enumerates
<1> HIDE DEF n, f
<1>2. /\ r \in Seq(T) /\ Len(r) = Len(s) + 1 /\ r[Len(s) + 1] = e /\ Len(s) \in Nat
      /\ \A i \in 1 .. Len(s) : r[i] = s[i]
  OBVIOUS
<1> HIDE DEF r
<1>3. /\ \A i \in At(s, C) : i \in At(r, C) /\ i \in Nat /\ i <= Len(s) /\ r[i] = s[i]
      /\ \A i \in At(r, C) : i \in At(s, C) \/ (i = Len(s) + 1 /\ e \in C)
      /\ e \in C => Len(s) + 1 \in At(r, C)
  BY <1>2 DEF At
<1> HIDE DEF o
<1>4. ASSUME e \in C PROVE only(r, C) = Append(o, e)
  <2> DEFINE g == [i \in 1 .. n + 1 |-> IF i <= n THEN f[i] ELSE Len(s) + 1]
  <2>1. g \in [1 .. n + 1 -> At(r, C)]
    <3>1. \A i \in 1 .. n + 1 : i <= n => f[i] \in At(r, C)
      BY <1>1, <1>3
    <3> QED BY <3>1, <1>3, <1>4, Zenon
  <2>2. \A i, j \in 1 .. n + 1 : i < j => g[i] < g[j]
    BY <1>1, <1>3, <1>2
  <2>3. \A k \in At(r, C) : \E i \in 1 .. n + 1 : g[i] = k
    <3> SUFFICES ASSUME NEW k \in At(r, C) PROVE \E i \in 1 .. n + 1 : g[i] = k
      BY Zenon
    <3>1. CASE k \in At(s, C)
      <4>1. PICK i \in 1 .. n : f[i] = k
        BY <1>1, <3>1, Zenon
      <4> QED BY <1>1, <4>1
    <3>2. CASE k = Len(s) + 1
      <4> QED BY <1>1, <3>2
    <3> QED BY <1>3, <3>1, <3>2, Zenon
  <2>4. /\ \A i \in 1 .. n : g[i] = f[i]
        /\ g[n + 1] = Len(s) + 1 /\ n + 1 \in Nat
    BY <1>1
  <2> HIDE DEF g
  <2>5. /\ only(r, C) \in Seq(T) /\ Len(only(r, C)) = n + 1
        /\ \A i \in 1 .. n + 1 : only(r, C)[i] = r[g[i]]
    <3>1. Enumerates(g, n + 1, At(r, C))
      BY <2>1, <2>2, <2>3, <2>4, Zenon DEF Enumerates
    <3> QED BY <1>2, <3>1, OnlyIs
  <2>6. /\ Append(o, e) \in Seq(T) /\ Len(Append(o, e)) = n + 1
        /\ \A i \in 1 .. n : Append(o, e)[i] = o[i]
        /\ Append(o, e)[n + 1] = e
    BY <1>1
  <2>7. ASSUME NEW i \in 1 .. n + 1 PROVE only(r, C)[i] = Append(o, e)[i]
    <3>1. CASE i = n + 1
      BY <1>2, <2>4, <2>5, <2>6, <3>1, Zenon
    <3>2. CASE i \in 1 .. n
      <4>1. f[i] \in At(s, C) /\ o[i] = s[f[i]]
        BY <1>1, <3>2, Zenon
      <4>3. only(r, C)[i] = r[g[i]] /\ Append(o, e)[i] = o[i]
        BY <2>5, <2>6, <3>2, Zenon
      <4> QED BY <4>1, <4>3, <1>3, <2>4, <3>2, Zenon
    <3> QED BY <1>1, <3>1, <3>2
  <2> QED BY <2>5, <2>6, <2>7, SeqEqual, Zenon
<1>5. ASSUME e \notin C PROVE only(r, C) = o
  <2>3. /\ only(r, C) \in Seq(T) /\ Len(only(r, C)) = n
        /\ \A i \in 1 .. n : only(r, C)[i] = r[f[i]]
    <3>1. Enumerates(f, n, At(r, C))
      BY <1>1, <1>3, <1>5, Zenon DEF Enumerates
    <3> QED BY <1>2, <3>1, OnlyIs
  <2>4. \A i \in 1 .. n : only(r, C)[i] = o[i]
    BY <1>1, <1>3, <2>3
  <2> QED BY <1>1, <2>3, <2>4, SeqEqual, Zenon
<1> QED BY <1>4, <1>5, Zenon DEF r, o

LEMMA OnlyTail ==
  ASSUME NEW T, NEW s \in Seq(T), NEW C, s # <<>>
  PROVE  only(s, C) = IF Head(s) \in C THEN <<Head(s)>> \o only(Tail(s), C)
                                       ELSE only(Tail(s), C)
<1> DEFINE t == Tail(s)
           o == only(t, C)
           n == Cardinality(At(t, C))
           f == Place(t, C)
<1>1. /\ Len(s) \in Nat \ {0} /\ Head(s) = s[1] /\ s[1] \in T
      /\ t \in Seq(T) /\ Len(t) = Len(s) - 1
      /\ \A j \in 1 .. Len(s) - 1 : t[j] = s[j + 1]
  BY TailProps, Zenon
<1> HIDE DEF t
<1>2. /\ n \in Nat /\ f \in [1 .. n -> At(t, C)]
      /\ \A i, j \in 1 .. n : i < j => f[i] < f[j]
      /\ \A k \in At(t, C) : \E i \in 1 .. n : f[i] = k
      /\ o \in Seq(T) /\ Len(o) = n
      /\ \A i \in 1 .. n : o[i] = t[f[i]]
  <2>1. /\ Enumerates(f, n, At(t, C))
        /\ o \in Seq(T) /\ Len(o) = n /\ \A i \in 1 .. n : o[i] = t[f[i]]
    BY <1>1, OnlyProps
  <2> HIDE DEF n, f, o
  <2> QED BY <2>1, Zenon DEF Enumerates
<1> HIDE DEF n, f, o
<1>3. /\ \A i \in At(t, C) : i \in Nat /\ i > 0 /\ i + 1 \in At(s, C) /\ t[i] = s[i + 1]
      /\ \A i \in At(s, C) : (i = 1 /\ s[1] \in C) \/ (i - 1 \in At(t, C) /\ (i - 1) + 1 = i)
      /\ s[1] \in C => 1 \in At(s, C)
  BY <1>1 DEF At
<1>4. ASSUME s[1] \in C PROVE only(s, C) = <<s[1]>> \o o
  <2> DEFINE g == [i \in 1 .. n + 1 |-> IF i = 1 THEN 1 ELSE f[i - 1] + 1]
             y == <<s[1]>> \o o
  <2>1. g \in [1 .. n + 1 -> At(s, C)]
    BY <1>2, <1>3, <1>4
  <2>2. \A i, j \in 1 .. n + 1 : i < j => g[i] < g[j]
    <3> SUFFICES ASSUME NEW i \in 1 .. n + 1, NEW j \in 1 .. n + 1, i < j
                 PROVE  g[i] < g[j]
      BY Zenon
    <3>1. j - 1 \in 1 .. n /\ f[j - 1] \in At(t, C) /\ g[j] = f[j - 1] + 1
      BY <1>2
    <3>2. f[j - 1] \in Nat /\ f[j - 1] > 0
      BY <1>3, <3>1, Zenon
    <3>3. CASE i = 1
      BY <1>2, <3>1, <3>2, <3>3
    <3>4. CASE i # 1
      <4>1. i - 1 \in 1 .. n /\ f[i - 1] \in At(t, C) /\ g[i] = f[i - 1] + 1 /\ i - 1 < j - 1
        BY <1>2, <3>4
      <4> QED BY <3>1, <3>2, <4>1, <1>2, <1>3
    <3> QED BY <3>3, <3>4, Zenon
  <2>3. \A k \in At(s, C) : \E i \in 1 .. n + 1 : g[i] = k
    <3> SUFFICES ASSUME NEW k \in At(s, C) PROVE \E i \in 1 .. n + 1 : g[i] = k
      BY Zenon
    <3>1. CASE k = 1
      <4> QED BY <1>2, <3>1
    <3>2. CASE k - 1 \in At(t, C) /\ (k - 1) + 1 = k
      <4>1. PICK i \in 1 .. n : f[i] = k - 1
        BY <1>2, <3>2, Zenon
      <4>2. i + 1 \in 1 .. n + 1 /\ (i + 1) - 1 = i /\ i + 1 # 1
        BY <1>2
      <4> QED BY <4>2, <3>2, <4>1, Zenon
    <3> QED BY <1>3, <3>1, <3>2, Zenon
  <2>4. /\ \A i \in 2 .. n + 1 : g[i] = f[i - 1] + 1
        /\ g[1] = 1 /\ n + 1 \in Nat
    BY <1>2
  <2> HIDE DEF g
  <2>5. /\ only(s, C) \in Seq(T) /\ Len(only(s, C)) = n + 1
        /\ \A i \in 1 .. n + 1 : only(s, C)[i] = s[g[i]]
    <3>1. Enumerates(g, n + 1, At(s, C))
      BY <2>1, <2>2, <2>3, <2>4, Zenon DEF Enumerates
    <3> QED BY <3>1, OnlyIs
  <2>6. <<s[1]>> \in Seq(T) /\ Len(<<s[1]>>) = 1 /\ <<s[1]>>[1] = s[1]
    BY <1>1, One, Zenon
  <2>7. /\ y \in Seq(T) /\ Len(y) = 1 + n
        /\ \A i \in 1 .. 1 + n : y[i] = IF i <= 1 THEN <<s[1]>>[i] ELSE o[i - 1]
    BY <1>2, <2>6, ConcatProperties
  <2> HIDE DEF y
  <2>8. ASSUME NEW i \in 1 .. n + 1 PROVE only(s, C)[i] = y[i]
    <3>1. CASE i = 1
      BY <2>4, <2>5, <2>6, <2>7, <1>2, <3>1
    <3>2. CASE i # 1
      <4>1. i - 1 \in 1 .. n /\ i \in 2 .. n + 1 /\ i \in 1 .. 1 + n /\ ~(i <= 1)
        BY <1>2, <3>2
      <4>2. f[i - 1] \in At(t, C) /\ o[i - 1] = t[f[i - 1]]
        BY <1>2, <4>1, Zenon
      <4>4. only(s, C)[i] = s[g[i]] /\ y[i] = o[i - 1]
        BY <2>5, <2>7, <4>1, Zenon
      <4> QED BY <4>2, <4>4, <1>3, <2>4, <4>1, Zenon
    <3> QED BY <3>1, <3>2, Zenon
  <2>9. only(s, C) = y
    BY <1>2, <2>5, <2>7, <2>8, SeqEqual
  <2> QED BY <2>9, Zenon DEF y
<1>5. ASSUME s[1] \notin C PROVE only(s, C) = o
  <2> DEFINE g == [i \in 1 .. n |-> f[i] + 1]
  <2>1. g \in [1 .. n -> At(s, C)]
    BY <1>2, <1>3, Zenon
  <2>2. \A i, j \in 1 .. n : i < j => g[i] < g[j]
    BY <1>2, <1>3
  <2>3. \A k \in At(s, C) : \E i \in 1 .. n : g[i] = k
    <3> SUFFICES ASSUME NEW k \in At(s, C) PROVE \E i \in 1 .. n : g[i] = k
      BY Zenon
    <3>1. k - 1 \in At(t, C) /\ (k - 1) + 1 = k
      BY <1>3, <1>5, Zenon
    <3>2. PICK i \in 1 .. n : f[i] = k - 1
      BY <1>2, <3>1, Zenon
    <3> QED BY <3>1, <3>2, Zenon
  <2>4. \A i \in 1 .. n : g[i] = f[i] + 1
    BY Zenon
  <2> HIDE DEF g
  <2>5. /\ only(s, C) \in Seq(T) /\ Len(only(s, C)) = n
        /\ \A i \in 1 .. n : only(s, C)[i] = s[g[i]]
    <3>1. Enumerates(g, n, At(s, C))
      BY <1>2, <2>1, <2>2, <2>3, Zenon DEF Enumerates
    <3> QED BY <3>1, OnlyIs
  <2>6. ASSUME NEW i \in 1 .. n PROVE only(s, C)[i] = o[i]
    <3>1. f[i] \in At(t, C) /\ o[i] = t[f[i]]
      BY <1>2, Zenon
    <3>2. t[f[i]] = s[f[i] + 1]
      BY <1>3, <3>1, Zenon
    <3> QED BY <2>4, <2>5, <3>1, <3>2, Zenon
  <2> QED BY <1>2, <2>5, <2>6, SeqEqual, Zenon
<1> QED BY <1>1, <1>4, <1>5, Zenon DEF o, t

LEMMA OnlyType ==
  ASSUME NEW T, NEW s \in Seq(T), NEW C
  PROVE  only(s, C) \in Seq(T)
BY OnlyProps, Zenon

LEMMA OnlySame ==
  ASSUME NEW s, NEW C, NEW D, \A i \in 1 .. Len(s) : s[i] \in C <=> s[i] \in D
  PROVE  only(s, C) = only(s, D)
<1> QED BY Zenon DEF only, At

LEMMA OnlyEmpty ==
  ASSUME NEW C
  PROVE  only(<<>>, C) = <<>>
<1> QED BY FS_EmptySet DEF only, At

-----------------------------------------------------------------------------
(* The invariant: each FakeConn belongs to the one listener that created   *)
(* it, and what a queue or a forwarder holds is of its listener.           *)
Owned ==
  /\ queue \in [Ls -> Seq(Conns)]
  /\ \A l \in Ls : fwd[l].pc = "send" => fwd[l].conn \in offered[l]
  /\ \A k, l \in Ls : \A c : c \in offered[k] /\ c \in offered[l] => k = l
  /\ \A l \in Ls : \A i \in 1 .. Len(queue[l]) : queue[l][i] \in offered[l]
  /\ \A i \in 1 .. Len(connChan) : \E l \in Ls : connChan[i] \in offered[l]
  /\ \A c \in taken : \E l \in Ls : c \in offered[l]

IInv == TypeOK /\ Owned

LEMMA InitInv == Init => IInv
<1> SUFFICES ASSUME Init PROVE IInv
  BY Zenon
<1> USE ListenersAssumption DEF Init, Ls
<1>1. TypeOK
  <2>2. <<>> \in Seq(Conns) /\ Len(connChan) = 0
    OBVIOUS
  <2>3. \A l \in Ls : queue[l] \in Seq(Conns) /\ Len(queue[l]) <= QueueCap
    BY <2>2
  <2>5. 0 \in 0 .. N /\ 0 \in 0 .. N + 1 /\ 0 <= ChanCap
    OBVIOUS
  <2> QED BY <2>2, <2>3, <2>5, Zenon DEF TypeOK
<1> QED BY <1>1 DEF IInv, Owned

(* The steps that leave connections where they are.                        *)
LEMMA QuietInv ==
  ASSUME IInv,
         Open \/ Accept \/ AcceptFails \/ CtxCancelled \/ Close \/ LoopPanics \/ UNCHANGED vars
  PROVE  IInv'
<1>1. CASE Open
  BY <1>1, ListenersAssumption DEF IInv, TypeOK, Owned, Open, endVars
<1>2. CASE Accept
  <2>3. /\ fwd' \in [Ls -> [pc : {"idle", "accept", "send", "done"}, conn : Conns \cup {None}]]
        /\ \A l \in Ls : fwd'[l].pc = "send" => fwd[l].pc = "send" /\ fwd'[l] = fwd[l]
    BY <1>2, Zenon DEF IInv, TypeOK, Accept, start
  <2> QED BY <2>3, <1>2, Zenon DEF IInv, Owned, TypeOK, Accept, lisVars, endVars
<1>3. CASE AcceptFails
  BY <1>3, Zenon DEF IInv, TypeOK, Owned, AcceptFails, lisVars, endVars
<1>4. CASE CtxCancelled
  BY <1>4, Zenon DEF IInv, TypeOK, Owned, CtxCancelled, lisVars
<1>5. CASE Close
  BY <1>5, ListenersAssumption DEF IInv, TypeOK, Owned, Close, lisVars
<1>6. CASE LoopPanics
  BY <1>6, Zenon DEF IInv, TypeOK, Owned, LoopPanics, lisVars
<1>7. CASE UNCHANGED vars
  BY <1>7, Zenon DEF IInv, TypeOK, Owned, vars, lisVars, endVars
<1> QED BY <1>1, <1>2, <1>3, <1>4, <1>5, <1>6, <1>7, Zenon

LEMMA OfferInv ==
  ASSUME IInv, NEW l \in Ls, Offer(l)
  PROVE  IInv'
<1>1. PICK c \in Conns \ UNION {offered[k] : k \in Ls} :
        /\ offered' = [offered EXCEPT ![l] = @ \cup {c}]
        /\ queue' = [queue EXCEPT ![l] = Append(@, c)]
  BY Zenon DEF Offer
<1>2. \A k \in Ls : c \notin offered[k]
  BY <1>1, Zenon
<1>3. /\ UNCHANGED <<stage, opened, closing, lClosed, ctxDone, crashed, fwd, connChan, calling, taken>>
      /\ Len(queue[l]) < QueueCap
  BY Zenon DEF Offer, endVars
<1>4. /\ queue \in [Ls -> Seq(Conns)] /\ Len(queue[l]) \in Nat /\ queue[l] \in Seq(Conns)
      /\ offered \in [Ls -> SUBSET Conns]
  BY DEF IInv, TypeOK, Owned
<1> DEFINE q == Append(queue[l], c)
<1>5. /\ q \in Seq(Conns) /\ Len(q) = Len(queue[l]) + 1 /\ q[Len(queue[l]) + 1] = c
      /\ \A i \in 1 .. Len(queue[l]) : q[i] = queue[l][i]
  BY <1>4
<1>6. /\ queue' = [queue EXCEPT ![l] = q] /\ queue'[l] = q
      /\ \A k \in Ls : k # l => queue'[k] = queue[k]
  BY <1>1, <1>4, Zenon
<1>7. /\ offered' \in [Ls -> SUBSET Conns]
      /\ offered'[l] = offered[l] \cup {c}
      /\ \A k \in Ls : k # l => offered'[k] = offered[k]
  BY <1>1, <1>4, Zenon
<1> HIDE DEF q
<1>8. TypeOK'
  <2> QED BY <1>3, <1>7, <1>4, <1>5, <1>6, ListenersAssumption DEF IInv, TypeOK
<1>9. Owned'
  <2>1. queue' \in [Ls -> Seq(Conns)]
    BY <1>4, <1>5, <1>6, Zenon
  <2>2. \A j, k \in Ls : \A d : d \in offered'[j] /\ d \in offered'[k] => j = k
    <3> SUFFICES ASSUME NEW j \in Ls, NEW k \in Ls, NEW d,
                        d \in offered'[j], d \in offered'[k]
                 PROVE  j = k
      BY Zenon
    <3>1. CASE d = c
      BY <1>2, <1>7, <3>1, Zenon
    <3>2. CASE d # c
      <4>1. d \in offered[j] /\ d \in offered[k]
        BY <1>7, <3>2, Zenon
      <4> QED BY <4>1, Zenon DEF IInv, Owned
    <3> QED BY <3>1, <3>2, Zenon
  <2>3. \A k \in Ls : \A i \in 1 .. Len(queue'[k]) : queue'[k][i] \in offered'[k]
    BY <1>6, <1>7, <1>5, <1>4 DEF IInv, Owned
  <2>4. \A k \in Ls : offered[k] \subseteq offered'[k]
    BY <1>7, Zenon
  <2> QED BY <1>3, <2>1, <2>2, <2>3, <2>4, Zenon DEF Owned, IInv
<1> QED BY <1>8, <1>9, Zenon DEF IInv

LEMMA ForwardAcceptInv ==
  ASSUME IInv, NEW l \in Ls, ForwardAccept(l)
  PROVE  IInv'
<1> DEFINE q == Tail(queue[l])
           h == Head(queue[l])
<1>1. /\ UNCHANGED <<stage, opened, offered, closing, lClosed, ctxDone, crashed, connChan, calling, taken>>
      /\ queue[l] # <<>>
      /\ fwd' = [fwd EXCEPT ![l] = [pc |-> "send", conn |-> h]]
      /\ queue' = [queue EXCEPT ![l] = q]
  BY Zenon DEF ForwardAccept, endVars
<1>2. /\ queue \in [Ls -> Seq(Conns)] /\ queue[l] \in Seq(Conns) /\ Len(queue[l]) <= QueueCap
      /\ offered \in [Ls -> SUBSET Conns]
      /\ fwd \in [Ls -> [pc : {"idle", "accept", "send", "done"}, conn : Conns \cup {None}]]
  BY Zenon DEF IInv, TypeOK, Owned
<1>3. /\ Len(queue[l]) \in Nat \ {0} /\ h = queue[l][1] /\ h \in Conns
      /\ q \in Seq(Conns) /\ Len(q) = Len(queue[l]) - 1
      /\ \A j \in 1 .. Len(queue[l]) - 1 : q[j] = queue[l][j + 1]
  BY <1>1, <1>2, TailProps, Zenon
<1> HIDE DEF q, h
<1>4. queue'[l] = q /\ \A k \in Ls : k # l => queue'[k] = queue[k]
  BY <1>1, <1>2, Zenon
<1>5. /\ fwd' \in [Ls -> [pc : {"idle", "accept", "send", "done"}, conn : Conns \cup {None}]]
      /\ fwd'[l].conn = h /\ \A k \in Ls : k # l => fwd'[k] = fwd[k]
  BY <1>1, <1>2, <1>3, Zenon
<1>6. TypeOK'
  <2> QED BY <1>1, <1>5, <1>2, <1>3, ListenersAssumption, <1>4 DEF IInv, TypeOK
<1>7. Owned'
  <2>1. \A i \in 1 .. Len(queue[l]) : queue[l][i] \in offered[l]
    BY Zenon DEF IInv, Owned
  <2>2. h \in offered[l] /\ \A i \in 1 .. Len(q) : q[i] \in offered[l]
    BY <1>3, <2>1
  <2> QED BY <1>1, <1>2, <1>3, <1>5, <2>2, <1>4 DEF IInv, Owned
<1> QED BY <1>6, <1>7, Zenon DEF IInv

LEMMA ForwardSendInv ==
  ASSUME IInv, NEW l \in Ls, ForwardSend(l)
  PROVE  IInv'
<1> DEFINE c == fwd[l].conn
           q == Append(connChan, c)
<1>1. /\ UNCHANGED <<stage, opened, offered, queue, closing, lClosed, ctxDone, crashed, calling, taken>>
      /\ fwd[l].pc = "send" /\ Len(connChan) < ChanCap /\ connChan' = q
      /\ fwd' = [fwd EXCEPT ![l] = [pc |-> "accept", conn |-> None]]
  BY Zenon DEF ForwardSend, lisVars, endVars
<1>2. /\ connChan \in Seq(Conns) /\ Len(connChan) \in Nat
      /\ offered \in [Ls -> SUBSET Conns]
      /\ fwd \in [Ls -> [pc : {"idle", "accept", "send", "done"}, conn : Conns \cup {None}]]
  BY DEF IInv, TypeOK
<1>3. c \in offered[l] /\ c \in Conns
  BY <1>1, <1>2, Zenon DEF IInv, Owned
<1> HIDE DEF c
<1>4. /\ q \in Seq(Conns) /\ Len(q) = Len(connChan) + 1 /\ q[Len(connChan) + 1] = c
      /\ \A i \in 1 .. Len(connChan) : q[i] = connChan[i]
  BY <1>2, <1>3
<1> HIDE DEF q
<1>5. /\ fwd' \in [Ls -> [pc : {"idle", "accept", "send", "done"}, conn : Conns \cup {None}]]
      /\ fwd'[l].pc = "accept" /\ \A k \in Ls : k # l => fwd'[k] = fwd[k]
  BY <1>1, <1>2, Zenon
<1>6. TypeOK'
  <2> QED BY <1>1, <1>4, <1>5, <1>2, ListenersAssumption DEF IInv, TypeOK
<1>7. Owned'
  <2>2. ASSUME NEW i \in 1 .. Len(q) PROVE \E k \in Ls : q[i] \in offered[k]
    <3>1. CASE i = Len(connChan) + 1
      BY <1>3, <1>4, <3>1, Zenon
    <3>2. CASE i \in 1 .. Len(connChan)
      BY <1>4, <3>2, Zenon DEF IInv, Owned
    <3> QED BY <1>2, <1>4, <3>1, <3>2
  <2> QED BY <1>1, <2>2, <1>5, Zenon DEF IInv, Owned
<1> QED BY <1>6, <1>7 DEF IInv

LEMMA ForwardEndsInv ==
  ASSUME IInv, NEW l \in Ls, ForwardEnds(l)
  PROVE  IInv'
<1>1. /\ UNCHANGED <<stage, opened, offered, queue, closing, lClosed, ctxDone, crashed,
                     connChan, calling, taken>>
      /\ fwd' = [fwd EXCEPT ![l].pc = "done"]
  BY Zenon DEF ForwardEnds, lisVars, endVars
<1>3. /\ fwd' \in [Ls -> [pc : {"idle", "accept", "send", "done"}, conn : Conns \cup {None}]]
      /\ fwd'[l].pc = "done" /\ \A k \in Ls : k # l => fwd'[k] = fwd[k]
  BY <1>1, Zenon DEF IInv, TypeOK
<1>5. Owned'
  <2> QED BY <1>1, <1>3, Zenon DEF IInv, Owned
<1> QED BY <1>5, <1>1, <1>3, Zenon DEF IInv, TypeOK

LEMMA AcceptReturnsInv ==
  ASSUME IInv, AcceptReturns
  PROVE  IInv'
<1> DEFINE h == Head(connChan)
           t == Tail(connChan)
<1>1. /\ UNCHANGED <<stage, opened, offered, queue, closing, lClosed, ctxDone, crashed, fwd>>
      /\ connChan # <<>> /\ connChan' = t /\ taken' = taken \cup {h} /\ calling' = FALSE
  BY Zenon DEF AcceptReturns, lisVars, endVars
<1>2. connChan \in Seq(Conns) /\ taken \in SUBSET Conns /\ Len(connChan) <= ChanCap
  BY Zenon DEF IInv, TypeOK
<1>3. /\ Len(connChan) \in Nat \ {0} /\ h = connChan[1] /\ h \in Conns
      /\ t \in Seq(Conns) /\ Len(t) = Len(connChan) - 1
      /\ \A j \in 1 .. Len(connChan) - 1 : t[j] = connChan[j + 1]
  BY <1>1, <1>2, TailProps, Zenon
<1> HIDE DEF h, t
<1>4. TypeOK'
  <2>1. Len(t) <= ChanCap
    BY <1>2, <1>3, ListenersAssumption
  <2> QED BY <1>1, <1>3, <2>1, <1>2, Zenon DEF IInv, TypeOK
<1>5. Owned'
  <2>1. \A i \in 1 .. Len(connChan) : \E l \in Ls : connChan[i] \in offered[l]
    BY Zenon DEF IInv, Owned
  <2> QED BY <1>1, <1>3, <2>1 DEF IInv, Owned
<1> QED BY <1>4, <1>5, Zenon DEF IInv

LEMMA NextInv == IInv /\ [Next]_vars => IInv'
<1> SUFFICES ASSUME IInv, [Next]_vars PROVE IInv'
  BY Zenon
<1>1. CASE Open \/ Accept \/ AcceptFails \/ CtxCancelled \/ Close \/ LoopPanics \/ UNCHANGED vars
  BY <1>1, QuietInv, Zenon
<1>2. CASE AcceptReturns
  BY <1>2, AcceptReturnsInv, Zenon
<1>3. ASSUME NEW l \in Ls, Offer(l) \/ Forward(l) PROVE IInv'
  BY <1>3, OfferInv, ForwardAcceptInv, ForwardSendInv, ForwardEndsInv, Zenon DEF Forward
<1> QED BY <1>1, <1>2, <1>3, Zenon DEF Next

LEMMA Invariance == Spec => []IInv
<1> QED BY InitInv, NextInv, PTL DEF Spec

(* No channel of Listeners grows past its capacity, and every field keeps  *)
(* its shape, for any number of addresses, connections and capacities.     *)
THEOREM TypeCorrect == Spec => []TypeOK
<1>1. IInv => TypeOK
  BY Zenon DEF IInv
<1> QED BY <1>1, Invariance, PTL

-----------------------------------------------------------------------------
(* Listeners as the accept queue of each listener                          *)
Hand(l) == IF fwd[l].pc = "send" THEN <<fwd[l].conn>> ELSE <<>>

LEMMA PendingParts ==
  ASSUME IInv, NEW l \in Ls
  PROVE  /\ pending(l) = only(connChan, offered[l]) \o Hand(l) \o queue[l]
         /\ pending(l)' = only(connChan', offered'[l]) \o Hand(l)' \o queue'[l]
         /\ only(connChan, offered[l]) \in Seq(Conns)
         /\ Hand(l) \in Seq(Conns) /\ queue[l] \in Seq(Conns)
<1>5. Hand(l) \in Seq(Conns)
  BY DEF Hand, IInv, TypeOK, Owned
<1> QED BY <1>5, OnlyType, Zenon DEF pending, Hand, IInv, TypeOK

(* A step that moves no connection of l is invisible in its queue.         *)
LEMMA Stutters ==
  ASSUME IInv, NEW l \in Ls, offered'[l] = offered[l], queue'[l] = queue[l],
         Hand(l)' = Hand(l), only(connChan', offered[l]) = only(connChan, offered[l]),
         taken' \cap offered[l] = taken \cap offered[l]
  PROVE  UNCHANGED Through(l)!vars
<1> QED BY PendingParts, Zenon DEF Through!vars

LEMMA QuietStep ==
  ASSUME IInv, NEW l \in Ls,
         Open \/ Accept \/ AcceptFails \/ CtxCancelled \/ Close \/ LoopPanics \/ UNCHANGED vars
  PROVE  UNCHANGED Through(l)!vars
<1>1. UNCHANGED <<offered, queue, connChan, taken>>
  BY Zenon DEF Open, Accept, AcceptFails, CtxCancelled, Close, LoopPanics, vars, lisVars, endVars
<1>2. Hand(l)' = Hand(l)
  <2>1. CASE Accept
    BY <2>1, Zenon DEF Accept, start, Hand, IInv, TypeOK
  <2>2. CASE UNCHANGED fwd
    BY <2>2, Zenon DEF Hand
  <2> QED BY <2>1, <2>2, Zenon DEF Open, AcceptFails, CtxCancelled, Close, LoopPanics, vars, lisVars, endVars
<1> QED BY <1>1, <1>2, Stutters, Zenon

LEMMA OfferStep ==
  ASSUME IInv, NEW k \in Ls, Offer(k), NEW l \in Ls
  PROVE  Through(l)!Next \/ UNCHANGED Through(l)!vars
<1>1. PICK c \in Conns \ UNION {offered[j] : j \in Ls} :
        /\ offered' = [offered EXCEPT ![k] = @ \cup {c}]
        /\ queue' = [queue EXCEPT ![k] = Append(@, c)]
  BY Zenon DEF Offer
<1>2. \A j \in Ls : c \notin offered[j]
  BY <1>1, Zenon
<1>3. UNCHANGED <<fwd, connChan, taken>>
  BY Zenon DEF Offer
<1>4. Hand(l)' = Hand(l)
  BY <1>3, Zenon DEF Hand
<1>5. /\ offered'[k] = offered[k] \cup {c} /\ queue'[k] = Append(queue[k], c)
      /\ \A j \in Ls : j # k => offered'[j] = offered[j] /\ queue'[j] = queue[j]
  BY <1>1 DEF IInv, TypeOK, Owned
<1>6. CASE l # k
  BY <1>3, <1>4, <1>5, <1>6, Stutters, Zenon
<1>7. CASE l = k
  <2> DEFINE a == only(connChan, offered[l])
  <2>1. \A i \in 1 .. Len(connChan) : connChan[i] \in offered[l] <=> connChan[i] \in offered'[l]
    BY <1>2, <1>5, <1>7 DEF IInv, Owned
  <2>2. only(connChan', offered'[l]) = a
    BY <1>3, <2>1, OnlySame, Zenon
  <2>3. /\ pending(l) = a \o Hand(l) \o queue[l]
        /\ pending(l)' = a \o Hand(l) \o Append(queue[l], c)
        /\ a \in Seq(Conns) /\ Hand(l) \in Seq(Conns) /\ queue[l] \in Seq(Conns)
    BY <1>4, <1>5, <1>7, <2>2, PendingParts, Zenon
  <2> HIDE DEF a
  <2>5. pending(l)' = Append(pending(l), c)
    <3> DEFINE b == a \o Hand(l)
               q == queue[l]
    <3>1. c \in Conns /\ b \in Seq(Conns) /\ q \in Seq(Conns)
      BY <2>3, ConcatProperties, Zenon
    <3>2. pending(l) = b \o q /\ pending(l)' = b \o Append(q, c)
      BY <2>3, Zenon
    <3> HIDE DEF b, q
    <3> QED BY <3>2, <3>1, EndGrows
  <2>7. c \in offered'[l] \ offered[l] /\ offered'[l] = offered[l] \cup {c}
    BY <1>2, <1>5, <1>7, Zenon
  <2>8. taken' \cap offered'[l] = taken \cap offered[l]
    BY <1>2, <1>3, <2>7 DEF IInv, Owned
  <2> QED BY <2>5, <2>7, <2>8, Zenon DEF Through!Next, Through!Offer
<1> QED BY <1>6, <1>7, Zenon

LEMMA ForwardAcceptStep ==
  ASSUME IInv, NEW k \in Ls, ForwardAccept(k), NEW l \in Ls
  PROVE  UNCHANGED Through(l)!vars
<1>1. /\ UNCHANGED <<offered, connChan, taken>>
      /\ fwd[k].pc = "accept" /\ queue[k] # <<>>
      /\ fwd' = [fwd EXCEPT ![k] = [pc |-> "send", conn |-> Head(queue[k])]]
      /\ queue' = [queue EXCEPT ![k] = Tail(@)]
  BY Zenon DEF ForwardAccept
<1>2. /\ queue'[k] = Tail(queue[k]) /\ fwd'[k] = [pc |-> "send", conn |-> Head(queue[k])]
      /\ \A j \in Ls : j # k => queue'[j] = queue[j] /\ fwd'[j] = fwd[j]
  BY <1>1 DEF IInv, TypeOK, Owned
<1>3. CASE l # k
  <2>1. Hand(l)' = Hand(l)
    BY <1>2, <1>3, Zenon DEF Hand
  <2> QED BY <1>1, <1>2, <1>3, <2>1, Stutters, Zenon
<1>4. CASE l = k
  <2>1. Hand(l) = <<>> /\ Hand(l)' = <<Head(queue[l])>>
    BY <1>1, <1>2, <1>4 DEF Hand
  <2>2. pending(l)' = pending(l)
    <3> DEFINE a == only(connChan, offered[l])
               q == queue[l]
    <3>1. a \in Seq(Conns) /\ q \in Seq(Conns) /\ pending(l) = a \o <<>> \o q
      BY <2>1, PendingParts, Zenon
    <3>2. pending(l)' = a \o <<Head(q)>> \o Tail(q)
      BY <1>1, <1>2, <1>4, <2>1, PendingParts, Zenon
    <3>3. q # <<>>
      BY <1>1, <1>4, Zenon
    <3> HIDE DEF a, q
    <3>4. a \o <<>> \o q = a \o <<Head(q)>> \o Tail(q)
      BY <3>1, <3>3, HandTakesHead, Zenon
    <3> QED BY <3>1, <3>2, <3>4, Zenon
  <2> QED BY <1>1, <2>2, Zenon DEF Through!vars
<1> QED BY <1>3, <1>4, Zenon

LEMMA ForwardSendStep ==
  ASSUME IInv, NEW k \in Ls, ForwardSend(k), NEW l \in Ls
  PROVE  UNCHANGED Through(l)!vars
<1> DEFINE c == fwd[k].conn
<1>1. /\ UNCHANGED <<offered, queue, taken>>
      /\ fwd[k].pc = "send" /\ connChan' = Append(connChan, c)
      /\ fwd' = [fwd EXCEPT ![k] = [pc |-> "accept", conn |-> None]]
  BY Zenon DEF ForwardSend, lisVars
<1>2. fwd'[k].pc = "accept" /\ \A j \in Ls : j # k => fwd'[j] = fwd[j]
  BY <1>1, Zenon DEF IInv, TypeOK
<1>3. connChan \in Seq(Conns) /\ c \in offered[k] /\ c \in Conns
  BY <1>1, Zenon DEF IInv, TypeOK, Owned
<1>4. CASE l # k
  <2>1. Hand(l)' = Hand(l)
    BY <1>2, <1>4, Zenon DEF Hand
  <2>2. c \notin offered[l]
    BY <1>3, <1>4, Zenon DEF IInv, Owned
  <2> HIDE DEF c
  <2> QED BY <1>1, <2>1, Stutters, <1>3, <2>2, OnlyAppend
<1>5. CASE l = k
  <2>1. Hand(l) = <<c>> /\ Hand(l)' = <<>>
    BY <1>1, <1>2, <1>5, Zenon DEF Hand
  <2> HIDE DEF c
  <2>2. only(connChan', offered[l]) = Append(only(connChan, offered[l]), c)
    BY <1>1, <1>3, <1>5, OnlyAppend
  <2>3. pending(l)' = pending(l)
    <3> DEFINE a == only(connChan, offered[l])
               q == queue[l]
    <3>1. a \in Seq(Conns) /\ pending(l) = a \o <<c>> \o q
      BY <2>1, PendingParts, Zenon
    <3>2. pending(l)' = Append(a, c) \o <<>> \o q
      BY <1>1, <2>1, <2>2, PendingParts, Zenon
    <3> HIDE DEF a, q
    <3>3. Moved(a, c, q)
      BY <1>3, <3>1, HandSends
    <3> QED BY <3>1, <3>2, <3>3, Zenon DEF Moved
  <2> QED BY <1>1, <2>3, Zenon DEF Through!vars
<1> QED BY <1>4, <1>5

LEMMA ForwardEndsStep ==
  ASSUME IInv, NEW k \in Ls, ForwardEnds(k), NEW l \in Ls
  PROVE  UNCHANGED Through(l)!vars
<1> QED BY Stutters, Zenon DEF Hand, IInv, TypeOK, ForwardEnds, lisVars

LEMMA AcceptReturnsStep ==
  ASSUME IInv, AcceptReturns, NEW l \in Ls
  PROVE  Through(l)!Next \/ UNCHANGED Through(l)!vars
<1> DEFINE c == Head(connChan)
           t == Tail(connChan)
<1>1. /\ UNCHANGED <<offered, queue, fwd>>
      /\ connChan # <<>> /\ connChan' = t /\ taken' = taken \cup {c}
  BY Zenon DEF AcceptReturns, lisVars
<1>2. connChan \in Seq(Conns) /\ c \in Conns /\ t \in Seq(Conns)
  BY <1>1, TailProps, Zenon DEF IInv, TypeOK
<1>3. Hand(l)' = Hand(l)
  BY <1>1, Zenon DEF Hand
<1>4. CASE c \notin offered[l]
  BY <1>1, <1>4, <1>3, Stutters, <1>2, OnlyTail, Zenon
<1>5. CASE c \in offered[l]
  <2> DEFINE a == only(t, offered[l])
  <2>1. only(connChan, offered[l]) = <<c>> \o a
    BY <1>1, <1>2, <1>5, OnlyTail, Zenon
  <2>2. a \in Seq(Conns)
    BY <1>2, OnlyType, Zenon
  <2> HIDE DEF c
  <2>3. /\ pending(l) = (<<c>> \o a) \o Hand(l) \o queue[l]
        /\ pending(l)' = a \o Hand(l) \o queue[l]
        /\ Hand(l) \in Seq(Conns) /\ queue[l] \in Seq(Conns)
    BY <1>1, <1>3, <2>1, PendingParts, Zenon
  <2> HIDE DEF a
  <2>4. pending(l) # <<>> /\ Head(pending(l)) = c /\ pending(l)' = Tail(pending(l))
    <3> DEFINE h == Hand(l)
               q == queue[l]
               x == pending(l)
    <3>1. /\ h \in Seq(Conns) /\ q \in Seq(Conns) /\ c \in Conns
          /\ x = (<<c>> \o a) \o h \o q /\ pending(l)' = a \o h \o q
      BY <1>2, <2>3, Zenon
    <3> HIDE DEF h, q, x
    <3>2. x # <<>> /\ Head(x) = c /\ Tail(x) = a \o h \o q
      <4>1. Splits((<<c>> \o a) \o h \o q, c, a \o h \o q)
        BY <2>2, <3>1, HeadLeaves, Zenon
      <4> QED BY <3>1, <4>1, Zenon DEF Splits
    <3> QED BY <3>1, <3>2, Zenon DEF x
  <2> QED BY <1>1, <2>4, <1>5, Zenon DEF Through!Next, Through!Take
<1> QED BY <1>4, <1>5, Zenon

(* Every step of Listeners is, to the connections of each listener, a step *)
(* of its accept queue or none.                                            *)
LEMMA StepThrough ==
  ASSUME IInv, [Next]_vars
  PROVE  \A l \in Ls : Through(l)!Next \/ UNCHANGED Through(l)!vars
<1> SUFFICES ASSUME NEW l \in Ls PROVE Through(l)!Next \/ UNCHANGED Through(l)!vars
  BY Zenon
<1>1. CASE Open \/ Accept \/ AcceptFails \/ CtxCancelled \/ Close \/ LoopPanics \/ UNCHANGED vars
  BY <1>1, QuietStep, Zenon
<1>2. CASE AcceptReturns
  BY <1>2, AcceptReturnsStep, Zenon
<1>3. ASSUME NEW k \in Ls, Offer(k) \/ Forward(k)
      PROVE  Through(l)!Next \/ UNCHANGED Through(l)!vars
  BY <1>3, OfferStep, ForwardAcceptStep, ForwardSendStep, ForwardEndsStep, Zenon DEF Forward
<1> QED BY <1>1, <1>2, <1>3, Zenon DEF Next

(* For any number of addresses and any capacities, Listeners loses,        *)
(* repeats and reorders no connection of a listener: the forwarders and    *)
(* the two channels between the listener and Accept are one accept queue.  *)
THEOREM ImplementsEachQueue == Spec => KeepsEachQueue
<1>1. Init => \A l \in Ls : Through(l)!Init
  BY ConcatEmptySeq, OnlyEmpty DEF Init, pending, Through!Init
<1>2. IInv /\ [Next]_vars => [\A l \in Ls : Through(l)!Next \/ UNCHANGED Through(l)!vars]_vars
  BY StepThrough, Zenon
<1> QED BY <1>1, <1>2, Invariance, PTL DEF Spec, KeepsEachQueue

-----------------------------------------------------------------------------
(* What an accept queue keeps: the connections offered are those taken and *)
(* those waiting, and none of them is there twice.                         *)
Once(o, q, t) ==
  /\ t \subseteq o
  /\ \A i \in 1 .. Len(q) : q[i] \in o /\ q[i] \notin t
  /\ \A i, j \in 1 .. Len(q) : q[i] = q[j] => i = j
  /\ \A c \in o : c \notin t => \E i \in 1 .. Len(q) : q[i] = c

LEMMA OfferOnce ==
  ASSUME NEW T, NEW q \in Seq(T), NEW o, NEW t, Once(o, q, t), NEW c \in T, c \notin o
  PROVE  Once(o \cup {c}, Append(q, c), t)
<1> DEFINE r == Append(q, c)
           n == Len(q)
<1>1. /\ n \in Nat /\ r \in Seq(T) /\ Len(r) = n + 1 /\ r[n + 1] = c
      /\ \A i \in 1 .. n : r[i] = q[i]
  OBVIOUS
<1>2. /\ t \subseteq o
      /\ \A i \in 1 .. n : q[i] \in o /\ q[i] \notin t
      /\ \A i, j \in 1 .. n : q[i] = q[j] => i = j
      /\ \A d \in o : d \notin t => \E i \in 1 .. n : q[i] = d
  BY Zenon DEF Once
<1> HIDE DEF r, n
<1>3. /\ \A i \in 1 .. n + 1 : i \in 1 .. n \/ i = n + 1
      /\ \A i \in 1 .. n : i \in 1 .. n + 1
      /\ n + 1 \in 1 .. n + 1
  BY <1>1
<1>4. \A i \in 1 .. n + 1 : r[i] \in o \cup {c} /\ r[i] \notin t
  BY <1>1, <1>2, <1>3, Zenon
<1>5. ASSUME NEW i \in 1 .. n + 1, NEW j \in 1 .. n + 1, r[i] = r[j] PROVE i = j
  <2>1. CASE i = n + 1 \/ j = n + 1
    BY <1>1, <1>2, <1>3, <1>5, <2>1, Zenon
  <2>2. CASE i \in 1 .. n /\ j \in 1 .. n
    BY <1>1, <1>2, <1>5, <2>2, Zenon
  <2> QED BY <1>3, <2>1, <2>2, Zenon
<1>6. \A d \in o \cup {c} : d \notin t => \E i \in 1 .. n + 1 : r[i] = d
  BY <1>1, <1>2, <1>3, Zenon
<1>7. Len(r) = n + 1 /\ t \subseteq o \cup {c}
  BY <1>1, <1>2, Zenon
<1> QED BY <1>4, <1>5, <1>6, <1>7, Zenon DEF Once, r

LEMMA TakeOnce ==
  ASSUME NEW T, NEW q \in Seq(T), q # <<>>, NEW o, NEW t, Once(o, q, t)
  PROVE  Once(o, Tail(q), t \cup {Head(q)})
<1> DEFINE r == Tail(q)
           n == Len(q)
           u == t \cup {q[1]}
<1>1. /\ n \in Nat /\ n # 0 /\ Head(q) = q[1] /\ r \in Seq(T) /\ Len(r) = n - 1
      /\ \A i \in 1 .. n - 1 : r[i] = q[i + 1]
  BY TailProps
<1>2. /\ t \subseteq o
      /\ \A i \in 1 .. n : q[i] \in o /\ q[i] \notin t
      /\ \A i, j \in 1 .. n : q[i] = q[j] => i = j
      /\ \A d \in o : d \notin t => \E i \in 1 .. n : q[i] = d
  BY Zenon DEF Once
<1> HIDE DEF r, n
<1>3. /\ 1 \in 1 .. n
      /\ \A i \in 1 .. n - 1 : i + 1 \in 1 .. n /\ i + 1 # 1
      /\ \A i, j \in 1 .. n - 1 : i + 1 = j + 1 => i = j
      /\ \A i \in 1 .. n : i = 1 \/ (i - 1 \in 1 .. n - 1 /\ (i - 1) + 1 = i)
  BY <1>1
<1>4. ASSUME NEW i \in 1 .. n - 1 PROVE r[i] \in o /\ r[i] \notin u
  <2>1. i + 1 \in 1 .. n /\ i + 1 # 1 /\ r[i] = q[i + 1]
    BY <1>1, <1>3, Zenon
  <2>2. q[i + 1] \in o /\ q[i + 1] \notin t /\ q[i + 1] # q[1]
    BY <1>2, <1>3, <2>1, Zenon
  <2> QED BY <2>1, <2>2, Zenon
<1>5. ASSUME NEW i \in 1 .. n - 1, NEW j \in 1 .. n - 1, r[i] = r[j] PROVE i = j
  <2>1. /\ i + 1 \in 1 .. n /\ r[i] = q[i + 1]
        /\ j + 1 \in 1 .. n /\ r[j] = q[j + 1]
    BY <1>1, <1>3, Zenon
  <2>2. i + 1 = j + 1
    BY <1>2, <1>5, <2>1, Zenon
  <2> QED BY <1>3, <2>2, Zenon
<1>6. ASSUME NEW d \in o, d \notin u PROVE \E i \in 1 .. n - 1 : r[i] = d
  <2>1. PICK i \in 1 .. n : q[i] = d
    BY <1>2, <1>6, Zenon
  <2>2. i - 1 \in 1 .. n - 1 /\ r[i - 1] = q[i]
    BY <1>1, <1>3, <1>6, <2>1, Zenon
  <2> QED BY <2>1, <2>2, Zenon
<1>7. u \subseteq o
  <2>1. q[1] \in o /\ t \subseteq o
    BY <1>2, <1>3, Zenon
  <2> QED BY <2>1, Zenon
<1> HIDE DEF u
<1>8. Once(o, r, u)
  BY <1>1, <1>4, <1>5, <1>6, <1>7, Zenon DEF Once
<1> QED BY <1>1, <1>8, Zenon DEF r, u

(* The connections of a listener, wherever Listeners has them.             *)
EachOnce == \A l \in Ls : Once(offered[l], pending(l), taken \cap offered[l])

LEMMA OnceStep ==
  ASSUME IInv, EachOnce, [Next]_vars
  PROVE  EachOnce'
<1> SUFFICES ASSUME NEW l \in Ls PROVE Once(offered'[l], pending(l)', taken' \cap offered'[l])
  BY Zenon DEF EachOnce
<1> DEFINE o == offered[l]
           q == pending(l)
           t == taken \cap offered[l]
           ox == offered'[l]
           qx == pending(l)'
           tx == taken' \cap offered'[l]
<1>1. q \in Seq(Conns)
  <2>1. only(connChan, offered[l]) \o Hand(l) \in Seq(Conns)
    BY PendingParts, ConcatProperties, Zenon
  <2> QED BY <2>1, PendingParts, ConcatProperties, Zenon
<1>2. Once(o, q, t) /\ ox \subseteq Conns
  <2>1. TypeOK'
    BY NextInv, Zenon DEF IInv
  <2> QED BY <2>1, Zenon DEF EachOnce, TypeOK
<1>3. \/ \E c \in ox \ o : ox = o \cup {c} /\ qx = Append(q, c) /\ tx = t
      \/ q # <<>> /\ tx = t \cup {Head(q)} /\ qx = Tail(q) /\ ox = o
      \/ ox = o /\ qx = q /\ tx = t
  BY StepThrough, Zenon DEF Through!Next, Through!Offer, Through!Take, Through!vars
<1> HIDE DEF o, q, t, ox, qx, tx
<1>4. ASSUME NEW c \in ox \ o, ox = o \cup {c}, qx = Append(q, c), tx = t PROVE Once(ox, qx, tx)
  <2>1. c \in Conns /\ c \notin o
    BY <1>2, Zenon
  <2>2. Once(o \cup {c}, Append(q, c), t)
    BY <1>1, <1>2, <2>1, OfferOnce
  <2> QED BY <1>4, <2>2, Zenon
<1>5. ASSUME q # <<>>, tx = t \cup {Head(q)}, qx = Tail(q), ox = o PROVE Once(ox, qx, tx)
  <2>1. Once(o, Tail(q), t \cup {Head(q)})
    BY <1>1, <1>2, <1>5, TakeOnce
  <2> QED BY <1>5, <2>1, Zenon
<1>6. ASSUME ox = o, qx = q, tx = t PROVE Once(ox, qx, tx)
  BY <1>2, <1>6, Zenon
<1>7. Once(ox, qx, tx)
  BY <1>3, <1>4, <1>5, <1>6, Zenon
<1> QED BY <1>7, Zenon DEF ox, qx, tx

(* No connection is lost, handed out twice or left in two places: of those *)
(* a listener has accepted, each was returned by one call of Accept, or it *)
(* waits once in the listener's queue, in the hand of the forwarder or in  *)
(* connChan.                                                               *)
THEOREM AcceptedOnce == Spec => []EachOnce
<1>1. Init => EachOnce
  <2> SUFFICES ASSUME Init, NEW l \in Ls PROVE Once(offered[l], pending(l), taken \cap offered[l])
    BY Zenon DEF EachOnce
  <2>1. offered[l] = {} /\ pending(l) = <<>> /\ taken = {}
    BY ConcatEmptySeq, OnlyEmpty DEF Init, pending
  <2>2. Once({}, <<>>, {})
    BY DEF Once
  <2>3. taken \cap offered[l] = {}
    BY <2>1, Zenon
  <2> QED BY <2>1, <2>2, <2>3, Zenon
<1>2. IInv /\ EachOnce /\ [Next]_vars => EachOnce'
  BY OnceStep, Zenon
<1> QED BY <1>1, <1>2, Invariance, PTL DEF Spec
=============================================================================
