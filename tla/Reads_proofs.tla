---------------------------- MODULE Reads_proofs ----------------------------
(***************************************************************************)
(* A body is the bytes the request asked for, and the cache of decoded     *)
(* blocks counts what it holds: for any objects, formats, ranges, block    *)
(* and buffer sizes, cache limits, readers and renames.                    *)
(***************************************************************************)
EXTENDS Reads, TLAPS, FiniteSetTheorems, NaturalsInduction, WellFoundedInduction, SequenceTheorems

Objects == Contents \cup {k.content : k \in Kept}
BytesIn(s) == {s[i] : i \in DOMAIN s}
Byte == UNION {BytesIn(c.bytes) : c \in Objects}
Formats == {"Nosi", "Nosb", "Nosd", "Nosz", "Raw"}

(* A file that holds an object in a format that a reader accepts.          *)
Encodes(f, c) ==
    /\ f.bytes = c.bytes /\ f.ends \in Seq(Nat)
    /\ StoredBlobFormat(f, Len(c.bytes)) \in Formats
    /\ ~Refused(f, StoredBlobFormat(f, Len(c.bytes)), Len(c.bytes))

RangeSpec(spec) ==
    \/ spec.kind = "ignore"
    \/ spec.kind = "suffix" /\ spec.n \in Nat
    \/ spec.kind = "span" /\ spec.first \in Nat /\ (spec.last = -1 \/ spec.last \in Nat)

(* Sizes, uploads and headers of their kind; a file that is kept holds the *)
(* object its metadata describes. No byte is the channel's error item.     *)
Settings ==
    /\ BlockSize \in Nat \ {0} /\ BufferSize \in Nat \ {0}
    /\ CacheBytes \in Nat /\ CacheEntries \in Nat
    /\ \A c \in Objects : c.bytes \in Seq(Byte)
    /\ "error" \notin Byte
    /\ \A spec \in Specs : RangeSpec(spec)
    /\ \A k \in Kept : Encodes(k.blob, k.content)

-----------------------------------------------------------------------------
(* Numbers.                                                                *)

LEMMA LeastNat ==
  ASSUME NEW T, T \subseteq Nat, T # {}
  PROVE  \E x \in T : \A y \in T : x <= y
<1> DEFINE R == OpToRel(<, Nat)
<1>1. IsWellFoundedOn(R, Nat)
  BY NatLessThanWellFounded
<1>2. \A a, b \in Nat : a < b => <<a, b>> \in R
  BY DEF OpToRel
<1> HIDE DEF R
<1>3. PICK x \in T : \A y \in T : ~ (<<y, x>> \in R)
  BY <1>1, WFMin
<1>4. \A y \in T : ~ (y < x)
  BY <1>2, <1>3
<1> QED BY <1>4

LEMMA LeastIs ==
  ASSUME NEW T, T \subseteq Nat, T # {}
  PROVE  Min(T) \in T /\ \A y \in T : Min(T) <= y
BY LeastNat DEF Min

LEMMA MinOfTwo ==
  ASSUME NEW a \in Int, NEW b \in Int
  PROVE  Min({a, b}) = IF a <= b THEN a ELSE b
BY DEF Min

-----------------------------------------------------------------------------
(* Stretches of a sequence: what lies after position i up to j.            *)

LEMMA Joined ==
  ASSUME NEW S, NEW s \in Seq(S), NEW i \in Nat, NEW j \in Nat, NEW k \in Nat,
         i <= j, j <= k, k <= Len(s)
  PROVE  SubSeq(s, i + 1, j) \o SubSeq(s, j + 1, k) = SubSeq(s, i + 1, k)
<1>1. i + 1 \in 1..(Len(s) + 1) /\ j \in ((i + 1) - 1)..Len(s) /\ k \in j..Len(s)
  OBVIOUS
<1> QED BY <1>1, ConcatAdjacentSubSeq

LEMMA Stretch ==
  ASSUME NEW S, NEW s \in Seq(S), NEW i \in Nat, NEW j \in Nat, i <= j, j <= Len(s)
  PROVE  /\ SubSeq(s, i + 1, j) \in Seq(S) /\ Len(SubSeq(s, i + 1, j)) = j - i
         /\ \A x \in 1..(j - i) : SubSeq(s, i + 1, j)[x] = s[i + x]
<1>1. \A x \in (i + 1)..j : s[x] \in S
  OBVIOUS
<1>2. /\ SubSeq(s, i + 1, j) \in Seq(S)
      /\ Len(SubSeq(s, i + 1, j)) = IF i + 1 <= j THEN j - (i + 1) + 1 ELSE 0
      /\ \A x \in 1..(j - (i + 1) + 1) : SubSeq(s, i + 1, j)[x] = s[(i + 1) + x - 1]
  BY <1>1, SubSeqProperties
<1> QED BY <1>2

LEMMA Halves ==
  ASSUME NEW S, NEW s \in Seq(S), NEW n \in Nat, n <= Len(s)
  PROVE  SubSeq(s, 1, n) \o SubSeq(s, n + 1, Len(s)) = s
<1>1. SubSeq(s, 1, Len(s)) = s
  BY SubSeqFull
<1>2. 1 \in 1..(Len(s) + 1) /\ n \in (1 - 1)..Len(s) /\ Len(s) \in n..Len(s)
  OBVIOUS
<1>3. SubSeq(s, 1, n) \o SubSeq(s, n + 1, Len(s)) = SubSeq(s, 1, Len(s))
  BY <1>2, ConcatAdjacentSubSeq
<1> QED BY <1>1, <1>3

(* A stretch of a stretch.                                                 *)
LEMMA Within ==
  ASSUME NEW S, NEW s \in Seq(S), NEW i \in Nat, NEW j \in Nat, i <= j, j <= Len(s),
         NEW a \in Nat, NEW b \in Nat, a <= b, b <= j - i
  PROVE  SubSeq(SubSeq(s, i + 1, j), a + 1, b) = SubSeq(s, i + a + 1, i + b)
<1> DEFINE t == SubSeq(s, i + 1, j)
           u == SubSeq(t, a + 1, b)
           v == SubSeq(s, i + a + 1, i + b)
<1>1. /\ t \in Seq(S) /\ Len(t) = j - i /\ \A x \in 1..(j - i) : t[x] = s[i + x]
  BY Stretch
<1> HIDE DEF t
<1>2. /\ u \in Seq(S) /\ Len(u) = b - a /\ \A x \in 1..(b - a) : u[x] = t[a + x]
  BY <1>1, Stretch
<1>3. /\ v \in Seq(S) /\ Len(v) = (i + b) - (i + a)
      /\ \A x \in 1..((i + b) - (i + a)) : v[x] = s[(i + a) + x]
  BY Stretch
<1> HIDE DEF u, v
<1>4. Len(u) = Len(v) /\ Len(u) \in Nat /\ Len(u) = b - a
  BY <1>2, <1>3
<1>5. ASSUME NEW x \in 1..Len(u) PROVE u[x] = v[x]
  <2>1. x \in Nat /\ a + x \in 1..(j - i) /\ i + (a + x) = (i + a) + x
    BY <1>4
  <2>2. u[x] = t[a + x] /\ t[a + x] = s[i + (a + x)] /\ v[x] = s[(i + a) + x]
    BY <1>1, <1>2, <1>3, <1>4, <2>1
  <2> QED BY <2>1, <2>2
<1>6. u = v
  BY <1>2, <1>3, <1>4, <1>5, SeqEqual
<1> QED BY <1>6 DEF t, u, v

-----------------------------------------------------------------------------
(* The bytes of the cache's entries.                                       *)

Entries == {[key |-> [idx |-> i, tag |-> <<f, b>>], block |-> b] : i \in Nat, f \in Formats, b \in Seq(Byte)}

LEMMA EntryFields ==
  ASSUME NEW e \in Entries
  PROVE  /\ e.block \in Seq(Byte) /\ Len(e.block) \in Nat /\ e.block = e.key.tag[2]
BY DEF Entries

LEMMA SumType ==
  ASSUME NEW T, NEW f \in [T -> Nat], NEW S \in SUBSET T, IsFiniteSet(S)
  PROVE  IsFiniteSet(Units(f, S)) /\ SumOver(f, S) \in Nat
<1> DEFINE G == [x \in S |-> {x} \X (1..f[x])]
           R == {{x} \X (1..f[x]) : x \in S}
<1>1. G \in Surjection(S, R)
  BY DEF Surjection
<1>2. IsFiniteSet(R)
  <2> HIDE DEF G, R
  <2> QED BY <1>1, FS_Surjection
<1>3. ASSUME NEW x \in S PROVE IsFiniteSet({x} \X (1..f[x]))
  <2>1. f[x] \in Nat
    OBVIOUS
  <2>2. IsFiniteSet(1..f[x])
    BY <2>1, FS_Interval
  <2>3. IsFiniteSet({x})
    BY FS_Singleton
  <2> QED BY <2>2, <2>3, FS_Product
<1>4. \A Q \in R : IsFiniteSet(Q)
  BY <1>3
<1>5. IsFiniteSet(UNION R)
  <2> HIDE DEF R
  <2> QED BY <1>2, <1>4, FS_UNION
<1>6. IsFiniteSet(Units(f, S))
  BY <1>5 DEF Units
<1> QED BY <1>6, FS_CardinalityType DEF SumOver

Sizes(s) == [i \in DOMAIN s |-> Len(s[i].block)]

LEMMA SizesType ==
  ASSUME NEW s \in Seq(Entries)
  PROVE  /\ Sizes(s) \in [1..Len(s) -> Nat] /\ DOMAIN s = 1..Len(s) /\ Len(s) \in Nat
         /\ IsFiniteSet(Units(Sizes(s), 1..Len(s))) /\ BytesOf(s) \in Nat
         /\ BytesOf(s) = Cardinality(Units(Sizes(s), 1..Len(s)))
<1>1. DOMAIN s = 1..Len(s) /\ Len(s) \in Nat /\ \A i \in 1..Len(s) : s[i] \in Entries
  OBVIOUS
<1>2. \A i \in 1..Len(s) : Len(s[i].block) \in Nat
  BY <1>1, EntryFields
<1>3. Sizes(s) \in [1..Len(s) -> Nat]
  BY <1>1, <1>2 DEF Sizes
<1>4. IsFiniteSet(1..Len(s))
  BY <1>1, FS_Interval
<1>5. IsFiniteSet(Units(Sizes(s), 1..Len(s))) /\ SumOver(Sizes(s), 1..Len(s)) \in Nat
  BY <1>3, <1>4, SumType
<1> QED BY <1>1, <1>3, <1>5 DEF BytesOf, SumOver, Sizes

(* The bytes of two sequences laid end to end.                             *)
LEMMA BytesConcat ==
  ASSUME NEW s \in Seq(Entries), NEW t \in Seq(Entries)
  PROVE  BytesOf(s \o t) = BytesOf(s) + BytesOf(t)
<1> DEFINE n == Len(s)
           u == s \o t
           A == Units(Sizes(s), 1..Len(s))
           B == Units(Sizes(t), 1..Len(t))
           C == Units(Sizes(u), 1..Len(u))
           D == {y \in C : y[1] > n}
           G == [y \in B |-> <<y[1] + n, y[2]>>]
<1>1. u \in Seq(Entries) /\ Len(u) = n + Len(t) /\ n \in Nat /\ Len(t) \in Nat
  OBVIOUS
<1>2. /\ \A i \in 1..n : u[i] = s[i]
      /\ \A i \in 1..Len(t) : u[n + i] = t[i]
  OBVIOUS
<1>3. /\ \A i \in 1..n : Sizes(u)[i] = Sizes(s)[i]
      /\ \A i \in 1..Len(t) : Sizes(u)[n + i] = Sizes(t)[i]
  BY <1>1, <1>2 DEF Sizes
<1>4. /\ IsFiniteSet(A) /\ IsFiniteSet(B) /\ IsFiniteSet(C)
      /\ BytesOf(s) = Cardinality(A) /\ BytesOf(t) = Cardinality(B) /\ BytesOf(u) = Cardinality(C)
      /\ BytesOf(s) \in Nat /\ BytesOf(t) \in Nat
  BY <1>1, SizesType
<1>5. /\ \A y : y \in A <=> \E x \in 1..n : \E i \in 1..Sizes(s)[x] : y = <<x, i>>
      /\ \A y : y \in B <=> \E x \in 1..Len(t) : \E i \in 1..Sizes(t)[x] : y = <<x, i>>
      /\ \A y : y \in C <=> \E x \in 1..(n + Len(t)) : \E i \in 1..Sizes(u)[x] : y = <<x, i>>
  BY <1>1 DEF Units
<1> HIDE DEF A, B, C, u
<1>6. A \cup D = C
  <2>1. ASSUME NEW y \in A PROVE y \in C
    <3>1. PICK x \in 1..n : \E i \in 1..Sizes(s)[x] : y = <<x, i>>
      BY <1>5
    <3>2. x \in 1..(n + Len(t)) /\ Sizes(u)[x] = Sizes(s)[x]
      BY <1>1, <1>3
    <3> QED BY <1>5, <3>1, <3>2
  <2>2. ASSUME NEW y \in C, ~ (y[1] > n) PROVE y \in A
    <3>1. PICK x \in 1..(n + Len(t)) : \E i \in 1..Sizes(u)[x] : y = <<x, i>>
      BY <1>5
    <3>2. x \in 1..n
      BY <1>1, <2>2, <3>1
    <3> QED BY <1>3, <1>5, <3>1, <3>2
  <2> QED BY <2>1, <2>2
<1>7. A \cap D = {}
  BY <1>1, <1>5
<1>8. G \in Bijection(B, D)
  <2>1. ASSUME NEW y \in B PROVE G[y] \in D /\ y[1] \in Nat /\ y = <<y[1], y[2]>>
    <3>1. PICK x \in 1..Len(t) : \E i \in 1..Sizes(t)[x] : y = <<x, i>>
      BY <1>5
    <3>2. PICK i \in 1..Sizes(t)[x] : y = <<x, i>>
      BY <3>1
    <3>3. G[y] = <<x + n, i>> /\ x + n = n + x /\ n + x \in 1..(n + Len(t)) /\ n + x > n
      BY <1>1, <3>2
    <3>4. Sizes(u)[n + x] = Sizes(t)[x]
      BY <1>3
    <3>5. G[y] \in C
      BY <1>5, <3>2, <3>3, <3>4
    <3> QED BY <3>2, <3>3, <3>5
  <2>2. ASSUME NEW d \in D PROVE \E y \in B : G[y] = d
    <3>1. PICK x \in 1..(n + Len(t)) : \E i \in 1..Sizes(u)[x] : d = <<x, i>>
      BY <1>5
    <3>2. PICK i \in 1..Sizes(u)[x] : d = <<x, i>>
      BY <3>1
    <3>3. x - n \in 1..Len(t) /\ n + (x - n) = x /\ (x - n) + n = x
      BY <1>1, <3>2
    <3>4. Sizes(u)[x] = Sizes(t)[x - n]
      BY <1>3, <3>3
    <3>5. <<x - n, i>> \in B
      BY <1>5, <3>2, <3>3, <3>4
    <3> QED BY <3>2, <3>3, <3>5
  <2>3. ASSUME NEW y \in B, NEW z \in B, G[y] = G[z] PROVE y = z
    <3>1. y[1] + n = z[1] + n /\ y[2] = z[2]
      BY <2>3
    <3>2. y[1] \in Nat /\ z[1] \in Nat /\ y = <<y[1], y[2]>> /\ z = <<z[1], z[2]>>
      BY <2>1
    <3>3. y[1] = z[1]
      BY <1>1, <3>1, <3>2
    <3> QED BY <3>1, <3>2, <3>3, Zenon
  <2>4. G \in [B -> D]
    BY <2>1
  <2> QED BY <2>2, <2>3, <2>4 DEF Bijection, Injection, Surjection, IsInjective
<1> HIDE DEF D, G
<1>9. IsFiniteSet(D) /\ Cardinality(D) = Cardinality(B)
  BY <1>4, <1>8, FS_Bijection DEF ExistsBijection
<1>10. Cardinality(A \cup D) = Cardinality(A) + Cardinality(D) - Cardinality(A \cap D)
  BY <1>4, <1>9, FS_Union
<1>11. Cardinality(A \cap D) = 0
  BY <1>7, FS_EmptySet
<1>12. Cardinality(C) = Cardinality(A) + Cardinality(B)
  <2>1. Cardinality(A \cup D) = Cardinality(C)
    BY <1>6
  <2>2. Cardinality(A) \in Nat /\ Cardinality(B) \in Nat
    BY <1>4
  <2> QED BY <1>9, <1>10, <1>11, <2>1, <2>2
<1> QED BY <1>4, <1>12 DEF u

LEMMA BytesOfOne ==
  ASSUME NEW e \in Entries
  PROVE  BytesOf(<<e>>) = Len(e.block)
<1>1. <<e>> \in Seq(Entries) /\ Len(<<e>>) = 1
  OBVIOUS
<1>2. BytesOf(<<e>>) = Cardinality(Units(Sizes(<<e>>), 1..1))
  BY <1>1, SizesType
<1>3. Units(Sizes(<<e>>), 1..1) = {1} \X (1..Len(e.block))
  BY DEF Units, Sizes
<1>4. Len(e.block) \in Nat
  BY EntryFields
<1>5. IsFiniteSet({1}) /\ Cardinality({1}) = 1
  BY FS_Singleton
<1>6. IsFiniteSet(1..Len(e.block)) /\ Cardinality(1..Len(e.block)) = Len(e.block)
  BY <1>4, FS_Interval
<1>7. Cardinality({1} \X (1..Len(e.block))) = Cardinality({1}) * Cardinality(1..Len(e.block))
  BY <1>5, <1>6, FS_Product
<1>8. Cardinality({1} \X (1..Len(e.block))) = Len(e.block)
  BY <1>4, <1>5, <1>6, <1>7
<1> QED BY <1>2, <1>3, <1>8, Zenon

LEMMA BytesOfNone == BytesOf(<<>>) = 0
<1>1. <<>> \in Seq(Entries) /\ Len(<<>>) = 0
  OBVIOUS
<1>2. BytesOf(<<>>) = Cardinality(Units(Sizes(<<>>), 1..0))
  BY <1>1, SizesType
<1>3. Units(Sizes(<<>>), 1..0) = {}
  BY DEF Units
<1> QED BY <1>2, <1>3, FS_EmptySet

LEMMA BytesAppend ==
  ASSUME NEW s \in Seq(Entries), NEW e \in Entries
  PROVE  Append(s, e) \in Seq(Entries) /\ BytesOf(Append(s, e)) = BytesOf(s) + Len(e.block)
<1>1. Append(s, e) = s \o <<e>> /\ <<e>> \in Seq(Entries) /\ Append(s, e) \in Seq(Entries)
  OBVIOUS
<1> QED BY <1>1, BytesConcat, BytesOfOne

LEMMA BytesSplit ==
  ASSUME NEW s \in Seq(Entries), NEW n \in 0..Len(s)
  PROVE  /\ SubSeq(s, 1, n) \in Seq(Entries) /\ SubSeq(s, n + 1, Len(s)) \in Seq(Entries)
         /\ Len(SubSeq(s, n + 1, Len(s))) = Len(s) - n
         /\ BytesOf(s) = BytesOf(SubSeq(s, 1, n)) + BytesOf(SubSeq(s, n + 1, Len(s)))
<1>1. SubSeq(s, 1, n) \in Seq(Entries) /\ SubSeq(s, n + 1, Len(s)) \in Seq(Entries)
  OBVIOUS
<1>2. Len(SubSeq(s, n + 1, Len(s))) = Len(s) - n
  OBVIOUS
<1>3. s = SubSeq(s, 1, n) \o SubSeq(s, n + 1, Len(s))
  <2>1. n \in Nat /\ n <= Len(s)
    OBVIOUS
  <2> QED BY <2>1, Halves
<1>4. BytesOf(SubSeq(s, 1, n) \o SubSeq(s, n + 1, Len(s))) =
        BytesOf(SubSeq(s, 1, n)) + BytesOf(SubSeq(s, n + 1, Len(s)))
  BY <1>1, BytesConcat
<1> QED BY <1>1, <1>2, <1>3, <1>4

LEMMA BytesRemoved ==
  ASSUME NEW s \in Seq(Entries), NEW i \in DOMAIN s
  PROVE  /\ RemoveAt(s, i) \in Seq(Entries) /\ Len(RemoveAt(s, i)) = Len(s) - 1
         /\ s[i] \in Entries /\ Len(s[i].block) \in Nat /\ BytesOf(RemoveAt(s, i)) \in Nat
         /\ BytesOf(s) = BytesOf(RemoveAt(s, i)) + Len(s[i].block)
<1> DEFINE a == SubSeq(s, 1, i - 1)
           b == SubSeq(s, i + 1, Len(s))
<1>1. s[i] \in Entries /\ Len(s[i].block) \in Nat
  BY EntryFields
<1>2. a \in Seq(Entries) /\ b \in Seq(Entries) /\ Append(a, s[i]) \in Seq(Entries)
  BY <1>1
<1>3. s = Append(a, s[i]) \o b
  <2>1. SubSeq(s, 1, i) = a \o <<s[i]>>
    <3>1. 1 \in 1..Len(s) /\ i \in 1..Len(s)
      OBVIOUS
    <3> QED BY <3>1, SubSeqRecursiveSecond
  <2>2. a \o <<s[i]>> = Append(a, s[i])
    BY <1>1, <1>2, AppendIsConcat
  <2>3. SubSeq(s, 1, i) \o b = s
    <3>1. i \in Nat /\ i <= Len(s)
      OBVIOUS
    <3> QED BY <3>1, Halves
  <2> QED BY <2>1, <2>2, <2>3
<1>4. RemoveAt(s, i) = a \o b /\ a \o b \in Seq(Entries) /\ Len(a \o b) = Len(s) - 1
  BY <1>1 DEF RemoveAt
<1> HIDE DEF a, b
<1>5. BytesOf(s) = BytesOf(Append(a, s[i])) + BytesOf(b)
  BY <1>2, <1>3, BytesConcat
<1>6. BytesOf(Append(a, s[i])) = BytesOf(a) + Len(s[i].block)
  BY <1>1, <1>2, BytesAppend
<1>7. BytesOf(a \o b) = BytesOf(a) + BytesOf(b)
  BY <1>2, BytesConcat
<1>8. BytesOf(a) \in Nat /\ BytesOf(b) \in Nat /\ BytesOf(a \o b) \in Nat
  BY <1>2, <1>4, SizesType
<1> QED BY <1>1, <1>4, <1>5, <1>6, <1>7, <1>8

-----------------------------------------------------------------------------
(* The cache.                                                              *)

CacheOK(c, used) ==
    /\ c \in Seq(Entries) /\ used = BytesOf(c)
    /\ used <= CacheBytes /\ Len(c) <= CacheEntries

LEMMA GetKeeps ==
  ASSUME CacheOK(cache, cacheUsed), NEW k, Cached(k) # {}, CacheGet(k)
  PROVE  CacheOK(cache', cacheUsed')
<1> DEFINE i == CHOOSE i \in Cached(k) : TRUE
<1>1. i \in DOMAIN cache
  BY DEF Cached
<1>2. cache' = Append(RemoveAt(cache, i), cache[i]) /\ cacheUsed' = cacheUsed
  BY DEF CacheGet
<1> HIDE DEF i
<1>3. cache \in Seq(Entries)
  BY DEF CacheOK
<1>4. /\ RemoveAt(cache, i) \in Seq(Entries) /\ Len(RemoveAt(cache, i)) = Len(cache) - 1
      /\ cache[i] \in Entries /\ Len(cache[i].block) \in Nat /\ BytesOf(RemoveAt(cache, i)) \in Nat
      /\ BytesOf(cache) = BytesOf(RemoveAt(cache, i)) + Len(cache[i].block)
  BY <1>1, <1>3, BytesRemoved
<1>5. cache' \in Seq(Entries) /\ BytesOf(cache') = BytesOf(RemoveAt(cache, i)) + Len(cache[i].block)
  BY <1>2, <1>4, BytesAppend
<1>6. Len(cache') = Len(cache)
  BY <1>2, <1>3, <1>4
<1> QED BY <1>2, <1>4, <1>5, <1>6 DEF CacheOK

(* What the eviction loop leaves is within both limits.                    *)
LEMMA EvictedFits ==
  ASSUME Settings, NEW s \in Seq(Entries), NEW n, n = Evicted(s, BytesOf(s))
  PROVE  CacheOK(SubSeq(s, n + 1, Len(s)), BytesOf(s) - BytesOf(SubSeq(s, 1, n)))
<1> DEFINE t == SubSeq(s, n + 1, Len(s))
           Fits(m) == \/ m = Len(s)
                      \/ /\ BytesOf(s) - BytesOf(SubSeq(s, 1, m)) <= CacheBytes
                         /\ Len(s) - m <= CacheEntries
           N == {m \in 0..Len(s) : Fits(m)}
<1>1. n = Min(N)
  BY DEF Evicted
<1>2. N \subseteq Nat /\ Len(s) \in N
  OBVIOUS
<1>3. n \in N
  <2> HIDE DEF N
  <2> QED BY <1>1, <1>2, LeastIs
<1>4. n \in 0..Len(s) /\ Fits(n)
  BY <1>3
<1> HIDE DEF N
<1>5. /\ SubSeq(s, 1, n) \in Seq(Entries) /\ t \in Seq(Entries)
      /\ Len(t) = Len(s) - n
      /\ BytesOf(s) = BytesOf(SubSeq(s, 1, n)) + BytesOf(t)
  BY <1>4, BytesSplit
<1>6. BytesOf(SubSeq(s, 1, n)) \in Nat /\ BytesOf(t) \in Nat
  BY <1>5, SizesType
<1>7. BytesOf(s) - BytesOf(SubSeq(s, 1, n)) = BytesOf(t)
  BY <1>5, <1>6
<1>8. CacheBytes \in Nat /\ CacheEntries \in Nat
  BY DEF Settings
<1>a. CacheOK(t, BytesOf(t)) => CacheOK(t, BytesOf(s) - BytesOf(SubSeq(s, 1, n)))
  BY <1>7, Zenon
<1> HIDE DEF t
<1>9. ASSUME n = Len(s) PROVE CacheOK(t, BytesOf(s) - BytesOf(SubSeq(s, 1, n)))
  <2>1. Len(t) = 0
    BY <1>5, <1>9
  <2>2. t = <<>>
    BY <1>5, <2>1
  <2>3. BytesOf(t) = 0
    BY <2>2, BytesOfNone
  <2>4. CacheOK(t, BytesOf(t))
    BY <1>5, <1>8, <2>1, <2>3 DEF CacheOK
  <2> QED BY <1>a, <2>4
<1>10. ASSUME n # Len(s) PROVE CacheOK(t, BytesOf(s) - BytesOf(SubSeq(s, 1, n)))
  <2>1. BytesOf(t) <= CacheBytes /\ Len(t) <= CacheEntries
    BY <1>4, <1>5, <1>7, <1>10
  <2>2. CacheOK(t, BytesOf(t))
    BY <1>5, <2>1 DEF CacheOK
  <2> QED BY <1>a, <2>2
<1>b. CacheOK(t, BytesOf(s) - BytesOf(SubSeq(s, 1, n)))
  BY <1>9, <1>10
<1> QED BY <1>b DEF t

LEMMA InsertKeeps ==
  ASSUME Settings, CacheOK(cache, cacheUsed), NEW k, NEW b, [key |-> k, block |-> b] \in Entries,
         CacheInsert(k, b)
  PROVE  CacheOK(cache', cacheUsed')
<1> DEFINE e == [key |-> k, block |-> b]
           i == CHOOSE i \in Cached(k) : TRUE
<1>1. CASE CacheEntries = 0 \/ Len(b) > CacheBytes
  BY <1>1 DEF CacheInsert
<1>2. CASE ~ (CacheEntries = 0 \/ Len(b) > CacheBytes)
  <2>1. PICK s : s = Append(Without(k), e)
    OBVIOUS
  <2>2. PICK used : used = cacheUsed - Replaced(k) + Len(b)
    OBVIOUS
  <2>3. PICK n : n = Evicted(s, used)
    OBVIOUS
  <2>4. cache' = SubSeq(s, n + 1, Len(s)) /\ cacheUsed' = used - BytesOf(SubSeq(s, 1, n))
    BY <1>2, <2>1, <2>2, <2>3 DEF CacheInsert
  <2>5. cache \in Seq(Entries) /\ cacheUsed = BytesOf(cache)
    BY DEF CacheOK
  <2>6. e \in Entries /\ e.block = b /\ Len(b) \in Nat
    BY EntryFields
  <2>7. /\ Without(k) \in Seq(Entries) /\ BytesOf(Without(k)) \in Nat /\ Replaced(k) \in Nat
        /\ BytesOf(cache) = BytesOf(Without(k)) + Replaced(k)
    <3>1. CASE Cached(k) = {}
      BY <2>5, <3>1, SizesType DEF Without, Replaced
    <3>2. CASE Cached(k) # {}
      <4>1. i \in DOMAIN cache
        BY <3>2 DEF Cached
      <4>2. Without(k) = RemoveAt(cache, i) /\ Replaced(k) = Len(cache[i].block)
        BY <3>2 DEF Without, Replaced
      <4> HIDE DEF i
      <4> QED BY <2>5, <4>1, <4>2, BytesRemoved
    <3> QED BY <3>1, <3>2
  <2>8. s \in Seq(Entries) /\ BytesOf(s) = BytesOf(Without(k)) + Len(b)
    BY <2>1, <2>6, <2>7, BytesAppend
  <2>9. used = BytesOf(s)
    BY <2>2, <2>5, <2>6, <2>7, <2>8
  <2>10. n = Evicted(s, BytesOf(s)) /\ cacheUsed' = BytesOf(s) - BytesOf(SubSeq(s, 1, n))
    BY <2>3, <2>4, <2>9
  <2>11. CacheOK(SubSeq(s, n + 1, Len(s)), BytesOf(s) - BytesOf(SubSeq(s, 1, n)))
    BY <2>8, <2>10, EvictedFits
  <2> QED BY <2>4, <2>10, <2>11
<1> QED BY <1>1, <1>2

-----------------------------------------------------------------------------
(* Ranges.                                                                 *)

Status(spec, n) == EvaluateRange(spec, n).status
From(spec, n) == IF Status(spec, n) = 200 THEN 0 ELSE EvaluateRange(spec, n).start
To(spec, n) == IF Status(spec, n) = 200 THEN n ELSE EvaluateRange(spec, n).end + 1

WantedOf(spec, n) == {i \in 1..n : Wanted(spec, i, n)}
Asked(spec, bytes) ==
    LET at == {i \in DOMAIN bytes : Wanted(spec, i, Len(bytes))}
    IN  IF at = {} THEN <<>> ELSE SubSeq(bytes, Min(at), Max(at))

(* The bytes a header names are the ones between the range's two ends.     *)
LEMMA RangeIs ==
  ASSUME NEW spec, RangeSpec(spec), NEW n \in Nat
  PROVE  \/ /\ Status(spec, n) = 416 /\ Ranged(spec) /\ WantedOf(spec, n) = {}
         \/ /\ Status(spec, n) = 200 /\ ~Ranged(spec)
            /\ From(spec, n) = 0 /\ To(spec, n) = n /\ WantedOf(spec, n) = 1..n
         \/ /\ Status(spec, n) = 206 /\ From(spec, n) \in Nat /\ To(spec, n) \in Nat
            /\ From(spec, n) < To(spec, n) /\ To(spec, n) <= n
            /\ WantedOf(spec, n) = (From(spec, n) + 1)..To(spec, n)
<1> USE DEF Status, From, To, WantedOf, EvaluateRange, Ignore, Unsatisfiable, Ranged, Wanted
<1>1. CASE spec.kind = "ignore"
  BY <1>1
<1>2. CASE spec.kind = "suffix"
  <2>1. spec.n \in Nat
    BY <1>2 DEF RangeSpec
  <2>2. CASE spec.n = 0 \/ n = 0
    BY <1>2, <2>1, <2>2
  <2>3. CASE ~ (spec.n = 0 \/ n = 0)
    <3>1. PICK m \in Nat : m = Min({spec.n, n}) /\ m <= n /\ m <= spec.n /\ m > 0 /\ (m = n \/ m = spec.n)
      <4>1. Min({spec.n, n}) = IF spec.n <= n THEN spec.n ELSE n
        BY <2>1, MinOfTwo
      <4> QED BY <2>1, <2>3, <4>1
    <3>2. /\ Status(spec, n) = 206 /\ From(spec, n) = n - m /\ To(spec, n) = (n - 1) + 1
      BY <1>2, <2>3, <3>1
    <3>3. WantedOf(spec, n) = (n - m + 1)..n
      BY <1>2, <2>1, <3>1
    <3> HIDE DEF Status, From, To, WantedOf, EvaluateRange, Ignore, Unsatisfiable, Ranged, Wanted
    <3>4. To(spec, n) = n /\ From(spec, n) \in Nat /\ From(spec, n) < n /\ From(spec, n) + 1 = n - m + 1
      BY <2>3, <3>1, <3>2
    <3> QED BY <3>2, <3>3, <3>4
  <2> QED BY <2>2, <2>3
<1>3. CASE spec.kind = "span"
  <2>1. spec.first \in Nat /\ spec.last \in Int /\ (spec.last = -1 \/ spec.last >= 0)
    BY <1>3 DEF RangeSpec
  <2>2. CASE spec.last # -1 /\ spec.last < spec.first
    BY <1>3, <2>1, <2>2
  <2>3. CASE ~ (spec.last # -1 /\ spec.last < spec.first) /\ spec.first >= n
    BY <1>3, <2>1, <2>3
  <2>4. CASE ~ (spec.last # -1 /\ spec.last < spec.first) /\ ~ (spec.first >= n)
    <3>1. PICK e \in Nat : e = IF spec.last = -1 THEN n - 1 ELSE Min({spec.last, n - 1})
      <4>1. Min({spec.last, n - 1}) = IF spec.last <= n - 1 THEN spec.last ELSE n - 1
        BY <2>1, MinOfTwo
      <4> QED BY <2>1, <2>4, <4>1
    <3>2. /\ e <= n - 1 /\ spec.first <= e
          /\ spec.last = -1 => e = n - 1
          /\ spec.last # -1 => e <= spec.last /\ (e = spec.last \/ e = n - 1)
      <4>1. Min({spec.last, n - 1}) = IF spec.last <= n - 1 THEN spec.last ELSE n - 1
        BY <2>1, MinOfTwo
      <4> QED BY <2>1, <2>4, <3>1, <4>1
    <3>3. Status(spec, n) = 206 /\ From(spec, n) = spec.first /\ To(spec, n) = e + 1
      BY <1>3, <2>4, <3>1
    <3>4. WantedOf(spec, n) = (spec.first + 1)..(e + 1)
      BY <1>3, <2>1, <2>4, <3>2
    <3> HIDE DEF Status, From, To, WantedOf, EvaluateRange, Ignore, Unsatisfiable, Ranged, Wanted
    <3> QED BY <2>1, <3>2, <3>3, <3>4
  <2> QED BY <2>2, <2>3, <2>4
<1> QED BY <1>1, <1>2, <1>3 DEF RangeSpec

LEMMA AskedIs ==
  ASSUME NEW spec, RangeSpec(spec), NEW S, NEW bytes \in Seq(S), NEW n, n = Len(bytes)
  PROVE  /\ Status(spec, n) \in {200, 206, 416}
         /\ Status(spec, n) = 416 => Asked(spec, bytes) = <<>>
         /\ Status(spec, n) # 416 =>
                /\ From(spec, n) \in Nat /\ To(spec, n) \in Nat
                /\ From(spec, n) <= To(spec, n) /\ To(spec, n) <= n
                /\ Asked(spec, bytes) = SubSeq(bytes, From(spec, n) + 1, To(spec, n))
         /\ Status(spec, n) = 206 => From(spec, n) < To(spec, n)
         /\ Status(spec, n) = 416 <=> Ranged(spec) /\ Asked(spec, bytes) = <<>>
<1> DEFINE at == WantedOf(spec, n)
           a == From(spec, n)
           b == To(spec, n)
<1>1. n \in Nat /\ DOMAIN bytes = 1..n
  OBVIOUS
<1>2. Asked(spec, bytes) = IF at = {} THEN <<>> ELSE SubSeq(bytes, Min(at), Max(at))
  BY <1>1 DEF Asked, WantedOf
<1>3. \/ /\ Status(spec, n) = 416 /\ Ranged(spec) /\ at = {}
      \/ /\ Status(spec, n) = 200 /\ ~Ranged(spec) /\ a = 0 /\ b = n /\ at = 1..n
      \/ /\ Status(spec, n) = 206 /\ a \in Nat /\ b \in Nat /\ a < b /\ b <= n /\ at = (a + 1)..b
  BY <1>1, RangeIs
<1> HIDE DEF at, a, b
<1>4. ASSUME NEW x \in Nat, NEW y \in Nat, x < y, y <= n, at = (x + 1)..y
      PROVE  Asked(spec, bytes) = SubSeq(bytes, x + 1, y) /\ Asked(spec, bytes) # <<>>
  <2>1. at # {} /\ x + 1 \in at /\ y \in at
    BY <1>4
  <2>2. Min(at) = x + 1
    BY <1>4, <2>1 DEF Min
  <2>3. Max(at) = y
    BY <1>4, <2>1 DEF Max
  <2>4. Len(SubSeq(bytes, x + 1, y)) = y - x
    BY <1>1, <1>4, Stretch
  <2>5. SubSeq(bytes, x + 1, y) # <<>>
    BY <1>4, <2>4
  <2> QED BY <1>2, <2>1, <2>2, <2>3, <2>5
<1>5. CASE Status(spec, n) = 416
  BY <1>2, <1>3, <1>5
<1>6. CASE Status(spec, n) = 206
  BY <1>3, <1>4, <1>6 DEF a, b
<1>7. CASE Status(spec, n) = 200
  <2>1. ~Ranged(spec) /\ a = 0 /\ b = n /\ at = 1..n
    BY <1>3, <1>7
  <2>2. Asked(spec, bytes) = SubSeq(bytes, 0 + 1, n)
    <3>1. CASE n = 0
      <4>1. at = {} /\ Asked(spec, bytes) = <<>>
        BY <1>2, <2>1, <3>1
      <4> QED BY <3>1, <4>1, SubSeqEmpty
    <3>2. CASE n > 0
      <4>1. at = (0 + 1)..n
        BY <2>1
      <4> QED BY <1>1, <1>4, <3>2, <4>1
    <3> QED BY <1>1, <3>1, <3>2
  <2> QED BY <1>1, <1>7, <2>1, <2>2 DEF a, b
<1> QED BY <1>3, <1>5, <1>6, <1>7

-----------------------------------------------------------------------------
(* Indexes.                                                                *)

Index(ends, n) == ends \in Seq(Nat) /\ ParseIndex(ends, n)

LEMMA IndexIs ==
  ASSUME NEW n \in Nat, NEW ends, Index(ends, n)
  PROVE  /\ Len(ends) \in Nat /\ DOMAIN ends = 1..Len(ends)
         /\ \A i \in 1..Len(ends) : ends[i] \in Nat /\ LogicalEnd(ends, i - 1) \in Nat
                                    /\ LogicalEnd(ends, i - 1) < ends[i] /\ ends[i] <= n
         /\ \A i \in 0..Len(ends) : LogicalEnd(ends, i) \in Nat /\ LogicalEnd(ends, i) <= n
         /\ LogicalEnd(ends, 0) = 0 /\ LogicalEnd(ends, Len(ends)) = n
         /\ \A i \in 1..Len(ends) : LogicalEnd(ends, i) = ends[i]
<1>1. ends \in Seq(Nat) /\ ParseIndex(ends, n)
  BY DEF Index
<1>2. Len(ends) \in Nat /\ DOMAIN ends = 1..Len(ends) /\ \A i \in 1..Len(ends) : ends[i] \in Nat
  BY <1>1
<1>3. \A i \in 1..Len(ends) : LogicalEnd(ends, i - 1) < ends[i] /\ ends[i] <= n
  BY <1>1, <1>2 DEF ParseIndex, ValidateIndex
<1>4. \A i \in 0..Len(ends) : LogicalEnd(ends, i) = IF i = 0 THEN 0 ELSE ends[i]
  BY DEF LogicalEnd
<1>5. \A i \in 0..Len(ends) : LogicalEnd(ends, i) \in Nat /\ LogicalEnd(ends, i) <= n
  BY <1>2, <1>3, <1>4
<1>6. \A i \in 1..Len(ends) : LogicalEnd(ends, i - 1) \in Nat
  BY <1>2, <1>5
<1>7. LogicalEnd(ends, Len(ends)) = n
  BY <1>1 DEF ParseIndex
<1> QED BY <1>2, <1>3, <1>4, <1>5, <1>6, <1>7

(* The encoder's blocks make up the object, and none is empty.             *)
LEMMA EncoderIndex ==
  ASSUME NEW n \in Nat, NEW size \in Nat \ {0}
  PROVE  Index(IndexOf(n, size), n)
<1> DEFINE m == (n + size - 1) \div size
           e == IndexOf(n, size)
<1>1. CASE n = 0
  <2>1. m = 0
    BY <1>1
  <2>2. e = <<>> /\ e \in Seq(Nat) /\ Len(e) = 0 /\ DOMAIN e = {}
    BY <2>1 DEF IndexOf
  <2> HIDE DEF e
  <2>3. LogicalEnd(e, Len(e)) = 0
    BY <2>2 DEF LogicalEnd
  <2> QED BY <1>1, <2>2, <2>3 DEF Index, ParseIndex, ValidateIndex, e
<1>2. CASE n > 0
  <2>1. m \in Nat /\ m > 0 /\ (m - 1) * size < n /\ n <= m * size
    BY <1>2
  <2>2. e = [i \in 1..m |-> Min({i * size, n})]
    BY DEF IndexOf
  <2> HIDE DEF m
  <2>3. ASSUME NEW i \in 1..m
        PROVE  /\ Min({i * size, n}) \in Nat /\ Min({i * size, n}) <= n /\ i * size \in Nat
               /\ i < m => Min({i * size, n}) = i * size /\ i * size < n
               /\ i = m => Min({i * size, n}) = n
    <3>1. i * size \in Nat
      OBVIOUS
    <3>2. Min({i * size, n}) = IF i * size <= n THEN i * size ELSE n
      BY <3>1, MinOfTwo
    <3>3. i < m => i * size < n
      <4>1. ASSUME i < m PROVE i * size <= (m - 1) * size
        <5>1. i <= m - 1 /\ i \in Nat /\ m - 1 \in Nat
          BY <2>1, <4>1
        <5>2. PICK d \in Nat : m - 1 = i + d
          <6>1. (m - 1) - i \in Nat /\ m - 1 = i + ((m - 1) - i)
            BY <5>1
          <6> QED BY <6>1
        <5>3. (i + d) * size = i * size + d * size /\ d * size \in Nat
          BY <5>1
        <5> QED BY <3>1, <5>2, <5>3
      <4> QED BY <2>1, <3>1, <4>1
    <3>4. i = m => Min({i * size, n}) = n
      BY <2>1, <3>2
    <3> QED BY <3>1, <3>2, <3>3, <3>4
  <2>4. e \in [1..m -> Nat] /\ \A i \in 1..m : e[i] = Min({i * size, n})
    BY <2>2, <2>3
  <2>5. e \in Seq(Nat) /\ Len(e) = m /\ DOMAIN e = 1..m
    BY <2>1, <2>4
  <2>a. \A i \in 1..m : /\ e[i] \in Nat /\ e[i] <= n /\ i * size \in Nat
                        /\ i < m => e[i] = i * size /\ i * size < n
                        /\ i = m => e[i] = n
    <3> HIDE DEF e
    <3> QED BY <2>3, <2>4
  <2> HIDE DEF e
  <2>6. ASSUME NEW i \in 1..m PROVE LogicalEnd(e, i - 1) < e[i] /\ e[i] <= n
    <3>1. e[i] <= n /\ e[i] \in Nat /\ i \in Nat /\ i * size \in Nat
      BY <2>a
    <3>2. e[i] > 0
      <4>1. i < m => i * size > 0
        BY <2>1
      <4> QED BY <1>2, <2>1, <2>a, <4>1
    <3>3. CASE i = 1
      BY <3>1, <3>2, <3>3 DEF LogicalEnd
    <3>4. CASE i > 1
      <4>1. i - 1 \in 1..m /\ i - 1 < m
        BY <2>1, <3>4
      <4>2. LogicalEnd(e, i - 1) = (i - 1) * size /\ (i - 1) * size < n /\ (i - 1) * size \in Nat
        <5>1. LogicalEnd(e, i - 1) = e[i - 1]
          BY <3>4, <4>1 DEF LogicalEnd
        <5> QED BY <2>a, <4>1, <5>1
      <4>3. i < m => (i - 1) * size < i * size
        BY <3>4
      <4>4. e[i] = i * size \/ e[i] = n
        BY <2>1, <2>a
      <4> QED BY <2>1, <2>a, <3>1, <4>2, <4>3, <4>4
    <3> QED BY <3>3, <3>4
  <2>7. LogicalEnd(e, Len(e)) = n
    BY <2>1, <2>a, <2>5 DEF LogicalEnd
  <2> QED BY <2>5, <2>6, <2>7 DEF Index, ParseIndex, ValidateIndex, e
<1> QED BY <1>1, <1>2

(* The first block with an end past an offset.                             *)
LEMMA FirstPast ==
  ASSUME NEW n \in Nat, NEW ends, Index(ends, n), NEW start \in Nat, start < n
  PROVE  \E f \in 1..Len(ends) :
            /\ start < ends[f] /\ LogicalEnd(ends, f - 1) <= start
            /\ \A j \in 1..Len(ends) : start < ends[j] <=> f <= j
            /\ f = BlockForOffset(ends, start)
<1> DEFINE L == Len(ends)
           P == {i \in 1..L : start < ends[i]}
<1>1. /\ L \in Nat /\ DOMAIN ends = 1..L
      /\ \A i \in 1..L : ends[i] \in Nat /\ LogicalEnd(ends, i - 1) < ends[i]
      /\ LogicalEnd(ends, 0) = 0 /\ LogicalEnd(ends, L) = n
      /\ \A i \in 1..L : LogicalEnd(ends, i) = ends[i]
  BY IndexIs
<1>2. L > 0 /\ ends[L] = n
  BY <1>1
<1>3. L \in P /\ P \subseteq Nat
  BY <1>1, <1>2
<1>4. PICK f \in P : \A y \in P : f <= y
  BY <1>3, LeastNat
<1>5. f \in 1..L /\ start < ends[f] /\ f \in Nat
  BY <1>1, <1>4
<1>6. LogicalEnd(ends, f - 1) <= start
  <2>1. CASE f = 1
    BY <1>1, <2>1
  <2>2. CASE f > 1
    <3>1. f - 1 \in 1..L /\ f - 1 \notin P
      BY <1>1, <1>4, <1>5, <2>2
    <3>2. ~ (start < ends[f - 1]) /\ LogicalEnd(ends, f - 1) = ends[f - 1] /\ ends[f - 1] \in Nat
      BY <1>1, <3>1
    <3> QED BY <3>2
  <2> QED BY <1>5, <2>1, <2>2
<1>7. ASSUME NEW j \in 1..L, f <= j, ~ (start < ends[j]) PROVE FALSE
  <2> DEFINE Q == {i \in 1..L : f <= i /\ ~ (start < ends[i])}
  <2>1. j \in Q /\ Q \subseteq Nat
    BY <1>7
  <2>2. PICK q \in Q : \A y \in Q : q <= y
    BY <2>1, LeastNat
  <2>3. q \in 1..L /\ f <= q /\ ends[q] <= start /\ q # f
    BY <1>1, <1>5, <2>2
  <2>4. q - 1 \in 1..L /\ f <= q - 1 /\ q - 1 \notin Q
    BY <1>1, <1>5, <2>2, <2>3
  <2>5. start < ends[q - 1] /\ LogicalEnd(ends, q - 1) = ends[q - 1]
    BY <1>1, <2>4
  <2>6. LogicalEnd(ends, q - 1) < ends[q] /\ ends[q] \in Nat /\ ends[q - 1] \in Nat
    BY <1>1, <2>3, <2>4
  <2> QED BY <2>3, <2>5, <2>6
<1>8. \A j \in 1..L : start < ends[j] <=> f <= j
  BY <1>4, <1>7
<1>9. f = BlockForOffset(ends, start)
  <2>1. {i \in DOMAIN ends : start < ends[i]} = P
    BY <1>1
  <2>2. BlockForOffset(ends, start) = CHOOSE i \in P : \A j \in P : i <= j
    BY <1>4, <2>1 DEF BlockForOffset
  <2>3. (CHOOSE i \in P : \A j \in P : i <= j) \in P /\ \A j \in P : (CHOOSE i \in P : \A y \in P : i <= y) <= j
    BY <1>4
  <2> HIDE DEF P
  <2>4. BlockForOffset(ends, start) \in P /\ \A j \in P : BlockForOffset(ends, start) <= j
    BY <2>2, <2>3
  <2>5. \A x \in P : x \in Nat
    BY <1>1 DEF P
  <2> QED BY <1>4, <2>4, <2>5
<1> QED BY <1>5, <1>6, <1>8, <1>9

(* A reader starts at the range's first byte.                              *)
StartsAt(p, n, start) ==
    /\ Index(p.ends, n) /\ p.idx \in 1..(Len(p.ends) + 1) /\ p.skip \in Nat
    /\ LogicalEnd(p.ends, p.idx - 1) + p.skip = start

LEMMA NoBlocks ==
  ASSUME NEW ends, Index(ends, 0)
  PROVE  ends = <<>> /\ Len(ends) = 0 /\ LogicalEnd(ends, 0) = 0
<1>1. /\ Len(ends) \in Nat
      /\ \A i \in 1..Len(ends) : /\ ends[i] \in Nat /\ LogicalEnd(ends, i - 1) \in Nat
                                 /\ LogicalEnd(ends, i - 1) < ends[i] /\ ends[i] <= 0
      /\ LogicalEnd(ends, 0) = 0
  BY IndexIs
<1>2. Len(ends) = 0
  BY <1>1
<1>3. ends \in Seq(Nat)
  BY DEF Index
<1> QED BY <1>1, <1>2, <1>3

LEMMA IndexedStarts ==
  ASSUME NEW n \in Nat, NEW ends, Index(ends, n), NEW start \in Nat, start < n \/ (n = 0 /\ start = 0)
  PROVE  StartsAt(IndexedStart(ends, start), n, start)
<1>1. PICK p : p = IndexedStart(ends, start)
  OBVIOUS
<1>2. PICK f : f = BlockForOffset(ends, start)
  OBVIOUS
<1>3. p.ends = ends /\ p.idx = f /\ p.skip = start - LogicalEnd(ends, f - 1)
  BY <1>1, <1>2 DEF IndexedStart
<1>4. CASE n = 0 /\ start = 0
  <2>1. ends = <<>> /\ Len(ends) = 0 /\ LogicalEnd(ends, 0) = 0
    BY <1>4, NoBlocks
  <2>2. f = 1
    BY <1>2, <2>1 DEF BlockForOffset
  <2>3. f - 1 = 0 /\ p.skip = 0 /\ f \in 1..(Len(ends) + 1)
    BY <1>3, <1>4, <2>1, <2>2
  <2>4. StartsAt(p, n, start)
    BY <1>3, <1>4, <2>1, <2>3 DEF StartsAt
  <2> QED BY <1>1, <2>4
<1>5. CASE start < n
  <2>1. PICK g \in 1..Len(ends) : LogicalEnd(ends, g - 1) <= start /\ g = BlockForOffset(ends, start)
    BY <1>5, FirstPast
  <2>2. f = g /\ Len(ends) \in Nat /\ LogicalEnd(ends, g - 1) \in Nat
    BY <1>2, <2>1, IndexIs
  <2>3. p.skip \in Nat /\ LogicalEnd(ends, f - 1) + p.skip = start /\ f \in 1..(Len(ends) + 1)
    BY <1>3, <2>1, <2>2
  <2>4. StartsAt(p, n, start)
    BY <1>3, <2>3 DEF StartsAt
  <2> QED BY <1>1, <2>4
<1> QED BY <1>4, <1>5

LEMMA DedupStarts ==
  ASSUME NEW n \in Nat, NEW ends, Index(ends, n), NEW start \in Nat, start < n \/ (n = 0 /\ start = 0)
  PROVE  StartsAt(DedupStart(ends, start), n, start)
<1> DEFINE B == {i \in DOMAIN ends : ends[i] <= start}
<1>1. PICK p : p = DedupStart(ends, start)
  OBVIOUS
<1>2. p.ends = ends /\ p.idx = Cardinality(B) + 1 /\ p.skip = start - LogicalEnd(ends, Cardinality(B))
  BY <1>1 DEF DedupStart
<1>3. /\ Len(ends) \in Nat /\ DOMAIN ends = 1..Len(ends)
      /\ \A i \in 1..Len(ends) : ends[i] \in Nat /\ LogicalEnd(ends, i - 1) \in Nat
      /\ LogicalEnd(ends, 0) = 0
  BY IndexIs
<1>4. CASE n = 0 /\ start = 0
  <2>1. Len(ends) = 0
    BY <1>4, NoBlocks
  <2>2. B = {}
    BY <1>3, <2>1
  <2>3. Cardinality(B) = 0
    BY <2>2, FS_EmptySet
  <2> HIDE DEF B
  <2>4. p.idx = 1 /\ p.idx - 1 = 0 /\ p.skip = 0
    BY <1>2, <1>3, <1>4, <2>3
  <2>5. StartsAt(p, n, start)
    BY <1>2, <1>3, <1>4, <2>4 DEF StartsAt
  <2> QED BY <1>1, <2>5
<1>5. CASE start < n
  <2>1. PICK g \in 1..Len(ends) : /\ LogicalEnd(ends, g - 1) <= start
                                  /\ \A j \in 1..Len(ends) : start < ends[j] <=> g <= j
    BY <1>5, FirstPast
  <2>2. B = 1..(g - 1)
    BY <1>3, <2>1
  <2>3. Cardinality(B) = g - 1
    <3>1. 1 \in Int /\ g - 1 \in Int /\ g - 1 >= 0
      BY <1>3
    <3>2. Cardinality(1..(g - 1)) = g - 1
      BY <3>1, FS_Interval
    <3> QED BY <2>2, <3>2
  <2> HIDE DEF B
  <2>4. /\ p.idx = g /\ p.skip \in Nat /\ LogicalEnd(ends, p.idx - 1) + p.skip = start
        /\ p.idx \in 1..(Len(ends) + 1)
    BY <1>2, <1>3, <2>1, <2>3
  <2>5. StartsAt(p, n, start)
    BY <1>2, <2>4 DEF StartsAt
  <2> QED BY <1>1, <2>5
<1> QED BY <1>4, <1>5

LEMMA PositionStarts ==
  ASSUME Settings, NEW f, NEW n \in Nat, Len(f.bytes) = n, f.ends \in Seq(Nat),
         NEW format \in Formats, format # "Raw", ~Refused(f, format, n),
         NEW start \in Nat, start < n \/ (n = 0 /\ start = 0)
  PROVE  StartsAt(Position(f, format, start), n, start)
<1>1. format # "Nosz" => Index(f.ends, n)
  BY DEF Refused, Index
<1>2. CASE format \in {"Nosi", "Nosb"}
  <2>1. Position(f, format, start) = IndexedStart(f.ends, start)
    BY <1>2 DEF Position
  <2> QED BY <1>1, <1>2, <2>1, IndexedStarts
<1>3. CASE format = "Nosd"
  <2>1. Position(f, format, start) = DedupStart(f.ends, start)
    BY <1>3 DEF Position
  <2> QED BY <1>1, <1>3, <2>1, DedupStarts
<1>4. CASE format = "Nosz"
  <2>1. PICK e : e = IndexOf(n, BufferSize)
    OBVIOUS
  <2>2. PICK p : p = [ends |-> e, idx |-> 1, skip |-> start]
    OBVIOUS
  <2>3. Position(f, format, start) = p
    BY <1>4, <2>1, <2>2 DEF Position, ZstdStart
  <2>4. Index(e, n)
    BY <2>1, EncoderIndex DEF Settings
  <2>5. LogicalEnd(e, 0) = 0 /\ Len(e) \in Nat
    BY <2>4, IndexIs
  <2>6. p.ends = e /\ p.idx = 1 /\ p.skip = start /\ p.idx - 1 = 0
    BY <2>2
  <2>7. StartsAt(p, n, start)
    BY <2>4, <2>5, <2>6 DEF StartsAt
  <2> QED BY <2>3, <2>7
<1> QED BY <1>2, <1>3, <1>4 DEF Formats

(* Whatever the encoder writes is a file a reader accepts.                 *)
LEMMA EncoderEncodes ==
  ASSUME Settings, NEW c \in Objects, NEW f \in Encodings(c)
  PROVE  Encodes(f, c)
<1> DEFINE n == Len(c.bytes)
<1>1. c.bytes \in Seq(Byte) /\ n \in Nat
  BY DEF Settings
<1>2. CASE \E len : f = Container("Nosi", c, len, {})
  <2>1. f.bytes = c.bytes /\ f.ends = IndexOf(n, BlockSize) /\ f.magic = "Nosi" /\ f.says = n
    BY <1>2 DEF Container
  <2>2. Index(f.ends, n)
    BY <1>1, <2>1, EncoderIndex DEF Settings
  <2>3. StoredBlobFormat(f, n) = "Nosi"
    BY <2>1 DEF StoredBlobFormat
  <2>4. ~Refused(f, "Nosi", n)
    BY <2>1, <2>2 DEF Refused, Index
  <2> QED BY <2>1, <2>2, <2>3, <2>4 DEF Encodes, Index, Formats
<1>3. CASE f = Raw(c) /\ ~RawWouldBeMisread(c)
  <2>1. f.bytes = c.bytes /\ f.ends = <<>> /\ f.magic = "Raw"
    BY <1>3 DEF Raw, RawWouldBeMisread
  <2>2. StoredBlobFormat(f, n) = "Raw"
    BY <2>1 DEF StoredBlobFormat
  <2>3. ~Refused(f, "Raw", n)
    BY DEF Refused
  <2>4. f.ends \in Seq(Nat)
    BY <2>1
  <2> QED BY <2>1, <2>2, <2>3, <2>4 DEF Encodes, Formats
<1> QED BY <1>2, <1>3 DEF Encodings

-----------------------------------------------------------------------------
(* The inductive invariant.                                                *)

Chunks == Seq(Byte \cup {"error"})
Files == {k.blob : k \in Kept} \cup UNION {Encodings(c) : c \in Objects}

(* What a request knows: nothing, what it asked for, or an open source.    *)
Answers == [spec : Specs, content : Objects, status : {200, 206, 416}, file : {Unopened}]
Sources ==
    [spec : Specs, content : Objects, status : {200, 206}, file : Files, format : Formats,
     end : Nat, left : Nat, populate : BOOLEAN, ends : Seq(Nat), idx : Nat, skip : Nat]

TypeOK ==
    /\ object \in Objects /\ blob \in Files
    /\ get \in [Readers -> {None} \cup Answers \cup Sources]
    /\ pump \in [Readers -> {"idle", "reserve", "step", "decode", "pull", "ended", "refused"}]
    /\ chan \in [Readers -> Seq(Chunks)] /\ body \in [Readers -> Seq(Byte)]
    /\ client \in [Readers -> {"waiting", "reading", "complete", "failed", "gone"}]
    /\ steps \in [Readers -> Nat]

Start(g) == From(g.spec, Len(g.content.bytes))
At(g) == g.end - g.left

(* An open source: its file holds the object of the request, and its next  *)
(* block and what it skips of it lead to the first byte not yet read.      *)
Follows(g) ==
    LET n == Len(g.content.bytes)
    IN  /\ g \in Sources /\ Encodes(g.file, g.content)
        /\ g.status = Status(g.spec, n)
        /\ g.end = To(g.spec, n) /\ Start(g) <= At(g) /\ At(g) <= g.end
        /\ g.format # "Raw" =>
            /\ Index(g.ends, n) /\ g.idx \in 1..(Len(g.ends) + 1)
            /\ g.left > 0 => LogicalEnd(g.ends, g.idx - 1) + g.skip = At(g)

(* The first n chunks are the bytes from p to q, end to end.               *)
Lays(ch, n, bytes, p, q) ==
    \E off \in [1..(n + 1) -> 0..q] :
        /\ off[1] = p /\ off[n + 1] = q
        /\ \A i \in 1..n : off[i] <= off[i + 1] /\ ch[i] = SubSeq(bytes, off[i] + 1, off[i + 1])

(* What the client has and what is in its channel is what has been read;   *)
(* an error ends it, and only a damaged file has one.                      *)
Streams(g, p, ch, bd) ==
    \/ /\ Lays(ch, Len(ch), g.content.bytes, Start(g) + Len(bd), At(g))
       /\ p = "ended" => g.left = 0
    \/ /\ p = "ended" /\ g.file.bad # {} /\ ch # <<>> /\ ch[Len(ch)] = Failure
       /\ \E q \in 0..g.end : Lays(ch, Len(ch) - 1, g.content.bytes, Start(g) + Len(bd), q)

Waits(p, ch, bd, cl) == cl = "waiting" /\ p = "idle" /\ ch = <<>> /\ bd = <<>>

Rejected(g, p, bd, cl) ==
    /\ cl = "complete" /\ p = "refused" /\ bd = <<>>
    /\ g \in Answers /\ g.status = 416 /\ Status(g.spec, Len(g.content.bytes)) = 416

Opened(g, p, ch, bd, cl) ==
    /\ cl # "waiting" /\ p \notin {"idle", "refused"} /\ Follows(g)
    /\ p \in {"reserve", "step", "decode"} => g.format # "Raw"
    /\ p = "decode" => g.left > 0 /\ g.idx <= Len(g.ends)
    /\ p = "pull" => ch = <<>> /\ g.format = "Raw"
    /\ Start(g) + Len(bd) <= g.end
    /\ bd = SubSeq(g.content.bytes, Start(g) + 1, Start(g) + Len(bd))
    /\ cl = "reading" => Streams(g, p, ch, bd)
    /\ cl = "complete" => Start(g) + Len(bd) = g.end
    /\ cl = "failed" => g.file.bad # {}

Reader(r) ==
    \/ Waits(pump[r], chan[r], body[r], client[r])
    \/ Rejected(get[r], pump[r], body[r], client[r])
    \/ Opened(get[r], pump[r], chan[r], body[r], client[r])

IInv ==
    /\ TypeOK /\ Encodes(blob, object)
    /\ \A r \in Readers : Reader(r)
    /\ CacheOK(cache, cacheUsed)
-----------------------------------------------------------------------------
(* Sources and channels.                                                   *)

LEMMA FollowsIs ==
  ASSUME Settings, NEW g, Follows(g)
  PROVE  /\ g \in Sources /\ g.content.bytes \in Seq(Byte) /\ Len(g.content.bytes) \in Nat
         /\ g.file.bytes = g.content.bytes
         /\ g.end \in Nat /\ g.left \in Nat /\ g.skip \in Nat /\ g.idx \in Nat
         /\ Start(g) \in Nat /\ At(g) \in Nat /\ Start(g) <= At(g) /\ At(g) <= g.end
         /\ g.end <= Len(g.content.bytes) /\ At(g) + g.left = g.end
         /\ g.status # 416 /\ g.status = Status(g.spec, Len(g.content.bytes))
         /\ Asked(g.spec, g.content.bytes) = SubSeq(g.content.bytes, Start(g) + 1, g.end)
         /\ RangeSpec(g.spec)
<1>1. /\ g \in Sources /\ g.file.bytes = g.content.bytes
      /\ g.status = Status(g.spec, Len(g.content.bytes))
      /\ g.end = To(g.spec, Len(g.content.bytes)) /\ Start(g) <= At(g) /\ At(g) <= g.end
  BY DEF Follows, Encodes
<1>2. /\ g.spec \in Specs /\ g.content \in Objects /\ g.status \in {200, 206}
      /\ g.end \in Nat /\ g.left \in Nat /\ g.skip \in Nat /\ g.idx \in Nat
  BY <1>1 DEF Sources
<1>3. RangeSpec(g.spec) /\ g.content.bytes \in Seq(Byte)
  BY <1>2 DEF Settings
<1>4. Len(g.content.bytes) \in Nat
  BY <1>3
<1>5. g.status # 416
  BY <1>2
<1>6. /\ From(g.spec, Len(g.content.bytes)) \in Nat /\ To(g.spec, Len(g.content.bytes)) <= Len(g.content.bytes)
      /\ Asked(g.spec, g.content.bytes) =
            SubSeq(g.content.bytes, From(g.spec, Len(g.content.bytes)) + 1, To(g.spec, Len(g.content.bytes)))
  BY <1>1, <1>3, <1>5, AskedIs
<1>7. Start(g) = From(g.spec, Len(g.content.bytes))
  BY DEF Start
<1>8. Start(g) \in Nat
  BY <1>6, <1>7
<1>9. At(g) \in Nat /\ At(g) + g.left = g.end
  BY <1>1, <1>2, <1>8 DEF At
<1> QED BY <1>1, <1>2, <1>3, <1>4, <1>5, <1>6, <1>7, <1>8, <1>9

LEMMA NothingLaid ==
  ASSUME NEW bytes, NEW p \in Nat
  PROVE  Lays(<<>>, Len(<<>>), bytes, p, p)
<1> DEFINE off == [i \in 1..(0 + 1) |-> p]
<1>1. Len(<<>>) = 0
  OBVIOUS
<1>2. off \in [1..(0 + 1) -> 0..p] /\ off[1] = p /\ off[0 + 1] = p
  OBVIOUS
<1> HIDE DEF off
<1>3. \A i \in 1..0 : off[i] <= off[i + 1] /\ <<>>[i] = SubSeq(bytes, off[i] + 1, off[i + 1])
  OBVIOUS
<1>4. Lays(<<>>, 0, bytes, p, p)
  BY <1>2, <1>3, Zenon DEF Lays
<1> QED BY <1>1, <1>4

LEMMA LaidNothing ==
  ASSUME NEW bytes, NEW p, NEW q, Lays(<<>>, Len(<<>>), bytes, p, q)
  PROVE  p = q
BY DEF Lays

(* A chunk sent.                                                           *)
LEMMA LaysSent ==
  ASSUME NEW S, NEW ch \in Seq(S), NEW bytes, NEW p, NEW q \in Nat, NEW z \in Nat, q <= z,
         Lays(ch, Len(ch), bytes, p, q), NEW c \in S, c = SubSeq(bytes, q + 1, z)
  PROVE  Lays(Append(ch, c), Len(Append(ch, c)), bytes, p, z)
<1> DEFINE n == Len(ch)
           d == Append(ch, c)
<1>1. n \in Nat /\ Len(d) = n + 1 /\ d[n + 1] = c /\ \A i \in 1..n : d[i] = ch[i]
  OBVIOUS
<1>2. PICK off \in [1..(n + 1) -> 0..q] :
        /\ off[1] = p /\ off[n + 1] = q
        /\ \A i \in 1..n : off[i] <= off[i + 1] /\ ch[i] = SubSeq(bytes, off[i] + 1, off[i + 1])
  BY DEF Lays
<1> HIDE DEF n, d
<1> DEFINE new == [i \in 1..((n + 1) + 1) |-> IF i <= n + 1 THEN off[i] ELSE z]
<1>3. \A i \in 1..(n + 1) : new[i] = off[i]
  BY <1>1
<1>4. new[(n + 1) + 1] = z
  BY <1>1
<1>5. new \in [1..((n + 1) + 1) -> 0..z]
  <2>1. ASSUME NEW i \in 1..((n + 1) + 1) PROVE new[i] \in 0..z
    <3>1. CASE i <= n + 1
      <4>1. i \in 1..(n + 1) /\ off[i] \in 0..q
        BY <1>1, <3>1
      <4> QED BY <1>3, <4>1
    <3>2. CASE ~ (i <= n + 1)
      BY <1>1, <3>2
    <3> QED BY <3>1, <3>2
  <2> QED BY <2>1
<1> HIDE DEF new
<1>6. new[1] = p
  BY <1>1, <1>2, <1>3
<1>7. ASSUME NEW i \in 1..(n + 1)
      PROVE  new[i] <= new[i + 1] /\ d[i] = SubSeq(bytes, new[i] + 1, new[i + 1])
  <2>1. CASE i \in 1..n
    <3>1. new[i] = off[i] /\ new[i + 1] = off[i + 1] /\ d[i] = ch[i]
      BY <1>1, <1>3, <2>1
    <3> QED BY <1>2, <2>1, <3>1
  <2>2. CASE i = n + 1
    <3>1. new[i] = q /\ new[i + 1] = z /\ d[i] = c
      BY <1>1, <1>2, <1>3, <1>4, <2>2
    <3> QED BY <3>1
  <2> QED BY <1>1, <2>1, <2>2
<1>8. Lays(d, n + 1, bytes, p, z)
  BY <1>4, <1>5, <1>6, <1>7 DEF Lays
<1> QED BY <1>1, <1>8 DEF d

(* What comes after the laid chunks does not matter.                       *)
LEMMA LaysSame ==
  ASSUME NEW ch, NEW d, NEW n, NEW bytes, NEW p, NEW q, \A i \in 1..n : d[i] = ch[i],
         Lays(ch, n, bytes, p, q)
  PROVE  Lays(d, n, bytes, p, q)
<1>1. PICK off \in [1..(n + 1) -> 0..q] :
        /\ off[1] = p /\ off[n + 1] = q
        /\ \A i \in 1..n : off[i] <= off[i + 1] /\ ch[i] = SubSeq(bytes, off[i] + 1, off[i + 1])
  BY DEF Lays
<1>2. \A i \in 1..n : off[i] <= off[i + 1] /\ d[i] = SubSeq(bytes, off[i] + 1, off[i + 1])
  BY <1>1
<1> QED BY <1>1, <1>2, Zenon DEF Lays

(* A chunk taken.                                                          *)
LEMMA LaysTaken ==
  ASSUME NEW S, NEW ch \in Seq(S), NEW n \in Nat, n > 0, n <= Len(ch), NEW bytes, NEW p, NEW q \in Nat,
         Lays(ch, n, bytes, p, q)
  PROVE  /\ p \in Nat
         /\ \E m \in 0..q : /\ p <= m /\ Head(ch) = SubSeq(bytes, p + 1, m)
                            /\ Lays(Tail(ch), n - 1, bytes, m, q)
<1>1. PICK off \in [1..(n + 1) -> 0..q] :
        /\ off[1] = p /\ off[n + 1] = q
        /\ \A i \in 1..n : off[i] <= off[i + 1] /\ ch[i] = SubSeq(bytes, off[i] + 1, off[i + 1])
  BY DEF Lays
<1>2. Len(ch) \in Nat /\ ch # <<>> /\ Head(ch) = ch[1] /\ \A i \in 1..(n - 1) : Tail(ch)[i] = ch[i + 1]
  OBVIOUS
<1> DEFINE new == [i \in 1..((n - 1) + 1) |-> off[i + 1]]
           m == off[2]
<1>3. \A i \in 1..((n - 1) + 1) : i + 1 \in 1..(n + 1)
  OBVIOUS
<1>4. new \in [1..((n - 1) + 1) -> 0..q] /\ \A i \in 1..n : new[i] = off[i + 1]
  BY <1>3
<1>5. new[1] = m /\ new[(n - 1) + 1] = q
  BY <1>1, <1>4
<1>6. p \in Nat /\ m \in 0..q /\ p <= m /\ Head(ch) = SubSeq(bytes, p + 1, m)
  <2>1. 1 \in 1..n /\ 1 \in 1..(n + 1) /\ 2 \in 1..(n + 1) /\ 1 + 1 = 2
    OBVIOUS
  <2>2. off[1] \in 0..q /\ off[2] \in 0..q
    BY <2>1
  <2>3. off[1] <= off[2] /\ ch[1] = SubSeq(bytes, off[1] + 1, off[2])
    BY <1>1, <2>1
  <2> QED BY <1>1, <1>2, <2>2, <2>3
<1> HIDE DEF new, m
<1>7. ASSUME NEW i \in 1..(n - 1)
      PROVE  new[i] <= new[i + 1] /\ Tail(ch)[i] = SubSeq(bytes, new[i] + 1, new[i + 1])
  <2>1. i \in 1..n /\ i + 1 \in 1..n
    OBVIOUS
  <2>2. new[i] = off[i + 1] /\ new[i + 1] = off[(i + 1) + 1]
    BY <1>4, <2>1
  <2>3. Tail(ch)[i] = ch[i + 1]
    BY <1>2
  <2> QED BY <1>1, <2>1, <2>2, <2>3
<1>8. Lays(Tail(ch), n - 1, bytes, m, q)
  BY <1>4, <1>5, <1>7 DEF Lays
<1> QED BY <1>6, <1>8

(* The part of a block that is sent is the next stretch of the range.      *)
LEMMA Sends ==
  ASSUME Settings, NEW g, Follows(g), g.format # "Raw", g.left > 0, g.idx <= Len(g.ends),
         NEW block, block = Block(g.file, g.ends, g.idx), NEW part, part = InRange(g, block),
         NEW h, h = Advanced(g, part)
  PROVE  /\ Follows(h) /\ block \in Seq(Byte)
         /\ h.content = g.content /\ h.end = g.end /\ h.format = g.format /\ h.file = g.file
         /\ Start(h) = Start(g) /\ At(g) <= At(h)
         /\ part.chunk \in Seq(Byte) /\ part.chunk = SubSeq(g.content.bytes, At(g) + 1, At(h))
         /\ part.chunk = <<>> => At(h) = At(g)
<1>a. PICK bytes : bytes = g.content.bytes
  OBVIOUS
<1>b. PICK n : n = Len(bytes)
  OBVIOUS
<1>c. PICK ends : ends = g.ends
  OBVIOUS
<1>d. PICK idx : idx = g.idx
  OBVIOUS
<1>e. PICK lo : lo = LogicalEnd(ends, idx - 1)
  OBVIOUS
<1>f. PICK hi : hi = ends[idx]
  OBVIOUS
<1>g. PICK drop : drop = part.drop
  OBVIOUS
<1>h. PICK skip : skip = g.skip
  OBVIOUS
<1>i. PICK left : left = g.left
  OBVIOUS
<1>j. PICK end : end = g.end
  OBVIOUS
<1>k. PICK at : at = At(g)
  OBVIOUS
<1>l. PICK m : m = Min({Len(block), drop + left})
  OBVIOUS
<1>1. /\ g \in Sources /\ bytes \in Seq(Byte) /\ n \in Nat /\ g.file.bytes = bytes
      /\ end \in Nat /\ left \in Nat /\ skip \in Nat /\ idx \in Nat
      /\ Start(g) \in Nat /\ at \in Nat /\ Start(g) <= at /\ at <= end
      /\ end <= n /\ at + left = end
  BY <1>a, <1>b, <1>d, <1>h, <1>i, <1>j, <1>k, FollowsIs
<1>2. /\ Index(ends, n) /\ idx \in 1..(Len(ends) + 1) /\ lo + skip = at
      /\ Encodes(g.file, g.content) /\ g.status = Status(g.spec, n) /\ end = To(g.spec, n)
  BY <1>a, <1>b, <1>c, <1>d, <1>e, <1>h, <1>j, <1>k DEF Follows
<1>3. /\ Len(ends) \in Nat /\ idx \in 1..Len(ends)
      /\ lo \in Nat /\ hi \in Nat /\ lo < hi /\ hi <= n /\ LogicalEnd(ends, idx) = hi
  <2>1. /\ Len(ends) \in Nat
        /\ \A x \in 1..Len(ends) : ends[x] \in Nat /\ LogicalEnd(ends, x - 1) \in Nat
                                   /\ LogicalEnd(ends, x - 1) < ends[x] /\ ends[x] <= n
        /\ \A x \in 1..Len(ends) : LogicalEnd(ends, x) = ends[x]
    BY <1>1, <1>2, IndexIs
  <2>2. idx \in 1..Len(ends)
    BY <1>2, <1>c, <1>d, <2>1
  <2> QED BY <1>e, <1>f, <2>1, <2>2
<1>4. block = SubSeq(bytes, lo + 1, hi) /\ block \in Seq(Byte) /\ Len(block) = hi - lo
  <2>1. block = SubSeq(bytes, lo + 1, hi)
    BY <1>1, <1>c, <1>d, <1>e, <1>f DEF Block, LogicalStart
  <2> QED BY <1>1, <1>3, <1>b, <2>1, Stretch
<1>5. drop = Min({skip, Len(block)}) /\ part.chunk = SubSeq(block, drop + 1, m)
  <2>1. /\ part.drop = Min({g.skip, Len(block)})
        /\ part.chunk = SubSeq(block, part.drop + 1, Min({Len(block), part.drop + g.left}))
    BY DEF InRange
  <2> QED BY <1>g, <1>h, <1>i, <1>l, <2>1
<1>6. drop = IF skip <= hi - lo THEN skip ELSE hi - lo
  <2>1. hi - lo \in Int /\ skip \in Int
    BY <1>1, <1>3
  <2> QED BY <1>4, <1>5, <2>1, MinOfTwo
<1>7. drop \in Nat /\ drop <= hi - lo /\ drop <= skip
  BY <1>1, <1>3, <1>6
<1>8. m = IF hi - lo <= drop + left THEN hi - lo ELSE drop + left
  <2>1. hi - lo \in Int /\ drop + left \in Int
    BY <1>1, <1>3, <1>7
  <2> QED BY <1>4, <1>l, <2>1, MinOfTwo
<1>9. m \in Nat /\ drop <= m /\ m <= hi - lo /\ m - drop <= left
  <2>1. left \in Nat /\ lo \in Nat /\ hi \in Nat
    BY <1>1, <1>3
  <2> QED BY ONLY <2>1, <1>7, <1>8
<1>10. part.chunk = SubSeq(bytes, lo + drop + 1, lo + m)
  <2>1. SubSeq(SubSeq(bytes, lo + 1, hi), drop + 1, m) = SubSeq(bytes, lo + drop + 1, lo + m)
    <3>1. /\ bytes \in Seq(Byte) /\ lo \in Nat /\ hi \in Nat /\ lo <= hi /\ hi <= Len(bytes)
          /\ drop \in Nat /\ m \in Nat /\ drop <= m /\ m <= hi - lo
      BY <1>1, <1>3, <1>7, <1>9, <1>b
    <3> QED BY ONLY <3>1, Within
  <2> QED BY <1>4, <1>5, <2>1
<1>11. part.chunk \in Seq(Byte) /\ Len(part.chunk) = m - drop
  <2>1. m <= Len(block)
    BY <1>4, <1>9
  <2>2. block \in Seq(Byte) /\ drop \in Nat /\ m \in Nat /\ drop <= m
    BY <1>4, <1>7, <1>9
  <2>3. /\ SubSeq(block, drop + 1, m) \in Seq(Byte) /\ Len(SubSeq(block, drop + 1, m)) = m - drop
    BY ONLY <2>1, <2>2, Stretch
  <2> QED BY <1>5, <2>3
<1>12. /\ h.spec = g.spec /\ h.content = g.content /\ h.status = g.status /\ h.file = g.file
       /\ h.format = g.format /\ h.end = end /\ h.ends = ends
       /\ h.idx = idx + 1 /\ h.skip = skip - drop /\ h.left = left - Len(part.chunk)
  <2>1. h = [g EXCEPT !.idx = idx + 1, !.skip = skip - drop, !.left = left - Len(part.chunk)]
    BY <1>d, <1>g, <1>h, <1>i DEF Advanced
  <2>2. g \in Sources
    BY <1>1
  <2> QED BY ONLY <1>c, <1>j, <2>1, <2>2 DEF Sources
<1>13. h \in Sources
  <2>1. idx + 1 \in Nat /\ skip - drop \in Nat /\ left - Len(part.chunk) \in Nat
    BY ONLY <1>1, <1>7, <1>9, <1>11
  <2>2. h = [g EXCEPT !.idx = idx + 1, !.skip = skip - drop, !.left = left - Len(part.chunk)]
    BY <1>d, <1>g, <1>h, <1>i DEF Advanced
  <2>3. g \in Sources
    BY <1>1
  <2> QED BY ONLY <2>1, <2>2, <2>3 DEF Sources
<1>14. At(h) = at + (m - drop) /\ At(h) <= end /\ At(h) \in Nat
  <2>1. At(h) = end - (left - (m - drop))
    BY <1>11, <1>12 DEF At
  <2> QED BY <1>1, <1>7, <1>9, <2>1
<1>15. part.chunk = SubSeq(bytes, at + 1, At(h)) /\ (h.left > 0 => hi + h.skip = At(h))
  <2>1. CASE skip <= hi - lo
    <3>1. drop = skip /\ lo + drop = at /\ lo + m = At(h)
      BY <1>1, <1>2, <1>3, <1>6, <1>9, <1>14, <2>1
    <3>2. h.left > 0 => m = hi - lo
      BY <1>1, <1>3, <1>7, <1>8, <1>9, <1>11, <1>12
    <3>3. h.skip = 0
      BY <1>1, <1>12, <3>1
    <3>4. h.left > 0 => hi + h.skip = At(h)
      BY <1>3, <3>1, <3>2, <3>3
    <3> QED BY <1>10, <3>1, <3>4
  <2>2. CASE ~ (skip <= hi - lo)
    <3>1. drop = hi - lo /\ m = hi - lo
      BY <1>1, <1>3, <1>6, <1>8, <2>2
    <3>2. At(h) = at /\ Len(part.chunk) = 0
      BY <1>1, <1>3, <1>11, <1>14, <3>1
    <3>3. part.chunk = <<>>
      BY <1>11, <3>2
    <3>4. SubSeq(bytes, at + 1, At(h)) = <<>>
      BY <1>1, <3>2, SubSeqEmpty
    <3>5. hi + h.skip = At(h)
      BY <1>1, <1>2, <1>3, <1>12, <3>1, <3>2
    <3> QED BY <3>3, <3>4, <3>5
  <2> QED BY <2>1, <2>2
<1>16. Start(h) = Start(g)
  BY <1>12 DEF Start
<1>17. h.idx \in 1..(Len(h.ends) + 1) /\ LogicalEnd(h.ends, h.idx - 1) = hi
  <2>1. h.idx - 1 = idx /\ h.idx \in 1..(Len(h.ends) + 1)
    BY <1>3, <1>12
  <2> QED BY <1>3, <1>12, <2>1
<1>18. Follows(h)
  <2>1. /\ Encodes(h.file, h.content) /\ h.status = Status(h.spec, Len(h.content.bytes))
        /\ h.end = To(h.spec, Len(h.content.bytes)) /\ Index(h.ends, Len(h.content.bytes))
    BY <1>2, <1>12, <1>a, <1>b
  <2>2. Start(h) <= At(h) /\ At(h) <= h.end
    BY <1>1, <1>7, <1>9, <1>12, <1>14, <1>16
  <2>3. h.left > 0 => LogicalEnd(h.ends, h.idx - 1) + h.skip = At(h)
    BY <1>15, <1>17
  <2> QED BY <1>13, <1>17, <2>1, <2>2, <2>3 DEF Follows
<1>19. at <= At(h) /\ (part.chunk = <<>> => At(h) = at)
  <2>1. part.chunk = <<>> => m - drop = 0
    BY <1>11
  <2> QED BY <1>1, <1>7, <1>9, <1>14, <2>1
<1> QED BY <1>4, <1>11, <1>12, <1>15, <1>16, <1>18, <1>19, <1>a, <1>j, <1>k

(* Where a chunk goes and what the pump does next.                         *)
Passes(chunk, ch, cl, p2, ch2) ==
    \/ chunk = <<>> /\ p2 = "step" /\ ch2 = ch
    \/ /\ chunk # <<>> /\ ch2 = Append(ch, chunk)
       /\ p2 = "reserve" \/ p2 = "step" \/ (p2 = "ended" /\ cl = "gone")

(* A block read and sent keeps a reader's state what it was.               *)
LEMMA SentOpened ==
  ASSUME Settings, NEW g, NEW p, NEW ch \in Seq(Chunks), NEW bd \in Seq(Byte), NEW cl,
         Opened(g, p, ch, bd, cl), p \in {"step", "decode"}, g.left > 0, g.idx <= Len(g.ends),
         NEW block, block = Block(g.file, g.ends, g.idx), NEW part, part = InRange(g, block),
         NEW h, h = Advanced(g, part),
         NEW p2, NEW ch2, Passes(part.chunk, ch, cl, p2, ch2)
  PROVE  Opened(h, p2, ch2, bd, cl) /\ h \in Sources /\ ch2 \in Seq(Chunks)
<1> USE DEF Passes
<1>1. /\ cl # "waiting" /\ Follows(g) /\ g.format # "Raw" /\ Start(g) + Len(bd) <= g.end
      /\ bd = SubSeq(g.content.bytes, Start(g) + 1, Start(g) + Len(bd))
      /\ cl = "reading" => Lays(ch, Len(ch), g.content.bytes, Start(g) + Len(bd), At(g))
      /\ cl = "complete" => Start(g) + Len(bd) = g.end
      /\ cl = "failed" => g.file.bad # {}
  BY DEF Opened, Streams
<1>2. /\ Follows(h)
      /\ h.content = g.content /\ h.end = g.end /\ h.format = g.format /\ h.file = g.file
      /\ Start(h) = Start(g) /\ At(g) <= At(h)
      /\ part.chunk \in Seq(Byte) /\ part.chunk = SubSeq(g.content.bytes, At(g) + 1, At(h))
      /\ part.chunk = <<>> => At(h) = At(g)
  <2>1. /\ Follows(g) /\ g.format # "Raw" /\ g.left > 0 /\ g.idx <= Len(g.ends)
        /\ block = Block(g.file, g.ends, g.idx) /\ part = InRange(g, block)
        /\ h = Advanced(g, part)
    BY <1>1
  <2> QED BY ONLY Settings, <2>1, Sends
<1>3. At(g) \in Nat /\ At(h) \in Nat /\ h \in Sources
  BY <1>1, <1>2, FollowsIs
<1>4. part.chunk \in Chunks
  BY <1>2, SeqMonotonic DEF Chunks
<1>5. ch2 \in Seq(Chunks)
  BY <1>4
<1>6. ASSUME cl = "reading" PROVE Streams(h, p2, ch2, bd)
  <2>1. Lays(ch, Len(ch), g.content.bytes, Start(g) + Len(bd), At(g)) /\ p2 # "ended"
    BY <1>1, <1>6
  <2>2. Lays(ch2, Len(ch2), g.content.bytes, Start(g) + Len(bd), At(h))
    <3>1. CASE part.chunk = <<>>
      <4>1. ch2 = ch /\ At(h) = At(g)
        BY <1>2, <3>1
      <4> QED BY <2>1, <4>1
    <3>2. CASE part.chunk # <<>>
      <4>1. Lays(Append(ch, part.chunk), Len(Append(ch, part.chunk)), g.content.bytes, Start(g) + Len(bd), At(h))
        <5>1. /\ ch \in Seq(Chunks) /\ part.chunk \in Chunks /\ At(g) \in Nat /\ At(h) \in Nat /\ At(g) <= At(h)
              /\ part.chunk = SubSeq(g.content.bytes, At(g) + 1, At(h))
              /\ Lays(ch, Len(ch), g.content.bytes, Start(g) + Len(bd), At(g))
          BY <1>2, <1>3, <1>4, <2>1
        <5> QED BY ONLY <5>1, LaysSent
      <4> QED BY <3>2, <4>1
    <3> QED BY <3>1, <3>2
  <2> QED BY <1>2, <2>1, <2>2 DEF Streams
<1>7. /\ Start(h) + Len(bd) <= h.end
      /\ bd = SubSeq(h.content.bytes, Start(h) + 1, Start(h) + Len(bd))
      /\ cl = "complete" => Start(h) + Len(bd) = h.end
      /\ cl = "failed" => h.file.bad # {}
      /\ h.format # "Raw"
  BY <1>1, <1>2
<1>8. p2 \in {"step", "reserve", "ended"}
  OBVIOUS
<1> QED BY <1>1, <1>2, <1>3, <1>5, <1>6, <1>7, <1>8 DEF Opened

-----------------------------------------------------------------------------
(* The steps.                                                              *)

LEMMA OthersKept ==
  ASSUME \A q \in Readers : Reader(q), NEW r \in Readers, Reader(r)',
         \A q \in Readers \ {r} : /\ get'[q] = get[q] /\ pump'[q] = pump[q] /\ chan'[q] = chan[q]
                                  /\ body'[q] = body[q] /\ client'[q] = client[q]
  PROVE  (\A q \in Readers : Reader(q))'
<1>1. ASSUME NEW q \in Readers \ {r} PROVE Reader(q)'
  <2>1. /\ get'[q] = get[q] /\ pump'[q] = pump[q] /\ chan'[q] = chan[q]
        /\ body'[q] = body[q] /\ client'[q] = client[q]
    OBVIOUS
  <2>2. Reader(q)
    OBVIOUS
  <2> QED BY <2>1, <2>2 DEF Reader
<1> QED BY <1>1

LEMMA BusyIsOpened ==
  ASSUME IInv, NEW r \in Readers, pump[r] \notin {"idle", "refused"} \/ client[r] \notin {"waiting", "complete"}
  PROVE  Opened(get[r], pump[r], chan[r], body[r], client[r])
BY DEF IInv, Reader, Waits, Rejected

LEMMA SendKeeps ==
  ASSUME Settings, IInv, NEW r \in Readers, pump[r] \in {"step", "decode"},
         get[r].left > 0, get[r].idx <= Len(get[r].ends),
         NEW block, block = Current(r), Send(r, block),
         object' = object, blob' = blob, body' = body, client' = client
  PROVE  TypeOK' /\ (\A q \in Readers : Reader(q))' /\ block \in Seq(Byte)
<1>1. PICK g : g = get[r]
  OBVIOUS
<1>2. PICK part : part = InRange(g, block)
  OBVIOUS
<1>3. PICK h : h = Advanced(g, part)
  OBVIOUS
<1>4. Opened(g, pump[r], chan[r], body[r], client[r])
  BY <1>1, BusyIsOpened
<1>5. Follows(g) /\ g.format # "Raw"
  BY <1>4 DEF Opened
<1>6. g \in Sources
  BY <1>5 DEF Follows
<1>7. /\ get \in [Readers -> {None} \cup Answers \cup Sources] /\ chan \in [Readers -> Seq(Chunks)]
      /\ body \in [Readers -> Seq(Byte)] /\ steps \in [Readers -> Nat]
      /\ pump \in [Readers -> {"idle", "reserve", "step", "decode", "pull", "ended", "refused"}]
      /\ client \in [Readers -> {"waiting", "reading", "complete", "failed", "gone"}]
  BY DEF IInv, TypeOK
<1>8. block = Block(g.file, g.ends, g.idx)
  BY <1>1 DEF Current, Handle
<1>9. get' = [get EXCEPT ![r] = h]
  BY <1>1, <1>2, <1>3 DEF Send
<1>10. \/ /\ part.chunk = <<>> /\ pump' = [pump EXCEPT ![r] = "step"] /\ chan' = chan /\ steps' = steps
       \/ /\ part.chunk # <<>> /\ chan' = [chan EXCEPT ![r] = Append(chan[r], part.chunk)]
          /\ pump' = [pump EXCEPT ![r] = AfterSend(r, Append(chan[r], part.chunk))]
          /\ steps' = [steps EXCEPT ![r] = @ + 1]
  BY <1>1, <1>2 DEF Send
<1>11. \/ AfterSend(r, Append(chan[r], part.chunk)) = "reserve"
       \/ AfterSend(r, Append(chan[r], part.chunk)) = "step"
       \/ AfterSend(r, Append(chan[r], part.chunk)) = "ended" /\ client[r] = "gone"
  BY DEF AfterSend
<1>12. \/ part.chunk = <<>> /\ pump'[r] = "step" /\ chan'[r] = chan[r]
       \/ /\ part.chunk # <<>> /\ chan'[r] = Append(chan[r], part.chunk)
          /\ pump'[r] = "reserve" \/ pump'[r] = "step" \/ (pump'[r] = "ended" /\ client[r] = "gone")
  BY <1>7, <1>10, <1>11
<1>13. Opened(h, pump'[r], chan'[r], body[r], client[r]) /\ h \in Sources /\ chan'[r] \in Seq(Chunks)
  <2>1. /\ chan[r] \in Seq(Chunks) /\ body[r] \in Seq(Byte) /\ g.left > 0 /\ g.idx <= Len(g.ends)
    BY <1>1, <1>7
  <2>2. pump[r] \in {"step", "decode"}
    OBVIOUS
  <2>3. PICK p2 : p2 = pump'[r]
    OBVIOUS
  <2>4. PICK ch2 : ch2 = chan'[r]
    OBVIOUS
  <2>5. PICK ch \in Seq(Chunks) : ch = chan[r]
    BY <2>1
  <2>6. PICK bd \in Seq(Byte) : bd = body[r]
    BY <2>1
  <2>7. PICK cl : cl = client[r]
    OBVIOUS
  <2>8. PICK p : p = pump[r]
    OBVIOUS
  <2>9. \/ part.chunk = <<>> /\ p2 = "step" /\ ch2 = ch
        \/ /\ part.chunk # <<>> /\ ch2 = Append(ch, part.chunk)
           /\ p2 = "reserve" \/ p2 = "step" \/ (p2 = "ended" /\ cl = "gone")
    BY <1>12, <2>3, <2>4, <2>5, <2>7
  <2>12. Passes(part.chunk, ch, cl, p2, ch2)
    BY <2>9 DEF Passes
  <2>10. Opened(g, p, ch, bd, cl) /\ p \in {"step", "decode"}
    BY <1>4, <2>2, <2>5, <2>6, <2>7, <2>8
  <2>11. Opened(h, p2, ch2, bd, cl) /\ h \in Sources /\ ch2 \in Seq(Chunks)
    BY ONLY Settings, <1>2, <1>3, <1>8, <2>1, <2>12, <2>10, ch \in Seq(Chunks), bd \in Seq(Byte), SentOpened, ZenonT(90)
  <2> QED BY <2>3, <2>4, <2>6, <2>7, <2>11
<1>14. block \in Seq(Byte)
  <2>1. g.left > 0 /\ g.idx <= Len(g.ends)
    BY <1>1
  <2> QED BY ONLY Settings, <1>2, <1>3, <1>5, <1>8, <2>1, Sends
<1>15. get'[r] = h /\ \A q \in Readers \ {r} : get'[q] = get[q]
  BY <1>7, <1>9
<1>16. Reader(r)'
  BY <1>13, <1>15 DEF Reader
<1>17. \A q \in Readers \ {r} : pump'[q] = pump[q] /\ chan'[q] = chan[q]
  BY <1>7, <1>10
<1>18. (\A q \in Readers : Reader(q))'
  <2>1. \A q \in Readers : Reader(q)
    BY DEF IInv
  <2> QED BY <1>15, <1>16, <1>17, <2>1, OthersKept
<1>19. TypeOK'
  <2>1. get' \in [Readers -> {None} \cup Answers \cup Sources]
    BY <1>7, <1>9, <1>13
  <2>2. chan' \in [Readers -> Seq(Chunks)]
    <3>1. chan' = [chan EXCEPT ![r] = chan'[r]]
      BY <1>7, <1>10
    <3> QED BY <1>7, <1>13, <3>1
  <2>3. pump' \in [Readers -> {"idle", "reserve", "step", "decode", "pull", "ended", "refused"}]
    BY <1>7, <1>10, <1>11
  <2>4. steps' \in [Readers -> Nat]
    <3>1. steps[r] + 1 \in Nat
      BY <1>7
    <3>2. steps' = steps \/ steps' = [steps EXCEPT ![r] = steps[r] + 1]
      BY <1>10
    <3> QED BY <1>7, <3>1, <3>2
  <2>5. object \in Objects /\ blob \in Files
    BY DEF IInv, TypeOK
  <2> QED BY <1>7, <2>1, <2>2, <2>3, <2>4, <2>5 DEF TypeOK
<1> QED BY <1>14, <1>18, <1>19

Gets == {None} \cup Answers \cup Sources
Pumps == {"idle", "reserve", "step", "decode", "pull", "ended", "refused"}
Clients == {"waiting", "reading", "complete", "failed", "gone"}

LEMMA Typed ==
  ASSUME IInv
  PROVE  /\ object \in Objects /\ blob \in Files /\ Encodes(blob, object) /\ CacheOK(cache, cacheUsed)
         /\ get \in [Readers -> Gets] /\ pump \in [Readers -> Pumps] /\ steps \in [Readers -> Nat]
         /\ chan \in [Readers -> Seq(Chunks)] /\ body \in [Readers -> Seq(Byte)]
         /\ client \in [Readers -> Clients]
BY DEF IInv, TypeOK, Gets, Pumps, Clients

ReaderState(g, p, ch, bd, cl) == Waits(p, ch, bd, cl) \/ Rejected(g, p, bd, cl) \/ Opened(g, p, ch, bd, cl)

(* A step of one request.                                                  *)
LEMMA OneReader ==
  ASSUME IInv, NEW r \in Readers, NEW g \in Gets, NEW p \in Pumps, NEW ch \in Seq(Chunks),
         NEW bd \in Seq(Byte), NEW cl \in Clients,
         get' = [get EXCEPT ![r] = g], pump' = [pump EXCEPT ![r] = p], chan' = [chan EXCEPT ![r] = ch],
         body' = [body EXCEPT ![r] = bd], client' = [client EXCEPT ![r] = cl], steps' \in [Readers -> Nat],
         object' = object, blob' = blob, CacheOK(cache', cacheUsed'), ReaderState(g, p, ch, bd, cl)
  PROVE  IInv'
<1>1. /\ object \in Objects /\ blob \in Files /\ Encodes(blob, object)
      /\ get \in [Readers -> Gets] /\ pump \in [Readers -> Pumps]
      /\ chan \in [Readers -> Seq(Chunks)] /\ body \in [Readers -> Seq(Byte)]
      /\ client \in [Readers -> Clients]
  BY Typed
<1>2. TypeOK'
  <2>1. get' \in [Readers -> Gets] /\ pump' \in [Readers -> Pumps] /\ client' \in [Readers -> Clients]
    BY <1>1
  <2>2. chan' \in [Readers -> Seq(Chunks)] /\ body' \in [Readers -> Seq(Byte)]
    BY <1>1
  <2> QED BY <1>1, <2>1, <2>2 DEF TypeOK, Gets, Pumps, Clients
<1>3. get'[r] = g /\ pump'[r] = p /\ chan'[r] = ch /\ body'[r] = bd /\ client'[r] = cl
  BY <1>1
<1>4. Reader(r)'
  BY <1>3 DEF Reader, ReaderState
<1>5. \A q \in Readers \ {r} : /\ get'[q] = get[q] /\ pump'[q] = pump[q] /\ chan'[q] = chan[q]
                               /\ body'[q] = body[q] /\ client'[q] = client[q]
  BY <1>1
<1>6. \A q \in Readers : Reader(q)
  BY DEF IInv
<1>7. (\A q \in Readers : Reader(q))'
  BY <1>4, <1>5, <1>6, OthersKept
<1> QED BY <1>1, <1>2, <1>7 DEF IInv

LEMMA OpenKeeps ==
  ASSUME Settings, IInv, NEW r \in Readers, NEW spec \in Specs, client[r] = "waiting",
         NEW size, size = Len(object.bytes), NEW start \in Nat, NEW length \in Nat,
         NEW asked, asked = [spec |-> spec, content |-> object, status |-> Status(spec, size), file |-> Unopened],
         Status(spec, size) \in {200, 206}, start = From(spec, size), start + length = To(spec, size),
         OpenObjectBodyStream(r, asked, start, length, size),
         object' = object, blob' = blob, steps' = steps, chan' = chan, body' = body,
         cache' = cache, cacheUsed' = cacheUsed
  PROVE  IInv'
<1>1. /\ object \in Objects /\ blob \in Files /\ Encodes(blob, object) /\ CacheOK(cache, cacheUsed)
      /\ get \in [Readers -> Gets] /\ pump \in [Readers -> Pumps] /\ steps \in [Readers -> Nat]
      /\ chan \in [Readers -> Seq(Chunks)] /\ body \in [Readers -> Seq(Byte)]
      /\ client \in [Readers -> Clients]
  BY Typed
<1>2. chan[r] = <<>> /\ body[r] = <<>>
  BY DEF IInv, Reader, Waits, Rejected, Opened
<1>3. RangeSpec(spec) /\ object.bytes \in Seq(Byte) /\ size \in Nat
  <2>1. RangeSpec(spec) /\ object.bytes \in Seq(Byte)
    BY <1>1 DEF Settings
  <2> QED BY <2>1
<1>4. /\ start + length <= size /\ (Status(spec, size) = 206 => length > 0)
      /\ start < size \/ (size = 0 /\ start = 0)
  <2>1. /\ From(spec, size) \in Nat /\ To(spec, size) \in Nat
        /\ From(spec, size) <= To(spec, size) /\ To(spec, size) <= size
        /\ Status(spec, size) = 206 => From(spec, size) < To(spec, size)
    BY <1>3, AskedIs
  <2>2. Status(spec, size) = 200 => From(spec, size) = 0
    BY DEF From
  <2> QED BY <1>3, <2>1, <2>2
<1>5. PICK format : format = StoredBlobFormat(blob, size)
  OBVIOUS
<1>6. format \in Formats /\ ~Refused(blob, format, size) /\ blob.bytes = object.bytes /\ blob.ends \in Seq(Nat)
  BY <1>1, <1>5 DEF Encodes
<1>7. PICK at : at = Position(blob, format, start)
  OBVIOUS
<1> DEFINE g == [spec |-> spec, content |-> object, status |-> Status(spec, size),
                 file |-> blob, format |-> format, end |-> start + length, left |-> length,
                 populate |-> ~(start = 0 /\ length = size),
                 ends |-> at.ends, idx |-> at.idx, skip |-> at.skip]
<1>9. PICK p : p = IF format = "Raw" THEN "pull" ELSE "reserve"
  OBVIOUS
<1>10. /\ get' = [get EXCEPT ![r] = g] /\ pump' = [pump EXCEPT ![r] = p]
       /\ client' = [client EXCEPT ![r] = "reading"]
  BY <1>5, <1>6, <1>7, <1>9 DEF OpenObjectBodyStream
<1>11. format # "Raw" => StartsAt(at, size, start)
  <2>1. /\ size \in Nat /\ Len(blob.bytes) = size /\ blob.ends \in Seq(Nat)
        /\ format \in Formats /\ ~Refused(blob, format, size)
        /\ start \in Nat /\ (start < size \/ (size = 0 /\ start = 0))
    BY <1>3, <1>4, <1>6
  <2>2. PICK f : f = blob
    OBVIOUS
  <2>3. format # "Raw" => StartsAt(Position(f, format, start), size, start)
    BY ONLY Settings, <2>1, <2>2, PositionStarts
  <2> QED BY <1>7, <2>2, <2>3
<1>12. at.ends \in Seq(Nat) /\ at.idx \in Nat /\ at.skip \in Nat
  <2>1. CASE format # "Raw"
    <3>1. at.ends \in Seq(Nat) /\ at.idx \in 1..(Len(at.ends) + 1) /\ at.skip \in Nat
      BY <1>11, <2>1 DEF StartsAt, Index
    <3> QED BY <3>1
  <2>2. CASE format = "Raw"
    <3>1. at = [ends |-> <<>>, idx |-> 1, skip |-> 0]
      BY <1>7, <2>2 DEF Position
    <3> QED BY <3>1
  <2> QED BY <2>1, <2>2
<1>13. /\ g.spec = spec /\ g.content = object /\ g.status = Status(spec, size) /\ g.file = blob
       /\ g.format = format /\ g.end = start + length /\ g.left = length
       /\ g.ends = at.ends /\ g.idx = at.idx /\ g.skip = at.skip
  OBVIOUS
<1>14. g \in Sources
  <2>1. start + length \in Nat
    OBVIOUS
  <2>2. (~(start = 0 /\ length = size)) \in BOOLEAN
    OBVIOUS
  <2> QED BY <1>1, <1>6, <1>12, <2>1, <2>2 DEF Sources
<1> HIDE DEF g
<1>15. At(g) = start /\ Start(g) = start
  BY <1>13 DEF At, Start
<1>16. Follows(g)
  <2>1. Len(g.content.bytes) = size
    BY <1>13
  <2>2. g.format # "Raw" =>
            /\ Index(g.ends, size) /\ g.idx \in 1..(Len(g.ends) + 1)
            /\ LogicalEnd(g.ends, g.idx - 1) + g.skip = At(g)
    BY <1>11, <1>13, <1>15 DEF StartsAt
  <2>3. Start(g) <= At(g) /\ At(g) <= g.end
    BY <1>13, <1>15
  <2>4. Encodes(g.file, g.content) /\ g.status = Status(g.spec, size) /\ g.end = To(g.spec, size)
    BY <1>1, <1>13
  <2> QED BY <1>14, <2>1, <2>2, <2>3, <2>4 DEF Follows
<1>17. Opened(g, p, <<>>, <<>>, "reading")
  <2>1. Len(<<>>) = 0
    OBVIOUS
  <2>2. Start(g) + Len(<<>>) = start
    BY <1>15
  <2>3. Lays(<<>>, Len(<<>>), g.content.bytes, start, start)
    BY NothingLaid
  <2>4. p # "ended"
    BY <1>9
  <2>5. Streams(g, p, <<>>, <<>>)
    BY <1>15, <2>2, <2>3, <2>4 DEF Streams
  <2>6. <<>> = SubSeq(g.content.bytes, Start(g) + 1, Start(g) + Len(<<>>))
    BY <1>15, <2>2, SubSeqEmpty
  <2>7. Start(g) + Len(<<>>) <= g.end
    BY <1>13, <2>2
  <2> QED BY <1>9, <1>13, <1>16, <2>5, <2>6, <2>7 DEF Opened
<1>18. g \in Gets /\ p \in Pumps /\ "reading" \in Clients /\ <<>> \in Seq(Chunks) /\ <<>> \in Seq(Byte)
  BY <1>9, <1>14 DEF Gets, Pumps, Clients
<1>19. chan' = [chan EXCEPT ![r] = <<>>] /\ body' = [body EXCEPT ![r] = <<>>]
  BY <1>1, <1>2
<1>20. ReaderState(g, p, <<>>, <<>>, "reading") /\ CacheOK(cache', cacheUsed') /\ steps' \in [Readers -> Nat]
  BY <1>1, <1>17 DEF ReaderState
<1> QED BY ONLY IInv, r \in Readers, <1>10, <1>18, <1>19, <1>20, object' = object, blob' = blob, OneReader

LEMMA GetStep ==
  ASSUME Settings, IInv, NEW r \in Readers, NEW spec \in Specs, Get(r, spec)
  PROVE  IInv'
<1>1. PICK size : size = Len(object.bytes)
  OBVIOUS
<1>2. PICK range : range = EvaluateRange(spec, size)
  OBVIOUS
<1>3. PICK asked : asked = [spec |-> spec, content |-> object, status |-> range.status, file |-> Unopened]
  OBVIOUS
<1>4. /\ client[r] = "waiting"
      /\ CASE range.status = 200 -> OpenObjectBodyStream(r, asked, 0, size, size)
           [] range.status = 206 ->
                  OpenObjectBodyStream(r, asked, range.start, range.end - range.start + 1, size)
           [] range.status = 416 ->
                  /\ get' = [get EXCEPT ![r] = asked]
                  /\ pump' = [pump EXCEPT ![r] = "refused"]
                  /\ client' = [client EXCEPT ![r] = "complete"]
      /\ object' = object /\ blob' = blob /\ steps' = steps /\ chan' = chan /\ body' = body
      /\ cache' = cache /\ cacheUsed' = cacheUsed
  BY <1>1, <1>2, <1>3 DEF Get
<1>5. range.status = Status(spec, size)
  BY <1>2 DEF Status
<1>6. /\ object \in Objects /\ CacheOK(cache, cacheUsed) /\ steps \in [Readers -> Nat]
      /\ chan \in [Readers -> Seq(Chunks)] /\ body \in [Readers -> Seq(Byte)]
  BY Typed
<1>7. RangeSpec(spec) /\ object.bytes \in Seq(Byte) /\ size \in Nat
  <2>1. RangeSpec(spec) /\ object.bytes \in Seq(Byte)
    BY <1>6 DEF Settings
  <2> QED BY <1>1, <2>1
<1>8. /\ Status(spec, size) \in {200, 206, 416}
      /\ Status(spec, size) # 416 => /\ From(spec, size) \in Nat /\ To(spec, size) \in Nat
                                     /\ From(spec, size) <= To(spec, size)
  BY <1>1, <1>7, AskedIs
<1>9. asked = [spec |-> spec, content |-> object, status |-> Status(spec, size), file |-> Unopened]
  BY <1>3, <1>5
<1>10. CASE range.status = 200
  <2>1. OpenObjectBodyStream(r, asked, 0, size, size)
    BY <1>4, <1>10
  <2>2. PICK start \in Nat : start = 0
    OBVIOUS
  <2>3. /\ start = From(spec, size) /\ start + size = To(spec, size) /\ Status(spec, size) \in {200, 206}
    BY <1>5, <1>7, <1>10, <2>2 DEF From, To
  <2>4. OpenObjectBodyStream(r, asked, start, size, size)
    BY <2>1, <2>2
  <2> QED BY <1>1, <1>4, <1>7, <1>9, <2>3, <2>4, OpenKeeps
<1>11. CASE range.status = 206
  <2>1. PICK start : start = range.start
    OBVIOUS
  <2>2. PICK length : length = range.end - range.start + 1
    OBVIOUS
  <2>3. OpenObjectBodyStream(r, asked, start, length, size)
    BY <1>4, <1>11, <2>1, <2>2
  <2>4. From(spec, size) = start /\ To(spec, size) = range.end + 1
    BY <1>2, <1>5, <1>11, <2>1 DEF From, To
  <2>5. start \in Nat /\ length \in Nat /\ start + length = To(spec, size)
    <3>1. range.end \in Int
      <4>1. /\ From(spec, size) \in Nat /\ To(spec, size) \in Nat /\ Status(spec, size) = 206
        BY <1>5, <1>8, <1>11
      <4>2. CASE spec.kind = "suffix"
        <5>1. range.end = size - 1
          BY <1>2, <1>11, <4>2 DEF EvaluateRange, Unsatisfiable
        <5> QED BY <1>7, <5>1
      <4>3. CASE spec.kind = "span"
        <5>1. range.end = IF spec.last = -1 THEN size - 1 ELSE Min({spec.last, size - 1})
          BY <1>2, <1>11, <4>3 DEF EvaluateRange, Unsatisfiable, Ignore
        <5>2. spec.last \in Int
          BY <1>7, <4>3 DEF RangeSpec
        <5>3. Min({spec.last, size - 1}) = IF spec.last <= size - 1 THEN spec.last ELSE size - 1
          BY <1>7, <5>2, MinOfTwo
        <5> QED BY <1>7, <5>1, <5>2, <5>3
      <4>4. CASE spec.kind = "ignore"
        BY <1>2, <1>11, <4>4 DEF EvaluateRange, Ignore
      <4> QED BY <1>7, <4>2, <4>3, <4>4 DEF RangeSpec
    <3>2. range.start \in Nat /\ range.end + 1 \in Nat /\ range.start <= range.end + 1
      BY <1>5, <1>8, <1>11, <2>1, <2>4
    <3> QED BY <2>1, <2>2, <2>4, <3>1, <3>2
  <2>6. Status(spec, size) \in {200, 206} /\ start = From(spec, size)
    BY <1>5, <1>11, <2>4
  <2> QED BY <1>1, <1>4, <1>9, <2>3, <2>5, <2>6, OpenKeeps
<1>12. CASE range.status = 416
  <2>1. /\ get' = [get EXCEPT ![r] = asked] /\ pump' = [pump EXCEPT ![r] = "refused"]
        /\ client' = [client EXCEPT ![r] = "complete"]
    BY <1>4, <1>12
  <2>2. chan[r] = <<>> /\ body[r] = <<>>
    BY <1>4 DEF IInv, Reader, Waits, Rejected, Opened
  <2>3. asked \in Answers /\ asked.spec = spec /\ asked.content = object /\ asked.status = 416
    BY <1>3, <1>6, <1>12 DEF Answers
  <2>4. Rejected(asked, "refused", <<>>, "complete")
    BY <1>1, <1>5, <1>12, <2>3 DEF Rejected
  <2>5. ReaderState(asked, "refused", <<>>, <<>>, "complete")
    BY <2>4 DEF ReaderState
  <2>6. asked \in Gets /\ "refused" \in Pumps /\ "complete" \in Clients /\ <<>> \in Seq(Chunks) /\ <<>> \in Seq(Byte)
    BY <2>3 DEF Gets, Pumps, Clients
  <2>7. chan' = [chan EXCEPT ![r] = <<>>] /\ body' = [body EXCEPT ![r] = <<>>]
    BY <1>4, <1>6, <2>2
  <2>8. object' = object /\ blob' = blob /\ CacheOK(cache', cacheUsed') /\ steps' \in [Readers -> Nat]
    BY <1>4, <1>6
  <2> QED BY ONLY IInv, r \in Readers, <2>1, <2>5, <2>6, <2>7, <2>8, OneReader
<1> QED BY <1>5, <1>8, <1>10, <1>11, <1>12

(* A step of one request that changes neither its source nor its body.     *)
LEMMA PumpStep ==
  ASSUME IInv, NEW r \in Readers, NEW p \in Pumps, NEW ch \in Seq(Chunks), NEW cl \in Clients,
         get' = get, body' = body, object' = object, blob' = blob,
         pump' = [pump EXCEPT ![r] = p], chan' = [chan EXCEPT ![r] = ch], client' = [client EXCEPT ![r] = cl],
         steps' \in [Readers -> Nat], CacheOK(cache', cacheUsed'), Opened(get[r], p, ch, body[r], cl)
  PROVE  IInv'
<1>1. get \in [Readers -> Gets] /\ body \in [Readers -> Seq(Byte)]
  BY Typed
<1>2. get[r] \in Gets /\ body[r] \in Seq(Byte)
  BY <1>1
<1>3. get' = [get EXCEPT ![r] = get[r]] /\ body' = [body EXCEPT ![r] = body[r]]
  BY <1>1
<1>4. ReaderState(get[r], p, ch, body[r], cl)
  BY DEF ReaderState
<1>5. PICK g : g = get[r]
  OBVIOUS
<1>6. PICK bd : bd = body[r]
  OBVIOUS
<1>7. /\ g \in Gets /\ bd \in Seq(Byte) /\ get' = [get EXCEPT ![r] = g] /\ body' = [body EXCEPT ![r] = bd]
      /\ ReaderState(g, p, ch, bd, cl)
  BY <1>2, <1>3, <1>4, <1>5, <1>6
<1>8. /\ pump' = [pump EXCEPT ![r] = p] /\ chan' = [chan EXCEPT ![r] = ch] /\ client' = [client EXCEPT ![r] = cl]
      /\ steps' \in [Readers -> Nat] /\ CacheOK(cache', cacheUsed') /\ object' = object /\ blob' = blob
  OBVIOUS
<1> QED BY ONLY IInv, r \in Readers, p \in Pumps, ch \in Seq(Chunks), cl \in Clients, <1>7, <1>8, OneReader

LEMMA ReserveStep ==
  ASSUME Settings, IInv, NEW r \in Readers, Reserve(r)
  PROVE  IInv'
<1>1. /\ pump[r] = "reserve" /\ get' = get /\ body' = body /\ object' = object /\ blob' = blob
      /\ chan' = chan /\ client' = client /\ cache' = cache /\ cacheUsed' = cacheUsed
      /\ steps' = [steps EXCEPT ![r] = 0]
  BY DEF Reserve
<1>2. PICK p : p = IF client[r] = "gone" THEN "ended" ELSE "step"
  OBVIOUS
<1>3. pump' = [pump EXCEPT ![r] = p]
  BY <1>2 DEF Reserve
<1>4. /\ chan \in [Readers -> Seq(Chunks)] /\ client \in [Readers -> Clients] /\ steps \in [Readers -> Nat]
      /\ CacheOK(cache, cacheUsed)
  BY Typed
<1>5. Opened(get[r], pump[r], chan[r], body[r], client[r])
  BY <1>1, BusyIsOpened
<1>6. Opened(get[r], p, chan[r], body[r], client[r])
  BY <1>1, <1>2, <1>5 DEF Opened, Streams
<1>7. /\ chan' = [chan EXCEPT ![r] = chan[r]] /\ client' = [client EXCEPT ![r] = client[r]]
      /\ steps' \in [Readers -> Nat] /\ CacheOK(cache', cacheUsed')
      /\ chan[r] \in Seq(Chunks) /\ client[r] \in Clients
  BY <1>1, <1>4
<1>8. p \in Pumps
  BY <1>2 DEF Pumps
<1> QED BY <1>1, <1>3, <1>6, <1>7, <1>8, PumpStep

LEMMA EndOfSourceStep ==
  ASSUME Settings, IInv, NEW r \in Readers, EndOfSource(r)
  PROVE  IInv'
<1>1. /\ pump[r] = "step" /\ get[r].left = 0 /\ get' = get /\ body' = body /\ object' = object /\ blob' = blob
      /\ chan' = chan /\ client' = client /\ cache' = cache /\ cacheUsed' = cacheUsed
      /\ steps' = steps /\ pump' = [pump EXCEPT ![r] = "ended"]
  BY DEF EndOfSource
<1>2. /\ chan \in [Readers -> Seq(Chunks)] /\ client \in [Readers -> Clients] /\ steps \in [Readers -> Nat]
      /\ CacheOK(cache, cacheUsed)
  BY Typed
<1>3. Opened(get[r], pump[r], chan[r], body[r], client[r])
  BY <1>1, BusyIsOpened
<1>4. Opened(get[r], "ended", chan[r], body[r], client[r])
  BY <1>1, <1>3 DEF Opened, Streams
<1>5. /\ chan' = [chan EXCEPT ![r] = chan[r]] /\ client' = [client EXCEPT ![r] = client[r]]
      /\ steps' \in [Readers -> Nat] /\ CacheOK(cache', cacheUsed')
      /\ chan[r] \in Seq(Chunks) /\ client[r] \in Clients
  BY <1>1, <1>2
<1>6. "ended" \in Pumps
  BY DEF Pumps
<1> QED BY <1>1, <1>4, <1>5, <1>6, PumpStep

(* A block of a format that is read without the cache.                     *)
LEMMA ReadStep ==
  ASSUME Settings, IInv, NEW r \in Readers, ReadDedupChunk(r) \/ ReadZstdChunk(r)
  PROVE  IInv'
<1>1. /\ pump[r] \in {"step", "decode"} /\ get[r].left > 0 /\ get[r].idx <= Len(get[r].ends)
      /\ Send(r, Current(r))
      /\ object' = object /\ blob' = blob /\ body' = body /\ client' = client
      /\ cache' = cache /\ cacheUsed' = cacheUsed
  BY DEF ReadDedupChunk, ReadZstdChunk, CanRead
<1>2. PICK block : block = Current(r)
  OBVIOUS
<1>3. Send(r, block)
  BY <1>1, <1>2
<1>4. TypeOK' /\ (\A q \in Readers : Reader(q))'
  BY <1>1, <1>2, <1>3, SendKeeps
<1>5. Encodes(blob, object) /\ CacheOK(cache, cacheUsed)
  BY Typed
<1> QED BY <1>1, <1>4, <1>5 DEF IInv

(* What the cache returns for a block's key is that block.                 *)
LEMMA HitIsBlock ==
  ASSUME CacheOK(cache, cacheUsed), NEW idx, NEW format, NEW block,
         NEW i \in Cached(Key(idx, <<format, block>>))
  PROVE  cache[i].block = block
<1>1. i \in DOMAIN cache /\ cache[i].key = Key(idx, <<format, block>>)
  BY DEF Cached
<1>2. cache[i] \in Entries
  BY <1>1 DEF CacheOK
<1>3. cache[i].block = cache[i].key.tag[2]
  BY <1>2, EntryFields
<1>4. cache[i].key.tag[2] = block
  BY <1>1 DEF Key
<1> QED BY <1>3, <1>4

LEMMA LookUpStep ==
  ASSUME Settings, IInv, NEW r \in Readers, LookUp(r)
  PROVE  IInv'
<1>1. PICK k : k = Key(get[r].idx, TagOf(r))
  OBVIOUS
<1>2. PICK hits : hits = {i \in Cached(k) : Len(cache[i].block) = Len(Current(r))}
  OBVIOUS
<1>3. /\ pump[r] = "step" /\ get[r].left > 0 /\ get[r].idx <= Len(get[r].ends)
      /\ object' = object /\ blob' = blob /\ body' = body /\ client' = client
  BY DEF LookUp, CanRead
<1>4. \/ hits # {} /\ CacheGet(k) /\ Send(r, cache[CHOOSE i \in hits : TRUE].block)
      \/ /\ hits = {} /\ pump' = [pump EXCEPT ![r] = "decode"]
         /\ get' = get /\ steps' = steps /\ chan' = chan /\ cache' = cache /\ cacheUsed' = cacheUsed
  BY <1>1, <1>2 DEF LookUp
<1>5. /\ Encodes(blob, object) /\ CacheOK(cache, cacheUsed) /\ chan \in [Readers -> Seq(Chunks)]
      /\ client \in [Readers -> Clients] /\ steps \in [Readers -> Nat]
  BY Typed
<1>6. CASE hits # {} /\ CacheGet(k) /\ Send(r, cache[CHOOSE i \in hits : TRUE].block)
  <2>1. PICK j : j = CHOOSE i \in hits : TRUE
    OBVIOUS
  <2>2. j \in hits
    BY <1>6, <2>1
  <2>3. j \in Cached(k) /\ Cached(k) # {}
    BY <1>2, <2>2
  <2>4. PICK block : block = Current(r)
    OBVIOUS
  <2>5. k = Key(get[r].idx, <<get[r].format, block>>)
    BY <1>1, <2>4 DEF TagOf
  <2>6. cache[j].block = block
    BY <1>5, <2>3, <2>5, HitIsBlock
  <2>7. Send(r, block) /\ pump[r] \in {"step", "decode"}
    BY <1>3, <1>6, <2>1, <2>6
  <2>8. TypeOK' /\ (\A q \in Readers : Reader(q))'
    BY <1>3, <2>4, <2>7, SendKeeps
  <2>9. CacheOK(cache', cacheUsed')
    BY <1>5, <1>6, <2>3, GetKeeps
  <2> QED BY <1>3, <1>5, <2>8, <2>9 DEF IInv
<1>7. CASE /\ hits = {} /\ pump' = [pump EXCEPT ![r] = "decode"]
           /\ get' = get /\ steps' = steps /\ chan' = chan /\ cache' = cache /\ cacheUsed' = cacheUsed
  <2>1. Opened(get[r], pump[r], chan[r], body[r], client[r])
    BY <1>3, BusyIsOpened
  <2>2. Opened(get[r], "decode", chan[r], body[r], client[r])
    BY <1>3, <2>1 DEF Opened, Streams
  <2>3. /\ chan' = [chan EXCEPT ![r] = chan[r]] /\ client' = [client EXCEPT ![r] = client[r]]
        /\ steps' \in [Readers -> Nat] /\ CacheOK(cache', cacheUsed')
        /\ chan[r] \in Seq(Chunks) /\ client[r] \in Clients
    BY <1>3, <1>5, <1>7
  <2>4. "decode" \in Pumps
    BY DEF Pumps
  <2> QED BY <1>3, <1>7, <2>2, <2>3, <2>4, PumpStep
<1> QED BY <1>4, <1>6, <1>7

LEMMA DecodeStep ==
  ASSUME Settings, IInv, NEW r \in Readers, Decode(r)
  PROVE  IInv'
<1>1. /\ pump[r] = "decode" /\ object' = object /\ blob' = blob /\ body' = body /\ client' = client
  BY DEF Decode
<1>2. /\ Encodes(blob, object) /\ CacheOK(cache, cacheUsed) /\ chan \in [Readers -> Seq(Chunks)]
      /\ client \in [Readers -> Clients] /\ steps \in [Readers -> Nat] /\ get \in [Readers -> Gets]
  BY Typed
<1>3. Opened(get[r], pump[r], chan[r], body[r], client[r])
  BY <1>1, BusyIsOpened
<1>4. Follows(get[r]) /\ get[r].left > 0 /\ get[r].idx <= Len(get[r].ends)
  BY <1>1, <1>3 DEF Opened
<1>5. CASE get[r].idx \in Handle(r).bad
  <2>1. /\ chan' = [chan EXCEPT ![r] = Append(chan[r], Failure)] /\ pump' = [pump EXCEPT ![r] = "ended"]
        /\ get' = get /\ steps' = steps /\ cache' = cache /\ cacheUsed' = cacheUsed
    BY <1>5 DEF Decode, SendError
  <2>2. get[r].file.bad # {}
    BY <1>5 DEF Handle
  <2>3. Failure \in Chunks /\ chan[r] \in Seq(Chunks)
    BY <1>2 DEF Failure, Chunks
  <2>4. PICK ch : ch = Append(chan[r], Failure)
    OBVIOUS
  <2>5. /\ ch \in Seq(Chunks) /\ ch # <<>> /\ Len(ch) - 1 = Len(chan[r]) /\ ch[Len(ch)] = Failure
        /\ \A i \in 1..(Len(ch) - 1) : ch[i] = chan[r][i]
    BY <2>3, <2>4
  <2>6. ASSUME client[r] = "reading" PROVE Streams(get[r], "ended", ch, body[r])
    <3>1. Lays(chan[r], Len(chan[r]), get[r].content.bytes, Start(get[r]) + Len(body[r]), At(get[r]))
      BY <1>1, <1>3, <2>6 DEF Opened, Streams
    <3>2. Lays(chan[r], Len(ch) - 1, get[r].content.bytes, Start(get[r]) + Len(body[r]), At(get[r]))
      BY <2>5, <3>1
    <3>3. Lays(ch, Len(ch) - 1, get[r].content.bytes, Start(get[r]) + Len(body[r]), At(get[r]))
      BY <2>5, <3>2, LaysSame
    <3>4. At(get[r]) \in 0..get[r].end
      <4>1. At(get[r]) \in Nat /\ At(get[r]) <= get[r].end /\ get[r].end \in Nat
        BY <1>4, FollowsIs
      <4> QED BY <4>1
    <3> QED BY <2>2, <2>5, <3>3, <3>4 DEF Streams
  <2>7. Opened(get[r], "ended", ch, body[r], client[r])
    BY <1>1, <1>3, <2>6 DEF Opened
  <2>8. /\ chan' = [chan EXCEPT ![r] = ch] /\ client' = [client EXCEPT ![r] = client[r]]
        /\ steps' \in [Readers -> Nat] /\ CacheOK(cache', cacheUsed') /\ client[r] \in Clients
    BY <1>1, <1>2, <2>1, <2>4
  <2>9. "ended" \in Pumps
    BY DEF Pumps
  <2>10. get' = get /\ body' = body /\ object' = object /\ blob' = blob /\ pump' = [pump EXCEPT ![r] = "ended"]
    BY <1>1, <2>1
  <2>11. ch \in Seq(Chunks)
    BY <2>5
  <2> QED BY ONLY IInv, r \in Readers, <2>7, <2>8, <2>9, <2>10, <2>11, PumpStep
<1>6. CASE ~ (get[r].idx \in Handle(r).bad)
  <2>1. PICK block : block = Current(r)
    OBVIOUS
  <2>2. /\ Send(r, block)
        /\ \/ CacheInsert(Key(get[r].idx, TagOf(r)), block)
           \/ cache' = cache /\ cacheUsed' = cacheUsed
    BY <1>6, <2>1 DEF Decode
  <2>3. pump[r] \in {"step", "decode"}
    BY <1>1
  <2>4. TypeOK' /\ (\A q \in Readers : Reader(q))' /\ block \in Seq(Byte)
    BY <1>1, <1>4, <2>1, <2>2, <2>3, SendKeeps
  <2>5. CacheOK(cache', cacheUsed')
    <3>1. CASE cache' = cache /\ cacheUsed' = cacheUsed
      BY <1>2, <3>1
    <3>2. CASE CacheInsert(Key(get[r].idx, TagOf(r)), block)
      <4>1. PICK k : k = Key(get[r].idx, TagOf(r))
        OBVIOUS
      <4>2. get[r].idx \in Nat /\ get[r].format \in Formats
        <5>1. get[r] \in Sources
          BY <1>4 DEF Follows
        <5> QED BY <5>1 DEF Sources
      <4>3. k = [idx |-> get[r].idx, tag |-> <<get[r].format, block>>]
        BY <2>1, <4>1 DEF Key, TagOf
      <4>4. [key |-> k, block |-> block] \in Entries
        BY <2>4, <4>2, <4>3 DEF Entries
      <4> QED BY <1>2, <3>2, <4>1, <4>4, InsertKeeps
    <3> QED BY <2>2, <3>1, <3>2
  <2> QED BY <1>1, <1>2, <2>4, <2>5 DEF IInv
<1> QED BY <1>5, <1>6

(* A stretch of the object's bytes that is taken continues the body.       *)
LEMMA BodyGrows ==
  ASSUME NEW S, NEW bytes \in Seq(S), NEW a \in Nat, NEW m \in Nat, NEW z \in Nat,
         a <= m, m <= z, z <= Len(bytes)
  PROVE  /\ SubSeq(bytes, m + 1, z) \in Seq(S) /\ SubSeq(bytes, a + 1, z) \in Seq(S)
         /\ SubSeq(bytes, a + 1, m) \o SubSeq(bytes, m + 1, z) = SubSeq(bytes, a + 1, z)
         /\ a + Len(SubSeq(bytes, a + 1, z)) = z
<1>1. a <= z
  OBVIOUS
<1>2. SubSeq(bytes, a + 1, m) \o SubSeq(bytes, m + 1, z) = SubSeq(bytes, a + 1, z)
  BY Joined
<1>3. SubSeq(bytes, a + 1, z) \in Seq(S) /\ Len(SubSeq(bytes, a + 1, z)) = z - a
  BY <1>1, Stretch
<1>4. SubSeq(bytes, m + 1, z) \in Seq(S)
  BY Stretch
<1>5. a + Len(SubSeq(bytes, a + 1, z)) = z
  BY ONLY <1>3, a \in Nat, z \in Nat
<1> QED BY <1>2, <1>3, <1>4, <1>5

LEMMA TakeStep ==
  ASSUME Settings, IInv, NEW r \in Readers, Take(r)
  PROVE  IInv'
<1>1. /\ client[r] = "reading" /\ chan[r] # <<>> /\ chan' = [chan EXCEPT ![r] = Tail(chan[r])]
      /\ get' = get /\ pump' = pump /\ steps' = steps /\ object' = object /\ blob' = blob
      /\ cache' = cache /\ cacheUsed' = cacheUsed
  BY DEF Take
<1>2. \/ /\ Head(chan[r]) = Failure /\ client' = [client EXCEPT ![r] = "failed"] /\ body' = body
      \/ /\ Head(chan[r]) # Failure /\ body' = [body EXCEPT ![r] = body[r] \o Head(chan[r])] /\ client' = client
  BY DEF Take
<1>3. /\ CacheOK(cache, cacheUsed)
      /\ get \in [Readers -> Gets] /\ pump \in [Readers -> Pumps] /\ steps \in [Readers -> Nat]
      /\ chan \in [Readers -> Seq(Chunks)] /\ body \in [Readers -> Seq(Byte)]
      /\ client \in [Readers -> Clients]
  BY Typed
<1>4. Opened(get[r], pump[r], chan[r], body[r], client[r])
  BY <1>1, BusyIsOpened
<1>5. PICK g \in Gets : g = get[r]
  BY <1>3
<1>6. PICK ch \in Seq(Chunks) : ch = chan[r]
  BY <1>3
<1>7. PICK bd \in Seq(Byte) : bd = body[r]
  BY <1>3
<1>8. PICK p \in Pumps : p = pump[r]
  BY <1>3
<1>9. /\ Opened(g, p, ch, bd, "reading") /\ ch # <<>>
  BY <1>1, <1>4, <1>5, <1>6, <1>7, <1>8
<1>10. /\ Follows(g) /\ Streams(g, p, ch, bd) /\ Start(g) + Len(bd) <= g.end
       /\ bd = SubSeq(g.content.bytes, Start(g) + 1, Start(g) + Len(bd)) /\ p # "pull"
       /\ p \notin {"idle", "refused"}
       /\ p \in {"reserve", "step", "decode"} => g.format # "Raw"
       /\ p = "decode" => g.left > 0 /\ g.idx <= Len(g.ends)
  BY <1>9 DEF Opened
<1>11. /\ g.content.bytes \in Seq(Byte) /\ Start(g) \in Nat /\ At(g) \in Nat /\ At(g) <= g.end
       /\ g.end \in Nat /\ g.end <= Len(g.content.bytes)
  BY <1>10, FollowsIs
<1>12. Len(ch) \in Nat /\ Len(ch) > 0 /\ Tail(ch) \in Seq(Chunks) /\ Len(Tail(ch)) = Len(ch) - 1
  BY <1>9
<1>13. ASSUME NEW n \in Nat, n > 0, n <= Len(ch), NEW q \in Nat, q <= g.end,
              Lays(ch, n, g.content.bytes, Start(g) + Len(bd), q)
       PROVE  /\ Head(ch) # Failure /\ bd \o Head(ch) \in Seq(Byte)
              /\ Start(g) + Len(bd \o Head(ch)) <= g.end
              /\ bd \o Head(ch) = SubSeq(g.content.bytes, Start(g) + 1, Start(g) + Len(bd \o Head(ch)))
              /\ Lays(Tail(ch), n - 1, g.content.bytes, Start(g) + Len(bd \o Head(ch)), q)
  <2>1. PICK bytes : bytes = g.content.bytes
    OBVIOUS
  <2>2. PICK a : a = Start(g) + Len(bd)
    OBVIOUS
  <2>3. /\ a \in Nat
        /\ \E m \in 0..q : /\ a <= m /\ Head(ch) = SubSeq(bytes, a + 1, m)
                           /\ Lays(Tail(ch), n - 1, bytes, m, q)
    <3>1. Lays(ch, n, bytes, a, q)
      BY <1>13, <2>1, <2>2
    <3> QED BY ONLY <3>1, ch \in Seq(Chunks), n \in Nat, n > 0, n <= Len(ch), q \in Nat, LaysTaken
  <2>4. PICK m \in 0..q : /\ a <= m /\ Head(ch) = SubSeq(bytes, a + 1, m)
                          /\ Lays(Tail(ch), n - 1, bytes, m, q)
    BY <2>3
  <2>5. m \in Nat /\ m <= g.end
    BY <1>11, <1>13
  <2>6. PICK c : c = Head(ch)
    OBVIOUS
  <2>7. /\ bd \o c \in Seq(Byte) /\ c \in Seq(Byte) /\ Start(g) + Len(bd \o c) = m
        /\ bd \o c = SubSeq(g.content.bytes, Start(g) + 1, Start(g) + Len(bd \o c))
    <3>1. a <= m /\ c = SubSeq(g.content.bytes, a + 1, m)
      BY <2>1, <2>4, <2>6
    <3>2. bd = SubSeq(g.content.bytes, Start(g) + 1, a) /\ Follows(g)
      BY <1>10, <2>2
    <3>3. PICK b \in Nat : b = Start(g)
      BY <1>11
    <3>4. bytes \in Seq(Byte) /\ m <= Len(bytes) /\ b <= a
      <4>1. bytes \in Seq(Byte) /\ m <= Len(bytes)
        BY <1>11, <2>1, <2>5
      <4>2. PICK l \in Nat : l = Len(bd)
        OBVIOUS
      <4>3. a = b + l
        BY ONLY <2>2, <3>3, <4>2
      <4>4. b <= a
        BY ONLY <4>3, b \in Nat, l \in Nat
      <4> QED BY <4>1, <4>4
    <3>5. bd = SubSeq(bytes, b + 1, a) /\ c = SubSeq(bytes, a + 1, m) /\ a <= m
      BY ONLY <2>1, <3>1, <3>2, <3>3
    <3>6. /\ c \in Seq(Byte) /\ bd \o c \in Seq(Byte) /\ bd \o c = SubSeq(bytes, b + 1, m)
          /\ b + Len(bd \o c) = m
      <4>1. a \in Nat /\ m \in Nat /\ b <= a /\ a <= m /\ m <= Len(bytes)
        BY <2>3, <2>5, <3>4, <3>5
      <4>2. /\ SubSeq(bytes, a + 1, m) \in Seq(Byte) /\ SubSeq(bytes, b + 1, m) \in Seq(Byte)
            /\ SubSeq(bytes, b + 1, a) \o SubSeq(bytes, a + 1, m) = SubSeq(bytes, b + 1, m)
            /\ b + Len(SubSeq(bytes, b + 1, m)) = m
        BY ONLY <3>4, <4>1, b \in Nat, BodyGrows
      <4>3. bd \o c = SubSeq(bytes, b + 1, m)
        BY ONLY <3>5, <4>2, Zenon
      <4> QED BY ONLY <3>5, <4>2, <4>3, Zenon
    <3> QED BY ONLY <2>1, <3>3, <3>6
  <2>8. c # Failure
    <3>1. "error" \notin Byte
      BY DEF Settings
    <3>2. ASSUME c = Failure PROVE FALSE
      <4>1. c[1] = "error" /\ Len(c) = 1
        BY <3>2 DEF Failure
      <4>2. c[1] \in Byte
        <5>1. 1 \in 1..Len(c) /\ c \in Seq(Byte)
          BY <2>7, <4>1
        <5> QED BY <5>1, ElementOfSeq
      <4> QED BY <3>1, <4>1, <4>2
    <3> QED BY <3>2
  <2> QED BY <2>1, <2>4, <2>5, <2>6, <2>7, <2>8
<1>14. /\ steps' \in [Readers -> Nat] /\ CacheOK(cache', cacheUsed')
       /\ get' = [get EXCEPT ![r] = g] /\ pump' = [pump EXCEPT ![r] = p]
       /\ chan' = [chan EXCEPT ![r] = Tail(ch)] /\ object' = object /\ blob' = blob
  BY <1>1, <1>3, <1>5, <1>6, <1>8
<1>15. CASE Head(ch) # Failure
  <2>1. PICK b2 : b2 = bd \o Head(ch)
    OBVIOUS
  <2>2. body' = [body EXCEPT ![r] = b2] /\ client' = [client EXCEPT ![r] = "reading"]
    BY <1>1, <1>2, <1>3, <1>6, <1>7, <1>15, <2>1
  <2>3. /\ b2 \in Seq(Byte) /\ Start(g) + Len(b2) <= g.end
        /\ b2 = SubSeq(g.content.bytes, Start(g) + 1, Start(g) + Len(b2))
        /\ Streams(g, p, Tail(ch), b2)
    <3>1. CASE /\ Lays(ch, Len(ch), g.content.bytes, Start(g) + Len(bd), At(g))
               /\ p = "ended" => g.left = 0
      <4>1. /\ b2 \in Seq(Byte) /\ Start(g) + Len(b2) <= g.end
            /\ b2 = SubSeq(g.content.bytes, Start(g) + 1, Start(g) + Len(b2))
            /\ Lays(Tail(ch), Len(ch) - 1, g.content.bytes, Start(g) + Len(b2), At(g))
        <5>1. /\ Len(ch) \in Nat /\ Len(ch) > 0 /\ Len(ch) <= Len(ch) /\ At(g) \in Nat /\ At(g) <= g.end
              /\ Lays(ch, Len(ch), g.content.bytes, Start(g) + Len(bd), At(g))
          BY <1>11, <1>12, <3>1
        <5> QED BY ONLY <1>13, <2>1, <5>1
      <4>2. Lays(Tail(ch), Len(Tail(ch)), g.content.bytes, Start(g) + Len(b2), At(g))
        BY <1>12, <4>1
      <4> QED BY <3>1, <4>1, <4>2 DEF Streams
    <3>2. CASE /\ p = "ended" /\ g.file.bad # {} /\ ch # <<>> /\ ch[Len(ch)] = Failure
               /\ \E q \in 0..g.end : Lays(ch, Len(ch) - 1, g.content.bytes, Start(g) + Len(bd), q)
      <4>1. PICK q \in 0..g.end : Lays(ch, Len(ch) - 1, g.content.bytes, Start(g) + Len(bd), q)
        BY <3>2
      <4>2. q \in Nat /\ q <= g.end
        BY <1>11
      <4>3. Len(ch) # 1
        BY <1>12, <1>15, <3>2
      <4>4. Len(ch) - 1 \in Nat /\ Len(ch) - 1 > 0 /\ Len(ch) - 1 <= Len(ch)
        BY <1>12, <4>3
      <4>5. /\ b2 \in Seq(Byte) /\ Start(g) + Len(b2) <= g.end
            /\ b2 = SubSeq(g.content.bytes, Start(g) + 1, Start(g) + Len(b2))
            /\ Lays(Tail(ch), (Len(ch) - 1) - 1, g.content.bytes, Start(g) + Len(b2), q)
        BY <1>13, <2>1, <4>1, <4>2, <4>4
      <4>6. Tail(ch)[Len(Tail(ch))] = Failure /\ Tail(ch) # <<>>
        <5>1. PICK k \in Nat : k = Len(Tail(ch)) /\ k > 0 /\ k + 1 = Len(ch)
          <6>1. PICK l \in Nat : l = Len(ch)
            BY <1>12
          <6>2. Len(Tail(ch)) = l - 1 /\ l - 1 \in Nat /\ l - 1 > 0 /\ (l - 1) + 1 = l
            BY <1>12, <4>4, <6>1
          <6> QED BY <6>1, <6>2
        <5>2. k \in 1..(Len(ch) - 1)
          BY <5>1
        <5>3. Tail(ch)[k] = ch[k + 1]
          BY <1>9, <5>2
        <5>4. Len(<<>>) = 0
          OBVIOUS
        <5>5. Tail(ch) # <<>>
          <6>1. k # 0
            BY <5>2
          <6> QED BY ONLY <5>1, <5>4, <6>1, Zenon
        <5>6. ch[k + 1] = Failure
          BY <3>2, <5>1
        <5> QED BY <5>1, <5>3, <5>5, <5>6
      <4>7. Lays(Tail(ch), Len(Tail(ch)) - 1, g.content.bytes, Start(g) + Len(b2), q)
        BY <1>12, <4>5
      <4> QED BY <3>2, <4>5, <4>6, <4>7 DEF Streams
    <3> QED BY <1>10, <3>1, <3>2 DEF Streams
  <2>4. Opened(g, p, Tail(ch), b2, "reading")
    BY <1>10, <2>3 DEF Opened
  <2>5. ReaderState(g, p, Tail(ch), b2, "reading") /\ "reading" \in Clients
    BY <2>4 DEF ReaderState, Clients
  <2>6. b2 \in Seq(Byte) /\ Tail(ch) \in Seq(Chunks)
    BY <1>12, <2>3
  <2> QED BY ONLY IInv, r \in Readers, g \in Gets, p \in Pumps, <1>14, <2>2, <2>5, <2>6, OneReader
<1>16. CASE Head(ch) = Failure
  <2>1. body' = [body EXCEPT ![r] = bd] /\ client' = [client EXCEPT ![r] = "failed"]
    BY <1>2, <1>3, <1>6, <1>7, <1>16
  <2>2. g.file.bad # {}
    <3>1. ASSUME Lays(ch, Len(ch), g.content.bytes, Start(g) + Len(bd), At(g)) PROVE FALSE
      BY <1>11, <1>12, <1>13, <1>16, <3>1
    <3> QED BY <1>10, <3>1 DEF Streams
  <2>3. Opened(g, p, Tail(ch), bd, "failed")
    BY <1>10, <2>2 DEF Opened
  <2>4. ReaderState(g, p, Tail(ch), bd, "failed") /\ "failed" \in Clients /\ Tail(ch) \in Seq(Chunks)
    BY <1>12, <2>3 DEF ReaderState, Clients
  <2> QED BY ONLY IInv, r \in Readers, g \in Gets, p \in Pumps, bd \in Seq(Byte), <1>14, <2>1, <2>4, OneReader
<1> QED BY <1>15, <1>16
LEMMA PullStep ==
  ASSUME Settings, IInv, NEW r \in Readers, Pull(r)
  PROVE  IInv'
<1>1. /\ client[r] = "reading" /\ pump[r] = "pull" /\ Limited(r) > 0
      /\ body' = [body EXCEPT ![r] = body[r] \o SubSeq(get[r].file.bytes, At(get[r]) + 1, At(get[r]) + Limited(r))]
      /\ get' = [get EXCEPT ![r].left = @ - Limited(r)]
      /\ pump' = pump /\ steps' = steps /\ object' = object /\ blob' = blob /\ chan' = chan /\ client' = client
      /\ cache' = cache /\ cacheUsed' = cacheUsed
  BY DEF Pull, At, Handle
<1>2. /\ CacheOK(cache, cacheUsed)
      /\ get \in [Readers -> Gets] /\ pump \in [Readers -> Pumps] /\ steps \in [Readers -> Nat]
      /\ chan \in [Readers -> Seq(Chunks)] /\ body \in [Readers -> Seq(Byte)]
      /\ client \in [Readers -> Clients]
  BY Typed
<1>3. Opened(get[r], "pull", chan[r], body[r], "reading")
  BY <1>1, BusyIsOpened
<1>4. PICK g \in Gets : g = get[r]
  BY <1>2
<1>5. PICK bd \in Seq(Byte) : bd = body[r]
  BY <1>2
<1>6. Opened(g, "pull", chan[r], bd, "reading")
  BY <1>3, <1>4, <1>5
<1>7. /\ Follows(g) /\ Streams(g, "pull", chan[r], bd) /\ chan[r] = <<>> /\ g.format = "Raw"
      /\ bd = SubSeq(g.content.bytes, Start(g) + 1, Start(g) + Len(bd))
  BY <1>6 DEF Opened
<1>8. Start(g) + Len(bd) = At(g)
  <2>1. Lays(<<>>, Len(<<>>), g.content.bytes, Start(g) + Len(bd), At(g))
    BY <1>7 DEF Streams
  <2> QED BY <2>1, LaidNothing
<1>9. /\ g \in Sources /\ g.content.bytes \in Seq(Byte) /\ g.file.bytes = g.content.bytes
      /\ g.end \in Nat /\ g.left \in Nat /\ Start(g) \in Nat /\ At(g) \in Nat /\ Start(g) <= At(g)
      /\ g.end <= Len(g.content.bytes) /\ At(g) + g.left = g.end /\ Len(g.content.bytes) \in Nat
  BY <1>7, FollowsIs
<1>10. PICK n \in Nat : n = Limited(r) /\ n <= g.left
  <2>1. Limited(r) = IF g.left <= BufferSize THEN g.left ELSE BufferSize
    BY <1>4, <1>9, MinOfTwo DEF Limited, Settings
  <2> QED BY <1>9, <2>1 DEF Settings
<1>11. PICK bytes \in Seq(Byte) : bytes = g.content.bytes
  BY <1>9
<1>12. PICK s \in Nat : s = Start(g)
  BY <1>9
<1>13. PICK m \in Nat : m = At(g)
  BY <1>9
<1>14. PICK z \in Nat : z = m + n
  OBVIOUS
<1>15. PICK end \in Nat : end = g.end
  BY <1>9
<1>16. PICK left \in Nat : left = g.left
  BY <1>9
<1>17. s <= m /\ m <= z /\ z <= end /\ z <= Len(bytes) /\ m + left = end /\ left - n \in Nat
       /\ end - (left - n) = z
  <2>1. /\ n <= left /\ s <= m /\ m + left = end /\ end <= Len(bytes) /\ Len(bytes) \in Nat
    BY ONLY <1>9, <1>10, <1>11, <1>12, <1>13, <1>15, <1>16
  <2> QED BY ONLY <2>1, <1>14, n \in Nat, left \in Nat, m \in Nat, end \in Nat
<1>18. PICK b2 : b2 = bd \o SubSeq(bytes, m + 1, z)
  OBVIOUS
<1>19. /\ b2 \in Seq(Byte) /\ b2 = SubSeq(bytes, s + 1, z) /\ s + Len(b2) = z
  <2>1. /\ SubSeq(bytes, s + 1, z) \in Seq(Byte)
        /\ SubSeq(bytes, s + 1, m) \o SubSeq(bytes, m + 1, z) = SubSeq(bytes, s + 1, z)
        /\ s + Len(SubSeq(bytes, s + 1, z)) = z
    BY ONLY <1>17, bytes \in Seq(Byte), s \in Nat, m \in Nat, z \in Nat, BodyGrows
  <2>2. bd = SubSeq(bytes, s + 1, m)
    BY ONLY <1>7, <1>8, <1>11, <1>12, <1>13, Zenon
  <2>3. b2 = SubSeq(bytes, s + 1, z)
    BY ONLY <1>18, <2>1, <2>2, Zenon
  <2> QED BY ONLY <2>1, <2>3, Zenon
<1> DEFINE h == [g EXCEPT !.left = @ - n]
<1>20. /\ h.spec = g.spec /\ h.content = g.content /\ h.status = g.status /\ h.file = g.file
       /\ h.format = g.format /\ h.end = g.end /\ h.left = left - n
  BY <1>9, <1>16 DEF Sources
<1>21. h \in Sources
  BY <1>9, <1>16, <1>17 DEF Sources
<1>22. get' = [get EXCEPT ![r] = h]
  BY <1>1, <1>2, <1>4, <1>10
<1> HIDE DEF h
<1>23. At(h) = z /\ Start(h) = s
  <2>1. h.end - h.left = end - (left - n)
    BY ONLY <1>15, <1>20
  <2> QED BY <1>12, <1>17, <1>20, <2>1 DEF At, Start
<1>24. Follows(h)
  <2>1. /\ Encodes(g.file, g.content) /\ g.status = Status(g.spec, Len(g.content.bytes))
        /\ g.end = To(g.spec, Len(g.content.bytes))
    BY <1>7 DEF Follows
  <2>2. /\ Encodes(h.file, h.content) /\ h.status = Status(h.spec, Len(h.content.bytes))
        /\ h.end = To(h.spec, Len(h.content.bytes)) /\ h.format = "Raw"
    BY <1>7, <1>20, <2>1
  <2>3. Start(h) <= At(h) /\ At(h) <= h.end
    <3>1. s <= z /\ z <= end
      BY ONLY <1>17, s \in Nat, m \in Nat, z \in Nat
    <3> QED BY ONLY <1>15, <1>20, <1>23, <3>1
  <2> QED BY ONLY <1>21, <2>2, <2>3 DEF Follows
<1>25. Opened(h, "pull", <<>>, b2, "reading")
  <2>1. Lays(<<>>, Len(<<>>), bytes, z, z)
    BY NothingLaid
  <2>2. Start(h) + Len(b2) = z /\ h.content.bytes = bytes
    BY ONLY <1>11, <1>19, <1>20, <1>23
  <2>3. Streams(h, "pull", <<>>, b2)
    BY ONLY <1>23, <2>1, <2>2 DEF Streams
  <2>4. Start(h) + Len(b2) <= h.end
    BY ONLY <1>15, <1>17, <1>20, <2>2
  <2>5. b2 = SubSeq(h.content.bytes, Start(h) + 1, Start(h) + Len(b2))
    <3>1. b2 = SubSeq(bytes, s + 1, z)
      BY <1>19
    <3> QED BY ONLY <1>23, <2>2, <3>1, Zenon
  <2>6. h.format = "Raw"
    BY <1>7, <1>20
  <2> QED BY ONLY <1>24, <2>3, <2>4, <2>5, <2>6 DEF Opened
<1>26. /\ steps' \in [Readers -> Nat] /\ CacheOK(cache', cacheUsed')
       /\ pump' = [pump EXCEPT ![r] = "pull"] /\ chan' = [chan EXCEPT ![r] = <<>>]
       /\ client' = [client EXCEPT ![r] = "reading"] /\ object' = object /\ blob' = blob
  BY <1>1, <1>2, <1>7
<1>27. body' = [body EXCEPT ![r] = b2]
  <2>1. SubSeq(get[r].file.bytes, At(get[r]) + 1, At(get[r]) + Limited(r)) = SubSeq(bytes, m + 1, z)
    BY ONLY <1>4, <1>9, <1>10, <1>11, <1>13, <1>14, Zenon
  <2> QED BY <1>1, <1>5, <1>18, <2>1
<1>28. /\ h \in Gets /\ "pull" \in Pumps /\ "reading" \in Clients /\ <<>> \in Seq(Chunks) /\ b2 \in Seq(Byte)
       /\ ReaderState(h, "pull", <<>>, b2, "reading")
  BY <1>19, <1>21, <1>25 DEF Gets, Pumps, Clients, ReaderState
<1> QED BY ONLY IInv, r \in Readers, <1>22, <1>26, <1>27, <1>28, OneReader

LEMMA CompleteStep ==
  ASSUME Settings, IInv, NEW r \in Readers, Complete(r)
  PROVE  IInv'
<1>1. /\ client[r] = "reading" /\ chan[r] = <<>>
      /\ pump[r] = "ended" \/ (pump[r] = "pull" /\ get[r].left = 0)
      /\ client' = [client EXCEPT ![r] = "complete"] /\ pump' = [pump EXCEPT ![r] = "ended"]
      /\ get' = get /\ steps' = steps /\ object' = object /\ blob' = blob /\ chan' = chan /\ body' = body
      /\ cache' = cache /\ cacheUsed' = cacheUsed
  BY DEF Complete
<1>2. /\ CacheOK(cache, cacheUsed) /\ chan \in [Readers -> Seq(Chunks)] /\ steps \in [Readers -> Nat]
  BY Typed
<1>3. Opened(get[r], pump[r], chan[r], body[r], client[r])
  BY <1>1, BusyIsOpened
<1>4. /\ Follows(get[r]) /\ Streams(get[r], pump[r], <<>>, body[r])
  BY <1>1, <1>3 DEF Opened
<1>5. /\ Lays(<<>>, Len(<<>>), get[r].content.bytes, Start(get[r]) + Len(body[r]), At(get[r]))
      /\ get[r].left = 0
  BY <1>1, <1>4 DEF Streams
<1>6. Start(get[r]) + Len(body[r]) = At(get[r])
  BY <1>5, LaidNothing
<1>7. At(get[r]) = get[r].end
  <2>1. At(get[r]) + get[r].left = get[r].end /\ At(get[r]) \in Nat
    BY <1>4, FollowsIs
  <2> QED BY <1>5, <2>1
<1>8. Opened(get[r], "ended", <<>>, body[r], "complete")
  BY <1>1, <1>3, <1>6, <1>7 DEF Opened
<1>9. /\ chan' = [chan EXCEPT ![r] = <<>>] /\ steps' \in [Readers -> Nat] /\ CacheOK(cache', cacheUsed')
      /\ "ended" \in Pumps /\ "complete" \in Clients /\ <<>> \in Seq(Chunks)
  BY <1>1, <1>2 DEF Pumps, Clients
<1> QED BY <1>1, <1>8, <1>9, PumpStep

LEMMA DisconnectStep ==
  ASSUME Settings, IInv, NEW r \in Readers, Disconnect(r)
  PROVE  IInv'
<1>1. PICK p : p = IF pump[r] = "pull" THEN "ended" ELSE pump[r]
  OBVIOUS
<1>2. /\ CacheOK(cache, cacheUsed) /\ pump \in [Readers -> Pumps] /\ steps \in [Readers -> Nat]
  BY Typed
<1>3. /\ client[r] = "reading" /\ client' = [client EXCEPT ![r] = "gone"]
      /\ chan' = [chan EXCEPT ![r] = <<>>] /\ pump' = [pump EXCEPT ![r] = p]
      /\ get' = get /\ steps' = steps /\ object' = object /\ blob' = blob /\ body' = body
      /\ cache' = cache /\ cacheUsed' = cacheUsed
  BY <1>1, <1>2 DEF Disconnect
<1>4. Opened(get[r], pump[r], chan[r], body[r], client[r])
  BY <1>3, BusyIsOpened
<1>5. Opened(get[r], p, <<>>, body[r], "gone")
  BY <1>1, <1>4 DEF Opened
<1>6. /\ steps' \in [Readers -> Nat] /\ CacheOK(cache', cacheUsed')
      /\ p \in Pumps /\ "gone" \in Clients /\ <<>> \in Seq(Chunks)
  BY <1>1, <1>2, <1>3 DEF Pumps, Clients
<1> QED BY <1>3, <1>5, <1>6, PumpStep

(* A rename over the path leaves every request what it opened.             *)
LEMMA RenameStep ==
  ASSUME Settings, IInv, NEW c \in Objects, object' = c, blob' \in Encodings(c),
         get' = get, pump' = pump, steps' = steps, chan' = chan, body' = body, client' = client,
         cache' = cache, cacheUsed' = cacheUsed
  PROVE  IInv'
<1>1. Encodes(blob', object')
  <2>1. PICK f : f = blob'
    OBVIOUS
  <2>2. f \in Encodings(c)
    BY <2>1
  <2>3. Encodes(f, c)
    BY <2>2, EncoderEncodes
  <2> QED BY <2>1, <2>3
<1>2. blob' \in Files
  BY DEF Files
<1>3. TypeOK'
  BY <1>2 DEF IInv, TypeOK
<1>4. \A q \in Readers : Reader(q)'
  BY DEF IInv, Reader
<1>5. CacheOK(cache', cacheUsed')
  BY DEF IInv
<1> QED BY <1>1, <1>3, <1>4, <1>5 DEF IInv
-----------------------------------------------------------------------------
(* The invariant is inductive.                                             *)

LEMMA InitInv ==
  ASSUME Settings, Init
  PROVE  IInv
<1>1. PICK k \in Kept : object = k.content /\ blob = k.blob
  BY DEF Init
<1>2. Encodes(blob, object)
  BY <1>1 DEF Settings
<1>3. object \in Objects /\ blob \in Files
  BY <1>1 DEF Objects, Files
<1>4. TypeOK
  <2>1. <<>> \in Seq(Chunks) /\ <<>> \in Seq(Byte)
    OBVIOUS
  <2> QED BY <1>3, <2>1 DEF Init, TypeOK
<1>5. \A r \in Readers : Reader(r)
  BY DEF Init, Reader, Waits
<1>6. CacheOK(cache, cacheUsed)
  <2>1. cache = <<>> /\ cacheUsed = 0 /\ Len(<<>>) = 0 /\ <<>> \in Seq(Entries)
    BY DEF Init
  <2>2. 0 <= CacheBytes /\ 0 <= CacheEntries
    BY DEF Settings
  <2> QED BY <2>1, <2>2, BytesOfNone DEF CacheOK
<1> QED BY <1>2, <1>4, <1>5, <1>6 DEF IInv

LEMMA NextInv ==
  ASSUME Settings, IInv, [Next]_vars
  PROVE  IInv'
<1>1. ASSUME NEW r \in Readers, NEW spec \in Specs, Get(r, spec) PROVE IInv'
  BY <1>1, GetStep
<1>2. ASSUME NEW r \in Readers, Reserve(r) PROVE IInv'
  BY <1>2, ReserveStep
<1>3. ASSUME NEW r \in Readers, Blocking(r) PROVE IInv'
  <2>1. CASE EndOfSource(r)
    BY <2>1, EndOfSourceStep
  <2>2. CASE ReadDedupChunk(r) \/ ReadZstdChunk(r)
    BY <2>2, ReadStep
  <2>3. CASE LookUp(r)
    BY <2>3, LookUpStep
  <2>4. CASE Decode(r)
    BY <2>4, DecodeStep
  <2> QED BY <1>3, <2>1, <2>2, <2>3, <2>4 DEF Blocking
<1>4. ASSUME NEW r \in Readers, Take(r) PROVE IInv'
  BY <1>4, TakeStep
<1>5. ASSUME NEW r \in Readers, Pull(r) PROVE IInv'
  BY <1>5, PullStep
<1>6. ASSUME NEW r \in Readers, Complete(r) PROVE IInv'
  BY <1>6, CompleteStep
<1>7. ASSUME NEW r \in Readers, Disconnect(r) PROVE IInv'
  BY <1>7, DisconnectStep
<1>8. ASSUME NEW c \in Contents, Overwrite(c) PROVE IInv'
  <2>1. c \in Objects
    BY DEF Objects
  <2> QED BY <1>8, <2>1, RenameStep DEF Overwrite
<1>9. CASE Rewrite
  <2>1. PICK c : c = object
    OBVIOUS
  <2>2. c \in Objects /\ object' = c /\ blob' \in Encodings(c)
    BY <1>9, <2>1 DEF Rewrite, IInv, TypeOK
  <2> QED BY <1>9, <2>2, RenameStep DEF Rewrite
<1>10. CASE UNCHANGED vars
  <2>1. /\ object' = object /\ blob' = blob /\ get' = get /\ pump' = pump /\ steps' = steps /\ chan' = chan
        /\ body' = body /\ client' = client /\ cache' = cache /\ cacheUsed' = cacheUsed
    BY <1>10 DEF vars
  <2> QED BY <2>1 DEF IInv, TypeOK, Reader
<1> QED BY <1>1, <1>2, <1>3, <1>4, <1>5, <1>6, <1>7, <1>8, <1>9, <1>10 DEF Next

-----------------------------------------------------------------------------
(* What it implies.                                                        *)

LEMMA Serves ==
  ASSUME Settings, IInv
  PROVE  RangeServed
<1> SUFFICES ASSUME NEW r \in Readers, client[r] # "waiting"
             PROVE  /\ IsPrefix(body[r], AsAsked(r))
                    /\ client[r] = "complete" => body[r] = AsAsked(r)
                    /\ client[r] = "failed" => get[r].file.bad # {}
                    /\ get[r].status = 416 <=> Ranged(get[r].spec) /\ AsAsked(r) = <<>>
  BY DEF RangeServed
<1>1. body[r] \in Seq(Byte)
  BY Typed
<1>2. PICK g : g = get[r]
  OBVIOUS
<1>3. AsAsked(r) = Asked(g.spec, g.content.bytes)
  BY <1>2 DEF AsAsked, Asked
<1>4. CASE Rejected(g, pump[r], body[r], client[r])
  <2>1. /\ client[r] = "complete" /\ body[r] = <<>> /\ g.status = 416
        /\ g.spec \in Specs /\ g.content \in Objects /\ Status(g.spec, Len(g.content.bytes)) = 416
    BY <1>4 DEF Rejected, Answers
  <2>2. RangeSpec(g.spec) /\ g.content.bytes \in Seq(Byte)
    BY <2>1 DEF Settings
  <2>3. Asked(g.spec, g.content.bytes) = <<>> /\ Ranged(g.spec)
    BY <2>1, <2>2, AskedIs
  <2>4. IsPrefix(<<>>, <<>>)
    BY DEF IsPrefix
  <2> QED BY <1>2, <1>3, <2>1, <2>3, <2>4
<1>5. CASE Opened(g, pump[r], chan[r], body[r], client[r])
  <2>1. PICK bd \in Seq(Byte) : bd = body[r]
    BY <1>1
  <2>2. /\ Follows(g) /\ Start(g) + Len(bd) <= g.end
        /\ bd = SubSeq(g.content.bytes, Start(g) + 1, Start(g) + Len(bd))
        /\ client[r] = "complete" => Start(g) + Len(bd) = g.end
        /\ client[r] = "failed" => g.file.bad # {}
    BY <1>5, <2>1 DEF Opened
  <2>3. /\ g.content.bytes \in Seq(Byte) /\ Len(g.content.bytes) \in Nat /\ g.end \in Nat
        /\ Start(g) \in Nat /\ g.end <= Len(g.content.bytes)
        /\ g.status # 416 /\ g.status = Status(g.spec, Len(g.content.bytes))
        /\ Asked(g.spec, g.content.bytes) = SubSeq(g.content.bytes, Start(g) + 1, g.end)
        /\ RangeSpec(g.spec)
    BY <2>2, FollowsIs
  <2>4. PICK bytes \in Seq(Byte) : bytes = g.content.bytes
    BY <2>3
  <2>5. PICK s \in Nat : s = Start(g)
    BY <2>3
  <2>6. PICK e \in Nat : e = g.end
    BY <2>3
  <2>7. PICK l \in Nat : l = Len(bd)
    OBVIOUS
  <2>8. PICK t : t = SubSeq(bytes, s + 1, e)
    OBVIOUS
  <2>9. s + l <= e /\ s <= e /\ e <= Len(bytes) /\ l <= e - s
    <3>1. s + l <= e /\ e <= Len(bytes) /\ Len(bytes) \in Nat
      BY ONLY <2>2, <2>3, <2>4, <2>5, <2>6, <2>7
    <3> QED BY ONLY <3>1, s \in Nat, l \in Nat, e \in Nat
  <2>10. t \in Seq(Byte) /\ Len(t) = e - s
    BY ONLY <2>8, <2>9, bytes \in Seq(Byte), s \in Nat, e \in Nat, Stretch
  <2>11. SubSeq(t, 1, l) = bd
    <3>1. SubSeq(SubSeq(bytes, s + 1, e), 0 + 1, l) = SubSeq(bytes, s + 0 + 1, s + l)
      <4>1. 0 \in Nat /\ 0 <= l
        OBVIOUS
      <4> QED BY ONLY <2>9, <4>1, bytes \in Seq(Byte), s \in Nat, e \in Nat, l \in Nat, Within
    <3>2. s + 0 + 1 = s + 1 /\ 0 + 1 = 1
      OBVIOUS
    <3>3. bd = SubSeq(bytes, s + 1, s + l)
      BY ONLY <2>2, <2>4, <2>5, <2>7, Zenon
    <3> QED BY ONLY <2>8, <3>1, <3>2, <3>3, Zenon
  <2>12. IsPrefix(bd, t)
    <3>1. SubSeq(bd, 1, Len(bd)) = bd
      BY SubSeqFull
    <3>2. Len(bd) <= Len(t)
      BY <2>7, <2>9, <2>10
    <3> QED BY <2>7, <2>11, <3>1, <3>2 DEF IsPrefix
  <2>13. client[r] = "complete" => bd = t
    <3>1. ASSUME client[r] = "complete" PROVE bd = t
      <4>1. s + l = e
        BY ONLY <2>2, <2>5, <2>6, <2>7, <3>1
      <4>2. bd = SubSeq(bytes, s + 1, s + l)
        BY ONLY <2>2, <2>4, <2>5, <2>7, Zenon
      <4> QED BY ONLY <2>8, <4>1, <4>2, Zenon
    <3> QED BY <3>1
  <2>14. t = Asked(g.spec, g.content.bytes)
    BY ONLY <2>3, <2>4, <2>5, <2>6, <2>8, Zenon
  <2>15. g.status = 416 <=> Ranged(g.spec) /\ Asked(g.spec, g.content.bytes) = <<>>
    <3>1. Status(g.spec, Len(g.content.bytes)) = 416 <=>
            Ranged(g.spec) /\ Asked(g.spec, g.content.bytes) = <<>>
      <4>1. PICK n : n = Len(bytes)
        OBVIOUS
      <4>2. PICK spec : spec = g.spec
        OBVIOUS
      <4>3. RangeSpec(spec)
        BY <2>3, <4>2
      <4>4. Status(spec, n) = 416 <=> Ranged(spec) /\ Asked(spec, bytes) = <<>>
        BY ONLY <4>1, <4>3, bytes \in Seq(Byte), AskedIs
      <4> QED BY ONLY <2>4, <4>1, <4>2, <4>4, Zenon
    <3> QED BY <2>3, <3>1
  <2> QED BY ONLY <1>2, <1>3, <2>1, <2>2, <2>12, <2>13, <2>14, <2>15, Zenon
<1> QED BY <1>2, <1>4, <1>5 DEF IInv, Reader, Waits

LEMMA Counts ==
  ASSUME IInv
  PROVE  CacheAccounted
BY DEF IInv, CacheOK, CacheAccounted

LEMMA Invariant ==
  ASSUME Settings
  PROVE  Spec => []IInv
<1>1. Init => IInv
  BY InitInv
<1>2. IInv /\ [Next]_vars => IInv'
  BY NextInv
<1> QED BY <1>1, <1>2, PTL DEF Spec

(* For any objects, formats, ranges and sizes: a body is a prefix of the   *)
(* bytes its Range header asks for of the one version it was opened on,    *)
(* all of them when it completes, and only damage ends one early.          *)
THEOREM RangesServed ==
  ASSUME Settings
  PROVE  Spec => []RangeServed
<1>1. IInv => RangeServed
  BY Serves
<1> QED BY <1>1, Invariant, PTL

(* For any limits: the cache counts exactly the bytes of its blocks and    *)
(* never passes either limit.                                              *)
THEOREM CacheCounts ==
  ASSUME Settings
  PROVE  Spec => []CacheAccounted
<1>1. IInv => CacheAccounted
  BY Counts
<1> QED BY <1>1, Invariant, PTL
=============================================================================
