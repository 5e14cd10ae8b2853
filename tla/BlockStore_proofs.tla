-------------------------- MODULE BlockStore_proofs --------------------------
(***************************************************************************)
(* References to deduplicated blocks, for every set of handlers, keys,     *)
(* chunks and hashes and any number of operations, failures and crashes    *)
(* but the two that release the references of a blob and leave its file    *)
(* (see BlockStore_crash.cfg for what those do).                           *)
(***************************************************************************)
EXTENDS BlockStore, TLAPS, FiniteSetTheorems

Orderly == "halfdrop" \notin Faults /\ "crashdrop" \notin Faults

Points == {"idle", "encode", "count", "lock", "swap", "commit", "release", "undo", "drop"}
Entries == [at : Nat, hash : Hashes]
States == [pc : Points, op : OpKinds \cup {None}, key : Keys \cup {None}, src : Keys \cup {None},
           body : Seq(Chunks), staged : Blobs, todo : SUBSET Entries, backup : Blobs \cup {None}]

TypeOK ==
    /\ file \in [Hashes -> Chunks \cup {None}]
    /\ fresh \in SUBSET Hashes
    /\ refcount \in [Hashes -> Nat]
    /\ blob \in [Keys -> Blobs \cup {None}]
    /\ live \in SUBSET Keys
    /\ lock \in [Keys -> Reqs \cup {None}]
    /\ stamped \in [Keys -> SUBSET Reqs]
    /\ req \in [Reqs -> States]
    /\ gc \in [todo : SUBSET Hashes, cold : SUBSET Hashes, row : Hashes \cup {None}]

(* Handlers between taking their locks and returning.                      *)
Holding(q) ==
    \/ q.pc \in {"swap", "commit", "release", "undo", "drop"}
    \/ q.pc = "count" /\ q.op # "put"

(* Only the holder of a key's lock works on its blob.                      *)
Exclusive ==
    \A r \in Reqs : Holding(req[r]) => lock[req[r].key] = r /\ lock[req[r].src] = r

(* A blob whose shared blocks are all there, with their bytes.             *)
ReadableIn(f, b) == \A i \in DOMAIN b : b[i].shared => f[HashOf[b[i].chunk]] = b[i].chunk

(* What a handler carries: which entries are still to be counted or        *)
(* released, what they belong to, and that the staged bytes can be read    *)
(* because their blocks were shared within the grace period, are counted,  *)
(* or are those of a locked source.                                        *)
Fine(q, blobs, lives, warm, files) ==
    /\ q.pc # "idle" => q.key \in Keys /\ q.src \in Keys
    /\ IsFiniteSet(q.todo)
    /\ q.pc = "encode" => q.op \in {"put", "recompress"}
    /\ q.pc = "count" => q.op \in {"put", "copy", "recompress"} /\ q.todo \subseteq Refs(q.staged)
    /\ q.pc = "count" /\ q.op = "copy" => q.staged = blobs[q.src]
    /\ q.pc = "lock" /\ q.op = "recompress" => q.todo = Refs(q.staged)
    /\ q.pc = "lock" /\ q.op \notin {"put", "recompress"} => q.staged = <<>>
    /\ q.pc \in {"encode", "count", "lock", "swap"} => ReadableIn(files, q.staged)
    /\ Uncounted(q) => \A e \in Refs(q.staged) : e.hash \in warm
    /\ q.pc = "commit" =>
         /\ blobs[q.key] = q.staged
         /\ q.backup # None => ReadableIn(files, q.backup)
         /\ q.key \in lives => q.backup # None
    /\ q.pc = "drop" =>
         q.key \notin lives /\ q.todo \subseteq Refs(blobs[q.key]) /\ blobs[q.key] # None

Carried == \A r \in Reqs : Fine(req[r], blob, live, fresh, file)

(* A blob none of whose references has been released.                      *)
Whole(k) ==
    \A r \in Reqs : req[r].pc = "drop" /\ req[r].key = k => req[r].todo = Refs(blob[k])

Stored ==
    /\ \A k \in Keys : blob[k] # None /\ Whole(k) => ReadableIn(file, blob[k])
    /\ \A k \in live : blob[k] # None

(* The collector's run: no block shared since its cutoff is cold, and what *)
(* it is about to remove is referred to by nothing.                        *)
Collecting ==
    /\ gc.cold \cap fresh = {}
    /\ \A h \in gc.todo \cap gc.cold : refcount[h] = 0

IInv ==
    TypeOK /\ Exclusive /\ Carried /\ Stored /\ Collecting /\ NeverUndercounted

-----------------------------------------------------------------------------
(* Sums.                                                                   *)

LEMMA UnitsOf ==
  ASSUME NEW S, NEW f, NEW x, NEW i
  PROVE  <<x, i>> \in Units(f, S) <=> x \in S /\ i \in 1..f[x]
BY DEF Units

LEMMA SumType ==
  ASSUME NEW T, NEW f \in [T -> Nat], NEW S \in SUBSET T, IsFiniteSet(S)
  PROVE  IsFiniteSet(Units(f, S)) /\ SumOver(f, S) \in Nat
<1> DEFINE G == [x \in S |-> {x} \X (1..f[x])]
           R == {{x} \X (1..f[x]) : x \in S}
<1>1. G \in Surjection(S, R)
  BY DEF Surjection
<1>2. IsFiniteSet(R)
  <2> HIDE DEF G, R
  <2> QED BY <1>1, FS_Surjection
<1>3. ASSUME NEW x \in S PROVE IsFiniteSet({x} \X (1..f[x]))
  <2>1. f[x] \in Nat
    OBVIOUS
  <2>2. IsFiniteSet(1..f[x])
    BY <2>1, FS_Interval
  <2>3. IsFiniteSet({x})
    BY FS_Singleton
  <2> QED BY <2>2, <2>3, FS_Product
<1>4. \A Q \in R : IsFiniteSet(Q)
  BY <1>3
<1>5. IsFiniteSet(UNION R)
  <2> HIDE DEF R
  <2> QED BY <1>2, <1>4, FS_UNION
<1>6. IsFiniteSet(Units(f, S))
  BY <1>5 DEF Units
<1> QED BY <1>6, FS_CardinalityType DEF SumOver

LEMMA SumEmpty ==
  ASSUME NEW f
  PROVE  SumOver(f, {}) = 0
<1>1. Units(f, {}) = {}
  BY DEF Units
<1> QED BY <1>1, FS_EmptySet DEF SumOver

LEMMA SumAdd ==
  ASSUME NEW T, NEW f \in [T -> Nat], NEW S \in SUBSET T, IsFiniteSet(S),
         NEW u \in T, u \notin S
  PROVE  SumOver(f, S \cup {u}) = SumOver(f, S) + f[u]
<1> DEFINE N == {u} \X (1..f[u])
<1>1. Units(f, S \cup {u}) = Units(f, S) \cup N
  BY DEF Units
<1>2. Units(f, S) \cap N = {}
  BY DEF Units
<1>3. IsFiniteSet(Units(f, S)) /\ SumOver(f, S) \in Nat
  BY SumType
<1>4. IsFiniteSet(N) /\ Cardinality(N) = f[u]
  <2>1. IsFiniteSet({u}) /\ Cardinality({u}) = 1
    BY FS_Singleton
  <2>2. f[u] \in Nat
    OBVIOUS
  <2>3. IsFiniteSet(1..f[u]) /\ Cardinality(1..f[u]) = f[u]
    BY <2>2, FS_Interval
  <2>4. IsFiniteSet(N) /\ Cardinality(N) = Cardinality({u}) * Cardinality(1..f[u])
    BY <2>1, <2>3, FS_Product
  <2> QED BY <2>1, <2>2, <2>3, <2>4
<1>5. Cardinality(Units(f, S) \cup N) = Cardinality(Units(f, S)) + Cardinality(N) - Cardinality(Units(f, S) \cap N)
  <2> HIDE DEF N
  <2> QED BY <1>3, <1>4, FS_Union
<1>6. Cardinality(Units(f, S) \cap N) = 0
  BY <1>2, FS_EmptySet
<1> HIDE DEF N
<1>7. SumOver(f, S \cup {u}) = Cardinality(Units(f, S) \cup N)
  BY <1>1 DEF SumOver
<1>8. SumOver(f, S) = Cardinality(Units(f, S)) /\ f[u] \in Nat
  BY DEF SumOver
<1> QED BY <1>3, <1>4, <1>5, <1>6, <1>7, <1>8

LEMMA SumAgree ==
  ASSUME NEW S, NEW f, NEW g, \A x \in S : f[x] = g[x]
  PROVE  SumOver(f, S) = SumOver(g, S)
<1>1. Units(f, S) = Units(g, S)
  BY DEF Units
<1> QED BY <1>1 DEF SumOver

LEMMA SumSubset ==
  ASSUME NEW T, NEW f \in [T -> Nat], NEW S \in SUBSET T, IsFiniteSet(S), NEW A \in SUBSET S
  PROVE  SumOver(f, A) <= SumOver(f, S)
<1>1. Units(f, A) \in SUBSET Units(f, S)
  BY DEF Units
<1>2. IsFiniteSet(Units(f, S))
  BY SumType
<1> QED BY <1>1, <1>2, FS_Subset DEF SumOver

(* A sum one of whose terms changes.                                       *)
LEMMA SumChange ==
  ASSUME NEW T, NEW f \in [T -> Nat], NEW g \in [T -> Nat], NEW S \in SUBSET T, IsFiniteSet(S),
         NEW u \in S, \A x \in S \ {u} : f[x] = g[x]
  PROVE  SumOver(g, S) = SumOver(f, S) - f[u] + g[u]
<1> DEFINE R == S \ {u}
<1>1. R \in SUBSET T /\ IsFiniteSet(R) /\ u \notin R /\ u \in T /\ R \cup {u} = S
  BY FS_RemoveElement
<1>2. \A x \in R : f[x] = g[x]
  OBVIOUS
<1> HIDE DEF R
<1>3. SumOver(f, S) = SumOver(f, R) + f[u]
  <2>1. SumOver(f, R \cup {u}) = SumOver(f, R) + f[u]
    BY <1>1, SumAdd
  <2> QED BY <1>1, <2>1, Zenon
<1>4. SumOver(g, S) = SumOver(g, R) + g[u]
  <2>1. SumOver(g, R \cup {u}) = SumOver(g, R) + g[u]
    BY <1>1, SumAdd
  <2> QED BY <1>1, <2>1, Zenon
<1>5. SumOver(f, R) = SumOver(g, R)
  BY <1>2, SumAgree
<1>6. SumOver(f, R) \in Nat /\ f[u] \in Nat /\ g[u] \in Nat
  BY <1>1, SumType
<1> QED BY <1>1, <1>3, <1>4, <1>5, <1>6

(* A sum one of whose terms passes units to a term of another sum.         *)
LEMMA Passed ==
  ASSUME NEW K, IsFiniteSet(K), NEW f \in [K -> Nat], NEW f2 \in [K -> Nat], NEW k \in K,
         NEW R, IsFiniteSet(R), NEW g \in [R -> Nat], NEW g2 \in [R -> Nat], NEW r \in R,
         \A x \in K \ {k} : f[x] = f2[x], \A x \in R \ {r} : g[x] = g2[x],
         f2[k] + g2[r] <= f[k] + g[r]
  PROVE  SumOver(f2, K) + SumOver(g2, R) <= SumOver(f, K) + SumOver(g, R)
<1>1. SumOver(f2, K) = SumOver(f, K) - f[k] + f2[k]
  BY SumChange
<1>2. SumOver(g2, R) = SumOver(g, R) - g[r] + g2[r]
  BY SumChange
<1>3. SumOver(f, K) \in Nat /\ SumOver(g, R) \in Nat
  BY SumType
<1>4. f[k] \in Nat /\ f2[k] \in Nat /\ g[r] \in Nat /\ g2[r] \in Nat
  OBVIOUS
<1> QED BY <1>1, <1>2, <1>3, <1>4

(* A term is at most the sum.                                              *)
LEMMA Term ==
  ASSUME NEW K, IsFiniteSet(K), NEW f \in [K -> Nat], NEW k \in K
  PROVE  f[k] <= SumOver(f, K)
<1>1. IsFiniteSet({}) /\ {} \in SUBSET K
  BY FS_EmptySet
<1>2. SumOver(f, {} \cup {k}) = SumOver(f, {}) + f[k]
  BY <1>1, SumAdd
<1>3. SumOver(f, {}) = 0
  BY SumEmpty
<1>4. SumOver(f, {k}) <= SumOver(f, K)
  <2>1. {k} \in SUBSET K /\ K \in SUBSET K
    OBVIOUS
  <2> QED BY <2>1, SumSubset
<1>5. {} \cup {k} = {k}
  OBVIOUS
<1>6. SumOver(f, {k}) = 0 + f[k]
  BY <1>2, <1>3, <1>5, Zenon
<1>7. f[k] \in Nat
  OBVIOUS
<1> QED BY <1>4, <1>6, <1>7

(* A sum in two parts.                                                     *)
LEMMA SumSplit ==
  ASSUME NEW T, NEW f \in [T -> Nat], IsFiniteSet(T), NEW A \in SUBSET T
  PROVE  SumOver(f, T) = SumOver(f, A) + SumOver(f, T \ A)
<1>1. Units(f, T) = Units(f, A) \cup Units(f, T \ A)
  BY DEF Units
<1>2. Units(f, A) \cap Units(f, T \ A) = {}
  BY DEF Units
<1>3. IsFiniteSet(A) /\ IsFiniteSet(T \ A)
  BY FS_Subset, FS_Difference
<1>4. /\ IsFiniteSet(Units(f, A)) /\ Cardinality(Units(f, A)) \in Nat
      /\ IsFiniteSet(Units(f, T \ A)) /\ Cardinality(Units(f, T \ A)) \in Nat
  BY <1>3, SumType DEF SumOver
<1>5. Cardinality(Units(f, A) \cup Units(f, T \ A))
        = Cardinality(Units(f, A)) + Cardinality(Units(f, T \ A)) - Cardinality(Units(f, A) \cap Units(f, T \ A))
  BY <1>4, FS_Union
<1>6. Cardinality(Units(f, A) \cap Units(f, T \ A)) = 0
  BY <1>2, FS_EmptySet
<1> QED BY <1>1, <1>4, <1>5, <1>6 DEF SumOver

(* Terms that are each covered by a term of their own in another sum.      *)
LEMMA SumInject ==
  ASSUME NEW A, NEW B, IsFiniteSet(B), NEW f \in [A -> Nat], NEW g \in [B -> Nat],
         NEW m \in [A -> B], \A x, y \in A : m[x] = m[y] => x = y,
         \A x \in A : f[x] <= g[m[x]]
  PROVE  SumOver(f, A) <= SumOver(g, B)
<1> DEFINE F == Units(f, A)
           G == Units(g, B)
           M == [p \in F |-> <<m[p[1]], p[2]>>]
<1>1. IsFiniteSet(G)
  BY SumType
<1>2. ASSUME NEW p \in F
      PROVE  p[1] \in A /\ p[2] \in 1..f[p[1]] /\ p = <<p[1], p[2]>>
  BY DEF Units
<1>3. ASSUME NEW p \in F PROVE M[p] \in G
  <2>1. PICK x \in A, i \in Nat : p = <<x, i>> /\ i \in 1..f[x]
    BY <1>2
  <2>2. f[x] \in Nat /\ g[m[x]] \in Nat /\ f[x] <= g[m[x]] /\ m[x] \in B
    OBVIOUS
  <2>3. i \in 1..g[m[x]]
    BY <2>1, <2>2
  <2>4. <<m[x], i>> \in G
    BY <2>2, <2>3, UnitsOf
  <2>5. M[p] = <<m[x], i>>
    BY <2>1
  <2> QED BY <2>4, <2>5
<1>4. ASSUME NEW p \in F, NEW q \in F, M[p] = M[q] PROVE p = q
  <2>1. PICK x \in A, i \in Nat : p = <<x, i>> /\ i \in 1..f[x]
    BY <1>2
  <2>2. PICK y \in A, j \in Nat : q = <<y, j>> /\ j \in 1..f[y]
    BY <1>2
  <2>3. M[p] = <<m[x], i>> /\ M[q] = <<m[y], j>>
    BY <2>1, <2>2
  <2>4. m[x] = m[y] /\ i = j
    BY <1>4, <2>3
  <2> QED BY <2>1, <2>2, <2>4
<1>5. M \in Injection(F, G)
  <2>1. M \in [F -> G]
    BY <1>3
  <2> QED BY <1>4, <2>1 DEF Injection, IsInjective
<1>6. Cardinality(F) <= Cardinality(G)
  <2> HIDE DEF F, G, M
  <2> QED BY <1>1, <1>5, FS_Injection
<1> QED BY <1>6 DEF SumOver

-----------------------------------------------------------------------------
(* Entries.                                                                *)

LEMMA Elements ==
  ASSUME NEW T, NEW s \in Seq(T)
  PROVE  /\ Len(s) \in Nat /\ DOMAIN s = 1..Len(s)
         /\ \A i \in DOMAIN s : s[i] \in T
OBVIOUS

LEMMA Pieces ==
  ASSUME NEW b \in Blobs
  PROVE  /\ IsFiniteSet(DOMAIN b) /\ DOMAIN b \subseteq Nat /\ b # None
         /\ \A i \in DOMAIN b : b[i].chunk \in Chunks /\ HashOf[b[i].chunk] \in Hashes
<1>1. Len(b) \in Nat /\ DOMAIN b = 1..Len(b) /\ \A i \in DOMAIN b : b[i] \in [chunk : Chunks, shared : BOOLEAN]
  BY Elements DEF Blobs
<1>2. IsFiniteSet(DOMAIN b)
  <2>1. IsFiniteSet(1..Len(b))
    BY <1>1, FS_Interval
  <2> QED BY <1>1, <2>1
<1>3. \A i \in DOMAIN b : b[i].chunk \in Chunks
  BY <1>1
<1> QED BY <1>1, <1>2, <1>3, BlockConstants DEF Hashes

LEMMA RefsType ==
  ASSUME NEW b \in Blobs \cup {None}
  PROVE  IsFiniteSet(Refs(b)) /\ Refs(b) \in SUBSET Entries
<1>1. CASE b = None
  BY <1>1, FS_EmptySet DEF Refs
<1>2. CASE b # None
  <2> DEFINE S == {j \in DOMAIN b : b[j].shared}
             G == [i \in S |-> [at |-> i, hash |-> HashOf[b[i].chunk]]]
  <2>1. b \in Blobs
    BY <1>2
  <2>2. IsFiniteSet(S)
    <3>1. IsFiniteSet(DOMAIN b) /\ S \in SUBSET DOMAIN b
      BY <2>1, Pieces
    <3> HIDE DEF S
    <3> QED BY <3>1, FS_Subset
  <2>3. Refs(b) = {[at |-> i, hash |-> HashOf[b[i].chunk]] : i \in S}
    BY <1>2 DEF Refs
  <2>4. G \in Surjection(S, Refs(b))
    <3> HIDE DEF S
    <3> QED BY <2>3 DEF Surjection
  <2>5. IsFiniteSet(Refs(b))
    <3> HIDE DEF S, G
    <3> QED BY <2>2, <2>4, FS_Surjection
  <2>6. Refs(b) \in SUBSET Entries
    BY <2>1, <2>3, Pieces DEF Entries
  <2> QED BY <2>5, <2>6
<1> QED BY <1>1, <1>2

LEMMA OccType ==
  ASSUME NEW S, IsFiniteSet(S), NEW h
  PROVE  /\ Occurrences(S, h) \in Nat
         /\ \A T \in SUBSET S : IsFiniteSet(T) /\ Occurrences(T, h) <= Occurrences(S, h)
         /\ \A e \in S : e.hash = h => Occurrences(S, h) >= 1
<1> DEFINE O(T) == {e \in T : e.hash = h}
<1>1. IsFiniteSet(O(S)) /\ Cardinality(O(S)) \in Nat
  <2>1. O(S) \in SUBSET S
    OBVIOUS
  <2> HIDE DEF O
  <2> QED BY <2>1, FS_Subset, FS_CardinalityType
<1>2. ASSUME NEW T \in SUBSET S PROVE IsFiniteSet(T) /\ Cardinality(O(T)) <= Cardinality(O(S))
  <2>1. O(T) \in SUBSET O(S)
    OBVIOUS
  <2> HIDE DEF O
  <2> QED BY <1>1, <2>1, FS_Subset
<1>3. ASSUME NEW e \in S, e.hash = h PROVE Cardinality(O(S)) >= 1
  <2>1. O(S) # {}
    BY <1>3
  <2> HIDE DEF O
  <2>2. Cardinality(O(S)) # 0
    BY <1>1, <2>1, FS_EmptySet
  <2> QED BY <1>1, <2>2
<1>4. Occurrences(S, h) = Cardinality(O(S)) /\ \A T : Occurrences(T, h) = Cardinality(O(T))
  BY DEF Occurrences
<1> HIDE DEF O
<1> QED BY <1>1, <1>2, <1>3, <1>4

(* One entry less.                                                         *)
LEMMA OccWithout ==
  ASSUME NEW S, IsFiniteSet(S), NEW e \in S, NEW h
  PROVE  Occurrences(S \ {e}, h) = IF e.hash = h THEN Occurrences(S, h) - 1 ELSE Occurrences(S, h)
<1> DEFINE O == {x \in S : x.hash = h}
<1>1. IsFiniteSet(O)
  <2>1. O \in SUBSET S
    OBVIOUS
  <2> HIDE DEF O
  <2> QED BY <2>1, FS_Subset
<1>2. {x \in S \ {e} : x.hash = h} = O \ {e}
  OBVIOUS
<1>3. e \in O <=> e.hash = h
  OBVIOUS
<1>4. Occurrences(S \ {e}, h) = Cardinality(O \ {e}) /\ Occurrences(S, h) = Cardinality(O)
  BY <1>2 DEF Occurrences
<1> HIDE DEF O
<1> QED BY <1>1, <1>3, <1>4, FS_RemoveElement

(* Entries name the blocks that reading a blob needs.                      *)
LEMMA NeedsRefs ==
  ASSUME NEW b \in Blobs, NEW f, NEW g, ReadableIn(f, b), \A e \in Refs(b) : g[e.hash] = f[e.hash]
  PROVE  ReadableIn(g, b)
<1> SUFFICES ASSUME NEW i \in DOMAIN b, b[i].shared
             PROVE  g[HashOf[b[i].chunk]] = b[i].chunk
  BY DEF ReadableIn
<1>1. PICK e : e = [at |-> i, hash |-> HashOf[b[i].chunk]]
  OBVIOUS
<1>2. e \in Refs(b)
  BY <1>1, Pieces DEF Refs
<1>3. e.hash = HashOf[b[i].chunk]
  BY <1>1
<1>4. f[HashOf[b[i].chunk]] = b[i].chunk
  BY DEF ReadableIn
<1> QED BY <1>2, <1>3, <1>4

LEMMA RefsRead ==
  ASSUME NEW b \in Blobs, NEW f, ReadableIn(f, b), NEW e \in Refs(b)
  PROVE  f[e.hash] \in Chunks /\ f[e.hash] # None /\ e.hash \in Hashes
<1>1. PICK i \in DOMAIN b : b[i].shared /\ e = [at |-> i, hash |-> HashOf[b[i].chunk]]
  BY Pieces DEF Refs
<1>2. e.hash = HashOf[b[i].chunk]
  BY <1>1
<1>3. b[i].chunk \in Chunks /\ HashOf[b[i].chunk] \in Hashes
  BY Pieces
<1>4. f[e.hash] = b[i].chunk
  BY <1>1, <1>2 DEF ReadableIn
<1> QED BY <1>2, <1>3, <1>4, BlockConstants

(* A block store that only grows keeps everything readable.                *)
LEMMA StaysReadable ==
  ASSUME NEW b \in Blobs, NEW f, NEW g, ReadableIn(f, b), \A h \in Hashes : f[h] # None => g[h] = f[h]
  PROVE  ReadableIn(g, b)
BY NeedsRefs, RefsRead

-----------------------------------------------------------------------------
(* Counting.                                                               *)

LEMMA HeldAs ==
  ASSUME NEW q
  PROVE  /\ q.pc = "count" => Held(q) = Refs(q.staged) \ q.todo
         /\ q.pc = "swap" => Held(q) = Refs(q.staged)
         /\ q.pc = "lock" /\ q.op = "put" => Held(q) = Refs(q.staged)
         /\ q.pc = "lock" /\ q.op # "put" => Held(q) = {}
         /\ q.pc = "commit" => Held(q) = Refs(q.backup)
         /\ q.pc \in {"release", "undo", "drop"} => Held(q) = q.todo
         /\ q.pc \in {"idle", "encode"} => Held(q) = {}
BY DEF Held

LEMMA HeldFinite ==
  ASSUME NEW q \in States, IsFiniteSet(q.todo)
  PROVE  IsFiniteSet(Held(q)) /\ \A h : Occurrences(Held(q), h) \in Nat
<1>1. /\ q.pc \in Points /\ q.staged \in Blobs \cup {None} /\ q.backup \in Blobs \cup {None}
      /\ IsFiniteSet(Refs(q.staged)) /\ IsFiniteSet(Refs(q.backup))
  BY RefsType DEF States
<1>2. IsFiniteSet(Refs(q.staged) \ q.todo) /\ IsFiniteSet({})
  BY <1>1, FS_Difference, FS_EmptySet
<1>3. Held(q) \in {Refs(q.staged) \ q.todo, Refs(q.staged), Refs(q.backup), q.todo, {}}
  BY <1>1, HeldAs DEF Points
<1>4. IsFiniteSet(Held(q))
  BY <1>1, <1>2, <1>3
<1> QED BY <1>4, OccType

LEMMA OwnedFinite ==
  ASSUME NEW b \in Blobs \cup {None}
  PROVE  \A h : Occurrences(Refs(b), h) \in Nat /\ Occurrences({}, h) \in Nat
BY RefsType, OccType, FS_EmptySet

LEMMA CountFunctions ==
  ASSUME TypeOK, Carried, NEW h
  PROVE  OwnedRefs(h) \in [Keys -> Nat] /\ HeldRefs(h) \in [Reqs -> Nat]
<1>1. ASSUME NEW k \in Keys PROVE Occurrences(Owned(k), h) \in Nat
  BY OwnedFinite DEF TypeOK, Owned
<1>2. ASSUME NEW r \in Reqs PROVE Occurrences(Held(req[r]), h) \in Nat
  BY HeldFinite DEF TypeOK, Carried, Fine
<1> QED BY <1>1, <1>2 DEF OwnedRefs, HeldRefs

LEMMA CountFunctionsNext ==
  ASSUME TypeOK', Carried', NEW h
  PROVE  OwnedRefs(h)' \in [Keys -> Nat] /\ HeldRefs(h)' \in [Reqs -> Nat]
<1>1. ASSUME NEW k \in Keys PROVE Occurrences(Owned(k)', h) \in Nat
  BY OwnedFinite DEF TypeOK, Owned
<1>2. ASSUME NEW r \in Reqs PROVE Occurrences(Held(req'[r]), h) \in Nat
  BY HeldFinite DEF TypeOK, Carried, Fine
<1> QED BY <1>1, <1>2 DEF OwnedRefs, HeldRefs

(* A block some blob or handler refers to is counted.                      *)
LEMMA OwnedCounted ==
  ASSUME IInv, NEW k \in Keys, NEW e \in Owned(k), e.hash \in Hashes
  PROVE  refcount[e.hash] >= 1
<1>1. PICK h \in Hashes : h = e.hash
  OBVIOUS
<1>2. OwnedRefs(h) \in [Keys -> Nat] /\ HeldRefs(h) \in [Reqs -> Nat]
  BY CountFunctions DEF IInv
<1>3. IsFiniteSet(Keys) /\ IsFiniteSet(Reqs)
  BY BlockConstants
<1>4. OwnedRefs(h)[k] >= 1
  <2>1. IsFiniteSet(Owned(k))
    BY RefsType, FS_EmptySet DEF IInv, TypeOK, Owned
  <2> QED BY <1>1, <2>1, OccType DEF OwnedRefs
<1>5. OwnedRefs(h)[k] <= SumOver(OwnedRefs(h), Keys)
  BY <1>2, <1>3, Term
<1>6. SumOver(OwnedRefs(h), Keys) \in Nat /\ SumOver(HeldRefs(h), Reqs) \in Nat
  BY <1>2, <1>3, SumType
<1>7. refcount[h] >= SumOver(OwnedRefs(h), Keys) + SumOver(HeldRefs(h), Reqs) /\ refcount[h] \in Nat
  BY DEF IInv, NeverUndercounted, TypeOK
<1>8. OwnedRefs(h)[k] \in Nat
  BY <1>2
<1> QED BY <1>1, <1>4, <1>5, <1>6, <1>7, <1>8

LEMMA HeldCounted ==
  ASSUME IInv, NEW r \in Reqs, NEW e \in Held(req[r]), e.hash \in Hashes
  PROVE  refcount[e.hash] >= 1
<1>1. PICK h \in Hashes : h = e.hash
  OBVIOUS
<1>2. OwnedRefs(h) \in [Keys -> Nat] /\ HeldRefs(h) \in [Reqs -> Nat]
  BY CountFunctions DEF IInv
<1>3. IsFiniteSet(Keys) /\ IsFiniteSet(Reqs)
  BY BlockConstants
<1>4. HeldRefs(h)[r] >= 1
  <2>1. IsFiniteSet(Held(req[r]))
    BY HeldFinite DEF IInv, TypeOK, Carried, Fine
  <2> QED BY <1>1, <2>1, OccType DEF HeldRefs
<1>5. HeldRefs(h)[r] <= SumOver(HeldRefs(h), Reqs)
  BY <1>2, <1>3, Term
<1>6. SumOver(OwnedRefs(h), Keys) \in Nat /\ SumOver(HeldRefs(h), Reqs) \in Nat
  BY <1>2, <1>3, SumType
<1>7. refcount[h] >= SumOver(OwnedRefs(h), Keys) + SumOver(HeldRefs(h), Reqs) /\ refcount[h] \in Nat
  BY DEF IInv, NeverUndercounted, TypeOK
<1>8. HeldRefs(h)[r] \in Nat
  BY <1>2
<1> QED BY <1>1, <1>4, <1>5, <1>6, <1>7, <1>8

(* A step of one handler that moves nothing between blobs and handlers:    *)
(* its own count and the row change together.                              *)
LEMMA OneCount ==
  ASSUME IInv, TypeOK', Carried', NEW r \in Reqs,
         \A s \in Reqs \ {r} : req'[s] = req[s],
         \A k \in Keys : Owned(k)' = Owned(k),
         \A h \in Hashes :
           \/ refcount'[h] - refcount[h] >= Occurrences(Held(req'[r]), h) - Occurrences(Held(req[r]), h)
           \/ refcount'[h] >= refcount[h] /\ Occurrences(Held(req'[r]), h) <= Occurrences(Held(req[r]), h)
  PROVE  NeverUndercounted'
<1> SUFFICES ASSUME NEW h \in Hashes
             PROVE  refcount'[h] >= SumOver(OwnedRefs(h)', Keys) + SumOver(HeldRefs(h)', Reqs)
  BY DEF NeverUndercounted
<1>1. /\ OwnedRefs(h) \in [Keys -> Nat] /\ HeldRefs(h) \in [Reqs -> Nat]
      /\ OwnedRefs(h)' \in [Keys -> Nat] /\ HeldRefs(h)' \in [Reqs -> Nat]
  BY CountFunctions, CountFunctionsNext DEF IInv
<1>2. IsFiniteSet(Keys) /\ IsFiniteSet(Reqs)
  BY BlockConstants
<1>3. OwnedRefs(h)' = OwnedRefs(h)
  BY DEF OwnedRefs
<1>4. SumOver(HeldRefs(h)', Reqs) = SumOver(HeldRefs(h), Reqs) - HeldRefs(h)[r] + HeldRefs(h)'[r]
  <2>1. \A s \in Reqs \ {r} : HeldRefs(h)[s] = HeldRefs(h)'[s]
    BY DEF HeldRefs
  <2> QED BY <1>1, <1>2, <2>1, SumChange
<1>5. HeldRefs(h)[r] = Occurrences(Held(req[r]), h) /\ HeldRefs(h)'[r] = Occurrences(Held(req'[r]), h)
  BY DEF HeldRefs
<1>6. /\ SumOver(OwnedRefs(h), Keys) \in Nat /\ SumOver(HeldRefs(h), Reqs) \in Nat
      /\ HeldRefs(h)[r] \in Nat /\ HeldRefs(h)'[r] \in Nat
      /\ refcount[h] \in Nat /\ refcount'[h] \in Nat
  BY <1>1, <1>2, SumType DEF IInv, TypeOK
<1>7. refcount[h] >= SumOver(OwnedRefs(h), Keys) + SumOver(HeldRefs(h), Reqs)
  BY DEF IInv, NeverUndercounted
<1>8. \/ refcount'[h] - refcount[h] >= HeldRefs(h)'[r] - HeldRefs(h)[r]
      \/ refcount'[h] >= refcount[h] /\ HeldRefs(h)'[r] <= HeldRefs(h)[r]
  BY <1>5
<1> QED BY <1>3, <1>4, <1>6, <1>7, <1>8

(* A step that passes entries between a handler and the blob of a key.     *)
LEMMA MovedCount ==
  ASSUME IInv, TypeOK', Carried', NEW r \in Reqs, NEW k \in Keys,
         \A s \in Reqs \ {r} : req'[s] = req[s],
         \A j \in Keys \ {k} : Owned(j)' = Owned(j),
         refcount' = refcount,
         Held(req'[r]) \subseteq Owned(k), Owned(k)' \subseteq Held(req[r])
  PROVE  NeverUndercounted'
<1> SUFFICES ASSUME NEW h \in Hashes
             PROVE  refcount'[h] >= SumOver(OwnedRefs(h)', Keys) + SumOver(HeldRefs(h)', Reqs)
  BY DEF NeverUndercounted
<1>1. /\ OwnedRefs(h) \in [Keys -> Nat] /\ HeldRefs(h) \in [Reqs -> Nat]
      /\ OwnedRefs(h)' \in [Keys -> Nat] /\ HeldRefs(h)' \in [Reqs -> Nat]
  BY CountFunctions, CountFunctionsNext DEF IInv
<1>2. IsFiniteSet(Keys) /\ IsFiniteSet(Reqs)
  BY BlockConstants
<1>3. /\ OwnedRefs(h)[k] = Occurrences(Owned(k), h) /\ OwnedRefs(h)'[k] = Occurrences(Owned(k)', h)
      /\ HeldRefs(h)[r] = Occurrences(Held(req[r]), h) /\ HeldRefs(h)'[r] = Occurrences(Held(req'[r]), h)
  BY DEF OwnedRefs, HeldRefs
<1>4. HeldRefs(h)'[r] <= OwnedRefs(h)[k] /\ OwnedRefs(h)'[k] <= HeldRefs(h)[r]
  <2>1. IsFiniteSet(Owned(k)) /\ IsFiniteSet(Held(req[r]))
    BY RefsType, HeldFinite, FS_EmptySet DEF IInv, TypeOK, Owned, Carried, Fine
  <2> QED BY <1>3, <2>1, OccType
<1>5. OwnedRefs(h)'[k] + HeldRefs(h)'[r] <= OwnedRefs(h)[k] + HeldRefs(h)[r]
  <2>1. OwnedRefs(h)'[k] \in Nat /\ HeldRefs(h)'[r] \in Nat /\ OwnedRefs(h)[k] \in Nat /\ HeldRefs(h)[r] \in Nat
    BY <1>1
  <2> QED BY <1>4, <2>1
<1>6. \A x \in Keys \ {k} : OwnedRefs(h)[x] = OwnedRefs(h)'[x]
  BY DEF OwnedRefs
<1>7. \A x \in Reqs \ {r} : HeldRefs(h)[x] = HeldRefs(h)'[x]
  BY DEF HeldRefs
<1>8. SumOver(OwnedRefs(h)', Keys) + SumOver(HeldRefs(h)', Reqs) <= SumOver(OwnedRefs(h), Keys) + SumOver(HeldRefs(h), Reqs)
  BY <1>1, <1>2, <1>5, <1>6, <1>7, Passed
<1>9. refcount[h] >= SumOver(OwnedRefs(h), Keys) + SumOver(HeldRefs(h), Reqs) /\ refcount'[h] \in Nat
  BY DEF IInv, NeverUndercounted, TypeOK
<1>10. /\ SumOver(OwnedRefs(h), Keys) \in Nat /\ SumOver(HeldRefs(h), Reqs) \in Nat
       /\ SumOver(OwnedRefs(h)', Keys) \in Nat /\ SumOver(HeldRefs(h)', Reqs) \in Nat
  BY <1>1, <1>2, SumType
<1> QED BY <1>8, <1>9, <1>10

-----------------------------------------------------------------------------
(* What a handler's step leaves to the others.                             *)

LEMMA FineKept ==
  ASSUME NEW q \in States, NEW B, NEW B2, NEW L, NEW L2, NEW F, NEW F2, NEW f, NEW f2,
         Fine(q, B, L, F, f),
         Holding(q) => B2[q.key] = B[q.key] /\ B2[q.src] = B[q.src] /\ (q.key \in L2 <=> q.key \in L),
         F \subseteq F2, \A h \in Hashes : f[h] # None => f2[h] = f[h]
  PROVE  Fine(q, B2, L2, F2, f2)
<1>1. q.staged \in Blobs /\ q.backup \in Blobs \cup {None}
  BY DEF States
<1>2. ReadableIn(f, q.staged) => ReadableIn(f2, q.staged)
  BY <1>1, StaysReadable
<1>3. q.backup # None /\ ReadableIn(f, q.backup) => ReadableIn(f2, q.backup)
  BY <1>1, StaysReadable
<1>4. q.pc \in {"commit", "drop"} \/ (q.pc = "count" /\ q.op = "copy") => Holding(q)
  BY DEF Holding
<1>5. q.pc = "count" /\ q.op = "copy" => q.staged = B2[q.src]
  BY <1>4 DEF Fine
<1>6. q.pc \in {"encode", "count", "lock", "swap"} => ReadableIn(f2, q.staged)
  BY <1>2 DEF Fine
<1>7. Uncounted(q) => \A e \in Refs(q.staged) : e.hash \in F2
  BY DEF Fine
<1>8. q.pc = "commit" =>
        B2[q.key] = q.staged /\ (q.backup # None => ReadableIn(f2, q.backup)) /\ (q.key \in L2 => q.backup # None)
  BY <1>3, <1>4 DEF Fine
<1>9. q.pc = "drop" => q.key \notin L2 /\ q.todo \subseteq Refs(B2[q.key]) /\ B2[q.key] # None
  BY <1>4 DEF Fine
<1>10. /\ q.pc # "idle" => q.key \in Keys /\ q.src \in Keys
       /\ IsFiniteSet(q.todo)
       /\ q.pc = "encode" => q.op \in {"put", "recompress"}
       /\ q.pc = "count" => q.op \in {"put", "copy", "recompress"} /\ q.todo \subseteq Refs(q.staged)
       /\ q.pc = "lock" /\ q.op = "recompress" => q.todo = Refs(q.staged)
       /\ q.pc = "lock" /\ q.op \notin {"put", "recompress"} => q.staged = <<>>
  BY DEF Fine
<1> QED BY <1>5, <1>6, <1>7, <1>8, <1>9, <1>10 DEF Fine

(* Handler r takes a step: the locks the others hold, and the blobs and    *)
(* rows of the keys they locked, are left alone.                           *)
Leaves(r) ==
    /\ \A s \in Reqs \ {r} : req'[s] = req[s]
    /\ \A k \in Keys : lock[k] \in Reqs \ {r} =>
         lock'[k] = lock[k] /\ blob'[k] = blob[k] /\ (k \in live' <=> k \in live)
    /\ fresh \subseteq fresh'
    /\ \A h \in Hashes : file[h] # None => file'[h] = file[h]

LEMMA OthersKept ==
  ASSUME IInv, NEW r \in Reqs, Leaves(r),
         Fine(req'[r], blob', live', fresh', file'),
         Holding(req'[r]) => lock'[req'[r].key] = r /\ lock'[req'[r].src] = r
  PROVE  Carried' /\ Exclusive'
<1>1. ASSUME NEW s \in Reqs \ {r}
      PROVE  /\ Fine(req'[s], blob', live', fresh', file')
             /\ Holding(req'[s]) => lock'[req'[s].key] = s /\ lock'[req'[s].src] = s
  <2>1. req'[s] = req[s] /\ req[s] \in States /\ Fine(req[s], blob, live, fresh, file)
    BY DEF Leaves, IInv, TypeOK, Carried
  <2>2. ASSUME Holding(req[s])
        PROVE  /\ lock[req[s].key] = s /\ lock[req[s].src] = s /\ req[s].key \in Keys /\ req[s].src \in Keys
    <3>1. req[s].pc # "idle"
      BY <2>2 DEF Holding
    <3> QED BY <2>1, <2>2, <3>1 DEF IInv, Exclusive, Fine
  <2>3. Holding(req[s]) =>
          /\ blob'[req[s].key] = blob[req[s].key] /\ blob'[req[s].src] = blob[req[s].src]
          /\ (req[s].key \in live' <=> req[s].key \in live)
          /\ lock'[req[s].key] = s /\ lock'[req[s].src] = s
    BY <2>2 DEF Leaves
  <2>4. fresh \subseteq fresh' /\ \A h \in Hashes : file[h] # None => file'[h] = file[h]
    BY DEF Leaves
  <2>5. Fine(req[s], blob', live', fresh', file')
    BY <2>1, <2>3, <2>4, FineKept
  <2> QED BY <2>1, <2>3, <2>5
<1>2. ASSUME NEW s \in Reqs
      PROVE  /\ Fine(req'[s], blob', live', fresh', file')
             /\ Holding(req'[s]) => lock'[req'[s].key] = s /\ lock'[req'[s].src] = s
  BY <1>1
<1> QED BY <1>2 DEF Carried, Exclusive

(* The handler that drops a blob holds its key.                            *)
LEMMA Dropper ==
  ASSUME IInv, NEW r \in Reqs, NEW k \in Keys, lock[k] \in {r, None}
  PROVE  \A s \in Reqs \ {r} : ~ (req[s].pc = "drop" /\ req[s].key = k)
<1> SUFFICES ASSUME NEW s \in Reqs \ {r}, req[s].pc = "drop", req[s].key = k
             PROVE  FALSE
  OBVIOUS
<1>1. lock[k] = s
  BY DEF IInv, Exclusive, Holding
<1> QED BY <1>1, BlockConstants

(* A handler that drops nothing leaves what the blobs own, and that they   *)
(* can be read.                                                            *)
LEMMA BlobsKept ==
  ASSUME IInv, NEW r \in Reqs, Leaves(r), blob' = blob, req[r].pc # "drop", req'[r].pc # "drop",
         \A k \in live' : blob[k] # None
  PROVE  Stored' /\ \A k \in Keys : Owned(k)' = Owned(k)
<1>1. /\ \A s \in Reqs : req'[s].pc = "drop" => req[s].pc = "drop" /\ req'[s] = req[s]
      /\ \A s \in Reqs : req[s].pc = "drop" => req'[s].pc = "drop" /\ req'[s] = req[s]
  <2>1. \A s \in Reqs : s = r \/ req'[s] = req[s]
    BY DEF Leaves
  <2> QED BY <2>1
<1>2. ASSUME NEW k \in Keys, blob'[k] # None, Whole(k)'
      PROVE  ReadableIn(file', blob'[k])
  <2>1. Whole(k)
    BY <1>1, <1>2 DEF Whole
  <2>2. ReadableIn(file, blob[k]) /\ blob[k] \in Blobs
    BY <1>2, <2>1 DEF IInv, Stored, TypeOK
  <2>3. \A h \in Hashes : file[h] # None => file'[h] = file[h]
    BY DEF Leaves
  <2> QED BY <2>2, <2>3, StaysReadable
<1>3. ASSUME NEW k \in Keys PROVE Owned(k)' = Owned(k)
  <2>1. CASE \E s \in Reqs : req[s].pc = "drop" /\ req[s].key = k
    <3>1. \E s \in Reqs : req'[s].pc = "drop" /\ req'[s].key = k
      BY <1>1, <2>1
    <3> QED BY <2>1, <3>1 DEF Owned
  <2>2. CASE ~ \E s \in Reqs : req[s].pc = "drop" /\ req[s].key = k
    <3>1. ~ \E s \in Reqs : req'[s].pc = "drop" /\ req'[s].key = k
      BY <1>1, <2>2
    <3> QED BY <2>2, <3>1 DEF Owned
  <2> QED BY <2>1, <2>2
<1> QED BY <1>2, <1>3 DEF Stored

(* A step of a handler that neither counts nor moves references.           *)
LEMMA HandlerStep ==
  ASSUME IInv, TypeOK', NEW r \in Reqs, Leaves(r),
         Fine(req'[r], blob', live', fresh', file'),
         Holding(req'[r]) => lock'[req'[r].key] = r /\ lock'[req'[r].src] = r,
         blob' = blob, req[r].pc # "drop", req'[r].pc # "drop", \A k \in live' : blob[k] # None,
         refcount' = refcount, Held(req'[r]) \subseteq Held(req[r]), Collecting'
  PROVE  IInv'
<1>1. Carried' /\ Exclusive'
  BY OthersKept
<1>2. Stored' /\ \A k \in Keys : Owned(k)' = Owned(k)
  BY BlobsKept
<1>3. \A h \in Hashes : refcount'[h] >= refcount[h] /\ Occurrences(Held(req'[r]), h) <= Occurrences(Held(req[r]), h)
  <2>1. IsFiniteSet(Held(req[r]))
    BY HeldFinite DEF IInv, TypeOK, Carried, Fine
  <2> QED BY <2>1, OccType DEF IInv, TypeOK
<1>4. NeverUndercounted'
  <2>1. \A s \in Reqs \ {r} : req'[s] = req[s]
    BY DEF Leaves
  <2> QED BY <1>1, <1>2, <1>3, <2>1, OneCount
<1> QED BY <1>1, <1>2, <1>4 DEF IInv

(* A step of a handler that passes references to or from the blob of a key *)
(* it has the lock of, or takes.                                           *)
LEMMA MoverStep ==
  ASSUME IInv, TypeOK', NEW r \in Reqs, NEW k \in Keys, Leaves(r), lock[k] \in {r, None},
         Fine(req'[r], blob', live', fresh', file'),
         Holding(req'[r]) => lock'[req'[r].key] = r /\ lock'[req'[r].src] = r,
         \A j \in Keys \ {k} : blob'[j] = blob[j] /\ (j \in live' => j \in live),
         req[r].pc = "drop" => req[r].key = k, req'[r].pc = "drop" => req'[r].key = k,
         file' = file, refcount' = refcount, Collecting',
         k \in live' => blob'[k] # None,
         blob'[k] # None => (req'[r].pc = "drop" /\ req'[r].todo # Refs(blob'[k])) \/ ReadableIn(file, blob'[k]),
         Held(req'[r]) \subseteq Owned(k), Owned(k)' \subseteq Held(req[r])
  PROVE  IInv'
<1>1. Carried' /\ Exclusive'
  BY OthersKept
<1>2. ASSUME NEW j \in Keys \ {k} PROVE Owned(j)' = Owned(j) /\ (Whole(j)' => Whole(j))
  <2>0. \A s \in Reqs : s = r \/ req'[s] = req[s]
    BY DEF Leaves
  <2>1. /\ \A s \in Reqs : req'[s].pc = "drop" /\ req'[s].key = j => req[s].pc = "drop" /\ req'[s] = req[s]
        /\ \A s \in Reqs : req[s].pc = "drop" /\ req[s].key = j => req'[s].pc = "drop" /\ req'[s] = req[s]
    BY <1>2, <2>0
  <2>2. blob'[j] = blob[j]
    OBVIOUS
  <2>3. Owned(j)' = Owned(j)
    <3>1. CASE \E s \in Reqs : req[s].pc = "drop" /\ req[s].key = j
      <4>1. \E s \in Reqs : req'[s].pc = "drop" /\ req'[s].key = j
        BY <2>1, <3>1
      <4> QED BY <3>1, <4>1 DEF Owned
    <3>2. CASE ~ \E s \in Reqs : req[s].pc = "drop" /\ req[s].key = j
      <4>1. ~ \E s \in Reqs : req'[s].pc = "drop" /\ req'[s].key = j
        BY <2>1, <3>2
      <4> QED BY <2>2, <3>2, <4>1 DEF Owned
    <3> QED BY <3>1, <3>2
  <2>4. Whole(j)' => Whole(j)
    BY <2>1, <2>2 DEF Whole
  <2> QED BY <2>3, <2>4
<1>3. ASSUME NEW j \in Keys, blob'[j] # None, Whole(j)'
      PROVE  ReadableIn(file', blob'[j])
  <2>1. CASE j = k
    <3>1. ~ (req'[r].pc = "drop" /\ req'[r].todo # Refs(blob'[k]))
      BY <1>3, <2>1 DEF Whole
    <3> QED BY <1>3, <2>1, <3>1
  <2>2. CASE j # k
    BY <1>2, <1>3, <2>2 DEF IInv, Stored
  <2> QED BY <2>1, <2>2
<1>4. \A j \in live' : blob'[j] # None
  <2>1. live' \in SUBSET Keys
    BY DEF TypeOK
  <2> QED BY <2>1 DEF IInv, Stored
<1>5. Stored'
  BY <1>3, <1>4 DEF Stored
<1>6. NeverUndercounted'
  <2>1. \A s \in Reqs \ {r} : req'[s] = req[s]
    BY DEF Leaves
  <2> QED BY <1>1, <1>2, <2>1, MovedCount
<1> QED BY <1>1, <1>5, <1>6 DEF IInv

-----------------------------------------------------------------------------
(* Beginnings and ends.                                                    *)

LEMMA IdleFacts ==
  /\ Idle \in States /\ Idle.pc = "idle" /\ Idle.staged = <<>> /\ Idle.todo = {} /\ Idle.backup = None
  /\ Held(Idle) = {} /\ ~ Holding(Idle)
  /\ \A B, L, F, f : Fine(Idle, B, L, F, f)
<1>1. <<>> \in Blobs /\ <<>> \in Seq(Chunks)
  BY DEF Blobs
<1>2. Idle \in States
  BY <1>1 DEF Idle, States, Points
<1>3. Idle.pc = "idle" /\ Idle.staged = <<>> /\ Idle.todo = {} /\ Idle.backup = None
  BY DEF Idle
<1>4. Held(Idle) = {} /\ ~ Holding(Idle) /\ ~ Uncounted(Idle)
  BY <1>3, HeldAs DEF Holding, Uncounted
<1>5. \A B, L, F, f : Fine(Idle, B, L, F, f)
  BY <1>3, <1>4, FS_EmptySet DEF Fine
<1> QED BY <1>2, <1>3, <1>4, <1>5

LEMMA EmptyBlob ==
  /\ <<>> \in Blobs /\ Refs(<<>>) = {}
  /\ \A f : ReadableIn(f, <<>>)
<1>1. <<>> \in Blobs
  BY DEF Blobs
<1>2. DOMAIN <<>> = {}
  OBVIOUS
<1> QED BY <1>1, <1>2 DEF Refs, ReadableIn

LEMMA NewState ==
  ASSUME IInv, NEW r \in Reqs, NEW q, q \in States, req' = [req EXCEPT ![r] = q]
  PROVE  req'[r] = q /\ req' \in [Reqs -> States] /\ \A s \in Reqs \ {r} : req'[s] = req[s]
BY DEF IInv, TypeOK

LEMMA SameBlocks ==
  ASSUME IInv, blocks' = blocks, gc' = gc
  PROVE  file' = file /\ fresh' = fresh /\ refcount' = refcount /\ Collecting'
BY DEF IInv, Collecting, blocks

LEMMA EndStep ==
  ASSUME IInv, NEW r \in Reqs, req[r].pc # "drop", End(r),
         blocks' = blocks, blob' = blob, live' = live, stamped' = stamped, gc' = gc
  PROVE  IInv'
<1>1. req'[r] = Idle /\ req' \in [Reqs -> States] /\ \A s \in Reqs \ {r} : req'[s] = req[s]
  BY IdleFacts, NewState DEF End
<1>2. file' = file /\ fresh' = fresh /\ refcount' = refcount /\ Collecting'
  BY SameBlocks
<1>3. /\ lock' \in [Keys -> Reqs \cup {None}]
      /\ \A k \in Keys : lock[k] \in Reqs \ {r} => lock'[k] = lock[k]
  BY DEF End, IInv, TypeOK
<1>4. TypeOK'
  BY <1>1, <1>2, <1>3 DEF IInv, TypeOK
<1>5. Leaves(r)
  BY <1>1, <1>2, <1>3 DEF Leaves
<1>6. \A k \in live' : blob[k] # None
  BY DEF IInv, Stored
<1>7. Held(req'[r]) \subseteq Held(req[r])
  BY <1>1, IdleFacts
<1>8. Fine(req'[r], blob', live', fresh', file') /\ ~ Holding(req'[r]) /\ req'[r].pc # "drop"
  BY <1>1, IdleFacts
<1> QED BY <1>2, <1>4, <1>5, <1>6, <1>7, <1>8, HandlerStep

LEMMA BeginStep ==
  ASSUME IInv, NEW r \in Reqs, NEW q, Begin(r, q), q \in States,
         \/ q.pc = "encode" /\ q.op \in {"put", "recompress"}
         \/ q.pc = "lock" /\ q.op \notin {"put", "recompress"},
         q.key \in Keys, q.src \in Keys, q.staged = <<>>, q.todo = {},
         stamped' \in [Keys -> SUBSET Reqs]
  PROVE  IInv'
<1>1. req'[r] = q /\ req' \in [Reqs -> States] /\ \A s \in Reqs \ {r} : req'[s] = req[s]
  BY NewState DEF Begin
<1>2. /\ file' = file /\ fresh' = fresh /\ refcount' = refcount /\ Collecting'
      /\ blob' = blob /\ live' = live /\ lock' = lock /\ gc' = gc /\ req[r].pc = "idle"
  BY SameBlocks DEF Begin
<1>3. TypeOK'
  BY <1>1, <1>2 DEF IInv, TypeOK
<1>4. Leaves(r)
  BY <1>1, <1>2 DEF Leaves
<1>5. \A k \in live' : blob[k] # None
  BY <1>2 DEF IInv, Stored
<1>6. Held(q) = {}
  BY HeldAs
<1>7. Fine(q, blob', live', fresh', file')
  <2>1. ReadableIn(file', q.staged) /\ Refs(q.staged) = {} /\ IsFiniteSet(q.todo)
    BY EmptyBlob, FS_EmptySet
  <2> QED BY <2>1 DEF Fine
<1>8. ~ Holding(q)
  BY DEF Holding
<1> QED BY <1>1, <1>2, <1>3, <1>4, <1>5, <1>6, <1>7, <1>8, HandlerStep

LEMMA PutBeginStep ==
  ASSUME IInv, NEW r \in Reqs, PutBegin(r)
  PROVE  IInv'
<1>1. PICK k \in Keys, b \in Bodies :
        /\ Begin(r, [Idle EXCEPT !.pc = "encode", !.op = "put", !.key = k, !.src = k, !.body = b])
        /\ stamped' = stamped
  BY DEF PutBegin
<1>2. PICK q : q = [Idle EXCEPT !.pc = "encode", !.op = "put", !.key = k, !.src = k, !.body = b]
  OBVIOUS
<1>3. b \in Seq(Chunks) /\ "put" \in OpKinds
  BY BlockConstants DEF OpKinds
<1>4. /\ q \in States /\ q.pc = "encode" /\ q.op = "put" /\ q.key = k /\ q.src = k
      /\ q.staged = <<>> /\ q.todo = {}
  BY <1>2, <1>3, IdleFacts DEF States, Points
<1>5. stamped' \in [Keys -> SUBSET Reqs]
  BY <1>1 DEF IInv, TypeOK
<1>6. Begin(r, q)
  BY <1>1, <1>2
<1> QED BY <1>4, <1>5, <1>6, BeginStep

LEMMA CopyBeginStep ==
  ASSUME IInv, NEW r \in Reqs, CopyBegin(r)
  PROVE  IInv'
<1>1. PICK k \in Keys, s \in Keys :
        /\ Begin(r, [Idle EXCEPT !.pc = "lock", !.op = "copy", !.key = k, !.src = s])
        /\ stamped' = stamped
  BY DEF CopyBegin
<1>2. PICK q : q = [Idle EXCEPT !.pc = "lock", !.op = "copy", !.key = k, !.src = s]
  OBVIOUS
<1>3. "copy" \in OpKinds
  BY DEF OpKinds
<1>4. /\ q \in States /\ q.pc = "lock" /\ q.op = "copy" /\ q.key = k /\ q.src = s
      /\ q.staged = <<>> /\ q.todo = {}
  BY <1>2, <1>3, IdleFacts DEF States, Points
<1>5. stamped' \in [Keys -> SUBSET Reqs]
  BY <1>1 DEF IInv, TypeOK
<1>6. Begin(r, q)
  BY <1>1, <1>2
<1> QED BY <1>4, <1>5, <1>6, BeginStep

LEMMA DeleteBeginStep ==
  ASSUME IInv, NEW r \in Reqs, DeleteBegin(r)
  PROVE  IInv'
<1>1. PICK k \in Keys, op \in {"delete", "orphan"} :
        /\ Begin(r, [Idle EXCEPT !.pc = "lock", !.op = op, !.key = k, !.src = k])
        /\ stamped' = stamped
  BY DEF DeleteBegin
<1>2. PICK q : q = [Idle EXCEPT !.pc = "lock", !.op = op, !.key = k, !.src = k]
  OBVIOUS
<1>3. op \in OpKinds
  BY DEF OpKinds
<1>4. /\ q \in States /\ q.pc = "lock" /\ q.op = op /\ q.key = k /\ q.src = k
      /\ q.staged = <<>> /\ q.todo = {}
  BY <1>2, <1>3, IdleFacts DEF States, Points
<1>5. stamped' \in [Keys -> SUBSET Reqs]
  BY <1>1 DEF IInv, TypeOK
<1>6. Begin(r, q)
  BY <1>1, <1>2
<1> QED BY <1>4, <1>5, <1>6, BeginStep

LEMMA RecompressBeginStep ==
  ASSUME IInv, NEW r \in Reqs, RecompressBegin(r)
  PROVE  IInv'
<1>1. PICK k \in live :
        /\ blob[k] # None
        /\ Begin(r, [Idle EXCEPT !.pc = "encode", !.op = "recompress", !.key = k, !.src = k,
                                 !.body = Content(blob[k])])
        /\ stamped' = [stamped EXCEPT ![k] = @ \cup {r}]
  BY DEF RecompressBegin
<1>2. PICK q : q = [Idle EXCEPT !.pc = "encode", !.op = "recompress", !.key = k, !.src = k,
                                !.body = Content(blob[k])]
  OBVIOUS
<1>3. k \in Keys /\ blob[k] \in Blobs
  BY <1>1 DEF IInv, TypeOK
<1>4. Content(blob[k]) \in Seq(Chunks)
  <2>1. PICK b \in Blobs : b = blob[k]
    BY <1>3
  <2>2. Len(b) \in Nat /\ DOMAIN b = 1..Len(b) /\ \A i \in DOMAIN b : b[i] \in [chunk : Chunks, shared : BOOLEAN]
    BY Elements DEF Blobs
  <2>3. [i \in 1..Len(b) |-> b[i].chunk] \in Seq(Chunks)
    BY <2>2
  <2> QED BY <2>1, <2>2, <2>3 DEF Content
<1>5. "recompress" \in OpKinds
  BY DEF OpKinds
<1>6. /\ q \in States /\ q.pc = "encode" /\ q.op = "recompress" /\ q.key = k /\ q.src = k
      /\ q.staged = <<>> /\ q.todo = {}
  BY <1>2, <1>3, <1>4, <1>5, IdleFacts DEF States, Points
<1>7. stamped' \in [Keys -> SUBSET Reqs]
  BY <1>1, <1>3 DEF IInv, TypeOK
<1>8. Begin(r, q)
  BY <1>1, <1>2
<1> QED BY <1>3, <1>6, <1>7, <1>8, BeginStep

LEMMA StoreFailStep ==
  ASSUME IInv, NEW r \in Reqs, StoreFail(r)
  PROVE  IInv'
BY EndStep DEF StoreFail

LEMMA CountFailStep ==
  ASSUME IInv, NEW r \in Reqs, CountFail(r)
  PROVE  IInv'
BY EndStep DEF CountFail

LEMMA ReleasedStep ==
  ASSUME IInv, NEW r \in Reqs, Released(r)
  PROVE  IInv'
BY EndStep DEF Released

-----------------------------------------------------------------------------
(* Encoding and counting.                                                  *)

(* One more chunk of a staged blob.                                        *)
LEMMA AppendRefs ==
  ASSUME NEW b \in Blobs, NEW x \in [chunk : Chunks, shared : BOOLEAN]
  PROVE  /\ Append(b, x) \in Blobs
         /\ \A e \in Refs(Append(b, x)) : e \in Refs(b) \/ (x.shared /\ e.hash = HashOf[x.chunk])
         /\ \A f : ReadableIn(f, b) /\ (x.shared => f[HashOf[x.chunk]] = x.chunk) => ReadableIn(f, Append(b, x))
<1>1. PICK n \in Nat : n = Len(b) /\ DOMAIN b = 1..n
  BY Elements DEF Blobs
<1>2. PICK c \in Blobs : c = Append(b, x)
  <2>1. \A T : b \in Seq(T) /\ x \in T => Append(b, x) \in Seq(T)
    OBVIOUS
  <2> QED BY <2>1 DEF Blobs
<1>3. /\ DOMAIN c = 1..(n + 1) /\ c[n + 1] = x
      /\ \A i \in 1..n : c[i] = b[i]
  BY <1>1, <1>2 DEF Blobs
<1>4. \A i \in DOMAIN c : (i \in DOMAIN b /\ c[i] = b[i]) \/ c[i] = x
  BY <1>1, <1>3
<1>5. c # None /\ b # None
  BY Pieces
<1>6. ASSUME NEW e \in Refs(c) PROVE e \in Refs(b) \/ (x.shared /\ e.hash = HashOf[x.chunk])
  <2>1. PICK i \in DOMAIN c : c[i].shared /\ e = [at |-> i, hash |-> HashOf[c[i].chunk]]
    BY <1>5 DEF Refs
  <2>2. CASE c[i] = x
    BY <2>1, <2>2
  <2>3. CASE i \in DOMAIN b /\ c[i] = b[i]
    BY <1>5, <2>1, <2>3 DEF Refs
  <2> QED BY <1>4, <2>2, <2>3
<1>7. ASSUME NEW f, ReadableIn(f, b), x.shared => f[HashOf[x.chunk]] = x.chunk
      PROVE  ReadableIn(f, c)
  BY <1>4, <1>7 DEF ReadableIn
<1> QED BY <1>2, <1>6, <1>7

LEMMA StoreBlockStep ==
  ASSUME IInv, NEW r \in Reqs, StoreBlock(r)
  PROVE  IInv'
<1>1. PICK c \in States : c = req[r]
  BY DEF IInv, TypeOK
<1>2. c.pc = "encode" /\ c.body # <<>> /\ c.op \in {"put", "recompress"} /\ c.body \in Seq(Chunks) /\ c.staged \in Blobs
  BY <1>1 DEF StoreBlock, IInv, Carried, Fine, States
<1>3. PICK x : x = Head(c.body)
  OBVIOUS
<1>4. x \in Chunks /\ Tail(c.body) \in Seq(Chunks) /\ HashOf[x] \in Hashes /\ x # None
  <2>1. x \in Chunks /\ Tail(c.body) \in Seq(Chunks)
    BY <1>2, <1>3
  <2> QED BY <2>1, BlockConstants DEF Hashes
<1>5. PICK sh \in BOOLEAN : sh <=> (file[HashOf[x]] = None \/ file[HashOf[x]] = x)
  OBVIOUS
<1>6. PICK y : y = [chunk |-> x, shared |-> sh]
  OBVIOUS
<1>7. y \in [chunk : Chunks, shared : BOOLEAN] /\ y.chunk = x /\ y.shared = sh
  BY <1>4, <1>6
<1>8. /\ file' = [file EXCEPT ![HashOf[x]] = IF @ = None THEN x ELSE @]
      /\ fresh' = IF sh THEN fresh \cup {HashOf[x]} ELSE fresh
      /\ gc' = IF sh THEN [gc EXCEPT !.cold = @ \ {HashOf[x]}] ELSE gc
      /\ refcount' = refcount /\ blob' = blob /\ live' = live /\ lock' = lock /\ stamped' = stamped
  BY <1>1, <1>3, <1>5 DEF StoreBlock, ReadLogicalBlock, objects
<1>9. req' = [req EXCEPT ![r] = [c EXCEPT !.body = Tail(c.body), !.staged = Append(c.staged, y)]]
  <2>1. (file[HashOf[x]] = None \/ file[HashOf[x]] = x) = sh
    BY <1>5
  <2>2. req' = [req EXCEPT ![r].body = Tail(@),
                           ![r].staged = Append(@, [chunk |-> x, shared |-> (file[HashOf[x]] = None \/ file[HashOf[x]] = x)])]
    BY <1>1, <1>3 DEF StoreBlock, ReadLogicalBlock
  <2>3. req' = [req EXCEPT ![r].body = Tail(@), ![r].staged = Append(@, y)]
    BY <1>6, <2>1, <2>2
  <2> QED BY <1>1, <2>3 DEF IInv, TypeOK
<1>10. PICK q : q = [c EXCEPT !.body = Tail(c.body), !.staged = Append(c.staged, y)]
  OBVIOUS
<1>11. /\ q \in States /\ q.pc = "encode" /\ q.op = c.op /\ q.key = c.key /\ q.src = c.src
       /\ q.staged = Append(c.staged, y) /\ q.todo = c.todo
  <2>1. Append(c.staged, y) \in Blobs
    BY <1>2, <1>7, AppendRefs
  <2> QED BY <1>2, <1>4, <1>10, <2>1 DEF States
<1>12. req'[r] = q /\ req' \in [Reqs -> States] /\ \A s \in Reqs \ {r} : req'[s] = req[s]
  BY <1>9, <1>10, <1>11, NewState
<1>13. /\ file' \in [Hashes -> Chunks \cup {None}]
       /\ \A h \in Hashes : file[h] # None => file'[h] = file[h]
       /\ sh => file'[HashOf[x]] = x
  BY <1>4, <1>5, <1>8 DEF IInv, TypeOK
<1>14. fresh \subseteq fresh' /\ fresh' \in SUBSET Hashes /\ (sh => HashOf[x] \in fresh')
  BY <1>4, <1>8 DEF IInv, TypeOK
<1>15. gc' \in [todo : SUBSET Hashes, cold : SUBSET Hashes, row : Hashes \cup {None}] /\ Collecting'
  <2>1. gc \in [todo : SUBSET Hashes, cold : SUBSET Hashes, row : Hashes \cup {None}] /\ Collecting
    BY DEF IInv, TypeOK
  <2>2. CASE sh
    <3>1. gc' = [gc EXCEPT !.cold = @ \ {HashOf[x]}] /\ fresh' = fresh \cup {HashOf[x]}
      BY <1>8, <2>2
    <3>2. /\ gc'.cold = gc.cold \ {HashOf[x]} /\ gc'.todo = gc.todo
          /\ gc' \in [todo : SUBSET Hashes, cold : SUBSET Hashes, row : Hashes \cup {None}]
      BY <2>1, <3>1
    <3> QED BY <1>8, <2>1, <3>1, <3>2 DEF Collecting
  <2>3. CASE ~ sh
    BY <1>8, <2>1, <2>3 DEF Collecting
  <2> QED BY <2>2, <2>3
<1>16. TypeOK'
  BY <1>8, <1>12, <1>13, <1>14, <1>15 DEF IInv, TypeOK
<1>17. Leaves(r)
  BY <1>8, <1>12, <1>13, <1>14 DEF Leaves
<1>18. Fine(q, blob', live', fresh', file')
  <2>1. Fine(c, blob, live, fresh, file)
    BY <1>1 DEF IInv, Carried
  <2>2. ReadableIn(file', q.staged)
    <3>1. ReadableIn(file, c.staged)
      BY <1>2, <2>1 DEF Fine
    <3>2. ReadableIn(file', c.staged)
      BY <1>2, <1>13, <3>1, StaysReadable
    <3> QED BY <1>2, <1>7, <1>11, <1>13, <3>2, AppendRefs
  <2>3. \A e \in Refs(q.staged) : e.hash \in fresh'
    <3>1. \A e \in Refs(c.staged) : e.hash \in fresh
      BY <1>2, <2>1 DEF Fine, Uncounted
    <3> QED BY <1>2, <1>7, <1>11, <1>14, <3>1, AppendRefs
  <2>4. q.key \in Keys /\ q.src \in Keys /\ IsFiniteSet(q.todo)
    BY <1>2, <1>11, <2>1 DEF Fine
  <2> QED BY <1>2, <1>11, <2>2, <2>3, <2>4 DEF Fine
<1>19. ~ Holding(q) /\ Held(q) = {}
  BY <1>11, HeldAs DEF Holding
<1>20. \A k \in live' : blob[k] # None
  BY <1>8 DEF IInv, Stored
<1>21. req[r].pc # "drop" /\ req'[r].pc # "drop"
  BY <1>1, <1>2, <1>11, <1>12
<1>22. Held(req'[r]) \subseteq Held(req[r])
  BY <1>12, <1>19
<1>23. blob' = blob /\ refcount' = refcount /\ Fine(req'[r], blob', live', fresh', file') /\ ~ Holding(req'[r])
  BY <1>8, <1>12, <1>18, <1>19
<1> QED BY <1>15, <1>16, <1>17, <1>20, <1>21, <1>22, <1>23, HandlerStep

(* A step that only the handler itself notices.                            *)
LEMMA QuietStep ==
  ASSUME IInv, NEW r \in Reqs, NEW q, q \in States, req' = [req EXCEPT ![r] = q],
         blocks' = blocks, objects' = objects, gc' = gc,
         req[r].pc # "drop", q.pc # "drop", Held(q) \subseteq Held(req[r]),
         Fine(q, blob, live, fresh, file),
         Holding(q) => lock[q.key] = r /\ lock[q.src] = r
  PROVE  IInv'
<1>1. req'[r] = q /\ req' \in [Reqs -> States] /\ \A s \in Reqs \ {r} : req'[s] = req[s]
  BY NewState
<1>2. file' = file /\ fresh' = fresh /\ refcount' = refcount /\ Collecting'
  BY SameBlocks
<1>3. blob' = blob /\ live' = live /\ lock' = lock /\ stamped' = stamped
  BY DEF objects
<1>4. TypeOK'
  BY <1>1, <1>2, <1>3 DEF IInv, TypeOK
<1>5. Leaves(r)
  BY <1>1, <1>2, <1>3 DEF Leaves
<1>6. \A k \in live' : blob[k] # None
  BY <1>3 DEF IInv, Stored
<1>7. /\ Fine(req'[r], blob', live', fresh', file') /\ req'[r].pc # "drop"
      /\ Held(req'[r]) \subseteq Held(req[r])
      /\ Holding(req'[r]) => lock'[req'[r].key] = r /\ lock'[req'[r].src] = r
  BY <1>1, <1>2, <1>3
<1> QED BY <1>2, <1>3, <1>4, <1>5, <1>6, <1>7, HandlerStep

LEMMA EncodedStep ==
  ASSUME IInv, NEW r \in Reqs, Encoded(r)
  PROVE  IInv'
<1>1. PICK c \in States : c = req[r]
  BY DEF IInv, TypeOK
<1>2. Fine(c, blob, live, fresh, file) /\ c.pc = "encode" /\ c.op \in {"put", "recompress"}
  BY <1>1 DEF Encoded, IInv, Carried, Fine
<1>3. PICK q : q = [c EXCEPT !.pc = IF c.op = "put" THEN "count" ELSE "lock", !.todo = Refs(c.staged)]
  OBVIOUS
<1>4. IsFiniteSet(Refs(c.staged)) /\ Refs(c.staged) \in SUBSET Entries
  BY RefsType DEF States
<1>5. /\ q \in States /\ q.op = c.op /\ q.staged = c.staged /\ q.todo = Refs(c.staged) /\ q.key = c.key /\ q.src = c.src
      /\ c.op = "put" => q.pc = "count"
      /\ c.op = "recompress" => q.pc = "lock"
  BY <1>2, <1>3, <1>4 DEF States, Points
<1>6. req' = [req EXCEPT ![r] = q]
  BY <1>1, <1>3 DEF Encoded, IInv, TypeOK
<1>7. Held(q) = {} /\ ~ Holding(q) /\ q.pc # "drop"
  <2>1. Refs(c.staged) \ Refs(c.staged) = {}
    OBVIOUS
  <2> QED BY <1>2, <1>5, <2>1, HeldAs DEF Holding
<1>8. Fine(q, blob, live, fresh, file)
  <2>1. ReadableIn(file, q.staged) /\ \A e \in Refs(q.staged) : e.hash \in fresh
    BY <1>2, <1>5 DEF Fine, Uncounted
  <2>2. q.key \in Keys /\ q.src \in Keys /\ IsFiniteSet(q.todo)
    BY <1>2, <1>4, <1>5 DEF Fine
  <2> QED BY <1>2, <1>5, <2>1, <2>2 DEF Fine
<1>9. blocks' = blocks /\ objects' = objects /\ gc' = gc /\ req[r].pc # "drop"
  BY <1>1, <1>2 DEF Encoded
<1>10. Held(q) \subseteq Held(req[r])
  BY <1>7
<1> QED BY <1>5, <1>6, <1>7, <1>8, <1>9, <1>10, QuietStep

LEMMA CountedStep ==
  ASSUME IInv, NEW r \in Reqs, Counted(r)
  PROVE  IInv'
<1>1. PICK c \in States : c = req[r]
  BY DEF IInv, TypeOK
<1>2. Fine(c, blob, live, fresh, file) /\ c.pc = "count" /\ c.todo = {} /\ c.op \in {"put", "copy", "recompress"}
  BY <1>1 DEF Counted, IInv, Carried, Fine
<1>3. PICK q : q = [c EXCEPT !.pc = IF c.op = "put" THEN "lock" ELSE "swap"]
  OBVIOUS
<1>4. /\ q \in States /\ q.op = c.op /\ q.staged = c.staged /\ q.todo = c.todo /\ q.key = c.key /\ q.src = c.src
      /\ c.op = "put" => q.pc = "lock"
      /\ c.op # "put" => q.pc = "swap"
  BY <1>2, <1>3 DEF States, Points
<1>5. req' = [req EXCEPT ![r] = q]
  BY <1>1, <1>3 DEF Counted, Goto, IInv, TypeOK
<1>6. Held(q) = Held(c)
  <2>1. Held(c) = Refs(c.staged)
    <3>1. Refs(c.staged) \ {} = Refs(c.staged)
      OBVIOUS
    <3> QED BY <1>2, <3>1, HeldAs
  <2>2. Held(q) = Refs(q.staged)
    BY <1>4, HeldAs
  <2> QED BY <1>4, <2>1, <2>2
<1>7. Fine(q, blob, live, fresh, file)
  <2>1. ReadableIn(file, q.staged) /\ q.key \in Keys /\ q.src \in Keys /\ IsFiniteSet(q.todo)
    BY <1>2, <1>4 DEF Fine
  <2>2. ~ Uncounted(q)
    BY <1>4 DEF Uncounted
  <2> QED BY <1>2, <1>4, <2>1, <2>2 DEF Fine
<1>8. Holding(q) => lock[q.key] = r /\ lock[q.src] = r
  <2>1. Holding(q) => Holding(c)
    BY <1>2, <1>4 DEF Holding
  <2> QED BY <1>1, <1>4, <2>1 DEF IInv, Exclusive
<1>9. blocks' = blocks /\ objects' = objects /\ gc' = gc /\ req[r].pc # "drop" /\ q.pc # "drop"
  BY <1>1, <1>2, <1>4 DEF Counted
<1>10. Held(q) \subseteq Held(req[r])
  BY <1>1, <1>6
<1> QED BY <1>4, <1>5, <1>7, <1>8, <1>9, <1>10, QuietStep

LEMMA SwapRefusedStep ==
  ASSUME IInv, NEW r \in Reqs, SwapRefused(r)
  PROVE  IInv'
<1>1. PICK c \in States : c = req[r]
  BY DEF IInv, TypeOK
<1>2. Fine(c, blob, live, fresh, file) /\ c.pc = "swap"
  BY <1>1 DEF SwapRefused, IInv, Carried
<1>3. PICK q : q = [c EXCEPT !.pc = "undo", !.todo = Refs(c.staged)]
  OBVIOUS
<1>4. IsFiniteSet(Refs(c.staged)) /\ Refs(c.staged) \in SUBSET Entries
  BY RefsType DEF States
<1>5. q \in States /\ q.pc = "undo" /\ q.todo = Refs(c.staged) /\ q.key = c.key /\ q.src = c.src
  BY <1>3, <1>4 DEF States, Points
<1>6. req' = [req EXCEPT ![r] = q]
  BY <1>1, <1>3 DEF SwapRefused, IInv, TypeOK
<1>7. Held(q) = Held(c)
  BY <1>2, <1>5, HeldAs
<1>8. Fine(q, blob, live, fresh, file)
  <2>1. q.key \in Keys /\ q.src \in Keys /\ IsFiniteSet(q.todo) /\ ~ Uncounted(q)
    BY <1>2, <1>4, <1>5 DEF Fine, Uncounted
  <2> QED BY <1>5, <2>1 DEF Fine
<1>9. lock[q.key] = r /\ lock[q.src] = r
  <2>1. Holding(c)
    BY <1>2 DEF Holding
  <2> QED BY <1>1, <1>5, <2>1 DEF IInv, Exclusive
<1>10. blocks' = blocks /\ objects' = objects /\ gc' = gc /\ req[r].pc # "drop" /\ q.pc # "drop"
  BY <1>1, <1>2, <1>5 DEF SwapRefused
<1>11. Held(q) \subseteq Held(req[r])
  BY <1>1, <1>7
<1> QED BY <1>5, <1>6, <1>8, <1>9, <1>10, <1>11, QuietStep

(* One more entry is counted: its block was shared within the grace period *)
(* or is counted already for the source of a copy.                         *)
LEMMA CountStep ==
  ASSUME IInv, NEW r \in Reqs, Count(r)
  PROVE  IInv'
<1>1. PICK c \in States : c = req[r]
  BY DEF IInv, TypeOK
<1>2. Fine(c, blob, live, fresh, file) /\ c.pc = "count"
  BY <1>1 DEF Count, IInv, Carried
<1>3. PICK e \in c.todo :
        /\ refcount' = [refcount EXCEPT ![e.hash] = @ + 1]
        /\ req' = [req EXCEPT ![r].todo = @ \ {e}]
  BY <1>1 DEF Count, IncRef
<1>4. PICK q : q = [c EXCEPT !.todo = c.todo \ {e}]
  OBVIOUS
<1>5. /\ e \in Refs(c.staged) /\ e.hash \in Hashes /\ IsFiniteSet(c.todo) /\ IsFiniteSet(Refs(c.staged))
      /\ c.todo \subseteq Refs(c.staged) /\ IsFiniteSet(c.todo \ {e})
  <2>1. IsFiniteSet(c.todo) /\ c.todo \subseteq Refs(c.staged)
    BY <1>2 DEF Fine
  <2>2. IsFiniteSet(Refs(c.staged))
    BY RefsType DEF States
  <2>3. e.hash \in Hashes
    BY DEF States, Entries
  <2> QED BY <2>1, <2>2, <2>3, FS_RemoveElement
<1>6. /\ q \in States /\ q.pc = "count" /\ q.todo = c.todo \ {e} /\ q.op = c.op
      /\ q.staged = c.staged /\ q.key = c.key /\ q.src = c.src
  BY <1>2, <1>4 DEF States
<1>7. req' = [req EXCEPT ![r] = q]
  BY <1>1, <1>3, <1>4 DEF IInv, TypeOK
<1>8. req'[r] = q /\ req' \in [Reqs -> States] /\ \A s \in Reqs \ {r} : req'[s] = req[s]
  BY <1>6, <1>7, NewState
<1>9. /\ file' = file /\ fresh' = fresh /\ gc' = gc
      /\ blob' = blob /\ live' = live /\ lock' = lock /\ stamped' = stamped
  BY DEF Count, objects
<1>10. /\ refcount' \in [Hashes -> Nat] /\ refcount'[e.hash] = refcount[e.hash] + 1 /\ refcount[e.hash] \in Nat
       /\ \A h \in Hashes \ {e.hash} : refcount'[h] = refcount[h]
  BY <1>3, <1>5 DEF IInv, TypeOK
<1>11. TypeOK'
  BY <1>8, <1>9, <1>10 DEF IInv, TypeOK
<1>12. Leaves(r)
  BY <1>8, <1>9 DEF Leaves
<1>13. Fine(q, blob, live, fresh, file)
  <2>1. Uncounted(q) <=> Uncounted(c)
    BY <1>2, <1>6 DEF Uncounted
  <2>2. q.todo \subseteq Refs(q.staged) /\ IsFiniteSet(q.todo)
    BY <1>5, <1>6
  <2> QED BY <1>2, <1>6, <2>1, <2>2 DEF Fine
<1>14. Holding(q) => lock[q.key] = r /\ lock[q.src] = r
  <2>1. Holding(q) => Holding(c)
    BY <1>2, <1>6 DEF Holding
  <2> QED BY <1>1, <1>6, <2>1 DEF IInv, Exclusive
<1>15. Carried' /\ Exclusive'
  BY <1>8, <1>9, <1>12, <1>13, <1>14, OthersKept
<1>16. Stored' /\ \A k \in Keys : Owned(k)' = Owned(k)
  <2>1. \A k \in live' : blob[k] # None
    BY <1>9 DEF IInv, Stored
  <2>2. req[r].pc # "drop" /\ req'[r].pc # "drop"
    BY <1>1, <1>2, <1>6, <1>8
  <2> QED BY <1>9, <1>12, <2>1, <2>2, BlobsKept
<1>17. NeverUndercounted'
  <2>1. Held(c) = Refs(c.staged) \ c.todo /\ Held(q) = Refs(c.staged) \ (c.todo \ {e})
    BY <1>2, <1>6, HeldAs
  <2>2. Held(c) = Held(q) \ {e} /\ e \in Held(q)
    BY <1>5, <2>1
  <2>3. IsFiniteSet(Held(q))
    BY <1>5, <1>6, HeldFinite
  <2>4. \A h \in Hashes : refcount'[h] - refcount[h] >= Occurrences(Held(q), h) - Occurrences(Held(c), h)
    <3> SUFFICES ASSUME NEW h \in Hashes
                 PROVE  refcount'[h] - refcount[h] >= Occurrences(Held(q), h) - Occurrences(Held(c), h)
      OBVIOUS
    <3>1. Occurrences(Held(q) \ {e}, h) = IF e.hash = h THEN Occurrences(Held(q), h) - 1 ELSE Occurrences(Held(q), h)
      BY <2>2, <2>3, OccWithout
    <3>2. Occurrences(Held(q), h) \in Nat /\ refcount[h] \in Nat
      BY <2>3, OccType DEF IInv, TypeOK
    <3>3. CASE e.hash = h
      BY <1>10, <2>2, <3>1, <3>2, <3>3
    <3>4. CASE e.hash # h
      BY <1>10, <2>2, <3>1, <3>2, <3>4
    <3> QED BY <3>3, <3>4
  <2> QED BY <1>1, <1>8, <1>11, <1>15, <1>16, <2>4, OneCount
<1>18. Collecting'
  <2>1. e.hash \notin gc.todo \cap gc.cold
    <3>1. CASE c.op = "copy"
      <4>1. c.staged = blob[c.src] /\ c.src \in Keys
        BY <1>2, <3>1 DEF Fine
      <4>2. lock[c.src] = r
        BY <1>1, <1>2, <3>1 DEF IInv, Exclusive, Holding
      <4>3. \A s \in Reqs \ {r} : ~ (req[s].pc = "drop" /\ req[s].key = c.src)
        BY <4>1, <4>2, Dropper
      <4>4. Owned(c.src) = Refs(blob[c.src])
        BY <1>1, <1>2, <4>3 DEF Owned
      <4>5. refcount[e.hash] >= 1
        BY <1>5, <4>1, <4>4, OwnedCounted
      <4> QED BY <1>10, <4>5 DEF IInv, Collecting
    <3>2. CASE c.op # "copy"
      <4>1. e.hash \in fresh
        BY <1>2, <1>5, <3>2 DEF Fine, Uncounted
      <4> QED BY <4>1 DEF IInv, Collecting
    <3> QED BY <3>1, <3>2
  <2>2. gc.todo \subseteq Hashes
    BY DEF IInv, TypeOK
  <2> QED BY <1>9, <1>10, <2>1, <2>2 DEF IInv, Collecting
<1> QED BY <1>11, <1>15, <1>16, <1>17, <1>18 DEF IInv

(* One entry less is counted, of those the handler is to release.          *)
LEMMA ReleaseStep ==
  ASSUME IInv, NEW r \in Reqs, Release(r)
  PROVE  IInv'
<1>1. PICK c \in States : c = req[r]
  BY DEF IInv, TypeOK
<1>2. Fine(c, blob, live, fresh, file) /\ c.pc \in {"release", "undo"}
  BY <1>1 DEF Release, IInv, Carried
<1>3. PICK e \in c.todo :
        /\ refcount' = [refcount EXCEPT ![e.hash] = IF @ > 0 THEN @ - 1 ELSE @]
        /\ req' = [req EXCEPT ![r].todo = @ \ {e}]
  BY <1>1 DEF Release, DecRef
<1>4. PICK q : q = [c EXCEPT !.todo = c.todo \ {e}]
  OBVIOUS
<1>5. e.hash \in Hashes /\ IsFiniteSet(c.todo) /\ IsFiniteSet(c.todo \ {e})
  <2>1. IsFiniteSet(c.todo)
    BY <1>2 DEF Fine
  <2>2. e.hash \in Hashes
    BY DEF States, Entries
  <2> QED BY <2>1, <2>2, FS_RemoveElement
<1>6. q \in States /\ q.pc = c.pc /\ q.todo = c.todo \ {e} /\ q.key = c.key /\ q.src = c.src
  BY <1>4 DEF States
<1>7. req' = [req EXCEPT ![r] = q]
  BY <1>1, <1>3, <1>4 DEF IInv, TypeOK
<1>8. req'[r] = q /\ req' \in [Reqs -> States] /\ \A s \in Reqs \ {r} : req'[s] = req[s]
  BY <1>6, <1>7, NewState
<1>9. /\ file' = file /\ fresh' = fresh /\ gc' = gc
      /\ blob' = blob /\ live' = live /\ lock' = lock /\ stamped' = stamped
  BY DEF Release, objects
<1>10. /\ refcount' \in [Hashes -> Nat]
       /\ refcount'[e.hash] = IF refcount[e.hash] > 0 THEN refcount[e.hash] - 1 ELSE refcount[e.hash]
       /\ \A h \in Hashes \ {e.hash} : refcount'[h] = refcount[h]
  BY <1>3, <1>5 DEF IInv, TypeOK
<1>11. TypeOK'
  BY <1>8, <1>9, <1>10 DEF IInv, TypeOK
<1>12. Leaves(r)
  BY <1>8, <1>9 DEF Leaves
<1>13. Fine(q, blob, live, fresh, file)
  <2>1. ~ Uncounted(q) /\ q.key \in Keys /\ q.src \in Keys /\ IsFiniteSet(q.todo)
    BY <1>2, <1>5, <1>6 DEF Uncounted, Fine
  <2> QED BY <1>2, <1>6, <2>1 DEF Fine
<1>14. lock[q.key] = r /\ lock[q.src] = r
  <2>1. Holding(c)
    BY <1>2 DEF Holding
  <2> QED BY <1>1, <1>6, <2>1 DEF IInv, Exclusive
<1>15. Carried' /\ Exclusive'
  BY <1>8, <1>9, <1>12, <1>13, <1>14, OthersKept
<1>16. Stored' /\ \A k \in Keys : Owned(k)' = Owned(k)
  <2>1. \A k \in live' : blob[k] # None
    BY <1>9 DEF IInv, Stored
  <2>2. req[r].pc # "drop" /\ req'[r].pc # "drop"
    BY <1>1, <1>2, <1>6, <1>8
  <2> QED BY <1>9, <1>12, <2>1, <2>2, BlobsKept
<1>17. NeverUndercounted'
  <2>1. Held(c) = c.todo /\ Held(q) = c.todo \ {e}
    BY <1>2, <1>6, HeldAs
  <2>4. \A h \in Hashes : refcount'[h] - refcount[h] >= Occurrences(Held(q), h) - Occurrences(Held(c), h)
    <3> SUFFICES ASSUME NEW h \in Hashes
                 PROVE  refcount'[h] - refcount[h] >= Occurrences(Held(q), h) - Occurrences(Held(c), h)
      OBVIOUS
    <3>1. Occurrences(c.todo \ {e}, h) = IF e.hash = h THEN Occurrences(c.todo, h) - 1 ELSE Occurrences(c.todo, h)
      BY <1>5, OccWithout
    <3>2. Occurrences(c.todo, h) \in Nat /\ refcount[h] \in Nat
      BY <1>5, OccType DEF IInv, TypeOK
    <3>3. CASE e.hash = h
      BY <1>10, <2>1, <3>1, <3>2, <3>3
    <3>4. CASE e.hash # h
      BY <1>10, <2>1, <3>1, <3>2, <3>4
    <3> QED BY <3>3, <3>4
  <2> QED BY <1>1, <1>8, <1>11, <1>15, <1>16, <2>4, OneCount
<1>18. Collecting'
  <2>1. \A h \in Hashes : refcount[h] = 0 => refcount'[h] = 0
    BY <1>10
  <2>2. gc.todo \subseteq Hashes
    BY DEF IInv, TypeOK
  <2> QED BY <1>9, <2>1, <2>2 DEF IInv, Collecting
<1> QED BY <1>11, <1>15, <1>16, <1>17, <1>18 DEF IInv

-----------------------------------------------------------------------------
(* Under the key lock.                                                     *)

(* What taking the locks leaves to the others.                             *)
LEMMA LockedLeaves ==
  ASSUME IInv, NEW r \in Reqs, NEW q, q \in States, Locked(r, q),
         live' \in SUBSET Keys, \A k \in Keys \ {req[r].key} : k \in live' <=> k \in live
  PROVE  /\ TypeOK' /\ Leaves(r) /\ Collecting'
         /\ req'[r] = q /\ req[r].pc = "lock" /\ req[r].key \in Keys /\ req[r].src \in Keys
         /\ \A s \in Reqs \ {r} : req'[s] = req[s]
         /\ lock[req[r].key] = None /\ lock[req[r].src] = None
         /\ q # Idle => lock'[req[r].key] = r /\ lock'[req[r].src] = r
         /\ file' = file /\ fresh' = fresh /\ refcount' = refcount /\ blob' = blob
<1>1. req'[r] = q /\ req' \in [Reqs -> States] /\ \A s \in Reqs \ {r} : req'[s] = req[s]
  BY NewState DEF Locked
<1>2. file' = file /\ fresh' = fresh /\ refcount' = refcount /\ Collecting'
  BY SameBlocks DEF Locked
<1>3. req[r].pc = "lock" /\ blob' = blob /\ stamped' = stamped /\ gc' = gc
  BY DEF Locked
<1>4. req[r].key \in Keys /\ req[r].src \in Keys
  BY <1>3 DEF IInv, Carried, Fine
<1>5. lock[req[r].key] = None /\ lock[req[r].src] = None
  BY DEF Locked
<1>6. lock' = [k \in Keys |-> IF q # Idle /\ k \in {req[r].key, req[r].src} THEN r ELSE lock[k]]
  BY DEF Locked
<1>7. /\ lock' \in [Keys -> Reqs \cup {None}]
      /\ \A k \in Keys : lock[k] \in Reqs \ {r} => lock'[k] = lock[k] /\ k # req[r].key
      /\ q # Idle => lock'[req[r].key] = r /\ lock'[req[r].src] = r
  BY <1>4, <1>5, <1>6, BlockConstants DEF IInv, TypeOK
<1>8. TypeOK'
  BY <1>1, <1>2, <1>3, <1>7 DEF IInv, TypeOK
<1>9. Leaves(r)
  BY <1>1, <1>2, <1>3, <1>7 DEF Leaves
<1> QED BY <1>1, <1>2, <1>3, <1>4, <1>5, <1>7, <1>8, <1>9

LEMMA LockedStep ==
  ASSUME IInv, NEW r \in Reqs, NEW q, q \in States, Locked(r, q), live' \in SUBSET live,
         \A k \in Keys \ {req[r].key} : k \in live' <=> k \in live,
         q.pc # "drop", Held(q) \subseteq Held(req[r]),
         Fine(q, blob, live', fresh, file),
         Holding(q) => q # Idle /\ q.key = req[r].key /\ q.src = req[r].src
  PROVE  IInv'
<1>1. live' \in SUBSET Keys
  BY DEF IInv, TypeOK
<1>2. /\ TypeOK' /\ Leaves(r) /\ Collecting' /\ req'[r] = q /\ req[r].pc = "lock"
      /\ q # Idle => lock'[req[r].key] = r /\ lock'[req[r].src] = r
      /\ file' = file /\ fresh' = fresh /\ refcount' = refcount /\ blob' = blob
  BY <1>1, LockedLeaves
<1>3. \A k \in live' : blob[k] # None
  BY DEF IInv, Stored
<1>4. /\ Fine(req'[r], blob', live', fresh', file') /\ req[r].pc # "drop" /\ req'[r].pc # "drop"
      /\ Held(req'[r]) \subseteq Held(req[r])
      /\ Holding(req'[r]) => lock'[req'[r].key] = r /\ lock'[req'[r].src] = r
  BY <1>2
<1> QED BY <1>2, <1>3, <1>4, HandlerStep

LEMMA LockedIdleStep ==
  ASSUME IInv, NEW r \in Reqs, Locked(r, Idle), live' \in SUBSET live,
         \A k \in Keys \ {req[r].key} : k \in live' <=> k \in live
  PROVE  IInv'
<1>1. Idle \in States /\ Idle.pc # "drop" /\ Held(Idle) \subseteq Held(req[r]) /\ ~ Holding(Idle)
  BY IdleFacts
<1>2. Fine(Idle, blob, live', fresh, file)
  BY IdleFacts
<1> QED BY <1>1, <1>2, LockedStep

LEMMA PutLockedStep ==
  ASSUME IInv, NEW r \in Reqs, PutLocked(r)
  PROVE  IInv'
<1>1. PICK c \in States : c = req[r]
  BY DEF IInv, TypeOK
<1>2. Fine(c, blob, live, fresh, file) /\ c.pc = "lock" /\ c.op = "put"
  BY <1>1 DEF PutLocked, Locked, IInv, Carried
<1>3. PICK q : q = [c EXCEPT !.pc = "swap"]
  OBVIOUS
<1>4. q \in States /\ q.pc = "swap" /\ q.staged = c.staged /\ q.todo = c.todo /\ q.key = c.key /\ q.src = c.src
  BY <1>3 DEF States, Points
<1>5. Held(q) = Held(c)
  BY <1>2, <1>4, HeldAs
<1>6. Fine(q, blob, live, fresh, file)
  <2>1. ReadableIn(file, q.staged) /\ q.key \in Keys /\ q.src \in Keys /\ IsFiniteSet(q.todo) /\ ~ Uncounted(q)
    BY <1>2, <1>4 DEF Fine, Uncounted
  <2> QED BY <1>4, <2>1 DEF Fine
<1>7. q # Idle
  BY <1>4, IdleFacts
<1>8. Locked(r, q) /\ live' = live
  BY <1>1, <1>3 DEF PutLocked
<1> QED BY <1>1, <1>4, <1>5, <1>6, <1>7, <1>8, LockedStep

(* The source of a copy is locked and whole: its bytes can be read.        *)
LEMMA CopyLockedStep ==
  ASSUME IInv, NEW r \in Reqs, CopyLocked(r)
  PROVE  IInv'
<1>1. PICK c \in States : c = req[r]
  BY DEF IInv, TypeOK
<1>2. Fine(c, blob, live, fresh, file) /\ c.pc = "lock" /\ c.op = "copy" /\ live' = live
  BY <1>1 DEF CopyLocked, Locked, IInv, Carried
<1>3. CASE c.src \in live /\ blob[c.src] # None
  <2>1. PICK q : q = [c EXCEPT !.pc = "count", !.staged = blob[c.src], !.todo = Refs(blob[c.src])]
    OBVIOUS
  <2>2. Locked(r, q)
    BY <1>1, <1>3, <2>1 DEF CopyLocked
  <2>3. c.key \in Keys /\ c.src \in Keys /\ blob[c.src] \in Blobs
    BY <1>2, <1>3 DEF Fine, IInv, TypeOK
  <2>4. IsFiniteSet(Refs(blob[c.src])) /\ Refs(blob[c.src]) \in SUBSET Entries
    BY <2>3, RefsType
  <2>5. /\ q \in States /\ q.pc = "count" /\ q.op = "copy" /\ q.staged = blob[c.src] /\ q.todo = Refs(blob[c.src])
        /\ q.key = c.key /\ q.src = c.src
    BY <1>2, <2>1, <2>3, <2>4 DEF States, Points
  <2>6. ReadableIn(file, blob[c.src])
    <3>1. lock[c.src] = None
      BY <1>1, <2>2 DEF Locked
    <3>2. \A s \in Reqs \ {r} : ~ (req[s].pc = "drop" /\ req[s].key = c.src)
      BY <2>3, <3>1, Dropper
    <3>3. Whole(c.src)
      BY <1>1, <1>2, <3>2 DEF Whole
    <3> QED BY <1>3, <2>3, <3>3 DEF IInv, Stored
  <2>7. Held(q) = {}
    <3>1. Held(q) = Refs(q.staged) \ q.todo
      BY <2>5, HeldAs
    <3> QED BY <2>5, <3>1
  <2>8. Fine(q, blob, live, fresh, file)
    <3>1. ~ Uncounted(q)
      BY <2>5 DEF Uncounted
    <3> QED BY <2>3, <2>4, <2>5, <2>6, <3>1 DEF Fine
  <2>9. q # Idle
    BY <2>5, IdleFacts
  <2>10. Held(q) \subseteq Held(req[r]) /\ q.pc # "drop"
    BY <2>5, <2>7
  <2> QED BY <1>1, <1>2, <2>2, <2>5, <2>8, <2>9, <2>10, LockedStep
<1>4. CASE ~ (c.src \in live /\ blob[c.src] # None)
  <2>1. Locked(r, Idle)
    BY <1>1, <1>4 DEF CopyLocked
  <2> QED BY <1>2, <2>1, LockedIdleStep
<1> QED BY <1>3, <1>4

LEMMA RecompressLockedStep ==
  ASSUME IInv, NEW r \in Reqs, RecompressLocked(r)
  PROVE  IInv'
<1>1. PICK c \in States : c = req[r]
  BY DEF IInv, TypeOK
<1>2. Fine(c, blob, live, fresh, file) /\ c.pc = "lock" /\ c.op = "recompress" /\ live' = live
  BY <1>1 DEF RecompressLocked, Locked, IInv, Carried
<1>3. CASE r \in stamped[c.key]
  <2>1. PICK q : q = [c EXCEPT !.pc = "count"]
    OBVIOUS
  <2>2. Locked(r, q)
    BY <1>1, <1>3, <2>1 DEF RecompressLocked
  <2>3. /\ q \in States /\ q.pc = "count" /\ q.op = "recompress" /\ q.staged = c.staged /\ q.todo = c.todo
        /\ q.key = c.key /\ q.src = c.src
    BY <1>2, <2>1 DEF States, Points
  <2>4. q.todo = Refs(q.staged) /\ IsFiniteSet(q.todo) /\ ReadableIn(file, q.staged) /\ q.key \in Keys /\ q.src \in Keys
    BY <1>2, <2>3 DEF Fine
  <2>5. Held(q) = {}
    <3>1. Held(q) = Refs(q.staged) \ q.todo
      BY <2>3, HeldAs
    <3> QED BY <2>4, <3>1
  <2>6. Fine(q, blob, live, fresh, file)
    <3>1. \A e \in Refs(q.staged) : e.hash \in fresh
      BY <1>2, <2>3 DEF Fine, Uncounted
    <3> QED BY <2>3, <2>4, <3>1 DEF Fine
  <2>7. q # Idle
    BY <2>3, IdleFacts
  <2>8. Held(q) \subseteq Held(req[r]) /\ q.pc # "drop"
    BY <2>3, <2>5
  <2> QED BY <1>1, <1>2, <2>2, <2>3, <2>6, <2>7, <2>8, LockedStep
<1>4. CASE r \notin stamped[c.key]
  <2>1. Locked(r, Idle)
    BY <1>1, <1>4 DEF RecompressLocked
  <2> QED BY <1>2, <2>1, LockedIdleStep
<1> QED BY <1>3, <1>4

(* The references of a blob that is to go pass to the handler dropping it. *)
LEMMA DroppingStep ==
  ASSUME IInv, NEW r \in Reqs, Locked(r, Dropping(req[r])), req[r].op \in {"delete", "orphan"},
         live' = live \ {req[r].key}
  PROVE  IInv'
<1>1. PICK c \in States : c = req[r]
  BY DEF IInv, TypeOK
<1>2. Fine(c, blob, live, fresh, file) /\ c.pc = "lock" /\ c.op \in {"delete", "orphan"}
  BY <1>1 DEF Locked, IInv, Carried
<1>3. live' \in SUBSET live /\ live' \in SUBSET Keys /\ \A k \in Keys \ {req[r].key} : k \in live' <=> k \in live
  BY DEF IInv, TypeOK
<1>4. CASE blob[c.key] = None
  <2>1. Locked(r, Idle)
    BY <1>1, <1>4 DEF Dropping
  <2> QED BY <1>3, <2>1, LockedIdleStep
<1>5. CASE blob[c.key] # None
  <2>1. PICK q : q = [c EXCEPT !.pc = "drop", !.todo = Refs(blob[c.key])]
    OBVIOUS
  <2>2. Locked(r, q)
    BY <1>1, <1>5, <2>1 DEF Dropping
  <2>3. c.key \in Keys /\ c.src \in Keys /\ blob[c.key] \in Blobs
    BY <1>2, <1>5 DEF Fine, IInv, TypeOK
  <2>4. IsFiniteSet(Refs(blob[c.key])) /\ Refs(blob[c.key]) \in SUBSET Entries
    BY <2>3, RefsType
  <2>5. /\ q \in States /\ q.pc = "drop" /\ q.todo = Refs(blob[c.key])
        /\ q.key = c.key /\ q.src = c.src
    BY <1>2, <2>1, <2>3, <2>4 DEF States, Points
  <2>6. q # Idle
    BY <2>5, IdleFacts
  <2>7. /\ TypeOK' /\ Leaves(r) /\ Collecting' /\ req'[r] = q
        /\ \A s \in Reqs \ {r} : req'[s] = req[s]
        /\ lock[c.key] = None /\ lock'[c.key] = r /\ lock'[c.src] = r
        /\ file' = file /\ fresh' = fresh /\ refcount' = refcount /\ blob' = blob
    BY <1>1, <1>3, <2>2, <2>5, <2>6, LockedLeaves
  <2>8. \A s \in Reqs \ {r} : ~ (req[s].pc = "drop" /\ req[s].key = c.key)
    BY <2>3, <2>7, Dropper
  <2>9. Owned(c.key) = Refs(blob[c.key]) /\ Whole(c.key)
    BY <1>1, <1>2, <2>8 DEF Owned, Whole
  <2>10. Owned(c.key)' = {}
    BY <2>5, <2>7 DEF Owned
  <2>11. ReadableIn(file, blob[c.key])
    BY <1>5, <2>3, <2>9 DEF IInv, Stored
  <2>12. Held(q) = Refs(blob[c.key])
    BY <2>5, HeldAs
  <2>13. Fine(q, blob', live', fresh', file')
    <3>1. ~ Uncounted(q) /\ q.key \notin live'
      BY <1>1, <2>5 DEF Uncounted
    <3> QED BY <1>5, <2>3, <2>4, <2>5, <2>7, <3>1 DEF Fine
  <2>14. Held(req'[r]) \subseteq Owned(c.key) /\ Owned(c.key)' \subseteq Held(req[r])
    BY <2>7, <2>9, <2>10, <2>12
  <2>15. /\ Fine(req'[r], blob', live', fresh', file')
         /\ Holding(req'[r]) => lock'[req'[r].key] = r /\ lock'[req'[r].src] = r
         /\ req[r].pc # "drop" /\ req'[r].key = c.key
    BY <1>1, <1>2, <2>5, <2>7, <2>13
  <2>16. \A j \in Keys \ {c.key} : blob'[j] = blob[j] /\ (j \in live' => j \in live)
    BY <1>3, <2>7
  <2>17. c.key \notin live' /\ lock[c.key] \in {r, None} /\ blob'[c.key] = blob[c.key]
    BY <1>1, <2>7
  <2> QED BY <2>3, <2>7, <2>11, <2>14, <2>15, <2>16, <2>17, MoverStep
<1> QED BY <1>4, <1>5

LEMMA DeleteLockedStep ==
  ASSUME IInv, NEW r \in Reqs, DeleteLocked(r)
  PROVE  IInv'
<1>1. live' = live \ {req[r].key} /\ req[r].op = "delete"
  BY DEF DeleteLocked
<1>2. CASE req[r].key \in live
  <2>1. Locked(r, Dropping(req[r]))
    BY <1>2 DEF DeleteLocked
  <2> QED BY <1>1, <2>1, DroppingStep
<1>3. CASE req[r].key \notin live
  <2>1. Locked(r, Idle)
    BY <1>3 DEF DeleteLocked
  <2> QED BY <1>1, <2>1, LockedIdleStep
<1> QED BY <1>2, <1>3

LEMMA OrphanLockedStep ==
  ASSUME IInv, NEW r \in Reqs, OrphanLocked(r)
  PROVE  IInv'
<1>1. live' = live /\ req[r].op = "orphan"
  BY DEF OrphanLocked
<1>2. CASE req[r].key \notin live
  <2>1. Locked(r, Dropping(req[r])) /\ live' = live \ {req[r].key}
    BY <1>1, <1>2 DEF OrphanLocked
  <2> QED BY <1>1, <2>1, DroppingStep
<1>3. CASE req[r].key \in live
  <2>1. Locked(r, Idle)
    BY <1>3 DEF OrphanLocked
  <2> QED BY <1>1, <2>1, LockedIdleStep
<1> QED BY <1>2, <1>3

(* The holder of a key, not dropping its blob: the blob owns its entries   *)
(* and can be read.                                                        *)
LEMMA HolderSees ==
  ASSUME IInv, NEW r \in Reqs, req[r].pc \in {"swap", "commit"}
  PROVE  /\ req[r].key \in Keys /\ lock[req[r].key] = r /\ lock[req[r].src] = r
         /\ Owned(req[r].key) = Refs(blob[req[r].key])
         /\ blob[req[r].key] # None => ReadableIn(file, blob[req[r].key])
         /\ blob[req[r].key] \in Blobs \cup {None}
         /\ \A s \in Reqs \ {r} : ~ (req[s].pc = "drop" /\ req[s].key = req[r].key)
<1>1. lock[req[r].key] = r /\ lock[req[r].src] = r
  BY DEF IInv, Exclusive, Holding
<1>2. req[r].key \in Keys
  BY DEF IInv, Carried, Fine
<1>3. \A s \in Reqs \ {r} : ~ (req[s].pc = "drop" /\ req[s].key = req[r].key)
  BY <1>1, <1>2, Dropper
<1>4. Owned(req[r].key) = Refs(blob[req[r].key]) /\ Whole(req[r].key)
  BY <1>3 DEF Owned, Whole
<1> QED BY <1>1, <1>2, <1>3, <1>4 DEF IInv, Stored, TypeOK

(* A handler that holds its key puts another file at the key's path, and   *)
(* keeps the entries of the one that was there.                            *)
LEMMA ReplaceStep ==
  ASSUME IInv, NEW r \in Reqs, req[r].pc \in {"swap", "commit"},
         NEW q, q \in States, req' = [req EXCEPT ![r] = q],
         NEW b, b \in Blobs \cup {None}, Replace(r, b),
         blocks' = blocks, live' = live, lock' = lock, gc' = gc,
         Fine(q, blob', live, fresh, file), q.pc # "drop",
         q.key = req[r].key, q.src = req[r].src,
         b # None => ReadableIn(file, b), req[r].key \in live => b # None,
         Held(q) \subseteq Refs(blob[req[r].key]), Refs(b) \subseteq Held(req[r])
  PROVE  IInv'
<1>1. req'[r] = q /\ req' \in [Reqs -> States] /\ \A s \in Reqs \ {r} : req'[s] = req[s]
  BY NewState
<1>2. file' = file /\ fresh' = fresh /\ refcount' = refcount /\ Collecting'
  BY SameBlocks
<1>3. PICK k \in Keys : k = req[r].key
  BY HolderSees
<1>4. /\ lock[k] = r /\ lock[req[r].src] = r /\ Owned(k) = Refs(blob[k])
      /\ \A s \in Reqs \ {r} : ~ (req[s].pc = "drop" /\ req[s].key = k)
  BY <1>3, HolderSees
<1>5. /\ blob' \in [Keys -> Blobs \cup {None}] /\ blob'[k] = b /\ \A j \in Keys \ {k} : blob'[j] = blob[j]
      /\ stamped' \in [Keys -> SUBSET Reqs]
  BY <1>3 DEF Replace, IInv, TypeOK
<1>6. TypeOK'
  BY <1>1, <1>2, <1>5 DEF IInv, TypeOK
<1>7. Leaves(r)
  <2>1. \A j \in Keys : lock[j] \in Reqs \ {r} => blob'[j] = blob[j]
    BY <1>4, <1>5
  <2> QED BY <1>1, <1>2, <2>1 DEF Leaves
<1>8. Owned(k)' = Refs(b)
  <2>1. ~ \E s \in Reqs : req'[s].pc = "drop" /\ req'[s].key = k
    BY <1>1, <1>4
  <2> QED BY <1>5, <2>1 DEF Owned
<1>9. /\ Fine(req'[r], blob', live', fresh', file')
      /\ Holding(req'[r]) => lock'[req'[r].key] = r /\ lock'[req'[r].src] = r
      /\ req[r].pc # "drop" /\ req'[r].pc # "drop"
  BY <1>1, <1>2, <1>3, <1>4
<1>10. Held(req'[r]) \subseteq Owned(k) /\ Owned(k)' \subseteq Held(req[r])
  BY <1>1, <1>3, <1>4, <1>8
<1>11. \A j \in Keys \ {k} : blob'[j] = blob[j] /\ (j \in live' => j \in live)
  BY <1>5
<1>12. /\ k \in live' => blob'[k] # None
       /\ blob'[k] # None => ReadableIn(file, blob'[k])
       /\ lock[k] \in {r, None}
  BY <1>3, <1>4, <1>5
<1> QED BY <1>2, <1>6, <1>7, <1>9, <1>10, <1>11, <1>12, MoverStep

LEMMA RenameStep ==
  ASSUME IInv, NEW r \in Reqs, Rename(r)
  PROVE  IInv'
<1>1. PICK c \in States : c = req[r]
  BY DEF IInv, TypeOK
<1>2. Fine(c, blob, live, fresh, file) /\ c.pc = "swap" /\ c.staged \in Blobs /\ c.staged # None
  BY <1>1, Pieces DEF Rename, IInv, Carried, States
<1>3. /\ c.key \in Keys /\ blob[c.key] \in Blobs \cup {None}
      /\ blob[c.key] # None => ReadableIn(file, blob[c.key])
  BY <1>1, <1>2, HolderSees
<1>4. PICK q : q = [c EXCEPT !.pc = "commit", !.backup = blob[c.key]]
  OBVIOUS
<1>5. /\ q \in States /\ q.pc = "commit" /\ q.backup = blob[c.key] /\ q.staged = c.staged
      /\ q.key = c.key /\ q.src = c.src /\ q.todo = c.todo
  BY <1>3, <1>4 DEF States, Points
<1>6. req' = [req EXCEPT ![r] = q]
  BY <1>1, <1>4 DEF Rename, IInv, TypeOK
<1>7. Held(q) = Refs(blob[c.key]) /\ Held(c) = Refs(c.staged)
  BY <1>2, <1>5, HeldAs
<1>8. blob'[c.key] = c.staged
  BY <1>1, <1>3 DEF Rename, Replace, IInv, TypeOK
<1>9. Fine(q, blob', live, fresh, file)
  <2>1. ~ Uncounted(q) /\ IsFiniteSet(q.todo) /\ q.key \in Keys /\ q.src \in Keys
    BY <1>2, <1>5 DEF Uncounted, Fine
  <2>2. c.key \in live => blob[c.key] # None
    BY DEF IInv, Stored
  <2> QED BY <1>3, <1>5, <1>8, <2>1, <2>2 DEF Fine
<1>10. ReadableIn(file, c.staged)
  BY <1>2 DEF Fine
<1>11. Replace(r, c.staged) /\ blocks' = blocks /\ live' = live /\ lock' = lock /\ gc' = gc
  BY <1>1 DEF Rename
<1> QED BY <1>1, <1>2, <1>5, <1>6, <1>7, <1>9, <1>10, <1>11, ReplaceStep

LEMMA RenameRecompressedStep ==
  ASSUME IInv, NEW r \in Reqs, RenameRecompressed(r)
  PROVE  IInv'
<1>1. PICK c \in States : c = req[r]
  BY DEF IInv, TypeOK
<1>2. Fine(c, blob, live, fresh, file) /\ c.pc = "swap" /\ c.staged \in Blobs /\ c.staged # None
  BY <1>1, Pieces DEF RenameRecompressed, IInv, Carried, States
<1>3. c.key \in Keys /\ blob[c.key] \in Blobs \cup {None}
  BY <1>1, <1>2, HolderSees
<1>4. PICK q : q = [c EXCEPT !.pc = "release", !.todo = Refs(blob[c.key])]
  OBVIOUS
<1>5. IsFiniteSet(Refs(blob[c.key])) /\ Refs(blob[c.key]) \in SUBSET Entries
  BY <1>3, RefsType
<1>6. /\ q \in States /\ q.pc = "release" /\ q.todo = Refs(blob[c.key])
      /\ q.key = c.key /\ q.src = c.src
  BY <1>4, <1>5 DEF States, Points
<1>7. req' = [req EXCEPT ![r] = q]
  BY <1>1, <1>4 DEF RenameRecompressed, IInv, TypeOK
<1>8. Held(q) = Refs(blob[c.key]) /\ Held(c) = Refs(c.staged)
  BY <1>2, <1>6, HeldAs
<1>9. Fine(q, blob', live, fresh, file)
  <2>1. ~ Uncounted(q) /\ IsFiniteSet(q.todo) /\ q.key \in Keys /\ q.src \in Keys
    BY <1>2, <1>5, <1>6 DEF Uncounted, Fine
  <2> QED BY <1>6, <2>1 DEF Fine
<1>10. ReadableIn(file, c.staged)
  BY <1>2 DEF Fine
<1>11. Replace(r, c.staged) /\ blocks' = blocks /\ live' = live /\ lock' = lock /\ gc' = gc
  BY <1>1 DEF RenameRecompressed
<1>12. q.pc # "drop"
  BY <1>6
<1> QED BY <1>1, <1>2, <1>6, <1>7, <1>8, <1>9, <1>10, <1>11, <1>12, ReplaceStep

LEMMA CommitFailStep ==
  ASSUME IInv, NEW r \in Reqs, CommitFail(r)
  PROVE  IInv'
<1>1. PICK c \in States : c = req[r]
  BY DEF IInv, TypeOK
<1>2. Fine(c, blob, live, fresh, file) /\ c.pc = "commit" /\ c.staged \in Blobs /\ c.backup \in Blobs \cup {None}
  BY <1>1 DEF CommitFail, IInv, Carried, States
<1>3. /\ blob[c.key] = c.staged /\ c.key \in Keys /\ (c.key \in live => c.backup # None)
      /\ (c.backup # None => ReadableIn(file, c.backup))
  BY <1>2 DEF Fine
<1>4. PICK q : q = [c EXCEPT !.pc = "undo", !.todo = Refs(c.staged)]
  OBVIOUS
<1>5. IsFiniteSet(Refs(c.staged)) /\ Refs(c.staged) \in SUBSET Entries
  BY <1>2, RefsType
<1>6. q \in States /\ q.pc = "undo" /\ q.todo = Refs(c.staged) /\ q.key = c.key /\ q.src = c.src
  BY <1>4, <1>5 DEF States, Points
<1>7. req' = [req EXCEPT ![r] = q]
  BY <1>1, <1>4 DEF CommitFail, IInv, TypeOK
<1>8. Held(q) = Refs(blob[c.key]) /\ Held(c) = Refs(c.backup)
  BY <1>2, <1>3, <1>6, HeldAs
<1>9. Fine(q, blob', live, fresh, file)
  <2>1. ~ Uncounted(q) /\ IsFiniteSet(q.todo) /\ q.key \in Keys /\ q.src \in Keys
    BY <1>2, <1>5, <1>6 DEF Uncounted, Fine
  <2> QED BY <1>6, <2>1 DEF Fine
<1>10. Replace(r, c.backup) /\ blocks' = blocks /\ live' = live /\ lock' = lock /\ gc' = gc
  BY <1>1 DEF CommitFail
<1>11. q.pc # "drop"
  BY <1>6
<1> QED BY <1>1, <1>2, <1>3, <1>6, <1>7, <1>8, <1>9, <1>10, <1>11, ReplaceStep

LEMMA CommitStep ==
  ASSUME IInv, NEW r \in Reqs, Commit(r)
  PROVE  IInv'
<1>1. PICK c \in States : c = req[r]
  BY DEF IInv, TypeOK
<1>2. Fine(c, blob, live, fresh, file) /\ c.pc = "commit" /\ c.staged \in Blobs /\ c.backup \in Blobs \cup {None}
  BY <1>1 DEF Commit, IInv, Carried, States
<1>3. blob[c.key] = c.staged /\ c.key \in Keys /\ c.src \in Keys /\ c.staged # None
  BY <1>2, Pieces DEF Fine
<1>4. PICK q : q = [c EXCEPT !.pc = "release", !.todo = Refs(c.backup)]
  OBVIOUS
<1>5. IsFiniteSet(Refs(c.backup)) /\ Refs(c.backup) \in SUBSET Entries
  BY <1>2, RefsType
<1>6. q \in States /\ q.pc = "release" /\ q.todo = Refs(c.backup) /\ q.key = c.key /\ q.src = c.src
  BY <1>4, <1>5 DEF States, Points
<1>7. req' = [req EXCEPT ![r] = q]
  BY <1>1, <1>4 DEF Commit, IInv, TypeOK
<1>8. req'[r] = q /\ req' \in [Reqs -> States] /\ \A s \in Reqs \ {r} : req'[s] = req[s]
  BY <1>6, <1>7, NewState
<1>9. /\ file' = file /\ fresh' = fresh /\ refcount' = refcount /\ Collecting'
      /\ blob' = blob /\ lock' = lock /\ stamped' = stamped /\ gc' = gc /\ live' = live \cup {c.key}
  BY <1>1, SameBlocks DEF Commit
<1>10. lock[c.key] = r /\ lock[c.src] = r
  BY <1>1, <1>2, HolderSees
<1>11. TypeOK'
  BY <1>3, <1>8, <1>9 DEF IInv, TypeOK
<1>12. Leaves(r)
  BY <1>8, <1>9, <1>10 DEF Leaves
<1>13. \A k \in live' : blob[k] # None
  BY <1>3, <1>9 DEF IInv, Stored
<1>14. Held(req'[r]) \subseteq Held(req[r])
  BY <1>1, <1>2, <1>6, <1>8, HeldAs
<1>15. Fine(q, blob', live', fresh', file')
  <2>1. ~ Uncounted(q) /\ IsFiniteSet(q.todo) /\ q.key \in Keys /\ q.src \in Keys
    BY <1>3, <1>5, <1>6 DEF Uncounted
  <2> QED BY <1>6, <2>1 DEF Fine
<1>16. /\ Fine(req'[r], blob', live', fresh', file')
       /\ Holding(req'[r]) => lock'[req'[r].key] = r /\ lock'[req'[r].src] = r
       /\ req[r].pc # "drop" /\ req'[r].pc # "drop"
  BY <1>1, <1>2, <1>6, <1>8, <1>9, <1>10, <1>15
<1> QED BY <1>9, <1>11, <1>12, <1>13, <1>14, <1>16, HandlerStep

-----------------------------------------------------------------------------
(* Blobs that go.                                                          *)

LEMMA DropStep ==
  ASSUME IInv, NEW r \in Reqs, Drop(r)
  PROVE  IInv'
<1>1. PICK c \in States : c = req[r]
  BY DEF IInv, TypeOK
<1>2. Fine(c, blob, live, fresh, file) /\ c.pc = "drop"
  BY <1>1 DEF Drop, IInv, Carried
<1>3. PICK e \in c.todo :
        /\ refcount' = [refcount EXCEPT ![e.hash] = IF @ > 0 THEN @ - 1 ELSE @]
        /\ req' = [req EXCEPT ![r].todo = @ \ {e}]
  BY <1>1 DEF Drop, DecRef
<1>4. PICK q : q = [c EXCEPT !.todo = c.todo \ {e}]
  OBVIOUS
<1>5. /\ e.hash \in Hashes /\ IsFiniteSet(c.todo) /\ IsFiniteSet(c.todo \ {e})
      /\ c.todo \subseteq Refs(blob[c.key]) /\ c.key \in Keys /\ c.src \in Keys /\ c.key \notin live /\ blob[c.key] # None
  <2>1. /\ IsFiniteSet(c.todo) /\ c.todo \subseteq Refs(blob[c.key])
        /\ c.key \in Keys /\ c.src \in Keys /\ c.key \notin live /\ blob[c.key] # None
    BY <1>2 DEF Fine
  <2>2. e.hash \in Hashes
    BY DEF States, Entries
  <2> QED BY <2>1, <2>2, FS_RemoveElement
<1>6. q \in States /\ q.pc = "drop" /\ q.todo = c.todo \ {e} /\ q.key = c.key /\ q.src = c.src
  BY <1>2, <1>4 DEF States
<1>7. req' = [req EXCEPT ![r] = q]
  BY <1>1, <1>3, <1>4 DEF IInv, TypeOK
<1>8. req'[r] = q /\ req' \in [Reqs -> States] /\ \A s \in Reqs \ {r} : req'[s] = req[s]
  BY <1>6, <1>7, NewState
<1>9. /\ file' = file /\ fresh' = fresh /\ gc' = gc
      /\ blob' = blob /\ live' = live /\ lock' = lock /\ stamped' = stamped
  BY DEF Drop, objects
<1>10. /\ refcount' \in [Hashes -> Nat]
       /\ refcount'[e.hash] = IF refcount[e.hash] > 0 THEN refcount[e.hash] - 1 ELSE refcount[e.hash]
       /\ \A h \in Hashes \ {e.hash} : refcount'[h] = refcount[h]
  BY <1>3, <1>5 DEF IInv, TypeOK
<1>11. TypeOK'
  BY <1>8, <1>9, <1>10 DEF IInv, TypeOK
<1>12. Leaves(r)
  BY <1>8, <1>9 DEF Leaves
<1>13. Fine(q, blob, live, fresh, file)
  <2>1. ~ Uncounted(q) /\ q.todo \subseteq Refs(blob[c.key])
    BY <1>5, <1>6 DEF Uncounted
  <2> QED BY <1>5, <1>6, <2>1 DEF Fine
<1>14. lock[q.key] = r /\ lock[q.src] = r
  <2>1. Holding(c)
    BY <1>2 DEF Holding
  <2> QED BY <1>1, <1>6, <2>1 DEF IInv, Exclusive
<1>15. Carried' /\ Exclusive'
  BY <1>8, <1>9, <1>12, <1>13, <1>14, OthersKept
<1>16. \A s \in Reqs : req'[s].pc = req[s].pc /\ req'[s].key = req[s].key
  <2>1. \A s \in Reqs : s = r \/ req'[s] = req[s]
    BY <1>8
  <2> QED BY <1>1, <1>2, <1>6, <1>8, <2>1
<1>17. ASSUME NEW k \in Keys PROVE Owned(k)' = Owned(k)
  <2>1. CASE \E s \in Reqs : req[s].pc = "drop" /\ req[s].key = k
    <3>1. \E s \in Reqs : req'[s].pc = "drop" /\ req'[s].key = k
      BY <1>16, <2>1
    <3> QED BY <2>1, <3>1 DEF Owned
  <2>2. CASE ~ \E s \in Reqs : req[s].pc = "drop" /\ req[s].key = k
    <3>1. ~ \E s \in Reqs : req'[s].pc = "drop" /\ req'[s].key = k
      BY <1>16, <2>2
    <3> QED BY <1>9, <2>2, <3>1 DEF Owned
  <2> QED BY <2>1, <2>2
<1>18. Stored'
  <2>1. ASSUME NEW k \in Keys, blob[k] # None, Whole(k)' PROVE ReadableIn(file, blob[k])
    <3>1. CASE k = c.key
      <4>1. q.todo = Refs(blob[k])
        BY <1>6, <1>8, <1>9, <2>1, <3>1 DEF Whole
      <4>2. e \in Refs(blob[k]) /\ e \notin q.todo
        BY <1>5, <1>6, <3>1
      <4> QED BY <4>1, <4>2
    <3>2. CASE k # c.key
      <4>1. \A s \in Reqs : req[s].pc = "drop" /\ req[s].key = k => req'[s] = req[s] /\ req'[s].pc = "drop" /\ req'[s].key = k
        BY <1>1, <1>8, <1>16, <3>2
      <4>2. Whole(k)
        BY <1>9, <2>1, <4>1 DEF Whole
      <4> QED BY <2>1, <4>2 DEF IInv, Stored
    <3> QED BY <3>1, <3>2
  <2> QED BY <1>9, <2>1 DEF IInv, Stored
<1>19. NeverUndercounted'
  <2>1. Held(c) = c.todo /\ Held(q) = c.todo \ {e}
    BY <1>2, <1>6, HeldAs
  <2>2. \A h \in Hashes : refcount'[h] - refcount[h] >= Occurrences(Held(q), h) - Occurrences(Held(c), h)
    <3> SUFFICES ASSUME NEW h \in Hashes
                 PROVE  refcount'[h] - refcount[h] >= Occurrences(Held(q), h) - Occurrences(Held(c), h)
      OBVIOUS
    <3>1. Occurrences(c.todo \ {e}, h) = IF e.hash = h THEN Occurrences(c.todo, h) - 1 ELSE Occurrences(c.todo, h)
      BY <1>5, OccWithout
    <3>2. Occurrences(c.todo, h) \in Nat /\ refcount[h] \in Nat
      BY <1>5, OccType DEF IInv, TypeOK
    <3>3. CASE e.hash = h
      BY <1>10, <2>1, <3>1, <3>2, <3>3
    <3>4. CASE e.hash # h
      BY <1>10, <2>1, <3>1, <3>2, <3>4
    <3> QED BY <3>3, <3>4
  <2> QED BY <1>1, <1>8, <1>11, <1>15, <1>17, <2>2, OneCount
<1>20. Collecting'
  <2>1. \A h \in Hashes : refcount[h] = 0 => refcount'[h] = 0
    BY <1>10
  <2>2. gc.todo \subseteq Hashes
    BY DEF IInv, TypeOK
  <2> QED BY <1>9, <2>1, <2>2 DEF IInv, Collecting
<1> QED BY <1>11, <1>15, <1>18, <1>19, <1>20 DEF IInv

(* A handler that drops a blob returns: the blob file is gone with all its *)
(* references, or still has them all.                                      *)
LEMMA DropEnds ==
  ASSUME IInv, NEW r \in Reqs, req[r].pc = "drop", End(r),
         NEW b, b \in Blobs \cup {None},
         blob' = [blob EXCEPT ![req[r].key] = b], stamped' \in [Keys -> SUBSET Reqs],
         blocks' = blocks, live' = live, gc' = gc,
         b # None => ReadableIn(file, b), Refs(b) \subseteq req[r].todo
  PROVE  IInv'
<1>1. req'[r] = Idle /\ req' \in [Reqs -> States] /\ \A s \in Reqs \ {r} : req'[s] = req[s]
  BY IdleFacts, NewState DEF End
<1>2. file' = file /\ fresh' = fresh /\ refcount' = refcount /\ Collecting'
  BY SameBlocks
<1>3. PICK k \in Keys : k = req[r].key /\ k \notin live
  BY DEF IInv, Carried, Fine
<1>4. lock[k] = r
  BY <1>3 DEF IInv, Exclusive, Holding
<1>5. \A s \in Reqs \ {r} : ~ (req[s].pc = "drop" /\ req[s].key = k)
  BY <1>4, Dropper
<1>6. blob' \in [Keys -> Blobs \cup {None}] /\ blob'[k] = b /\ \A j \in Keys \ {k} : blob'[j] = blob[j]
  BY <1>3 DEF IInv, TypeOK
<1>7. /\ lock' \in [Keys -> Reqs \cup {None}]
      /\ \A j \in Keys : lock[j] \in Reqs \ {r} => lock'[j] = lock[j]
  BY DEF End, IInv, TypeOK
<1>8. TypeOK'
  BY <1>1, <1>2, <1>6, <1>7 DEF IInv, TypeOK
<1>9. Leaves(r)
  <2>1. \A j \in Keys : lock[j] \in Reqs \ {r} => blob'[j] = blob[j]
    BY <1>4, <1>6
  <2> QED BY <1>1, <1>2, <1>7, <2>1 DEF Leaves
<1>10. Owned(k)' = Refs(b)
  <2>1. ~ \E s \in Reqs : req'[s].pc = "drop" /\ req'[s].key = k
    BY <1>1, <1>5, IdleFacts
  <2> QED BY <1>6, <2>1 DEF Owned
<1>11. Held(req'[r]) \subseteq Owned(k) /\ Owned(k)' \subseteq Held(req[r])
  BY <1>1, <1>10, IdleFacts, HeldAs
<1>12. /\ Fine(req'[r], blob', live', fresh', file') /\ ~ Holding(req'[r]) /\ req'[r].pc # "drop"
  BY <1>1, IdleFacts
<1>13. \A j \in Keys \ {k} : blob'[j] = blob[j] /\ (j \in live' => j \in live)
  BY <1>6
<1>14. k \notin live' /\ (blob'[k] # None => ReadableIn(file, blob'[k])) /\ lock[k] \in {r, None}
  BY <1>3, <1>4, <1>6
<1> QED BY <1>2, <1>3, <1>8, <1>9, <1>11, <1>12, <1>13, <1>14, MoverStep

LEMMA RemoveStep ==
  ASSUME IInv, NEW r \in Reqs, Remove(r)
  PROVE  IInv'
<1>1. /\ req[r].pc = "drop" /\ End(r) /\ blob' = [blob EXCEPT ![req[r].key] = None]
      /\ stamped' = [stamped EXCEPT ![req[r].key] = {}]
      /\ blocks' = blocks /\ live' = live /\ gc' = gc
  BY DEF Remove, Replace
<1>2. stamped' \in [Keys -> SUBSET Reqs]
  BY <1>1 DEF IInv, TypeOK
<1>3. Refs(None) \subseteq req[r].todo /\ None \in Blobs \cup {None}
  BY DEF Refs
<1> QED BY <1>1, <1>2, <1>3, DropEnds

LEMMA DropFailStep ==
  ASSUME Orderly, IInv, NEW r \in Reqs, DropFail(r)
  PROVE  IInv'
<1>1. /\ req[r].pc = "drop" /\ End(r) /\ blob' = blob
      /\ stamped' = stamped /\ blocks' = blocks /\ live' = live /\ gc' = gc
      /\ req[r].todo = Refs(blob[req[r].key])
  BY DEF DropFail, Fault, Orderly
<1>2. PICK k \in Keys : k = req[r].key /\ blob[k] # None
  BY <1>1 DEF IInv, Carried, Fine
<1>3. lock[k] = r
  BY <1>1, <1>2 DEF IInv, Exclusive, Holding
<1>4. \A s \in Reqs \ {r} : ~ (req[s].pc = "drop" /\ req[s].key = k)
  BY <1>3, Dropper
<1>5. Whole(k)
  BY <1>1, <1>2, <1>4 DEF Whole
<1>6. ReadableIn(file, blob[k]) /\ blob[k] \in Blobs
  BY <1>2, <1>5 DEF IInv, Stored, TypeOK
<1>7. blob' = [blob EXCEPT ![req[r].key] = blob[k]] /\ stamped' \in [Keys -> SUBSET Reqs]
  BY <1>1, <1>2 DEF IInv, TypeOK
<1>8. Refs(blob[k]) \subseteq req[r].todo
  BY <1>1, <1>2
<1>9. PICK b : b = blob[k]
  OBVIOUS
<1> QED BY <1>1, <1>6, <1>7, <1>8, <1>9, DropEnds

-----------------------------------------------------------------------------
(* The collector and time.                                                 *)

(* Handlers and objects are left alone.                                    *)
LEMMA CountsKept ==
  ASSUME IInv, req' = req, objects' = objects, refcount' = refcount
  PROVE  /\ blob' = blob /\ live' = live /\ lock' = lock /\ stamped' = stamped
         /\ NeverUndercounted' /\ Exclusive' /\ \A k : Whole(k)' <=> Whole(k)
<1>1. blob' = blob /\ live' = live /\ lock' = lock /\ stamped' = stamped
  BY DEF objects
<1>2. \A h : OwnedRefs(h)' = OwnedRefs(h) /\ HeldRefs(h)' = HeldRefs(h)
  BY <1>1 DEF OwnedRefs, HeldRefs, Owned
<1>3. NeverUndercounted'
  BY <1>2 DEF IInv, NeverUndercounted
<1>4. Exclusive'
  BY <1>1 DEF IInv, Exclusive
<1>5. \A k : Whole(k)' <=> Whole(k)
  BY <1>1 DEF Whole
<1> QED BY <1>1, <1>3, <1>4, <1>5

(* Only the collector's own state, or released_at, changes.                *)
LEMMA CollectorStep ==
  ASSUME IInv, req' = req, objects' = objects, refcount' = refcount, file' = file, fresh' = fresh,
         gc' \in [todo : SUBSET Hashes, cold : SUBSET Hashes, row : Hashes \cup {None}], Collecting'
  PROVE  IInv'
<1>1. /\ blob' = blob /\ live' = live /\ lock' = lock /\ stamped' = stamped
      /\ NeverUndercounted' /\ Exclusive' /\ \A k : Whole(k)' <=> Whole(k)
  BY CountsKept
<1>2. TypeOK'
  BY <1>1 DEF IInv, TypeOK
<1>3. Carried'
  BY <1>1 DEF IInv, Carried
<1>4. Stored'
  BY <1>1 DEF IInv, Stored
<1> QED BY <1>1, <1>2, <1>3, <1>4 DEF IInv

LEMMA NoRunFacts ==
  /\ NoRun \in [todo : SUBSET Hashes, cold : SUBSET Hashes, row : Hashes \cup {None}]
  /\ NoRun.todo = {} /\ NoRun.cold = {}
BY DEF NoRun

(* What is left to visit shrinks.                                          *)
LEMMA Shrinks ==
  ASSUME IInv, gc' \in [todo : SUBSET Hashes, cold : SUBSET Hashes, row : Hashes \cup {None}],
         gc'.todo \subseteq gc.todo, gc'.cold \subseteq gc.cold, refcount' = refcount, fresh' \subseteq fresh
  PROVE  Collecting'
BY DEF IInv, Collecting

LEMMA GCSelectStep ==
  ASSUME IInv, GCSelect
  PROVE  IInv'
<1>1. /\ gc' = [todo |-> {h \in Hashes : refcount[h] = 0 /\ released[h] = "old"}, cold |-> Hashes \ fresh, row |-> None]
      /\ file' = file /\ fresh' = fresh /\ refcount' = refcount /\ req' = req /\ objects' = objects
  BY DEF GCSelect, blocks
<1>2. /\ gc'.todo = {h \in Hashes : refcount[h] = 0 /\ released[h] = "old"} /\ gc'.cold = Hashes \ fresh
      /\ gc' \in [todo : SUBSET Hashes, cold : SUBSET Hashes, row : Hashes \cup {None}]
  BY <1>1
<1>3. Collecting'
  BY <1>1, <1>2 DEF Collecting
<1> QED BY <1>1, <1>2, <1>3, CollectorStep

LEMMA GCVisitFailStep ==
  ASSUME IInv, GCVisitFail
  PROVE  IInv'
<1>1. PICK h \in gc.todo : gc' = IF gc.todo = {h} THEN NoRun ELSE [gc EXCEPT !.todo = @ \ {h}]
  BY DEF GCVisitFail
<1>2. file' = file /\ fresh' = fresh /\ refcount' = refcount /\ req' = req /\ objects' = objects
  BY DEF GCVisitFail, blocks
<1>3. gc \in [todo : SUBSET Hashes, cold : SUBSET Hashes, row : Hashes \cup {None}]
  BY DEF IInv, TypeOK
<1>4. /\ gc' \in [todo : SUBSET Hashes, cold : SUBSET Hashes, row : Hashes \cup {None}]
      /\ gc'.todo \subseteq gc.todo /\ gc'.cold \subseteq gc.cold
  BY <1>1, <1>3, NoRunFacts
<1>5. Collecting'
  BY <1>2, <1>4, Shrinks
<1> QED BY <1>2, <1>4, <1>5, CollectorStep

LEMMA GCDeleteRowStep ==
  ASSUME IInv, GCDeleteRow
  PROVE  IInv'
<1>1. gc' = IF gc.todo = {} THEN NoRun ELSE [gc EXCEPT !.row = None]
  BY DEF GCDeleteRow
<1>2. file' = file /\ fresh' = fresh /\ refcount' = refcount /\ req' = req /\ objects' = objects
  BY DEF GCDeleteRow
<1>3. gc \in [todo : SUBSET Hashes, cold : SUBSET Hashes, row : Hashes \cup {None}]
  BY DEF IInv, TypeOK
<1>4. /\ gc' \in [todo : SUBSET Hashes, cold : SUBSET Hashes, row : Hashes \cup {None}]
      /\ gc'.todo \subseteq gc.todo /\ gc'.cold \subseteq gc.cold
  BY <1>1, <1>3, NoRunFacts
<1>5. Collecting'
  BY <1>2, <1>4, Shrinks
<1> QED BY <1>2, <1>4, <1>5, CollectorStep

(* Nothing that must be readable refers to a block the collector removes.  *)
LEMMA Removable ==
  ASSUME IInv, NEW h \in gc.todo \cap gc.cold
  PROVE  /\ \A k \in Keys : blob[k] # None /\ Whole(k) => \A e \in Refs(blob[k]) : e.hash # h
         /\ \A r \in Reqs : req[r].pc \in {"encode", "count", "lock", "swap"} => \A e \in Refs(req[r].staged) : e.hash # h
         /\ \A r \in Reqs : req[r].pc = "commit" => \A e \in Refs(req[r].backup) : e.hash # h
<1>1. h \in Hashes /\ refcount[h] = 0 /\ h \notin fresh
  BY DEF IInv, Collecting, TypeOK
<1>2. \A k \in Keys : \A e \in Owned(k) : e.hash # h
  BY <1>1, OwnedCounted
<1>3. \A r \in Reqs : \A e \in Held(req[r]) : e.hash # h
  BY <1>1, HeldCounted
<1>4. ASSUME NEW k \in Keys, Whole(k), NEW e \in Refs(blob[k]) PROVE e.hash # h
  <2>1. CASE \E r \in Reqs : req[r].pc = "drop" /\ req[r].key = k
    <3>1. PICK r \in Reqs : req[r].pc = "drop" /\ req[r].key = k
      BY <2>1
    <3>2. Held(req[r]) = Refs(blob[k])
      BY <1>4, <3>1, HeldAs DEF Whole
    <3> QED BY <1>3, <3>2
  <2>2. CASE ~ \E r \in Reqs : req[r].pc = "drop" /\ req[r].key = k
    <3>1. Owned(k) = Refs(blob[k])
      BY <2>2 DEF Owned
    <3> QED BY <1>2, <3>1
  <2> QED BY <2>1, <2>2
<1>5. ASSUME NEW r \in Reqs, req[r].pc \in {"encode", "count", "lock", "swap"}, NEW e \in Refs(req[r].staged)
      PROVE  e.hash # h
  <2>1. Fine(req[r], blob, live, fresh, file)
    BY DEF IInv, Carried
  <2>2. CASE Uncounted(req[r])
    BY <1>1, <2>1, <2>2 DEF Fine
  <2>3. CASE req[r].pc = "count" /\ req[r].op = "copy"
    <3>1. req[r].staged = blob[req[r].src] /\ req[r].src \in Keys
      BY <2>1, <2>3 DEF Fine
    <3>2. lock[req[r].src] = r
      BY <2>3 DEF IInv, Exclusive, Holding
    <3>3. \A s \in Reqs \ {r} : ~ (req[s].pc = "drop" /\ req[s].key = req[r].src)
      BY <3>1, <3>2, Dropper
    <3>4. Owned(req[r].src) = Refs(blob[req[r].src])
      BY <2>3, <3>3 DEF Owned
    <3> QED BY <1>2, <1>5, <3>1, <3>4
  <2>4. CASE req[r].pc = "swap" \/ (req[r].pc = "lock" /\ req[r].op = "put")
    <3>1. Held(req[r]) = Refs(req[r].staged)
      BY <2>4, HeldAs
    <3> QED BY <1>3, <1>5, <3>1
  <2>5. CASE req[r].pc = "lock" /\ req[r].op \notin {"put", "recompress"}
    <3>1. Refs(req[r].staged) = {}
      BY <2>1, <2>5, EmptyBlob DEF Fine
    <3> QED BY <1>5, <3>1
  <2>6. \/ Uncounted(req[r]) \/ (req[r].pc = "count" /\ req[r].op = "copy")
        \/ req[r].pc = "swap" \/ (req[r].pc = "lock" /\ req[r].op = "put")
        \/ (req[r].pc = "lock" /\ req[r].op \notin {"put", "recompress"})
    <3>1. req[r].pc = "encode" => req[r].op \in {"put", "recompress"}
      BY <2>1 DEF Fine
    <3> QED BY <1>5, <3>1 DEF Uncounted
  <2> QED BY <2>2, <2>3, <2>4, <2>5, <2>6
<1>6. ASSUME NEW r \in Reqs, req[r].pc = "commit", NEW e \in Refs(req[r].backup) PROVE e.hash # h
  <2>1. Held(req[r]) = Refs(req[r].backup)
    BY <1>6, HeldAs
  <2> QED BY <1>3, <1>6, <2>1
<1> QED BY <1>4, <1>5, <1>6

LEMMA GCVisitStep ==
  ASSUME IInv, GCVisit
  PROVE  IInv'
<1>1. PICK h \in gc.todo :
        /\ file' = [file EXCEPT ![h] = IF h \in gc.cold THEN None ELSE @]
        /\ fresh' = fresh \ (gc.cold \cap {h})
        /\ gc' = IF h \in gc.cold THEN [gc EXCEPT !.todo = @ \ {h}, !.row = h]
                 ELSE IF gc.todo = {h} THEN NoRun ELSE [gc EXCEPT !.todo = @ \ {h}]
  BY DEF GCVisit
<1>2. refcount' = refcount /\ req' = req /\ objects' = objects
  BY DEF GCVisit
<1>3. gc \in [todo : SUBSET Hashes, cold : SUBSET Hashes, row : Hashes \cup {None}] /\ h \in Hashes
  BY DEF IInv, TypeOK
<1>4. fresh' = fresh
  <2>1. gc.cold \cap fresh = {}
    BY DEF IInv, Collecting
  <2> QED BY <1>1, <2>1
<1>5. /\ gc' \in [todo : SUBSET Hashes, cold : SUBSET Hashes, row : Hashes \cup {None}]
      /\ gc'.todo \subseteq gc.todo /\ gc'.cold \subseteq gc.cold
  BY <1>1, <1>3, NoRunFacts
<1>6. Collecting'
  BY <1>2, <1>4, <1>5, Shrinks
<1>7. CASE h \notin gc.cold
  <2>1. file' = file
    BY <1>1, <1>3, <1>7 DEF IInv, TypeOK
  <2> QED BY <1>2, <1>4, <1>5, <1>6, <2>1, CollectorStep
<1>8. CASE h \in gc.cold
  <2>1. file' \in [Hashes -> Chunks \cup {None}] /\ \A g \in Hashes \ {h} : file'[g] = file[g]
    BY <1>1, <1>3 DEF IInv, TypeOK
  <2>2. /\ blob' = blob /\ live' = live /\ lock' = lock /\ stamped' = stamped
        /\ NeverUndercounted' /\ Exclusive' /\ \A k : Whole(k)' <=> Whole(k)
    BY <1>2, CountsKept
  <2>3. ASSUME NEW b \in Blobs, ReadableIn(file, b), \A e \in Refs(b) : e.hash # h
        PROVE  ReadableIn(file', b)
    <3>1. \A e \in Refs(b) : file'[e.hash] = file[e.hash]
      BY <2>1, <2>3, RefsRead
    <3> QED BY <2>3, <3>1, NeedsRefs
  <2>4. TypeOK'
    BY <1>2, <1>4, <1>5, <2>1, <2>2 DEF IInv, TypeOK
  <2>5. Stored'
    <3>1. ASSUME NEW k \in Keys, blob[k] # None, Whole(k) PROVE ReadableIn(file', blob[k])
      <4>1. blob[k] \in Blobs /\ ReadableIn(file, blob[k])
        BY <3>1 DEF IInv, Stored, TypeOK
      <4>2. \A e \in Refs(blob[k]) : e.hash # h
        BY <1>8, <3>1, Removable
      <4> QED BY <2>3, <4>1, <4>2
    <3> QED BY <2>2, <3>1 DEF IInv, Stored
  <2>6. Carried'
    <3>1. ASSUME NEW r \in Reqs PROVE Fine(req[r], blob, live, fresh, file')
      <4>1. Fine(req[r], blob, live, fresh, file) /\ req[r].staged \in Blobs /\ req[r].backup \in Blobs \cup {None}
        BY DEF IInv, Carried, TypeOK, States
      <4>2. req[r].pc \in {"encode", "count", "lock", "swap"} => ReadableIn(file', req[r].staged)
        <5>1. SUFFICES ASSUME req[r].pc \in {"encode", "count", "lock", "swap"}
                       PROVE  ReadableIn(file', req[r].staged)
          OBVIOUS
        <5>2. ReadableIn(file, req[r].staged)
          BY <4>1, <5>1 DEF Fine
        <5>3. \A e \in Refs(req[r].staged) : e.hash # h
          BY <1>8, <5>1, Removable
        <5> QED BY <2>3, <4>1, <5>2, <5>3
      <4>3. req[r].pc = "commit" /\ req[r].backup # None => ReadableIn(file', req[r].backup)
        <5>1. SUFFICES ASSUME req[r].pc = "commit", req[r].backup # None
                       PROVE  ReadableIn(file', req[r].backup)
          OBVIOUS
        <5>2. ReadableIn(file, req[r].backup) /\ req[r].backup \in Blobs
          BY <4>1, <5>1 DEF Fine
        <5>3. \A e \in Refs(req[r].backup) : e.hash # h
          BY <1>8, <5>1, Removable
        <5> QED BY <2>3, <5>2, <5>3
      <4> QED BY <4>1, <4>2, <4>3 DEF Fine
    <3> QED BY <1>2, <1>4, <2>2, <3>1 DEF Carried
  <2> QED BY <1>6, <2>2, <2>4, <2>5, <2>6 DEF IInv
<1> QED BY <1>7, <1>8

LEMMA AgeStep ==
  ASSUME IInv, Age
  PROVE  IInv'
<1>1. /\ fresh' = {} /\ file' = file /\ refcount' = refcount /\ req' = req /\ objects' = objects /\ gc' = gc
      /\ \A r \in Reqs : ~ Uncounted(req[r])
  BY DEF Age
<1>2. /\ blob' = blob /\ live' = live /\ lock' = lock /\ stamped' = stamped
      /\ NeverUndercounted' /\ Exclusive' /\ \A k : Whole(k)' <=> Whole(k)
  BY <1>1, CountsKept
<1>3. TypeOK'
  BY <1>1, <1>2 DEF IInv, TypeOK
<1>4. Carried'
  <2>1. ASSUME NEW r \in Reqs PROVE Fine(req[r], blob, live, {}, file)
    <3>1. Fine(req[r], blob, live, fresh, file) /\ ~ Uncounted(req[r])
      BY <1>1 DEF IInv, Carried
    <3> QED BY <3>1 DEF Fine
  <2> QED BY <1>1, <1>2, <2>1 DEF Carried
<1>5. Stored'
  BY <1>1, <1>2 DEF IInv, Stored
<1>6. Collecting'
  BY <1>1 DEF IInv, Collecting
<1> QED BY <1>2, <1>3, <1>4, <1>5, <1>6 DEF IInv

-----------------------------------------------------------------------------
(* Crashes.                                                                *)

(* What a crash makes of the blob of a key: the entries it refers to then  *)
(* are those of the handler that had the key, or those it had before.      *)
Taken(k) ==
    \E r \in Reqs :
        req[r].key = k /\ (req[r].pc = "drop" \/ (req[r].pc = "commit" /\ req[r].backup # None))

LEMMA AtCrash ==
  ASSUME Orderly, IInv, Crash, NEW k \in Keys
  PROVE  /\ blob'[k] \in Blobs \cup {None}
         /\ blob'[k] # None => ReadableIn(file, blob'[k])
         /\ k \in live => blob'[k] # None
         /\ Taken(k) => lock[k] \in Reqs /\ req[lock[k]].key = k /\ Refs(blob'[k]) = Held(req[lock[k]])
         /\ ~ Taken(k) => Refs(blob'[k]) = Owned(k)
<1>1. ~ MidDrop
  BY DEF Crash, Orderly
<1>2. Whole(k)
  BY <1>1 DEF MidDrop, Whole
<1>3. blob[k] \in Blobs \cup {None} /\ (blob[k] # None => ReadableIn(file, blob[k])) /\ (k \in live => blob[k] # None)
  BY <1>2 DEF IInv, TypeOK, Stored
<1>4. blob'[k] = IF \E r \in Reqs : req[r].pc = "commit" /\ req[r].key = k /\ req[r].backup # None
                 THEN LET r == CHOOSE r \in Reqs : req[r].pc = "commit" /\ req[r].key = k
                      IN  req[r].backup
                 ELSE blob[k]
  BY DEF Crash
<1>5. \A r \in Reqs : req[r].pc \in {"commit", "drop"} /\ req[r].key = k => lock[k] = r
  BY DEF IInv, Exclusive, Holding
<1>6. CASE \E r \in Reqs : req[r].pc = "commit" /\ req[r].key = k /\ req[r].backup # None
  <2>1. PICK r \in Reqs : req[r].pc = "commit" /\ req[r].key = k /\ req[r].backup # None
    BY <1>6
  <2>2. lock[k] = r
    BY <1>5, <2>1
  <2>3. PICK c : c = CHOOSE x \in Reqs : req[x].pc = "commit" /\ req[x].key = k
    OBVIOUS
  <2>4. c \in Reqs /\ req[c].pc = "commit" /\ req[c].key = k
    BY <2>1, <2>3
  <2>5. c = r
    BY <1>5, <2>2, <2>4
  <2>6. blob'[k] = req[r].backup
    BY <1>4, <1>6, <2>3, <2>5
  <2>7. Fine(req[r], blob, live, fresh, file) /\ req[r] \in States
    BY DEF IInv, Carried, TypeOK
  <2>8. blob'[k] \in Blobs /\ ReadableIn(file, blob'[k]) /\ blob'[k] # None
    BY <2>1, <2>6, <2>7 DEF Fine, States
  <2>9. Refs(blob'[k]) = Held(req[r])
    BY <2>1, <2>6, HeldAs
  <2>10. Taken(k)
    BY <2>1 DEF Taken
  <2> QED BY <2>1, <2>2, <2>8, <2>9, <2>10
<1>7. CASE ~ \E r \in Reqs : req[r].pc = "commit" /\ req[r].key = k /\ req[r].backup # None
  <2>1. blob'[k] = blob[k]
    BY <1>4, <1>7
  <2>2. CASE \E r \in Reqs : req[r].pc = "drop" /\ req[r].key = k
    <3>1. PICK r \in Reqs : req[r].pc = "drop" /\ req[r].key = k
      BY <2>2
    <3>2. lock[k] = r /\ Taken(k)
      BY <1>5, <3>1 DEF Taken
    <3>3. Held(req[r]) = Refs(blob[k])
      BY <1>2, <3>1, HeldAs DEF Whole
    <3> QED BY <1>3, <2>1, <3>1, <3>2, <3>3
  <2>3. CASE ~ \E r \in Reqs : req[r].pc = "drop" /\ req[r].key = k
    <3>1. Owned(k) = Refs(blob[k]) /\ ~ Taken(k)
      BY <1>7, <2>3 DEF Owned, Taken
    <3> QED BY <1>3, <2>1, <3>1
  <2> QED BY <2>2, <2>3
<1> QED BY <1>6, <1>7

(* The references of the blobs after a crash were all counted before it.   *)
LEMMA CrashCounts ==
  ASSUME Orderly, IInv, Crash, TypeOK', Carried'
  PROVE  NeverUndercounted'
<1> SUFFICES ASSUME NEW h \in Hashes
             PROVE  refcount'[h] >= SumOver(OwnedRefs(h)', Keys) + SumOver(HeldRefs(h)', Reqs)
  BY DEF NeverUndercounted
<1> DEFINE K == {k \in Keys : Taken(k)}
           O == OwnedRefs(h)
           P == OwnedRefs(h)'
           H == HeldRefs(h)
           Q == HeldRefs(h)'
<1>1. O \in [Keys -> Nat] /\ H \in [Reqs -> Nat] /\ P \in [Keys -> Nat] /\ Q \in [Reqs -> Nat]
  BY CountFunctions, CountFunctionsNext DEF IInv
<1>2. IsFiniteSet(Keys) /\ IsFiniteSet(Reqs) /\ K \in SUBSET Keys
  BY BlockConstants
<1>3. IsFiniteSet(K) /\ IsFiniteSet(Keys \ K)
  BY <1>2, FS_Subset, FS_Difference
<1>4. \A r \in Reqs : req'[r] = Idle
  BY DEF Crash
<1>5. \A k \in Keys : P[k] = Occurrences(Refs(blob'[k]), h)
  <2>1. \A k \in Keys : Owned(k)' = Refs(blob'[k])
    BY <1>4, IdleFacts DEF Owned
  <2> QED BY <2>1 DEF OwnedRefs
<1>6. SumOver(Q, Reqs) = 0
  <2>1. \A r \in Reqs : Q[r] = 0
    <3>1. Occurrences({}, h) = 0
      <4>1. {e \in {} : e.hash = h} = {}
        OBVIOUS
      <4> QED BY <4>1, FS_EmptySet DEF Occurrences
    <3> QED BY <1>4, <3>1, IdleFacts DEF HeldRefs
  <2>2. Units(Q, Reqs) = {}
    BY <2>1 DEF Units
  <2> QED BY <2>2, FS_EmptySet DEF SumOver
<1>7. SumOver(P, K) <= SumOver(H, Reqs)
  <2> DEFINE f == [k \in K |-> P[k]]
             m == [k \in K |-> lock[k]]
  <2>1. ASSUME NEW k \in K PROVE m[k] \in Reqs /\ req[m[k]].key = k /\ f[k] = H[m[k]]
    <3>1. lock[k] \in Reqs /\ req[lock[k]].key = k /\ Refs(blob'[k]) = Held(req[lock[k]])
      BY AtCrash
    <3> QED BY <1>5, <3>1 DEF HeldRefs
  <2>2. f \in [K -> Nat] /\ m \in [K -> Reqs]
    BY <1>1, <2>1
  <2>3. \A x, y \in K : m[x] = m[y] => x = y
    <3>1. \A x \in K : req[m[x]].key = x
      BY <2>1
    <3> HIDE DEF m
    <3> QED BY <3>1
  <2>4. \A x \in K : f[x] <= H[m[x]]
    <3>1. \A x \in K : f[x] = H[m[x]] /\ f[x] \in Nat
      BY <2>1, <2>2
    <3> HIDE DEF f, m, H
    <3> QED BY <3>1
  <2>5. SumOver(f, K) <= SumOver(H, Reqs)
    <3> HIDE DEF f, m, H, K
    <3> QED BY <1>1, <1>2, <2>2, <2>3, <2>4, SumInject
  <2>6. \A x \in K : f[x] = P[x]
    OBVIOUS
  <2>7. SumOver(f, K) = SumOver(P, K)
    <3> HIDE DEF f, P, K
    <3> QED BY <2>6, SumAgree
  <2> QED BY <2>5, <2>7
<1>8. SumOver(P, Keys \ K) <= SumOver(O, Keys)
  <2>1. \A k \in Keys \ K : P[k] = O[k]
    <3>1. \A k \in Keys \ K : Refs(blob'[k]) = Owned(k)
      BY AtCrash
    <3> QED BY <1>5, <3>1 DEF OwnedRefs
  <2> HIDE DEF P, O, K
  <2>2. SumOver(P, Keys \ K) = SumOver(O, Keys \ K)
    BY <2>1, SumAgree
  <2>3. SumOver(O, Keys \ K) <= SumOver(O, Keys)
    BY <1>1, <1>2, SumSubset
  <2> QED BY <2>2, <2>3
<1>9. refcount'[h] = refcount[h] /\ refcount[h] \in Nat /\ refcount[h] >= SumOver(O, Keys) + SumOver(H, Reqs)
  BY DEF Crash, blocks, IInv, TypeOK, NeverUndercounted
<1> HIDE DEF O, P, H, Q, K
<1>10. SumOver(P, Keys) = SumOver(P, K) + SumOver(P, Keys \ K)
  BY <1>1, <1>2, SumSplit
<1>11. /\ SumOver(O, Keys) \in Nat /\ SumOver(H, Reqs) \in Nat
       /\ SumOver(P, K) \in Nat /\ SumOver(P, Keys \ K) \in Nat
  BY <1>1, <1>2, <1>3, SumType
<1>12. refcount[h] >= SumOver(P, Keys) + SumOver(Q, Reqs)
  BY <1>6, <1>7, <1>8, <1>9, <1>10, <1>11
<1> QED BY <1>9, <1>12 DEF P, Q

LEMMA CrashStep ==
  ASSUME Orderly, IInv, Crash
  PROVE  IInv'
<1>1. /\ req' = [r \in Reqs |-> Idle] /\ lock' = [k \in Keys |-> None] /\ stamped' = [k \in Keys |-> {}]
      /\ gc' = NoRun /\ live' = live /\ file' = file /\ fresh' = fresh /\ refcount' = refcount
      /\ DOMAIN blob' = Keys /\ blob' = [k \in Keys |-> blob'[k]]
  BY DEF Crash, blocks
<1>2. \A k \in Keys : blob'[k] \in Blobs \cup {None}
  BY AtCrash
<1>3. blob' \in [Keys -> Blobs \cup {None}]
  BY <1>1, <1>2
<1>4. TypeOK'
  BY <1>1, <1>3, IdleFacts, NoRunFacts DEF IInv, TypeOK
<1>5. Carried' /\ Exclusive'
  BY <1>1, IdleFacts DEF Carried, Exclusive
<1>6. Stored'
  <2>1. \A k \in Keys : blob'[k] # None => ReadableIn(file', blob'[k])
    BY <1>1, AtCrash
  <2>2. \A k \in live' : blob'[k] # None
    BY <1>1, AtCrash DEF IInv, TypeOK
  <2> QED BY <2>1, <2>2 DEF Stored
<1>7. Collecting'
  BY <1>1, NoRunFacts DEF Collecting
<1>8. NeverUndercounted'
  BY <1>4, <1>5, CrashCounts
<1> QED BY <1>4, <1>5, <1>6, <1>7, <1>8 DEF IInv

-----------------------------------------------------------------------------
(* The specification.                                                      *)

LEMMA InitInv == Init => IInv
<1> SUFFICES ASSUME Init PROVE IInv
  OBVIOUS
<1>1. TypeOK
  BY IdleFacts, NoRunFacts DEF Init, TypeOK
<1>2. Carried /\ Exclusive
  BY IdleFacts DEF Init, Carried, Exclusive
<1>3. Stored
  BY DEF Init, Stored
<1>4. Collecting
  BY NoRunFacts DEF Init, Collecting
<1>5. NeverUndercounted
  <2> SUFFICES ASSUME NEW h \in Hashes
               PROVE  refcount[h] >= SumOver(OwnedRefs(h), Keys) + SumOver(HeldRefs(h), Reqs)
    BY DEF NeverUndercounted
  <2>1. Occurrences({}, h) = 0
    <3>1. {e \in {} : e.hash = h} = {}
      OBVIOUS
    <3> QED BY <3>1, FS_EmptySet DEF Occurrences
  <2>2. \A k \in Keys : Owned(k) = {}
    BY DEF Init, Owned, Refs
  <2>3. \A r \in Reqs : Held(req[r]) = {}
    BY IdleFacts DEF Init
  <2>4. \A k \in Keys : OwnedRefs(h)[k] = 0
    BY <2>1, <2>2 DEF OwnedRefs
  <2>5. \A r \in Reqs : HeldRefs(h)[r] = 0
    BY <2>1, <2>3 DEF HeldRefs
  <2>6. Units(OwnedRefs(h), Keys) = {} /\ Units(HeldRefs(h), Reqs) = {}
    BY <2>4, <2>5 DEF Units
  <2>7. SumOver(OwnedRefs(h), Keys) = 0 /\ SumOver(HeldRefs(h), Reqs) = 0
    BY <2>6, FS_EmptySet DEF SumOver
  <2>8. refcount[h] = 0
    BY DEF Init
  <2> QED BY <2>7, <2>8
<1> QED BY <1>1, <1>2, <1>3, <1>4, <1>5 DEF IInv

LEMMA NextInv ==
  ASSUME Orderly, IInv, [Next]_vars
  PROVE  IInv'
<1>1. ASSUME NEW r \in Reqs, Arrive(r) PROVE IInv'
  BY <1>1, PutBeginStep, CopyBeginStep, DeleteBeginStep, RecompressBeginStep DEF Arrive
<1>2. ASSUME NEW r \in Reqs, Proceed(r) PROVE IInv'
  BY <1>2, StoreBlockStep, EncodedStep, CountStep, CountedStep, PutLockedStep, CopyLockedStep,
     RecompressLockedStep, DeleteLockedStep, OrphanLockedStep, RenameStep, RenameRecompressedStep,
     SwapRefusedStep, CommitStep, ReleaseStep, ReleasedStep, DropStep, RemoveStep DEF Proceed
<1>3. ASSUME NEW r \in Reqs, Fail(r) PROVE IInv'
  BY <1>3, StoreFailStep, CountFailStep, CommitFailStep, DropFailStep DEF Fail
<1>4. CASE CollectBlocks
  BY <1>4, GCSelectStep, GCVisitStep, GCDeleteRowStep DEF CollectBlocks
<1>5. CASE GCVisitFail
  BY <1>5, GCVisitFailStep
<1>6. CASE Age
  BY <1>6, AgeStep
<1>7. CASE Crash
  BY <1>7, CrashStep
<1>8. CASE UNCHANGED vars
  <2>1. /\ file' = file /\ fresh' = fresh /\ refcount' = refcount /\ req' = req /\ gc' = gc
        /\ objects' = objects
    BY <1>8 DEF vars, blocks, objects
  <2>2. gc' \in [todo : SUBSET Hashes, cold : SUBSET Hashes, row : Hashes \cup {None}]
    BY <2>1 DEF IInv, TypeOK
  <2>3. Collecting'
    BY <2>1 DEF IInv, Collecting
  <2> QED BY <2>1, <2>2, <2>3, CollectorStep
<1> QED BY <1>1, <1>2, <1>3, <1>4, <1>5, <1>6, <1>7, <1>8 DEF Next

(* Type correctness, mutual exclusion on keys, readability and reference   *)
(* counts hold together in every reachable state of the block store.       *)
THEOREM BlocksInductive ==
  ASSUME Orderly
  PROVE  Spec => []IInv
<1>1. Init => IInv
  BY InitInv
<1>2. IInv /\ [Next]_vars => IInv'
  BY NextInv
<1> QED BY <1>1, <1>2, PTL DEF Spec

(* No block is ever counted below the references to it: inc_refs before a  *)
(* blob can be reached and dec_refs after it no longer can suffice, with   *)
(* any number of handlers, failures and crashes.                           *)
THEOREM CountsHold ==
  ASSUME Orderly
  PROVE  Spec => []NeverUndercounted
<1>1. IInv => NeverUndercounted
  BY DEF IInv
<1> QED BY <1>1, BlocksInductive, PTL

(* The collector of released blocks never takes a block that a listed      *)
(* object, or an upload on its way in, needs: the grace period protects    *)
(* what is stored and not yet counted, the counts everything else.         *)
THEOREM BlocksStayReadable ==
  ASSUME Orderly
  PROVE  Spec => []BlocksReadable
<1>1. ASSUME IInv PROVE BlocksReadable
  <2>1. \A b : Readable(b) <=> ReadableIn(file, b)
    BY DEF Readable, ReadLogicalBlock, ReadableIn
  <2>2. ASSUME NEW k \in live PROVE blob[k] # None /\ ReadableIn(file, blob[k])
    <3>1. k \in Keys /\ blob[k] # None
      BY <1>1 DEF IInv, TypeOK, Stored
    <3>2. Whole(k)
      BY <1>1 DEF IInv, Carried, Fine, Whole
    <3> QED BY <1>1, <3>1, <3>2 DEF IInv, Stored
  <2>3. ASSUME NEW r \in Reqs, req[r].pc \in {"encode", "count", "lock", "swap"}
        PROVE  ReadableIn(file, req[r].staged)
    BY <1>1, <2>3 DEF IInv, Carried, Fine
  <2> QED BY <2>1, <2>2, <2>3 DEF BlocksReadable
<1>2. IInv => BlocksReadable
  BY <1>1
<1> QED BY <1>2, BlocksInductive, PTL
=============================================================================
