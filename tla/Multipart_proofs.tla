-------------------------- MODULE Multipart_proofs --------------------------
(***************************************************************************)
(* Proofs about multipart uploads, for any number of parts, handlers,      *)
(* contents and requests: re-uploading parts never separates a recorded    *)
(* etag from its part file, and a completed object is what was listed.     *)
(***************************************************************************)
EXTENDS Multipart, TLAPS, FiniteSetTheorems, WellFoundedInduction, SequenceTheorems

PCs == {"idle", "receive", "record", "select", "assemble", "cleanparts", "cleansession", "cleandir"}
Chosen == [part : Parts, etag : Contents]

Handlers ==
    [pc : PCs, part : Parts \cup {None}, body : Contents \cup {None}, list : Lists,
     chosen : Seq(Chosen), read : Seq(Contents)]

TypeOK ==
    /\ session \in {"none", "open", "stale", "gone"}
    /\ recorded \in [Parts -> Contents \cup {None}]
    /\ dir \in BOOLEAN
    /\ file \in [Parts -> Contents \cup {None}]
    /\ req \in [Procs -> Handlers]
    /\ raced \subseteq Parts

(* Between the rename of a part and its record: the part file holds the    *)
(* handler's body, and no other handler is there for the same part.        *)
Recording ==
    /\ \A p \in Procs : req[p].pc \in {"receive", "record"} => req[p].part \in Parts /\ req[p].body \in Contents
    /\ session # "gone" =>
        \A p \in Procs :
            req[p].pc = "record" /\ req[p].part \notin raced =>
                /\ file[req[p].part] = req[p].body
                /\ \A q \in Procs : req[q].pc = "record" /\ req[q].part = req[p].part => q = p

(* Files only go away with their session's row.                            *)
DirLast == \A p \in Procs : req[p].pc = "cleandir" => session = "gone"

(* What has been read so far is a prefix of what was chosen, and what was  *)
(* chosen is what the client listed.                                       *)
Prefix(q) ==
    /\ Len(q.read) <= Len(q.chosen)
    /\ \A i \in 1..Len(q.read) : q.read[i] = q.chosen[i].etag
ChosenAsListed(q) ==
    q.list # None =>
        /\ DOMAIN q.list = 1..Len(q.chosen)
        /\ \A i \in 1..Len(q.chosen) : q.list[i].etag \in {Any, q.chosen[i].etag}
Assembling ==
    /\ \A p \in Procs : req[p].pc = "select" => req[p].read = <<>>
    /\ \A p \in Procs : req[p].pc = "assemble" => Prefix(req[p]) /\ ChosenAsListed(req[p])

IInv == TypeOK /\ Recording /\ DirLast /\ PartsMatchRecords /\ Assembling

USE DEF PCs, state
-----------------------------------------------------------------------------

LEMMA IdleTyped == Idle \in Handlers
<1>1. <<>> \in Seq(Chosen) /\ <<>> \in Seq(Contents)
  OBVIOUS
<1>2. None \in Lists
  BY DEF Lists
<1> QED
  BY <1>1, <1>2 DEF Idle, Handlers

LEMMA LeastNat ==
  ASSUME NEW T, T \subseteq Nat, T # {}
  PROVE  \E x \in T : \A y \in T : x <= y
<1> DEFINE R == OpToRel(<, Nat)
<1>1. IsWellFoundedOn(R, Nat)
  BY NatLessThanWellFounded
<1>2. \A a, b \in Nat : a < b => <<a, b>> \in R
  BY DEF OpToRel
<1> HIDE DEF R
<1>3. PICK x \in T : \A y \in T : ~ (<<y, x>> \in R)
  BY <1>1, WFMin
<1>4. \A y \in T : ~ (y < x)
  BY <1>2, <1>3
<1> QED BY <1>4

(* A finite set of numbers has an element of every rank: one for each      *)
(* number of smaller elements below its cardinality.                       *)
LEMMA Ranked ==
  ASSUME NEW S, S \subseteq Nat, IsFiniteSet(S), NEW r \in Nat, r < Cardinality(S)
  PROVE  \E n \in S : Cardinality({m \in S : m < n}) = r
<1> DEFINE Below(n) == {m \in S : m < n}
           Bad == {x \in Nat : x < Cardinality(S) /\ ~ \E n \in S : Cardinality(Below(n)) = x}
<1>0. Cardinality(S) \in Nat /\ S # {}
  BY FS_CardinalityType, FS_EmptySet
<1> SUFFICES ASSUME Bad # {} PROVE FALSE
  OBVIOUS
<1>n. \A m \in S : m \in Nat
  OBVIOUS
<1>1. PICK x \in Bad : \A y \in Bad : x <= y
  <2> Bad \subseteq Nat OBVIOUS
  <2> HIDE DEF Bad
  <2> QED BY LeastNat
<1>a. x \in Nat /\ x < Cardinality(S) /\ \A n \in S : Cardinality(Below(n)) # x
  BY <1>1
<1>b. ASSUME NEW y \in Nat, y < x PROVE \E n \in S : Cardinality(Below(n)) = y
  <2>1. y \notin Bad
    <3> HIDE DEF Bad
    <3> QED BY <1>1, <1>a, <1>b
  <2>2. y < Cardinality(S)
    BY <1>0, <1>a, <1>b
  <2> QED BY <2>1, <2>2
<1> HIDE DEF Bad
<1>2. CASE x = 0
  <2>1. PICK n \in S : \A m \in S : n <= m
    BY <1>0, LeastNat
  <2>2. Below(n) = {}
    <3>1. ASSUME NEW m \in S, m < n PROVE FALSE
      BY <1>n, <2>1, <3>1
    <3> QED BY <3>1
  <2>3. Cardinality(Below(n)) = 0
    BY <2>2, FS_EmptySet
  <2> QED BY <1>a, <1>2, <2>3
<1>3. CASE x # 0
  <2>1. x - 1 \in Nat /\ x - 1 < x
    BY <1>a, <1>3
  <2>2. PICK n \in S : Cardinality(Below(n)) = x - 1
    BY <1>b, <2>1
  <2>3. IsFiniteSet(Below(n)) /\ n \notin Below(n)
    <3>1. Below(n) \subseteq S
      OBVIOUS
    <3>2. n \notin Below(n)
      BY <1>n
    <3> QED BY <3>1, <3>2, FS_Subset
  <2>4. Cardinality(Below(n) \cup {n}) = x
    <3> HIDE DEF Below
    <3>1. Cardinality(Below(n) \cup {n}) = Cardinality(Below(n)) + 1
      BY <2>3, FS_AddElement
    <3> QED BY <1>a, <2>2, <3>1
  <2>5. {m \in S : m > n} # {}
    <3> SUFFICES ASSUME {m \in S : m > n} = {} PROVE FALSE
      OBVIOUS
    <3>1. ASSUME NEW m \in S PROVE m \in Below(n) \cup {n}
      BY <1>n
    <3>2. S = Below(n) \cup {n}
      BY <3>1
    <3>3. Cardinality(S) = x
      <4> HIDE DEF Below
      <4> QED BY <2>4, <3>2
    <3> QED BY <1>0, <1>a, <3>3
  <2>6. PICK k \in {m \in S : m > n} : \A m \in {l \in S : l > n} : k <= m
    BY <2>5, LeastNat
  <2>7. Below(k) = Below(n) \cup {n}
    <3>1. ASSUME NEW m \in S PROVE m < k <=> (m < n \/ m = n)
      <4>1. m \in Nat /\ k \in Nat /\ n \in Nat /\ k > n
        BY <1>n, <2>6
      <4>2. m > n => k <= m
        BY <2>6
      <4> QED BY <4>1, <4>2
    <3> QED BY <3>1
  <2>8. Cardinality(Below(k)) = x
    <3> HIDE DEF Below
    <3> QED BY <2>4, <2>7
  <2> QED BY <1>a, <2>6, <2>8
<1> QED BY <1>2, <1>3

(* list_multipart_parts: a list of part numbers, each with its recorded    *)
(* etag.                                                                   *)
LEMMA RecordedPartsTyped ==
  ASSUME TypeOK
  PROVE  RecordedParts \in Seq(Chosen)
<1> DEFINE have == {n \in Parts : recorded[n] # None}
           nth(i) == CHOOSE n \in have : Cardinality({m \in have : m < n}) = i - 1
<1>1. IsFiniteSet(have) /\ have \subseteq Nat
  <2>1. Cardinality(Parts) \in Nat
    BY MultipartConstants, FS_CardinalityType
  <2> QED BY <2>1, MultipartConstants, FS_Subset
<1>2. Cardinality(have) \in Nat
  BY <1>1, FS_CardinalityType
<1>3. ASSUME NEW i \in 1..Cardinality(have) PROVE nth(i) \in have
  <2>1. i - 1 \in Nat /\ i - 1 < Cardinality(have)
    BY <1>2
  <2>2. \E n \in have : Cardinality({m \in have : m < n}) = i - 1
    <3> HIDE DEF have
    <3> QED BY <1>1, <2>1, Ranked
  <2> QED BY <2>2
<1>4. \A i \in 1..Cardinality(have) : nth(i) \in Parts /\ recorded[nth(i)] \in Contents
  BY <1>3 DEF TypeOK
<1> DEFINE rows == [i \in 1..Cardinality(have) |-> [part |-> nth(i), etag |-> recorded[nth(i)]]]
<1>5. RecordedParts = rows
  BY DEF RecordedParts
<1>6. \A i \in 1..Cardinality(have) : [part |-> nth(i), etag |-> recorded[nth(i)]] \in Chosen
  BY <1>4 DEF Chosen
<1> HIDE DEF have, nth
<1>7. rows \in Seq(Chosen)
  BY <1>2, <1>6, IsASeq
<1> QED BY <1>5, <1>7

(* What complete_multipart chooses is what the client listed.              *)
LEMMA SelectTyped ==
  ASSUME TypeOK, NEW list \in Lists, Selectable(list)
  PROVE  /\ Select(list) \in Seq(Chosen)
         /\ list # None =>
              /\ DOMAIN list = 1..Len(Select(list))
              /\ \A i \in 1..Len(Select(list)) : list[i].etag \in {Any, Select(list)[i].etag}
<1>1. CASE list = None
  BY <1>1, RecordedPartsTyped DEF Select
<1>2. CASE list # None
  <2>1. PICK n \in 0..Cardinality(Parts) : list \in [1..n -> Listed]
    BY <1>2 DEF Lists
  <2>2. n \in Nat
    BY MultipartConstants, FS_CardinalityType
  <2> DEFINE s == [i \in 1..n |-> [part |-> list[i].part, etag |-> recorded[list[i].part]]]
  <2>3. Select(list) = s
    BY <1>2, <2>1 DEF Select
  <2>4. ASSUME NEW i \in 1..n
        PROVE  /\ [part |-> list[i].part, etag |-> recorded[list[i].part]] \in Chosen
               /\ list[i].etag \in {Any, recorded[list[i].part]}
    <3>1. list[i] \in Listed
      BY <2>1
    <3>2. recorded[list[i].part] # None /\ list[i].etag \in {Any, recorded[list[i].part]}
      BY <1>2, <2>1 DEF Selectable
    <3>3. list[i].part \in Parts
      BY <3>1 DEF Listed
    <3>4. recorded[list[i].part] \in Contents
      BY <3>2, <3>3 DEF TypeOK
    <3> QED BY <3>2, <3>3, <3>4 DEF Chosen
  <2>5. s \in Seq(Chosen) /\ Len(s) = n
    BY <2>2, <2>4, IsASeq
  <2>6. \A i \in 1..n : s[i].etag = recorded[list[i].part]
    OBVIOUS
  <2> HIDE DEF s
  <2> QED BY <2>1, <2>3, <2>4, <2>5, <2>6
<1> QED BY <1>1, <1>2

-----------------------------------------------------------------------------
(* Another handler's step leaves what this one assembles alone.            *)
LEMMA AssemblyKept ==
  ASSUME Assembling, NEW p \in Procs, \A q \in Procs : q # p => req'[q] = req[q],
         req'[p].pc = "select" => req'[p].read = <<>>,
         req'[p].pc = "assemble" => Prefix(req'[p]) /\ ChosenAsListed(req'[p])
  PROVE  Assembling'
<1>1. ASSUME NEW q \in Procs
      PROVE  /\ req'[q].pc = "select" => req'[q].read = <<>>
             /\ req'[q].pc = "assemble" => Prefix(req'[q]) /\ ChosenAsListed(req'[q])
  <2>1. CASE q = p
    BY <2>1
  <2>2. CASE q # p
    BY <2>2 DEF Assembling
  <2> QED BY <2>1, <2>2
<1> QED BY <1>1 DEF Assembling

(* A step that moves one handler, neither to nor from the record of a      *)
(* part, and leaves rows and files alone.                                  *)
LEMMA ReqOnly ==
  ASSUME IInv, NEW p \in Procs, NEW new \in Handlers, Set(p, new),
         UNCHANGED <<session, recorded, dir, file, raced>>,
         req[p].pc # "record", new.pc \notin {"record", "cleandir"},
         new.pc = "receive" => new.part \in Parts /\ new.body \in Contents,
         new.pc = "select" => new.read = <<>>,
         new.pc = "assemble" => Prefix(new) /\ ChosenAsListed(new)
  PROVE  IInv'
<1>1. req \in [Procs -> Handlers]
  BY DEF IInv, TypeOK
<1>2. req' \in [Procs -> Handlers]
  BY <1>1 DEF Set
<1>3. req'[p] = new /\ \A q \in Procs : q # p => req'[q] = req[q]
  BY <1>1 DEF Set
<1>4. \A q \in Procs : req'[q].pc = "record" => q # p /\ req'[q] = req[q]
  BY <1>3
<1>5. \A q \in Procs : req[q].pc = "record" => q # p /\ req'[q] = req[q]
  BY <1>3
<1>6. TypeOK'
  BY <1>2 DEF IInv, TypeOK
<1>7. Recording'
  BY <1>3, <1>4, <1>5 DEF IInv, Recording
<1>8. DirLast'
  BY <1>3 DEF IInv, DirLast
<1>9. PartsMatchRecords'
  BY <1>5 DEF IInv, PartsMatchRecords
<1>10. Assembling'
  BY <1>3, AssemblyKept DEF IInv
<1> QED BY <1>6, <1>7, <1>8, <1>9, <1>10 DEF IInv

LEMMA HandlerTyped ==
  ASSUME TypeOK, NEW p \in Procs
  PROVE  req[p] \in Handlers
BY DEF TypeOK

LEMMA ListTyped ==
  ASSUME NEW list \in Lists
  PROVE  [Idle EXCEPT !.pc = "select", !.list = list] \in Handlers
BY IdleTyped DEF Handlers

(* upload_part *)
LEMMA PartBeginInv == ASSUME IInv, NEW p \in Procs, PartBegin(p) PROVE IInv'
<1>1. PICK n \in Parts, c \in Contents : Begin(p, [Idle EXCEPT !.pc = "receive", !.part = n, !.body = c])
  BY DEF PartBegin
<1> DEFINE new == [Idle EXCEPT !.pc = "receive", !.part = n, !.body = c]
<1>2. new \in Handlers /\ new.pc = "receive" /\ new.part = n /\ new.body = c
  BY IdleTyped DEF Handlers, Idle
<1>3. Set(p, new) /\ UNCHANGED <<session, recorded, dir, file, raced>> /\ req[p].pc = "idle"
  BY <1>1 DEF Begin
<1> HIDE DEF new
<1> QED BY <1>2, <1>3, ReqOnly

LEMMA PartFailInv == ASSUME IInv, NEW p \in Procs, PartFail(p) PROVE IInv'
<1>1. Idle.pc = "idle"
  BY DEF Idle
<1> QED BY <1>1, IdleTyped, ReqOnly DEF PartFail

LEMMA PartReceivedInv == ASSUME IInv, NEW p \in Procs, PartReceived(p) PROVE IInv'
<1> DEFINE n == req[p].part
           new == [req[p] EXCEPT !.pc = "record"]
<1>1. req \in [Procs -> Handlers] /\ req[p] \in Handlers
  BY DEF IInv, TypeOK
<1>2. n \in Parts /\ req[p].body \in Contents /\ req[p].pc = "receive"
  BY DEF IInv, Recording, PartReceived
<1>3. new \in Handlers /\ new.pc = "record" /\ new.part = n /\ new.body = req[p].body
  BY <1>1 DEF Handlers
<1>4. req'[p] = new /\ \A q \in Procs : q # p => req'[q] = req[q]
  BY <1>1 DEF PartReceived, Set
<1>5. file \in [Parts -> Contents \cup {None}] /\ file' = [file EXCEPT ![n] = req[p].body]
  BY DEF IInv, TypeOK, PartReceived
<1>6. file'[n] = req[p].body /\ \A m \in Parts : m # n => file'[m] = file[m]
  BY <1>2, <1>5
<1>7. raced \subseteq raced' /\ raced' \subseteq raced \cup {n}
  BY DEF PartReceived
<1>8. ASSUME NEW q \in Procs, req[q].pc = "record", req[q].part = n PROVE n \in raced'
  BY <1>8 DEF PartReceived
<1>9. TypeOK'
  <2>1. req' \in [Procs -> Handlers]
    BY <1>1, <1>3 DEF PartReceived, Set
  <2>2. file' \in [Parts -> Contents \cup {None}]
    BY <1>2, <1>5
  <2> QED BY <1>2, <1>7, <2>1, <2>2 DEF IInv, TypeOK, PartReceived
<1> HIDE DEF n, new
<1>10. Recording'
  <2>1. ASSUME NEW q \in Procs, req'[q].pc \in {"receive", "record"} PROVE req'[q].part \in Parts /\ req'[q].body \in Contents
    BY <1>2, <1>3, <1>4, <2>1 DEF IInv, Recording
  <2>2. ASSUME session' # "gone", NEW q \in Procs, req'[q].pc = "record", req'[q].part \notin raced'
        PROVE  /\ file'[req'[q].part] = req'[q].body
               /\ \A r \in Procs : req'[r].pc = "record" /\ req'[r].part = req'[q].part => r = q
    <3>1. session # "gone"
      BY <2>2 DEF PartReceived
    <3>2. CASE q = p
      <4>1. \A r \in Procs : r # p /\ req[r].pc = "record" => req[r].part # n
        BY <1>3, <1>4, <1>8, <2>2, <3>2
      <4> QED BY <1>3, <1>4, <1>6, <3>2, <4>1
    <3>3. CASE q # p
      <4>1. req[q].pc = "record" /\ req'[q] = req[q]
        BY <1>4, <2>2, <3>3
      <4>2. req[q].part # n /\ req[q].part \notin raced /\ req[q].part \in Parts
        BY <1>7, <1>8, <2>1, <2>2, <4>1
      <4>3. /\ file[req[q].part] = req[q].body
            /\ \A r \in Procs : req[r].pc = "record" /\ req[r].part = req[q].part => r = q
        BY <3>1, <4>1, <4>2 DEF IInv, Recording
      <4> QED BY <1>3, <1>4, <1>6, <4>1, <4>2, <4>3
    <3> QED BY <3>2, <3>3
  <2> QED BY <2>1, <2>2 DEF Recording
<1>11. DirLast'
  BY <1>3, <1>4 DEF IInv, DirLast, PartReceived
<1>12. PartsMatchRecords'
  <2> SUFFICES ASSUME session' # "gone", NEW m \in Parts \ raced'
               PROVE  \/ recorded'[m] \in {None, file'[m]}
                      \/ \E q \in Procs : req'[q].pc = "record" /\ req'[q].part = m
    BY DEF PartsMatchRecords
  <2>1. CASE m = n
    BY <1>3, <1>4, <2>1
  <2>2. CASE m # n
    <3>1. session # "gone" /\ m \notin raced /\ recorded' = recorded
      BY <1>7 DEF PartReceived
    <3>2. CASE recorded[m] \in {None, file[m]}
      BY <1>6, <2>2, <3>1, <3>2
    <3>3. CASE \E q \in Procs : req[q].pc = "record" /\ req[q].part = m
      BY <1>2, <1>4, <3>3
    <3> QED BY <3>1, <3>2, <3>3 DEF IInv, PartsMatchRecords
  <2> QED BY <2>1, <2>2
<1>13. Assembling'
  BY <1>3, <1>4, AssemblyKept DEF IInv
<1> QED BY <1>9, <1>10, <1>11, <1>12, <1>13 DEF IInv

LEMMA PartRecordInv == ASSUME IInv, NEW p \in Procs, PartRecord(p) PROVE IInv'
<1> DEFINE n == req[p].part
<1>1. req \in [Procs -> Handlers] /\ recorded \in [Parts -> Contents \cup {None}]
  BY DEF IInv, TypeOK
<1>2. n \in Parts /\ req[p].body \in Contents /\ req[p].pc = "record"
  BY DEF IInv, Recording, PartRecord
<1>3. req'[p] = Idle /\ \A q \in Procs : q # p => req'[q] = req[q]
  BY <1>1 DEF PartRecord, Set
<1>4. recorded'[n] = req[p].body /\ \A m \in Parts : m # n => recorded'[m] = recorded[m]
  BY <1>1, <1>2 DEF PartRecord
<1>5. Idle.pc = "idle"
  BY DEF Idle
<1>6. UNCHANGED <<session, dir, file, raced>>
  BY DEF PartRecord
<1>7. TypeOK'
  <2>1. req' \in [Procs -> Handlers]
    BY <1>1, IdleTyped DEF PartRecord, Set
  <2>2. recorded' \in [Parts -> Contents \cup {None}]
    BY <1>1, <1>2 DEF PartRecord
  <2> QED BY <1>6, <2>1, <2>2 DEF IInv, TypeOK
<1> HIDE DEF n
<1>8. Recording'
  BY <1>3, <1>5, <1>6 DEF IInv, Recording
<1>9. DirLast'
  BY <1>3, <1>5, <1>6 DEF IInv, DirLast
<1>10. PartsMatchRecords'
  <2> SUFFICES ASSUME session' # "gone", NEW m \in Parts \ raced'
               PROVE  \/ recorded'[m] \in {None, file'[m]}
                      \/ \E q \in Procs : req'[q].pc = "record" /\ req'[q].part = m
    BY DEF PartsMatchRecords
  <2>1. CASE m = n
    <3>1. file[n] = req[p].body
      BY <1>2, <1>6, <2>1 DEF IInv, Recording, n
    <3> QED BY <1>4, <1>6, <2>1, <3>1
  <2>2. CASE m # n
    <3>1. CASE recorded[m] \in {None, file[m]}
      BY <1>4, <1>6, <2>2, <3>1
    <3>2. CASE \E q \in Procs : req[q].pc = "record" /\ req[q].part = m
      BY <1>3, <2>2, <3>2 DEF n
    <3> QED BY <1>6, <3>1, <3>2 DEF IInv, PartsMatchRecords
  <2> QED BY <2>1, <2>2
<1>11. Assembling'
  BY <1>3, <1>5, AssemblyKept DEF IInv
<1> QED BY <1>7, <1>8, <1>9, <1>10, <1>11 DEF IInv

(* complete_multipart *)
LEMMA CompleteBeginInv == ASSUME IInv, NEW p \in Procs, CompleteBegin(p) PROVE IInv'
<1>1. PICK list \in Lists : Begin(p, [Idle EXCEPT !.pc = "select", !.list = list])
  BY DEF CompleteBegin
<1> DEFINE new == [Idle EXCEPT !.pc = "select", !.list = list]
<1>2. new \in Handlers /\ new.pc = "select" /\ new.read = <<>>
  BY ListTyped DEF Handlers, Idle
<1>3. Set(p, new) /\ UNCHANGED <<session, recorded, dir, file, raced>> /\ req[p].pc = "idle"
  BY <1>1 DEF Begin
<1> HIDE DEF new
<1> QED BY <1>2, <1>3, ReqOnly

LEMMA CompleteSelectInv == ASSUME IInv, NEW p \in Procs, CompleteSelect(p) PROVE IInv'
<1> DEFINE q == req[p]
<1>0. q \in Handlers /\ TypeOK
  BY DEF IInv, TypeOK
<1>1. q.pc = "select" /\ q.read = <<>> /\ q.list \in Lists /\ UNCHANGED <<session, recorded, dir, file, raced>>
  BY <1>0 DEF IInv, Assembling, CompleteSelect, Handlers
<1>2. CASE Selectable(q.list)
  <2> DEFINE new == [q EXCEPT !.pc = "assemble", !.chosen = Select(q.list)]
  <2>1. Set(p, new)
    BY <1>2 DEF CompleteSelect
  <2>2. /\ Select(q.list) \in Seq(Chosen)
        /\ q.list # None =>
              /\ DOMAIN q.list = 1..Len(Select(q.list))
              /\ \A i \in 1..Len(Select(q.list)) : q.list[i].etag \in {Any, Select(q.list)[i].etag}
    BY <1>0, <1>1, <1>2, SelectTyped
  <2>3. new \in Handlers /\ new.pc = "assemble" /\ new.read = <<>> /\ new.list = q.list /\ new.chosen = Select(q.list)
    BY <1>0, <1>1, <2>2 DEF Handlers
  <2>4. Prefix(new)
    <3>1. Len(new.read) = 0 /\ Len(new.chosen) \in Nat
      BY <2>2, <2>3
    <3> QED BY <3>1 DEF Prefix
  <2>5. ChosenAsListed(new)
    BY <2>2, <2>3 DEF ChosenAsListed
  <2> HIDE DEF new, q
  <2>6. req[p].pc # "record"
    BY <1>1 DEF q
  <2> QED BY <1>1, <2>1, <2>3, <2>4, <2>5, <2>6, ReqOnly
<1>3. CASE ~ Selectable(q.list)
  <2>1. Set(p, Idle)
    BY <1>3 DEF CompleteSelect
  <2>2. Idle.pc = "idle"
    BY DEF Idle
  <2> QED BY <1>1, <2>1, <2>2, IdleTyped, ReqOnly
<1> QED BY <1>2, <1>3

LEMMA CompleteReadInv == ASSUME IInv, NEW p \in Procs, CompleteRead(p) PROVE IInv'
<1> DEFINE q == req[p]
           next == q.chosen[Len(q.read) + 1]
<1>0. q \in Handlers /\ TypeOK
  BY DEF IInv, TypeOK
<1>1. /\ q.pc = "assemble" /\ Len(q.read) < Len(q.chosen) /\ Prefix(q) /\ ChosenAsListed(q)
      /\ UNCHANGED <<session, recorded, dir, file, raced>>
  BY DEF IInv, Assembling, CompleteRead
<1>2. q.read \in Seq(Contents) /\ q.chosen \in Seq(Chosen)
  BY <1>0 DEF Handlers
<1>3. next \in Chosen
  BY <1>1, <1>2
<1>4. CASE file[next.part] = next.etag
  <2> DEFINE new == [q EXCEPT !.read = Append(@, file[next.part])]
  <2>1. Set(p, new)
    BY <1>4 DEF CompleteRead
  <2>2. next.etag \in Contents
    BY <1>3 DEF Chosen
  <2>3. Append(q.read, next.etag) \in Seq(Contents)
    BY <1>2, <2>2
  <2>4. new \in Handlers /\ new = [q EXCEPT !.read = Append(q.read, next.etag)]
    BY <1>0, <1>4, <2>3 DEF Handlers
  <2>5. new.pc = "assemble" /\ new.list = q.list /\ new.chosen = q.chosen /\ new.read = Append(q.read, next.etag)
    BY <1>0, <1>1, <2>4 DEF Handlers
  <2>6. Prefix(new)
    <3>1. Len(new.read) = Len(q.read) + 1 /\ Len(q.read) \in Nat /\ Len(q.chosen) \in Nat
      BY <1>2, <2>2, <2>5
    <3>2. \A i \in 1..Len(q.read) : new.read[i] = q.read[i]
      BY <1>2, <2>2, <2>5
    <3>3. new.read[Len(q.read) + 1] = next.etag
      BY <1>2, <2>2, <2>5
    <3>4. \A i \in 1..Len(q.read) : q.read[i] = q.chosen[i].etag
      BY <1>1 DEF Prefix
    <3> HIDE DEF new
    <3> QED BY <1>1, <2>5, <3>1, <3>2, <3>3, <3>4 DEF Prefix
  <2>7. ChosenAsListed(new)
    <3> HIDE DEF new
    <3> QED BY <1>1, <2>5 DEF ChosenAsListed
  <2>8. req[p].pc # "record"
    BY <1>1
  <2> HIDE DEF new, q
  <2> QED BY <1>1, <2>1, <2>4, <2>5, <2>6, <2>7, <2>8, ReqOnly
<1>5. CASE file[next.part] # next.etag
  <2>1. Set(p, Idle)
    BY <1>5 DEF CompleteRead
  <2>2. Idle.pc = "idle"
    BY DEF Idle
  <2> QED BY <1>1, <2>1, <2>2, IdleTyped, ReqOnly
<1> QED BY <1>4, <1>5

LEMMA CompleteCommitInv == ASSUME IInv, NEW p \in Procs, CompleteCommit(p) PROVE IInv'
<1> DEFINE new == [req[p] EXCEPT !.pc = "cleanparts"]
<1>1. req[p] \in Handlers
  BY DEF IInv, TypeOK
<1>2. new \in Handlers /\ new.pc = "cleanparts"
  BY <1>1 DEF Handlers
<1>3. Set(p, new) /\ UNCHANGED <<session, recorded, dir, file, raced>> /\ req[p].pc = "assemble"
  BY DEF CompleteCommit
<1> HIDE DEF new
<1> QED BY <1>2, <1>3, ReqOnly

LEMMA CompleteRefusedInv == ASSUME IInv, NEW p \in Procs, CompleteRefused(p) PROVE IInv'
<1>1. Idle.pc = "idle"
  BY DEF Idle
<1> QED BY <1>1, IdleTyped, ReqOnly DEF CompleteRefused

(* abort_multipart and the purge *)
LEMMA AbortBeginInv == ASSUME IInv, NEW p \in Procs, AbortBegin(p) \/ PurgeBegin(p) PROVE IInv'
<1> DEFINE new == [Idle EXCEPT !.pc = "cleanparts"]
<1>1. new \in Handlers /\ new.pc = "cleanparts"
  BY IdleTyped DEF Handlers, Idle
<1>2. Set(p, new) /\ UNCHANGED <<session, recorded, dir, file, raced>> /\ req[p].pc = "idle"
  BY DEF AbortBegin, PurgeBegin, Begin
<1> HIDE DEF new
<1> QED BY <1>1, <1>2, ReqOnly

(* cleanup_multipart *)
LEMMA CleanInv ==
  ASSUME IInv, NEW p \in Procs, CleanParts(p) \/ CleanSession(p) \/ CleanDir(p)
  PROVE  IInv'
<1>1. /\ req \in [Procs -> Handlers] /\ req[p] \in Handlers /\ UNCHANGED raced
      /\ req[p].pc \in {"cleanparts", "cleansession", "cleandir"}
  BY DEF IInv, TypeOK, CleanParts, CleanSession, CleanDir
<1>2. PICK new \in Handlers : /\ Set(p, new)
                              /\ new.pc \in {"idle", "cleansession", "cleandir"}
                              /\ new.pc = "cleandir" => session' = "gone"
  <2>1. ASSUME NEW pc \in PCs
        PROVE  [req[p] EXCEPT !.pc = pc] \in Handlers /\ [req[p] EXCEPT !.pc = pc].pc = pc
    BY <1>1 DEF Handlers
  <2>2. CASE CleanParts(p)
    BY <2>1, <2>2 DEF CleanParts
  <2>3. CASE CleanSession(p)
    BY <2>1, <2>3 DEF CleanSession
  <2>4. CASE CleanDir(p)
    <3>1. Idle.pc = "idle"
      BY DEF Idle
    <3> QED BY <2>4, <3>1, IdleTyped DEF CleanDir
  <2> QED BY <2>2, <2>3, <2>4
<1>3. req'[p] = new /\ \A q \in Procs : q # p => req'[q] = req[q]
  BY <1>1, <1>2 DEF Set
<1>4. \/ UNCHANGED session
      \/ session' = "gone"
  BY DEF CleanParts, CleanSession, CleanDir
<1>5. session' # "gone" => UNCHANGED <<session, file>>
  BY <1>4 DEF CleanParts, CleanSession, CleanDir, IInv, DirLast
<1>6. recorded' = recorded \/ recorded' = [n \in Parts |-> None]
  BY DEF CleanParts, CleanSession, CleanDir
<1>7. TypeOK'
  <2>1. req' \in [Procs -> Handlers]
    BY <1>1, <1>2 DEF Set
  <2>2. session' \in {"none", "open", "stale", "gone"} /\ dir' \in BOOLEAN /\ raced' \subseteq Parts
    BY <1>1 DEF IInv, TypeOK, CleanParts, CleanSession, CleanDir
  <2>3. file' \in [Parts -> Contents \cup {None}] /\ recorded' \in [Parts -> Contents \cup {None}]
    BY <1>6 DEF IInv, TypeOK, CleanParts, CleanSession, CleanDir
  <2> QED BY <2>1, <2>2, <2>3 DEF TypeOK
<1>8. Recording'
  BY <1>1, <1>2, <1>3, <1>5 DEF IInv, Recording
<1>9. DirLast'
  BY <1>2, <1>3, <1>4 DEF IInv, DirLast
<1>10. PartsMatchRecords'
  <2>1. \A q \in Procs : req[q].pc = "record" => req'[q] = req[q]
    BY <1>1, <1>3
  <2> QED BY <1>1, <1>5, <1>6, <2>1 DEF IInv, PartsMatchRecords
<1>11. Assembling'
  BY <1>2, <1>3, AssemblyKept DEF IInv
<1> QED BY <1>7, <1>8, <1>9, <1>10, <1>11 DEF IInv

LEMMA SessionInv == ASSUME IInv, InitMultipart \/ Expire PROVE IInv'
<1>1. UNCHANGED <<recorded, file, req, raced>> /\ session # "gone" /\ session' \in {"open", "stale"} /\ dir' \in BOOLEAN
  BY DEF InitMultipart, Expire, IInv, TypeOK
<1>2. TypeOK'
  BY <1>1 DEF IInv, TypeOK
<1>3. Recording' /\ DirLast' /\ PartsMatchRecords' /\ Assembling'
  BY <1>1 DEF IInv, Recording, DirLast, PartsMatchRecords, Assembling, Prefix, ChosenAsListed
<1> QED BY <1>2, <1>3 DEF IInv

LEMMA CrashInv == ASSUME IInv, Crash PROVE IInv'
<1>1. /\ UNCHANGED <<session, recorded, dir, file>> /\ req' = [p \in Procs |-> Idle]
      /\ raced' = raced \cup {req[p].part : p \in {q \in Procs : req[q].pc = "record"}}
  BY DEF Crash
<1>2. \A p \in Procs : req'[p].pc = "idle"
  BY <1>1 DEF Idle
<1>3. TypeOK'
  <2>1. req' \in [Procs -> Handlers]
    BY <1>1, IdleTyped
  <2>2. raced' \subseteq Parts
    BY <1>1 DEF IInv, TypeOK, Recording
  <2> QED BY <1>1, <2>1, <2>2 DEF IInv, TypeOK
<1>4. Recording' /\ DirLast' /\ Assembling'
  BY <1>2 DEF Recording, DirLast, Assembling
<1>5. PartsMatchRecords'
  <2> SUFFICES ASSUME session' # "gone", NEW n \in Parts \ raced'
               PROVE  recorded'[n] \in {None, file'[n]}
    BY DEF PartsMatchRecords
  <2>1. n \in Parts \ raced /\ ~ \E p \in Procs : req[p].pc = "record" /\ req[p].part = n
    BY <1>1
  <2> QED BY <1>1, <2>1 DEF IInv, PartsMatchRecords
<1> QED BY <1>3, <1>4, <1>5 DEF IInv

-----------------------------------------------------------------------------
LEMMA InitInv == Init => IInv
<1> SUFFICES ASSUME Init PROVE IInv
  OBVIOUS
<1>1. \A p \in Procs : req[p] = Idle /\ req[p].pc = "idle"
  BY DEF Init, Idle
<1>2. TypeOK
  BY IdleTyped DEF Init, TypeOK
<1>3. Recording /\ DirLast /\ PartsMatchRecords /\ Assembling
  BY <1>1 DEF Init, Recording, DirLast, PartsMatchRecords, Assembling
<1> QED BY <1>2, <1>3 DEF IInv

LEMMA NextInv == IInv /\ [Next]_vars => IInv'
<1> SUFFICES ASSUME IInv, [Next]_vars PROVE IInv'
  OBVIOUS
<1>1. CASE UNCHANGED vars
  <2>1. UNCHANGED <<session, recorded, dir, file, req, raced>>
    BY <1>1 DEF vars
  <2>2. TypeOK' /\ Recording' /\ DirLast'
    BY <2>1 DEF IInv, TypeOK, Recording, DirLast
  <2>3. PartsMatchRecords' /\ Assembling'
    BY <2>1 DEF IInv, PartsMatchRecords, Assembling, Prefix, ChosenAsListed
  <2> QED BY <2>2, <2>3 DEF IInv
<1>2. ASSUME NEW p \in Procs, PartBegin(p) \/ CompleteBegin(p) \/ AbortBegin(p) \/ PurgeBegin(p)
      PROVE  IInv'
  BY <1>2, PartBeginInv, CompleteBeginInv, AbortBeginInv
<1>3. ASSUME NEW p \in Procs, PartFail(p) \/ PartReceived(p) \/ PartRecord(p)
      PROVE  IInv'
  BY <1>3, PartFailInv, PartReceivedInv, PartRecordInv
<1>4. ASSUME NEW p \in Procs, CompleteSelect(p) \/ CompleteRead(p) \/ CompleteCommit(p) \/ CompleteRefused(p)
      PROVE  IInv'
  BY <1>4, CompleteSelectInv, CompleteReadInv, CompleteCommitInv, CompleteRefusedInv
<1>5. ASSUME NEW p \in Procs, CleanParts(p) \/ CleanSession(p) \/ CleanDir(p)
      PROVE  IInv'
  BY <1>5, CleanInv
<1>6. CASE InitMultipart \/ Expire \/ Crash
  BY <1>6, SessionInv, CrashInv
<1> QED BY <1>1, <1>2, <1>3, <1>4, <1>5, <1>6 DEF Next, Proceed

LEMMA Inductive == Spec => []IInv
BY InitInv, NextInv, PTL DEF Spec

(* Whatever handlers upload, retry, complete, abort or purge, the recorded *)
(* etag of a part is that of its file, because upload_part renames a whole *)
(* scratch file and then records it; only two uploads of the part that     *)
(* overlap there, or a crash between the two, can set them apart (raced).  *)
THEOREM RecordsMatch == Spec => []PartsMatchRecords
<1>1. IInv => PartsMatchRecords
  BY DEF IInv
<1> QED BY <1>1, Inductive, PTL

(* Only the commit of complete_multipart ends an assembly that way.        *)
LEMMA CommitAsListed ==
  ASSUME IInv, [Next]_vars, NEW p \in Procs, req[p].pc = "assemble", req'[p].pc = "cleanparts"
  PROVE  /\ Len(object') = Len(req[p].chosen)
         /\ \A i \in DOMAIN object' :
                /\ object'[i] = req[p].chosen[i].etag
                /\ req[p].list # None => req[p].list[i].etag \in {Any, object'[i]}
<1>1. req \in [Procs -> Handlers] /\ req[p] \in Handlers
  BY DEF IInv, TypeOK
<1>2. Idle.pc = "idle"
  BY DEF Idle
<1>3. ASSUME NEW q \in Procs, NEW new, Set(q, new) PROVE q = p
  BY <1>1, <1>3 DEF Set
<1>4. ASSUME NEW q \in Procs, PartBegin(q) \/ CompleteBegin(q) \/ AbortBegin(q) \/ PurgeBegin(q) PROVE FALSE
  <2>1. q = p /\ req[q].pc = "idle"
    BY <1>3, <1>4 DEF PartBegin, CompleteBegin, AbortBegin, PurgeBegin, Begin
  <2> QED BY <2>1
<1>5. ASSUME NEW q \in Procs, PartFail(q) \/ PartReceived(q) \/ PartRecord(q) PROVE FALSE
  <2>1. q = p /\ req[q].pc \in {"receive", "record"}
    BY <1>3, <1>5 DEF PartFail, PartReceived, PartRecord
  <2> QED BY <2>1
<1>6. ASSUME NEW q \in Procs, CleanParts(q) \/ CleanSession(q) \/ CleanDir(q) PROVE FALSE
  <2>1. q = p /\ req[q].pc \in {"cleanparts", "cleansession", "cleandir"}
    BY <1>3, <1>6 DEF CleanParts, CleanSession, CleanDir
  <2> QED BY <2>1
<1>7. ASSUME NEW q \in Procs, CompleteSelect(q) \/ CompleteRefused(q) PROVE FALSE
  <2>1. q = p
    BY <1>3, <1>7 DEF CompleteSelect, CompleteRefused
  <2>2. CompleteRefused(p)
    BY <1>7, <2>1 DEF CompleteSelect
  <2> QED BY <1>1, <1>2, <2>2 DEF CompleteRefused, Set
<1>8. ASSUME NEW q \in Procs, CompleteRead(q) PROVE FALSE
  <2>1. q = p
    BY <1>3, <1>8 DEF CompleteRead
  <2>2. PICK new : Set(p, new) /\ (new = Idle \/ \E r : new = [req[p] EXCEPT !.read = r])
    BY <1>8, <2>1 DEF CompleteRead
  <2>3. new.pc \in {"idle", "assemble"}
    BY <1>1, <1>2, <2>2 DEF Handlers
  <2> QED BY <1>1, <2>2, <2>3 DEF Set
<1>9. ~ (InitMultipart \/ Expire \/ Crash \/ UNCHANGED vars)
  BY <1>2 DEF InitMultipart, Expire, Crash, vars
<1>10. PICK q \in Procs : CompleteCommit(q)
  BY <1>4, <1>5, <1>6, <1>7, <1>8, <1>9 DEF Next, Proceed
<1>11. CompleteCommit(p)
  BY <1>3, <1>10 DEF CompleteCommit
<1>12. object' = req[p].read /\ Len(req[p].read) = Len(req[p].chosen)
  BY <1>11 DEF CompleteCommit
<1>13. Prefix(req[p]) /\ ChosenAsListed(req[p])
  BY DEF IInv, Assembling
<1>14. DOMAIN req[p].read = 1..Len(req[p].read)
  BY <1>1 DEF Handlers
<1> QED BY <1>12, <1>13, <1>14 DEF Prefix, ChosenAsListed

(* However parts are uploaded again or the session is cleaned up while     *)
(* complete_multipart reads them, the object it commits is the parts that  *)
(* were listed, each with the bytes recorded when the list was checked.    *)
THEOREM CommitsAsListed == Spec => AssembledAsListed
<1>1. IInv /\ [Next]_vars =>
        [\A p \in Procs :
          (req[p].pc = "assemble" /\ req'[p].pc = "cleanparts") =>
              /\ Len(object') = Len(req[p].chosen)
              /\ \A i \in DOMAIN object' :
                    /\ object'[i] = req[p].chosen[i].etag
                    /\ req[p].list # None => req[p].list[i].etag \in {Any, object'[i]}]_vars
  <2> SUFFICES ASSUME IInv, [Next]_vars, NEW p \in Procs, req[p].pc = "assemble", req'[p].pc = "cleanparts"
               PROVE  /\ Len(object') = Len(req[p].chosen)
                      /\ \A i \in DOMAIN object' :
                            /\ object'[i] = req[p].chosen[i].etag
                            /\ req[p].list # None => req[p].list[i].etag \in {Any, object'[i]}
    OBVIOUS
  <2> QED BY CommitAsListed
<1> QED BY <1>1, Inductive, PTL DEF Spec, AssembledAsListed
=============================================================================
