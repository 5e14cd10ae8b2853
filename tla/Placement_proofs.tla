-------------------------- MODULE Placement_proofs --------------------------
(***************************************************************************)
(* Forwarded requests in a cluster of any size, with any rules, classes,   *)
(* keys, clients and batches: a write is stored as the node that was asked *)
(* resolved it, and a delete that reports success has reached every node,  *)
(* through failed calls, calls that run on after they were given up, and   *)
(* writes that run at the same time.                                       *)
(***************************************************************************)
EXTENDS Placement, TLAPS, FiniteSetTheorems, NaturalsInduction, WellFoundedInduction

(* Node ids are not the word the model uses for the client's own slot; a   *)
(* resolved class is one; contexts and stored objects are what they say.   *)
Settings ==
    /\ "client" \notin Nodes
    /\ DefaultClass # NoClass
    /\ \A n \in Nodes : /\ DOMAIN Rules[n] \subseteq Nat
                        /\ \A i \in DOMAIN Rules[n] : Rules[n][i].class # NoClass
    /\ \A x \in Contexts : DOMAIN x = {"hdr", "meta", "hint"}
    /\ NumKeys \in Nat /\ BatchLimit \in Nat
    /\ Stock \in Seq({Stock[v] : v \in DOMAIN Stock})
    /\ \A v \in DOMAIN Stock : Stock[v].node \in Nodes

Fields ==
    {"pc", "op", "node", "key", "ctx", "bearer", "fwd", "res", "v", "want", "match", "id", "wait", "got",
     "failed", "truncated", "next", "after", "before"}

(* A prefix can hold more objects than one page of a delete removes.       *)
Pages == NumKeys > BatchLimit

Whole(r) ==
    /\ DOMAIN r = Fields /\ DOMAIN r.ctx = {"hdr", "meta", "hint"}
    /\ r.pc \in {"new", "committed", "waiting", "fanout", "bulk", "asking", "done"}
    /\ r.node \in Nodes /\ r.key \in Keys /\ r.wait \subseteq Nodes
    /\ r.fwd \in BOOLEAN /\ r.failed \in BOOLEAN /\ r.truncated \in BOOLEAN
    /\ Pages \/ (~r.truncated /\ r.after = 0)

Bulk == {"prefix", "batch"}

(* What of a request does not change while it is handled.                  *)
SameCall(x, r) ==
    /\ x.op = r.op /\ x.node = r.node /\ x.key = r.key /\ x.bearer = r.bearer /\ x.fwd = r.fwd
    /\ x.match = r.match /\ x.after = r.after /\ x.before = r.before

(* The operators below take the stored versions st and the commits hm as   *)
(* arguments, so that they can be compared before and after a step.        *)

(* Node n holds nothing that the delete r was to remove.                   *)
Named(r) == IF r.op = "prefix" THEN Keys ELSE {r.key}
Gone(st, r, n) == \A k \in Named(r) : st[n][k] \notin r.before

(* The version of the write r was committed under the class it wanted.     *)
Kept(hm, r) == r.v \in 1..Len(hm) /\ hm[r.v].class = r.want /\ r.want \in ClassesOf[hm[r.v].node]

SlotOK(hm, r) ==
    /\ Whole(r) /\ r.before \subseteq 1..Len(hm)
    /\ r.pc = "committed" => Writes(r.op) /\ Kept(hm, r)
    /\ r.pc = "done" /\ Writes(r.op) /\ r.res = "ok" => Kept(hm, r)

(* What is known so far of the delete r says that node n is done.          *)
Vouched(r, n) ==
    \/ /\ r.op = "delete" /\ r.match = 0 /\ n \notin r.wait
       /\ \/ r.pc = "fanout" /\ r.got \subseteq {"ok"}
          \/ r.pc = "done" /\ r.res = "ok" /\ Forwards(r)
    \/ /\ r.op \in Bulk /\ r.pc \in {"bulk", "asking", "done"}
       /\ ~r.failed /\ ~r.truncated /\ r.after = 0 /\ n \notin r.wait /\ n \notin r.got

EntryOK(st, r) ==
    /\ ~r.fwd
    /\ r.pc \in {"new", "done"} => r.wait = {} /\ r.got = {}
    /\ r.pc = "waiting" => r.op \notin {"delete", "prefix", "batch"}
    /\ r.pc = "fanout" => r.op = "delete"
    /\ r.pc \in {"bulk", "asking"} => r.op \in Bulk
    /\ r.pc = "bulk" => r.got = {}
    /\ r.pc = "asking" => \E p \in Nodes : r.got = {p}
    /\ \A n \in Nodes : Vouched(r, n) => Gone(st, r, n)

PeerOK(q) == q.fwd /\ q.pc \in {"new", "committed", "done"}

(* While the request r waits for peer p, the peer's slot holds r's call:   *)
(* a write with the class r resolved, a delete of the same keys that is    *)
(* done only when they are gone.                                           *)
Serves(st, r, q, p) ==
    /\ r.pc = "new" \/ (r.pc = "fanout" /\ p = r.node) => q = Idle
    /\ Waits(r, p) /\ ~(r.pc = "fanout" /\ p = r.node) =>
        /\ q # Idle /\ q.op = r.op /\ q.key = r.key /\ q.node = p
        /\ r.pc = "waiting" =>
            /\ r.want # NoClass
            /\ q.pc = "new" => q.ctx.hdr = r.want
            /\ Writes(q.op) /\ (q.pc = "committed" \/ (q.pc = "done" /\ q.res = "ok")) => q.want = r.want
        /\ r.pc = "fanout" =>
            /\ q.match = r.match
            /\ r.match = 0 /\ q.pc = "done" /\ q.res = "ok" => Gone(st, r, p)
        /\ r.pc = "asking" =>
            /\ r.after = 0 => q.after = 0
            /\ q.pc = "done" /\ ~q.failed /\ ~q.truncated /\ r.after = 0 => Gone(st, r, p)

Homes ==
    [node : Nodes, class : (UNION {ClassesOf[n] : n \in Nodes}) \cup {Stock[v].class : v \in DOMAIN Stock}]

IInv ==
    /\ store \in [Nodes -> [Keys -> Nat]]
    /\ home \in Seq(Homes)
    /\ acked \subseteq 1..Len(home)
    /\ DOMAIN reqs = Slots
    /\ \A s \in Slots : reqs[s] = Idle \/ SlotOK(home, reqs[s])
    /\ \A c \in Clients :
        /\ reqs[Entry(c)] = Idle \/ EntryOK(store, reqs[Entry(c)])
        /\ \A p \in Nodes : /\ reqs[<<c, p>>] = Idle \/ PeerOK(reqs[<<c, p>>])
                            /\ Serves(store, reqs[Entry(c)], reqs[<<c, p>>], p)

-----------------------------------------------------------------------------
(* Slots.                                                                  *)

LEMMA SlotCases ==
  ASSUME NEW s \in Slots
  PROVE  \E c \in Clients : s[1] = c /\ (s = Entry(c) \/ \E p \in Nodes : s = <<c, p>>)
BY DEF Slots, Entry

LEMMA SlotsDiffer ==
  ASSUME Settings, NEW c \in Clients, NEW p \in Nodes
  PROVE  /\ Entry(c) \in Slots /\ <<c, p>> \in Slots
         /\ \A d \in Clients : Entry(d) # <<c, p>> /\ (d # c => Entry(d) # Entry(c))
         /\ \A d \in Clients, q \in Nodes : d # c \/ q # p => <<d, q>> # <<c, p>>
BY DEF Settings, Slots, Entry

LEMMA IdleOrWhole ==
  /\ Idle.pc = "idle"
  /\ \A r : Whole(r) => r.pc # "idle" /\ r # Idle
BY DEF Idle, Whole

-----------------------------------------------------------------------------
(* What the operations on requests do to their fields.                     *)

LEMMA DoneFields ==
  ASSUME NEW r, NEW res, Whole(r)
  PROVE  LET x == Done(r, res)
         IN  /\ Whole(x) /\ SameCall(x, r) /\ x.pc = "done" /\ x.res = res /\ x.wait = {} /\ x.got = {}
             /\ x.v = r.v /\ x.want = r.want /\ (x.failed <=> r.failed) /\ (x.truncated <=> r.truncated) /\ x.next = r.next
BY DEF Done, Whole, Fields, SameCall, NoContext

LEMMA NewFields ==
  ASSUME NEW op, NEW n \in Nodes, NEW k \in Keys, NEW ctx, DOMAIN ctx = {"hdr", "meta", "hint"}, NEW bearer,
         NEW x, x = NewRequest(op, n, k, ctx, bearer)
  PROVE  /\ Whole(x) /\ x.pc = "new" /\ ~x.fwd /\ x.wait = {} /\ x.got = {} /\ x.before = {}
BY DEF NewRequest, Whole, Fields

LEMMA PlacedFields ==
  ASSUME NEW r, Whole(r), NEW p \in Nodes, NEW ctx, DOMAIN ctx = {"hdr", "meta", "hint"}
  PROVE  LET x == Placed(r, p, ctx)
         IN  /\ Whole(x) /\ x.pc = "new" /\ x.op = r.op /\ x.node = p /\ x.key = r.key
             /\ x.ctx.hdr = ClassOf(r) /\ x.fwd /\ x.before = {}
             /\ ~x.truncated /\ x.after = 0
BY DEF Placed, NewRequest, Whole, Fields

LEMMA ProxyFields ==
  ASSUME NEW r, Whole(r), NEW p \in Nodes
  PROVE  LET x == ProxyDeleteObject(r, p)
         IN  /\ Whole(x) /\ x.pc = "new" /\ x.op = "delete" /\ x.node = p /\ x.key = r.key /\ x.fwd
             /\ x.match = r.match /\ x.before = {} /\ ~x.truncated /\ x.after = 0
BY DEF ProxyDeleteObject, NewRequest, Whole, Fields, NoContext

LEMMA ProxyPrefixFields ==
  ASSUME NEW r, Whole(r), NEW p \in Nodes
  PROVE  LET x == ProxyDeletePrefix(r, p)
         IN  /\ Whole(x) /\ x.pc = "new" /\ x.op = "prefix" /\ x.node = p /\ x.key = r.key /\ x.fwd
             /\ x.after = r.after /\ x.before = {} /\ ~x.truncated
BY DEF ProxyDeletePrefix, NewRequest, Whole, Fields, NoContext

LEMMA ProxyBatchFields ==
  ASSUME NEW r, Whole(r), NEW p \in Nodes
  PROVE  LET x == ProxyBatchDelete(r, p)
         IN  /\ Whole(x) /\ x.pc = "new" /\ x.op = "batch" /\ x.node = p /\ x.key = r.key /\ x.fwd
             /\ x.after = 0 /\ x.before = {} /\ ~x.truncated
BY DEF ProxyBatchDelete, NewRequest, Whole, Fields, NoContext

-----------------------------------------------------------------------------
(* Steps.                                                                  *)

(* What a step does to stored versions and commits: a copy stays, goes, or *)
(* is replaced by a version that did not exist before.                     *)
Grows(st, hm, st2, hm2) ==
    /\ Len(hm) <= Len(hm2) /\ \A v \in 1..Len(hm) : hm2[v] = hm[v]
    /\ \A n \in Nodes, k \in Keys : st2[n][k] \in {st[n][k], 0, Len(hm) + 1}

LEMMA GoneStays ==
  ASSUME NEW st, NEW st2, NEW hm, NEW hm2, Grows(st, hm, st2, hm2), Len(hm) \in Nat, Len(hm2) \in Nat
  PROVE  /\ \A r : \A n \in Nodes : SlotOK(hm, r) /\ Gone(st, r, n) => Gone(st2, r, n)
         /\ \A r : SlotOK(hm, r) => SlotOK(hm2, r)
         /\ \A r : SlotOK(hm, r) /\ EntryOK(st, r) => EntryOK(st2, r)
         /\ \A r, q : \A p \in Nodes : SlotOK(hm, r) /\ Serves(st, r, q, p) => Serves(st2, r, q, p)
<1>1. ASSUME NEW r, NEW n \in Nodes, SlotOK(hm, r), Gone(st, r, n) PROVE Gone(st2, r, n)
  <2> SUFFICES ASSUME NEW k \in Named(r) PROVE st2[n][k] \notin r.before
    BY DEF Gone
  <2>1. k \in Keys /\ r.before \subseteq 1..Len(hm)
    BY <1>1 DEF Named, SlotOK, Whole
  <2>2. st2[n][k] \in {st[n][k], 0, Len(hm) + 1} /\ st[n][k] \notin r.before
    BY <1>1, <2>1 DEF Grows, Gone
  <2>3. 0 \notin 1..Len(hm) /\ Len(hm) + 1 \notin 1..Len(hm)
    OBVIOUS
  <2> QED BY <2>1, <2>2, <2>3
<1>2. ASSUME NEW r, SlotOK(hm, r) PROVE SlotOK(hm2, r)
  <2>1. 1..Len(hm) \subseteq 1..Len(hm2)
    BY DEF Grows
  <2>2. Kept(hm, r) => Kept(hm2, r)
    BY <2>1 DEF Kept, Grows
  <2> QED BY <1>2, <2>1, <2>2 DEF SlotOK
<1>3. ASSUME NEW r, SlotOK(hm, r), EntryOK(st, r) PROVE EntryOK(st2, r)
  BY <1>1, <1>3 DEF EntryOK
<1>4. ASSUME NEW r, NEW q, NEW p \in Nodes, SlotOK(hm, r), Serves(st, r, q, p) PROVE Serves(st2, r, q, p)
  BY <1>1, <1>4 DEF Serves
<1> QED BY <1>1, <1>2, <1>3, <1>4

LEMMA IdleServes == ASSUME NEW st, NEW q, NEW p PROVE Serves(st, Idle, q, p)
BY IdleOrWhole DEF Serves, Waits

(* A step that touches the requests of one client.                         *)
LEMMA ClientStep ==
  ASSUME Settings, IInv, NEW c \in Clients, Grows(store, home, store', home'),
         store' \in [Nodes -> [Keys -> Nat]], home' \in Seq(Homes), acked' \subseteq 1..Len(home'),
         DOMAIN reqs' = Slots,
         \A t \in Slots : t[1] # c => reqs'[t] = reqs[t],
         reqs'[Entry(c)] = Idle \/ (SlotOK(home', reqs'[Entry(c)]) /\ EntryOK(store', reqs'[Entry(c)])),
         \A p \in Nodes :
            /\ reqs'[<<c, p>>] = Idle \/ (SlotOK(home', reqs'[<<c, p>>]) /\ PeerOK(reqs'[<<c, p>>]))
            /\ Serves(store', reqs'[Entry(c)], reqs'[<<c, p>>], p)
  PROVE  IInv'
<1>1. Len(home) \in Nat /\ Len(home') \in Nat
  BY DEF IInv
<1>2. ASSUME NEW d \in Clients
      PROVE  /\ reqs'[Entry(d)] = Idle \/ (SlotOK(home', reqs'[Entry(d)]) /\ EntryOK(store', reqs'[Entry(d)]))
             /\ \A p \in Nodes :
                 /\ reqs'[<<d, p>>] = Idle \/ (SlotOK(home', reqs'[<<d, p>>]) /\ PeerOK(reqs'[<<d, p>>]))
                 /\ Serves(store', reqs'[Entry(d)], reqs'[<<d, p>>], p)
  <2>1. CASE d = c
    BY <2>1
  <2>2. CASE d # c
    <3>0. Entry(d) \in Slots /\ Entry(d)[1] = d /\ \A p \in Nodes : <<d, p>> \in Slots /\ <<d, p>>[1] = d
      BY DEF Slots, Entry
    <3>1. reqs'[Entry(d)] = reqs[Entry(d)] /\ \A p \in Nodes : reqs'[<<d, p>>] = reqs[<<d, p>>]
      BY <2>2, <3>0
    <3>2. /\ reqs[Entry(d)] = Idle \/ (SlotOK(home, reqs[Entry(d)]) /\ EntryOK(store, reqs[Entry(d)]))
          /\ \A p \in Nodes :
              /\ reqs[<<d, p>>] = Idle \/ (SlotOK(home, reqs[<<d, p>>]) /\ PeerOK(reqs[<<d, p>>]))
              /\ Serves(store, reqs[Entry(d)], reqs[<<d, p>>], p)
      BY <3>0 DEF IInv
    <3>3. reqs[Entry(d)] = Idle \/ (SlotOK(home', reqs[Entry(d)]) /\ EntryOK(store', reqs[Entry(d)]))
      BY <1>1, <3>2, GoneStays
    <3>4. \A p \in Nodes : reqs[<<d, p>>] = Idle \/ (SlotOK(home', reqs[<<d, p>>]) /\ PeerOK(reqs[<<d, p>>]))
      BY <1>1, <3>2, GoneStays
    <3>5. \A p \in Nodes : Serves(store', reqs[Entry(d)], reqs[<<d, p>>], p)
      <4>1. CASE reqs[Entry(d)] = Idle
        BY <4>1, IdleServes
      <4>2. CASE SlotOK(home, reqs[Entry(d)])
        <5>1. \A r, q : \A p \in Nodes : SlotOK(home, r) /\ Serves(store, r, q, p) => Serves(store', r, q, p)
          BY <1>1, GoneStays
        <5> QED BY <3>2, <4>2, <5>1
      <4> QED BY <3>2, <4>1, <4>2
    <3> QED BY <3>1, <3>3, <3>4, <3>5
  <2> QED BY <2>1, <2>2
<1>3. \A s \in Slots : reqs'[s] = Idle \/ SlotOK(home', reqs'[s])
  BY <1>2, SlotCases
<1> QED BY <1>2, <1>3 DEF IInv

(* The request of client c in its own slot and the one on peer p.          *)
LEMMA Here ==
  ASSUME Settings, IInv, NEW c \in Clients
  PROVE  /\ Entry(c) \in Slots
         /\ reqs[Entry(c)] = Idle \/ (SlotOK(home, reqs[Entry(c)]) /\ EntryOK(store, reqs[Entry(c)]))
         /\ \A p \in Nodes :
             /\ <<c, p>> \in Slots /\ Entry(c) # <<c, p>>
             /\ reqs[<<c, p>>] = Idle \/ (SlotOK(home, reqs[<<c, p>>]) /\ PeerOK(reqs[<<c, p>>]))
             /\ Serves(store, reqs[Entry(c)], reqs[<<c, p>>], p)
BY SlotsDiffer DEF IInv, Slots, Entry

Stays == Grows(store, home, store', home') /\ store' \in [Nodes -> [Keys -> Nat]]
         /\ home' \in Seq(Homes) /\ acked' \subseteq 1..Len(home')

LEMMA NothingStored ==
  ASSUME IInv, UNCHANGED <<store, home, acked>>
  PROVE  Stays
BY DEF IInv, Stays, Grows

LEMMA EntryStep ==
  ASSUME Settings, IInv, Stays, NEW c \in Clients, NEW x, reqs' = [reqs EXCEPT ![Entry(c)] = x],
         x = Idle \/ (SlotOK(home', x) /\ EntryOK(store', x)),
         \A p \in Nodes : Serves(store', x, reqs[<<c, p>>], p)
  PROVE  IInv'
<1>0. DOMAIN reqs = Slots /\ Len(home) \in Nat /\ Len(home') \in Nat
  BY DEF IInv, Stays
<1>1. reqs'[Entry(c)] = x /\ DOMAIN reqs' = Slots /\ \A t \in Slots : t # Entry(c) => reqs'[t] = reqs[t]
  BY <1>0, Here
<1>2. \A p \in Nodes : reqs'[<<c, p>>] = reqs[<<c, p>>]
  BY <1>1, Here
<1>3. \A t \in Slots : t[1] # c => reqs'[t] = reqs[t]
  <2>1. Entry(c)[1] = c
    BY DEF Entry
  <2> QED BY <1>1, <2>1
<1>4. \A p \in Nodes : reqs[<<c, p>>] = Idle \/ (SlotOK(home', reqs[<<c, p>>]) /\ PeerOK(reqs[<<c, p>>]))
  BY <1>0, Here, GoneStays DEF Stays
<1> QED BY <1>1, <1>2, <1>3, <1>4, ClientStep DEF Stays

LEMMA BothStep ==
  ASSUME Settings, IInv, Stays, NEW c \in Clients, NEW x, NEW p \in Nodes, NEW y,
         DOMAIN reqs' = Slots, reqs'[Entry(c)] = x, reqs'[<<c, p>>] = y,
         \A t \in Slots : t # Entry(c) /\ t # <<c, p>> => reqs'[t] = reqs[t],
         x = Idle \/ (SlotOK(home', x) /\ EntryOK(store', x)),
         y = Idle \/ (SlotOK(home', y) /\ PeerOK(y)),
         Serves(store', x, y, p),
         \A q \in Nodes : q # p => Serves(store', x, reqs[<<c, q>>], q)
  PROVE  IInv'
<1>0. Len(home) \in Nat /\ Len(home') \in Nat
  BY DEF IInv, Stays
<1>2. \A q \in Nodes : q # p => reqs'[<<c, q>>] = reqs[<<c, q>>]
  BY Here, SlotsDiffer
<1>3. \A t \in Slots : t[1] # c => reqs'[t] = reqs[t]
  <2>1. Entry(c)[1] = c /\ <<c, p>>[1] = c
    BY DEF Entry
  <2> QED BY <2>1
<1>4. \A q \in Nodes : reqs[<<c, q>>] = Idle \/ (SlotOK(home', reqs[<<c, q>>]) /\ PeerOK(reqs[<<c, q>>]))
  BY <1>0, Here, GoneStays DEF Stays
<1>5. \A q \in Nodes :
        /\ reqs'[<<c, q>>] = Idle \/ (SlotOK(home', reqs'[<<c, q>>]) /\ PeerOK(reqs'[<<c, q>>]))
        /\ Serves(store', reqs'[Entry(c)], reqs'[<<c, q>>], q)
  BY <1>2, <1>4
<1> QED BY <1>3, <1>5, ClientStep DEF Stays

LEMMA PeerStep ==
  ASSUME Settings, IInv, Stays, NEW c \in Clients, NEW p \in Nodes, NEW y, reqs' = [reqs EXCEPT ![<<c, p>>] = y],
         y = Idle \/ (SlotOK(home', y) /\ PeerOK(y)),
         Serves(store', reqs[Entry(c)], y, p)
  PROVE  IInv'
<1> DEFINE x == reqs[Entry(c)]
<1>0. DOMAIN reqs = Slots /\ Len(home) \in Nat /\ Len(home') \in Nat
  BY DEF IInv, Stays
<1>1. /\ DOMAIN reqs' = Slots /\ reqs'[Entry(c)] = x /\ reqs'[<<c, p>>] = y
      /\ \A t \in Slots : t # Entry(c) /\ t # <<c, p>> => reqs'[t] = reqs[t]
  BY <1>0, Here
<1>2. x = Idle \/ (SlotOK(home', x) /\ EntryOK(store', x))
  BY <1>0, Here, GoneStays DEF Stays
<1>3. \A q \in Nodes : Serves(store', x, reqs[<<c, q>>], q)
  <2>1. CASE x = Idle
    BY <2>1, IdleServes
  <2>2. CASE SlotOK(home, x)
    <3>1. \A r, z : \A q \in Nodes : SlotOK(home, r) /\ Serves(store, r, z, q) => Serves(store', r, z, q)
      BY <1>0, GoneStays DEF Stays
    <3> QED BY <2>2, <3>1, Here
  <2> QED BY <2>1, <2>2, Here
<1> HIDE DEF x
<1> QED BY <1>1, <1>2, <1>3, BothStep DEF x

-----------------------------------------------------------------------------
(* A request that is handled where it is, on the client's node or on a     *)
(* peer: it commits or is answered.                                        *)

LEMMA LeastNat ==
  ASSUME NEW T, T \subseteq Nat, T # {}
  PROVE  Min(T) \in T
<1> DEFINE R == OpToRel(<, Nat)
<1>1. IsWellFoundedOn(R, Nat)
  BY NatLessThanWellFounded
<1>2. \A a, b \in Nat : a < b => <<a, b>> \in R
  BY DEF OpToRel
<1> HIDE DEF R
<1>3. PICK x \in T : \A y \in T : ~ (<<y, x>> \in R)
  BY <1>1, WFMin
<1>4. \A y \in T : ~ (y < x)
  BY <1>2, <1>3
<1>5. \A y \in T : x <= y
  BY <1>4
<1> QED BY <1>5 DEF Min

(* The class a request resolves to is one, and a class header decides.     *)
LEMMA ClassResolved ==
  ASSUME Settings, NEW r, Whole(r)
  PROVE  ClassOf(r) # NoClass /\ (r.ctx.hdr # NoClass => ClassOf(r) = r.ctx.hdr)
<1> DEFINE hits == {i \in DOMAIN Rules[r.node] : Matches(Rules[r.node][i], r.key, r.ctx)}
<1>1. r.node \in Nodes
  BY DEF Whole
<1>2. hits # {} => Rules[r.node][Min(hits)].class # NoClass
  <2>1. hits \subseteq Nat /\ hits \subseteq DOMAIN Rules[r.node]
    BY <1>1 DEF Settings
  <2> HIDE DEF hits
  <2>2. hits # {} => Min(hits) \in DOMAIN Rules[r.node]
    BY <2>1, LeastNat
  <2> QED BY <1>1, <2>2 DEF Settings
<1> QED BY <1>2 DEF ClassOf, ResolveClass, Settings

LEMMA NamedSame ==
  ASSUME NEW x, NEW r, SameCall(x, r)
  PROVE  Named(x) = Named(r) /\ (Forwards(x) <=> Forwards(r)) /\ \A st, n : Gone(st, x, n) <=> Gone(st, r, n)
BY DEF SameCall, Named, Forwards, Gone

LEMMA ZeroGone ==
  ASSUME NEW st, NEW hm, Len(hm) \in Nat, NEW r, SlotOK(hm, r), NEW n, \A k \in Named(r) : st[n][k] = 0
  PROVE  Gone(st, r, n)
<1>1. 0 \notin r.before
  BY DEF SlotOK
<1> QED BY <1>1 DEF Gone

LEMMA SlotMoves ==
  ASSUME Settings, IInv, Stays, NEW s \in Slots, NEW r, r = reqs[s], r.pc \in {"new", "committed"},
         NEW y, reqs' = [reqs EXCEPT ![s] = y], SlotOK(home', y), SameCall(y, r),
         y.pc \in {"committed", "done"}, y.pc = "done" => y.wait = {} /\ y.got = {},
         Writes(r.op) /\ (y.pc = "committed" \/ y.res = "ok") =>
            y.want = IF r.pc = "new" THEN ClassOf(r) ELSE r.want,
         r.op = "delete" /\ y.pc = "done" /\ y.res = "ok" =>
            ~Forwards(r) /\ store'[r.node][r.key] = 0,
         r.op \in Bulk /\ y.pc = "done" /\ ~y.failed /\ ~y.truncated /\ r.after = 0 =>
            (\A k \in Named(r) : store'[r.node][k] = 0) /\ (r.fwd \/ Peers(r.node) = {})
  PROVE  IInv'
<1>0. PICK c \in Clients : s[1] = c /\ (s = Entry(c) \/ \E p \in Nodes : s = <<c, p>>)
  BY SlotCases
<1>1. r # Idle /\ SlotOK(home, r) /\ Whole(r) /\ Whole(y) /\ Len(home) \in Nat /\ Len(home') \in Nat
  BY IdleOrWhole DEF IInv, SlotOK, Stays
<1>2. y.pc # "committed" \/ (Writes(y.op) /\ Writes(r.op))
  BY DEF SlotOK, SameCall
<1>n. Named(y) = Named(r) /\ (Forwards(y) <=> Forwards(r))
  BY NamedSame
<1>3. CASE s = Entry(c)
  <2>1. EntryOK(store, r)
    BY <1>1, <1>3, Here
  <2>2. ~r.fwd /\ ~y.fwd
    BY <2>1 DEF EntryOK, SameCall
  <2>3. ASSUME NEW n \in Nodes, Vouched(y, n) PROVE Gone(store', y, n)
    <3>1. CASE y.op = "delete"
      <4>1. y.pc = "done" /\ y.res = "ok" /\ Forwards(y) /\ r.op = "delete"
        BY <2>3, <3>1 DEF Vouched, Bulk, SameCall
      <4> QED BY <1>n, <4>1
    <3>2. CASE y.op \in Bulk
      <4>1. y.pc = "done" /\ ~y.failed /\ ~y.truncated /\ y.after = 0 /\ r.after = 0 /\ r.op \in Bulk
        BY <2>3, <3>2 DEF Vouched, Bulk, SameCall
      <4>2. n = r.node
        BY <2>2, <4>1 DEF Peers
      <4> QED BY <1>1, <1>n, <4>1, <4>2, ZeroGone
    <3> QED BY <2>3, <3>1, <3>2 DEF Vouched
  <2>4. EntryOK(store', y)
    BY <2>2, <2>3 DEF EntryOK
  <2>5. \A p \in Nodes : Serves(store', y, reqs[<<c, p>>], p)
    BY DEF Serves, Waits
  <2> QED BY <1>3, <2>4, <2>5, EntryStep
<1>4. ASSUME NEW p \in Nodes, s = <<c, p>> PROVE IInv'
  <2> DEFINE e == reqs[Entry(c)]
  <2>1. PeerOK(r) /\ Serves(store, e, r, p) /\ (e = Idle \/ SlotOK(home, e))
    BY <1>1, <1>4, Here
  <2>2. PeerOK(y)
    BY <2>1 DEF PeerOK, SameCall
  <2>3. Serves(store', e, y, p)
    <3>1. CASE e = Idle
      BY <3>1, IdleServes
    <3>2. CASE e # Idle /\ ~(Waits(e, p) /\ ~(e.pc = "fanout" /\ p = e.node))
      BY <1>1, <2>1, <3>2 DEF Serves
    <3>3. CASE e # Idle /\ Waits(e, p) /\ ~(e.pc = "fanout" /\ p = e.node)
      <4>1. r.op = e.op /\ r.key = e.key /\ r.node = p /\ SlotOK(home, e) /\ y # Idle
        BY <1>1, <2>1, <3>3, IdleOrWhole DEF Serves
      <4>2. Named(e) = Named(r)
        BY <4>1 DEF Named
      <4> HIDE DEF e
      <4>3. CASE e.pc = "waiting"
        <5>1. e.want # NoClass /\ (r.pc = "new" => r.ctx.hdr = e.want) /\ (Writes(r.op) /\ r.pc = "committed" => r.want = e.want)
          BY <2>1, <3>3, <4>3 DEF Serves
        <5>2. r.pc = "new" => ClassOf(r) = e.want
          BY <1>1, <5>1, ClassResolved
        <5>3. Writes(y.op) /\ (y.pc = "committed" \/ (y.pc = "done" /\ y.res = "ok")) => y.want = e.want
          BY <5>1, <5>2 DEF SameCall
        <5> QED BY <4>1, <4>3, <5>1, <5>3 DEF Serves, SameCall
      <4>4. CASE e.pc = "fanout"
        <5>1. r.match = e.match /\ e.pc # "new" /\ p # e.node
          BY <2>1, <3>3, <4>4 DEF Serves
        <5>2. y.pc = "done" /\ y.res = "ok" /\ r.op = "delete" => Gone(store', e, p)
          <6>1. r.op = "delete" => Named(r) = {r.key}
            BY DEF Named
          <6> QED BY <1>1, <4>1, <4>2, <6>1, ZeroGone
        <5>3. e.op = "delete"
          BY <3>3, <4>4, Here DEF EntryOK, e
        <5> QED BY <3>3, <4>1, <4>4, <5>1, <5>2, <5>3 DEF Serves, SameCall
      <4>5. CASE e.pc = "asking"
        <5>1. (e.after = 0 => r.after = 0) /\ e.pc # "new"
          BY <2>1, <3>3, <4>5 DEF Serves
        <5>2. e.op \in Bulk
          BY <3>3, <4>5, Here DEF EntryOK, e
        <5>3. y.pc = "done" /\ ~y.failed /\ ~y.truncated /\ e.after = 0 => Gone(store', e, p)
          BY <1>1, <4>1, <4>2, <5>1, <5>2, ZeroGone
        <5> QED BY <3>3, <4>1, <4>5, <5>1, <5>3 DEF Serves, SameCall
      <4> QED BY <3>3, <4>3, <4>4, <4>5 DEF Waits
    <3> QED BY <3>1, <3>2, <3>3
  <2> QED BY <1>4, <2>2, <2>3, PeerStep
<1> QED BY <1>0, <1>3, <1>4

(* An answer that promises nothing: a refusal, or success of a request     *)
(* that neither stores nor deletes.                                        *)
LEMMA PlainAnswer ==
  ASSUME Settings, IInv, UNCHANGED <<store, home, acked>>, NEW s \in Slots, reqs[s].pc = "new",
         NEW r, Whole(r), SameCall(r, reqs[s]), NEW res, Answer(s, r, res),
         reqs[s].op \notin Bulk,
         res = "ok" => ~Writes(reqs[s].op) /\ reqs[s].op # "delete"
  PROVE  IInv'
<1>1. Stays
  BY NothingStored
<1>2. SlotOK(home, reqs[s]) /\ Whole(reqs[s])
  BY IdleOrWhole DEF IInv, SlotOK
<1> DEFINE y == Done(r, res)
<1>3. Whole(y) /\ SameCall(y, r) /\ y.pc = "done" /\ y.res = res /\ y.wait = {} /\ y.got = {}
  BY DoneFields
<1>4. reqs' = [reqs EXCEPT ![s] = y]
  BY DEF Answer
<1> HIDE DEF y
<1>5. SameCall(y, reqs[s])
  BY <1>3 DEF SameCall
<1>6. SlotOK(home', y)
  BY <1>2, <1>3, <1>5 DEF SlotOK, SameCall
<1> QED BY <1>1, <1>3, <1>4, <1>5, <1>6, SlotMoves

LEMMA CommitInv ==
  ASSUME Settings, IInv, acked' = acked, NEW s \in Slots, reqs[s].pc = "new", Writes(reqs[s].op),
         AcceptLocal(reqs[s]), CommitLocal(s, reqs[s])
  PROVE  IInv'
<1> DEFINE r == reqs[s]
           v == Len(home) + 1
           y == [r EXCEPT !.pc = "committed", !.v = v, !.want = ClassOf(r), !.ctx = NoContext]
<1>1. SlotOK(home, r) /\ Whole(r) /\ Len(home) \in Nat /\ r.node \in Nodes /\ r.key \in Keys
  BY IdleOrWhole DEF IInv, SlotOK, Whole
<1>2. /\ store' = [store EXCEPT ![r.node][r.key] = v] /\ home' = Append(home, [node |-> r.node, class |-> ClassOf(r)])
      /\ reqs' = [reqs EXCEPT ![s] = y]
  BY DEF CommitLocal
<1>3. Whole(y) /\ SameCall(y, r) /\ y.pc = "committed" /\ y.v = v /\ y.want = ClassOf(r) /\ y.wait = r.wait /\ y.got = r.got
  BY <1>1 DEF Whole, Fields, SameCall, NoContext
<1>4. /\ home' \in Seq(Homes) /\ Len(home') = v /\ \A i \in 1..Len(home) : home'[i] = home[i]
      /\ home'[v].class = ClassOf(r) /\ home'[v].node = r.node
  <2>1. [node |-> r.node, class |-> ClassOf(r)] \in Homes
    BY <1>1 DEF AcceptLocal, Homes
  <2> QED BY <1>1, <1>2, <2>1 DEF IInv
<1>5. Stays
  <2>1. store' \in [Nodes -> [Keys -> Nat]] /\ \A n \in Nodes, k \in Keys : store'[n][k] \in {store[n][k], v}
    BY <1>1, <1>2 DEF IInv
  <2>2. acked' \subseteq 1..Len(home')
    BY <1>1, <1>4 DEF IInv
  <2> QED BY <1>1, <1>4, <2>1, <2>2 DEF Stays, Grows
<1>6. SlotOK(home', y)
  <2>1. Kept(home', y)
    BY <1>1, <1>3, <1>4 DEF Kept, AcceptLocal
  <2>2. y.before \subseteq 1..Len(home')
    BY <1>1, <1>3, <1>4 DEF SlotOK, SameCall
  <2> QED BY <1>3, <2>1, <2>2 DEF SlotOK, SameCall
<1>7. r.op # "delete" /\ r.op \notin Bulk
  BY DEF Writes, Bulk
<1> HIDE DEF y
<1> QED BY <1>2, <1>3, <1>5, <1>6, <1>7, SlotMoves

(* A request passed on to the assigned node: its own slot waits, and the   *)
(* peer's slot holds the call with the class that was resolved.            *)
LEMMA NotLocalInv ==
  ASSUME Settings, IInv, UNCHANGED <<store, home, acked>>, NEW s \in Slots, reqs[s].pc = "new",
         reqs[s].op \notin {"delete", "prefix", "batch"},
         NEW ctx, DOMAIN ctx = {"hdr", "meta", "hint"}, NEW sendable, NotLocal(s, reqs[s], ctx, sendable)
  PROVE  IInv'
<1> DEFINE r == reqs[s]
<1>1. SlotOK(home, r) /\ Whole(r)
  BY IdleOrWhole DEF IInv, SlotOK
<1>2. \A res : Answer(s, r, res) /\ res # "ok" => IInv'
  BY <1>1, PlainAnswer DEF SameCall, Bulk
<1>3. CASE ~Forwards(r)
  BY <1>2, <1>3 DEF NotLocal
<1>4. CASE Forwards(r)
  <2>1. PICK c \in Clients : s[1] = c /\ (s = Entry(c) \/ \E p \in Nodes : s = <<c, p>>)
    BY SlotCases
  <2>2. s = Entry(c)
    <3>1. ASSUME NEW p \in Nodes, s = <<c, p>> PROVE FALSE
      BY <1>1, <1>4, <3>1, Here, IdleOrWhole DEF PeerOK, Forwards
    <3> QED BY <2>1, <3>1
  <2>3. EntryOK(store, r) /\ \A p \in Nodes : reqs[<<c, p>>] = Idle
    BY <1>1, <2>2, Here, IdleOrWhole DEF Serves
  <2>4. PICK p \in AssignedNodes(r.node, ClassOf(r)) :
          IF p \notin Nodes THEN Answer(s, r, "error")
          ELSE IF ~sendable THEN Answer(s, r, "bad_request")
          ELSE /\ reqs[<<c, p>>] = Idle
               /\ reqs' = [reqs EXCEPT
                    ![s] = [r EXCEPT !.pc = "waiting", !.wait = {p}, !.want = ClassOf(r), !.ctx = NoContext],
                    ![<<c, p>>] = Placed(r, p, ctx)]
    BY <1>4, <2>1 DEF NotLocal, ProxyTo
  <2>5. CASE p \notin Nodes \/ ~sendable
    BY <1>2, <2>4, <2>5
  <2>6. CASE p \in Nodes /\ sendable
    <3> DEFINE x == [r EXCEPT !.pc = "waiting", !.wait = {p}, !.want = ClassOf(r), !.ctx = NoContext]
               y == Placed(r, p, ctx)
    <3>1. Whole(x) /\ SameCall(x, r) /\ x.pc = "waiting" /\ x.wait = {p} /\ x.want = ClassOf(r)
      BY <1>1, <2>6 DEF Whole, Fields, SameCall, NoContext
    <3>2. /\ Whole(y) /\ y.pc = "new" /\ y.op = r.op /\ y.node = p /\ y.key = r.key
          /\ y.ctx.hdr = ClassOf(r) /\ y.fwd /\ y.before = {}
      BY <1>1, <2>6, PlacedFields
    <3>3. reqs' = [reqs EXCEPT ![Entry(c)] = x, ![<<c, p>>] = y]
      BY <2>2, <2>4, <2>6
    <3> HIDE DEF x, y
    <3>4. /\ DOMAIN reqs' = Slots /\ reqs'[Entry(c)] = x /\ reqs'[<<c, p>>] = y
          /\ \A t \in Slots : t # Entry(c) /\ t # <<c, p>> => reqs'[t] = reqs[t]
      BY <2>6, <3>3, Here DEF IInv
    <3>5. SlotOK(home', x) /\ SlotOK(home', y) /\ PeerOK(y)
      BY <1>1, <3>1, <3>2 DEF SlotOK, PeerOK, SameCall
    <3>6. EntryOK(store', x)
      BY <2>3, <3>1 DEF EntryOK, Vouched, SameCall, Bulk
    <3>7. Serves(store', x, y, p)
      <4>1. ClassOf(r) # NoClass
        BY <1>1, ClassResolved
      <4> QED BY <3>1, <3>2, <4>1, IdleOrWhole DEF Serves, SameCall
    <3>8. \A q \in Nodes : q # p => Serves(store', x, reqs[<<c, q>>], q)
      BY <3>1 DEF Serves, Waits
    <3> QED BY <2>6, <3>4, <3>5, <3>6, <3>7, <3>8, BothStep, NothingStored
  <2> QED BY <2>5, <2>6
<1> QED BY <1>3, <1>4

LEMMA WritesInv ==
  ASSUME Settings, IInv, NEW s \in Slots,
         \/ PutObject(s) \/ InitMultipart(s) \/ UploadUnknown(s) \/ UploadPart(s)
         \/ CompleteMultipart(s) \/ AbortMultipart(s) \/ \E src \in Keys : CopyObject(s, src)
  PROVE  IInv'
<1> DEFINE r == reqs[s]
<1>0. r.pc = "new" /\ r.op \notin {"delete", "prefix", "batch"} /\ r.op \notin Bulk /\ acked' = acked
  BY DEF PutObject, InitMultipart, UploadUnknown, UploadPart, CompleteMultipart, AbortMultipart, CopyObject, At, Bulk
<1>1. SlotOK(home, r) /\ Whole(r) /\ SameCall(r, r)
  BY <1>0, IdleOrWhole DEF IInv, SlotOK, SameCall
<1>2. ASSUME UNCHANGED <<store, home>>, NEW ctx, DOMAIN ctx = DOMAIN r.ctx, NEW sendable, NotLocal(s, r, ctx, sendable)
      PROVE  IInv'
  BY <1>0, <1>1, <1>2, NotLocalInv DEF Whole
<1>3. ASSUME AcceptLocal(r), CommitLocal(s, r), Writes(r.op) PROVE IInv'
  BY <1>0, <1>3, CommitInv
<1>4. ASSUME UNCHANGED <<store, home>>, NEW res, Answer(s, r, res), res = "ok" => ~Writes(r.op) PROVE IInv'
  BY <1>0, <1>1, <1>4, PlainAnswer
<1>5. CASE PutObject(s)
  BY <1>2, <1>3, <1>5 DEF PutObject, ProxyPut, At, Writes
<1>6. ASSUME NEW src \in Keys, CopyObject(s, src) PROVE IInv'
  <2>1. r.op = "copy" /\ Writes(r.op)
    BY <1>6 DEF CopyObject, At, Writes
  <2>2. CASE UNCHANGED <<store, home>> /\ ProxyCopy(s, r)
    BY <1>2, <2>2 DEF ProxyCopy
  <2>3. CASE UNCHANGED <<store, home>> /\ Answer(s, r, "not_found")
    BY <1>4, <2>3
  <2>4. CASE AcceptLocal(r) /\ CommitLocal(s, r)
    BY <1>3, <2>1, <2>4
  <2> QED BY <1>6, <2>2, <2>3, <2>4 DEF CopyObject
<1>7. CASE InitMultipart(s)
  <2>1. UNCHANGED <<store, home>> /\ r.op = "init"
    BY <1>7 DEF InitMultipart, At
  <2>2. CASE ProxyInitMultipart(s, r)
    BY <1>2, <2>1, <2>2 DEF ProxyInitMultipart
  <2>3. ASSUME NEW u, Answer(s, [r EXCEPT !.id = u], "ok") PROVE IInv'
    <3> DEFINE x == [r EXCEPT !.id = u]
    <3>1. Whole(x) /\ SameCall(x, r)
      BY <1>1 DEF Whole, Fields, SameCall
    <3> HIDE DEF x
    <3>2. Answer(s, x, "ok")
      BY <2>3 DEF x
    <3> QED BY <1>0, <1>1, <2>1, <3>1, <3>2, PlainAnswer DEF Writes
  <2> QED BY <1>7, <2>2, <2>3 DEF InitMultipart
<1>8. CASE UploadUnknown(s)
  BY <1>4, <1>8 DEF UploadUnknown
<1>9. CASE UploadPart(s)
  BY <1>2, <1>4, <1>9 DEF UploadPart, ProxyUploadPart, At, Writes
<1>10. CASE CompleteMultipart(s)
  BY <1>2, <1>3, <1>10 DEF CompleteMultipart, ProxyCompleteMultipart, At, Writes
<1>11. CASE AbortMultipart(s)
  BY <1>4, <1>11 DEF AbortMultipart, At, Writes
<1> QED BY <1>5, <1>6, <1>7, <1>8, <1>9, <1>10, <1>11

LEMMA RecordInv == ASSUME Settings, IInv, NEW s \in Slots, RecordPlacement(s) PROVE IInv'
<1> DEFINE r == reqs[s]
           y == Done(r, "ok")
<1>1. SlotOK(home, r) /\ Whole(r) /\ r.pc = "committed" /\ Writes(r.op) /\ Kept(home, r)
  BY IdleOrWhole DEF IInv, SlotOK, RecordPlacement
<1>2. Stays /\ reqs' = [reqs EXCEPT ![s] = y] /\ home' = home
  BY NothingStored DEF RecordPlacement, Answer
<1>3. Whole(y) /\ SameCall(y, r) /\ y.pc = "done" /\ y.res = "ok" /\ y.wait = {} /\ y.got = {} /\ y.v = r.v /\ y.want = r.want
  BY <1>1, DoneFields
<1> HIDE DEF y
<1>4. SlotOK(home', y)
  BY <1>1, <1>2, <1>3 DEF SlotOK, SameCall, Kept
<1>5. r.op # "delete" /\ r.op \notin Bulk
  BY <1>1 DEF Writes, Bulk
<1> QED BY <1>1, <1>2, <1>3, <1>4, <1>5, SlotMoves

-----------------------------------------------------------------------------
(* Deletes.                                                                *)

LEMMA DeleteAtStays ==
  ASSUME IInv, NEW n \in Nodes, NEW k \in Keys, NEW match, DeleteAt(n, k, match), UNCHANGED <<home, acked>>
  PROVE  /\ Stays
         /\ DeleteResult(n, k, match) = "ok" => store'[n][k] = 0
         /\ match = 0 => DeleteResult(n, k, match) = "ok"
<1>1. store' = store \/ store' = [store EXCEPT ![n][k] = 0]
  BY DEF DeleteAt
<1>2. store' \in [Nodes -> [Keys -> Nat]] /\ \A m \in Nodes, j \in Keys : store'[m][j] \in {store[m][j], 0}
  <2>1. store \in [Nodes -> [Keys -> Nat]]
    BY DEF IInv
  <2>2. CASE store' = store
    BY <2>1, <2>2
  <2>3. CASE store' = [store EXCEPT ![n][k] = 0]
    BY <2>1, <2>3
  <2> QED BY <1>1, <2>2, <2>3
<1>3. Stays
  BY <1>2 DEF Stays, Grows, IInv
<1>4. DeleteResult(n, k, match) = "ok" => store'[n][k] = 0
  BY DEF DeleteAt, IInv
<1> QED BY <1>3, <1>4 DEF DeleteResult

LEMMA DeleteHereInv == ASSUME Settings, IInv, NEW s \in Slots, DeleteHere(s) PROVE IInv'
<1> DEFINE r == reqs[s]
<1>1. r.pc = "new" /\ r.op = "delete" /\ r.op \notin Bulk /\ ~Writes(r.op) /\ ~Forwards(r) /\ UNCHANGED <<home, acked>>
  BY DEF DeleteHere, At, Bulk, Writes
<1>2. SlotOK(home, r) /\ Whole(r) /\ SameCall(r, r) /\ r.node \in Nodes /\ r.key \in Keys
  BY <1>1, IdleOrWhole DEF IInv, SlotOK, SameCall, Whole
<1>3. CASE UNCHANGED store /\ Answer(s, r, "not_assigned")
  BY <1>1, <1>2, <1>3, PlainAnswer
<1>4. CASE DeleteAt(r.node, r.key, r.match) /\ Answer(s, r, DeleteResult(r.node, r.key, r.match))
  <2> DEFINE res == DeleteResult(r.node, r.key, r.match)
             y == Done(r, res)
  <2>1. Stays /\ (res = "ok" => store'[r.node][r.key] = 0)
    BY <1>1, <1>2, <1>4, DeleteAtStays
  <2>2. Whole(y) /\ SameCall(y, r) /\ y.pc = "done" /\ y.res = res /\ y.wait = {} /\ y.got = {}
    BY <1>2, DoneFields
  <2>3. reqs' = [reqs EXCEPT ![s] = y]
    BY <1>4 DEF Answer
  <2> HIDE DEF y, res
  <2>4. SlotOK(home', y)
    BY <1>1, <1>2, <2>2 DEF SlotOK, SameCall
  <2> QED BY <1>1, <2>1, <2>2, <2>3, <2>4, SlotMoves
<1> QED BY <1>3, <1>4 DEF DeleteHere

(* The client's own slot holds a request that is not a forwarded one.      *)
LEMMA AtEntry ==
  ASSUME Settings, IInv, NEW s \in Slots, reqs[s] # Idle, ~reqs[s].fwd \/ reqs[s].pc \notin {"new", "committed", "done"}
  PROVE  /\ s[1] \in Clients /\ s = Entry(s[1])
         /\ SlotOK(home, reqs[s]) /\ EntryOK(store, reqs[s]) /\ Whole(reqs[s])
<1>1. PICK c \in Clients : s[1] = c /\ (s = Entry(c) \/ \E p \in Nodes : s = <<c, p>>)
  BY SlotCases
<1>2. s = Entry(c)
  BY <1>1, Here DEF PeerOK
<1> QED BY <1>1, <1>2, Here DEF SlotOK

LEMMA FanoutInv == ASSUME Settings, IInv, NEW s \in Slots, DeleteFanout(s) PROVE IInv'
<1> DEFINE r == reqs[s]
           c == s[1]
<1>1. r.pc = "new" /\ r.op = "delete" /\ r.op \notin Bulk /\ Forwards(r) /\ UNCHANGED <<store, home, acked>> /\ ~r.fwd
  BY DEF DeleteFanout, At, Bulk, Forwards
<1>2. r # Idle
  BY <1>1, IdleOrWhole
<1>3. c \in Clients /\ s = Entry(c) /\ SlotOK(home, r) /\ EntryOK(store, r) /\ Whole(r) /\ SameCall(r, r) /\ r.node \in Nodes
  BY <1>1, <1>2, AtEntry DEF SameCall, Whole
<1>4. CASE r.key \in DotKeys
  BY <1>1, <1>3, <1>4, PlainAnswer DEF DeleteFanout
<1>5. CASE r.key \notin DotKeys
  <2> DEFINE x == [r EXCEPT !.pc = "fanout", !.wait = Nodes, !.ctx = NoContext]
  <2>1. /\ Whole(x) /\ SameCall(x, r) /\ x.pc = "fanout" /\ x.wait = Nodes
    BY <1>3 DEF Whole, Fields, SameCall, NoContext
  <2>2. reqs' = [t \in Slots |->
                     IF t = s THEN x
                     ELSE IF t[1] = c /\ t[2] \in Peers(r.node) THEN ProxyDeleteObject(r, t[2])
                     ELSE reqs[t]]
    BY <1>5 DEF DeleteFanout
  <2> HIDE DEF x, c
  <2>3. DOMAIN reqs' = Slots /\ reqs'[Entry(c)] = x /\ \A t \in Slots : t[1] # c => reqs'[t] = reqs[t]
    BY <1>3, <2>2 DEF Entry
  <2>4. ASSUME NEW p \in Nodes PROVE reqs'[<<c, p>>] = IF p = r.node THEN reqs[<<c, p>>] ELSE ProxyDeleteObject(r, p)
    <3>1. <<c, p>> \in Slots /\ <<c, p>> # s /\ <<c, p>>[1] = c /\ <<c, p>>[2] = p
      BY <1>3, SlotsDiffer
    <3> QED BY <2>2, <3>1 DEF Peers
  <2>5. SlotOK(home', x) /\ EntryOK(store', x)
    BY <1>1, <1>3, <2>1 DEF SlotOK, EntryOK, Vouched, SameCall, Bulk
  <2>6. ASSUME NEW p \in Nodes
        PROVE  /\ reqs'[<<c, p>>] = Idle \/ (SlotOK(home', reqs'[<<c, p>>]) /\ PeerOK(reqs'[<<c, p>>]))
               /\ Serves(store', x, reqs'[<<c, p>>], p)
    <3>1. CASE p = r.node
      <4>1. reqs'[<<c, p>>] = Idle
        BY <1>1, <1>3, <2>4, <3>1, Here DEF Serves
      <4>2. x.node = p
        BY <2>1, <3>1 DEF SameCall
      <4> QED BY <2>1, <4>1, <4>2 DEF Serves
    <3>2. CASE p # r.node
      <4> DEFINE q == ProxyDeleteObject(r, p)
      <4>1. /\ Whole(q) /\ q.pc = "new" /\ q.op = "delete" /\ q.node = p /\ q.key = r.key /\ q.fwd
            /\ q.match = r.match /\ q.before = {}
        BY <1>3, ProxyFields
      <4>2. reqs'[<<c, p>>] = q
        BY <2>4, <3>2
      <4> HIDE DEF q
      <4>3. SlotOK(home', q) /\ PeerOK(q)
        BY <4>1 DEF SlotOK, PeerOK
      <4>4. Serves(store', x, q, p)
        BY <1>1, <2>1, <3>2, <4>1, IdleOrWhole DEF Serves, SameCall
      <4> QED BY <4>2, <4>3, <4>4
    <3> QED BY <3>1, <3>2
  <2> QED BY <1>1, <1>3, <2>3, <2>5, <2>6, ClientStep, NothingStored DEF Stays
<1> QED BY <1>4, <1>5

LEMMA LocalPartInv == ASSUME Settings, IInv, NEW s \in Slots, DeleteLocalPart(s) PROVE IInv'
<1> DEFINE r == reqs[s]
           c == s[1]
           res == DeleteResult(r.node, r.key, r.match)
           x == [r EXCEPT !.wait = @ \ {r.node}, !.got = @ \cup {res}]
<1>1. r.pc = "fanout" /\ r.node \in r.wait /\ UNCHANGED <<home, acked>> /\ DeleteAt(r.node, r.key, r.match)
  BY DEF DeleteLocalPart
<1>2. c \in Clients /\ s = Entry(c) /\ SlotOK(home, r) /\ EntryOK(store, r) /\ Whole(r) /\ r.node \in Nodes /\ r.key \in Keys
  <2>1. r # Idle
    BY <1>1, IdleOrWhole
  <2> QED BY <1>1, <2>1, AtEntry DEF Whole
<1>3. Stays /\ (res = "ok" => store'[r.node][r.key] = 0) /\ (r.match = 0 => res = "ok")
  BY <1>1, <1>2, DeleteAtStays
<1>4. reqs' = [reqs EXCEPT ![s] = x]
  BY DEF DeleteLocalPart, IInv
<1>5. Whole(x) /\ SameCall(x, r) /\ x.pc = "fanout" /\ x.wait = r.wait \ {r.node} /\ x.got = r.got \cup {res}
  BY <1>1, <1>2 DEF Whole, Fields, SameCall
<1> HIDE DEF x, res, c
<1>6. SlotOK(home', x)
  BY <1>1, <1>2, <1>5 DEF SlotOK, SameCall
<1>7. EntryOK(store', x)
  <2>1. ASSUME NEW n \in Nodes, Vouched(x, n) PROVE Gone(store', x, n)
    <3>1. x.op = "delete" /\ r.op = "delete" /\ r.match = 0 /\ r.got \subseteq {"ok"} /\ (n \notin r.wait \/ n = r.node)
      BY <1>1, <1>2, <1>5, <2>1 DEF Vouched, SameCall, EntryOK, Bulk
    <3>2. CASE n = r.node
      <4>1. \A k \in Named(r) : store'[n][k] = 0
        BY <1>3, <3>1, <3>2 DEF Named
      <4>2. Gone(store', r, n)
        <5>1. Len(home) \in Nat
          BY DEF IInv
        <5> HIDE DEF r
        <5> QED BY <1>2, <4>1, <5>1, ZeroGone
      <4> QED BY <1>5, <4>2, NamedSame
    <3>3. CASE n \notin r.wait
      <4>1. Gone(store, r, n)
        BY <1>1, <1>2, <3>1, <3>3 DEF EntryOK, Vouched
      <4>2. Gone(store', r, n)
        BY <1>2, <1>3, <4>1, GoneStays DEF IInv, Stays
      <4> QED BY <1>5, <4>2, NamedSame
    <3> QED BY <3>1, <3>2, <3>3
  <2> QED BY <1>1, <1>2, <1>5, <2>1 DEF EntryOK, SameCall
<1>8. ASSUME NEW p \in Nodes PROVE Serves(store', x, reqs[<<c, p>>], p)
  <2>1. Serves(store', r, reqs[<<c, p>>], p)
    <3>1. Serves(store, r, reqs[<<c, p>>], p)
      BY <1>2, Here
    <3>2. Len(home) \in Nat /\ Len(home') \in Nat /\ Grows(store, home, store', home')
      BY <1>3 DEF IInv, Stays
    <3>3. \A z, q : SlotOK(home, z) /\ Serves(store, z, q, p) => Serves(store', z, q, p)
      BY <3>2, GoneStays
    <3> QED BY <1>2, <3>1, <3>3
  <2>2. Gone(store', x, p) <=> Gone(store', r, p)
    BY <1>5, NamedSame
  <2>3. Waits(x, p) => Waits(r, p)
    BY <1>1, <1>5 DEF Waits
  <2> QED BY <1>1, <1>5, <2>1, <2>2, <2>3 DEF Serves, SameCall
<1> QED BY <1>2, <1>3, <1>4, <1>6, <1>7, <1>8, EntryStep

LEMMA CombinedInv == ASSUME Settings, IInv, NEW s \in Slots, DeleteCombined(s) PROVE IInv'
<1> DEFINE r == reqs[s]
           c == s[1]
           res == CombineDeleteResults(r.match # 0, r.got)
           x == Done(r, res)
<1>1. r.pc = "fanout" /\ r.wait = {} /\ UNCHANGED <<store, home, acked>>
  BY DEF DeleteCombined
<1>2. c \in Clients /\ s = Entry(c) /\ SlotOK(home, r) /\ EntryOK(store, r) /\ Whole(r)
  <2>1. r # Idle
    BY <1>1, IdleOrWhole
  <2> QED BY <1>1, <2>1, AtEntry
<1>3. r.match = 0 /\ res = "ok" => r.got \subseteq {"ok"}
  BY DEF CombineDeleteResults
<1>4. reqs' = [reqs EXCEPT ![s] = x]
  BY DEF DeleteCombined, Answer
<1>5. Whole(x) /\ SameCall(x, r) /\ x.pc = "done" /\ x.wait = {} /\ x.got = {} /\ x.res = res
  BY <1>2, DoneFields
<1> HIDE DEF x, res, c
<1>6. SlotOK(home', x)
  BY <1>1, <1>2, <1>5 DEF SlotOK, SameCall, EntryOK, Writes
<1>7. EntryOK(store', x)
  <2>1. ASSUME NEW n \in Nodes, Vouched(x, n) PROVE Gone(store', x, n)
    <3>1. r.op = "delete" /\ r.match = 0 /\ res = "ok"
      BY <1>1, <1>2, <1>5, <2>1 DEF Vouched, SameCall, EntryOK, Bulk
    <3>2. Gone(store, r, n)
      BY <1>1, <1>2, <1>3, <3>1 DEF EntryOK, Vouched
    <3> QED BY <1>1, <1>5, <3>2, NamedSame
  <2> QED BY <1>2, <1>5, <2>1 DEF EntryOK, SameCall
<1>8. \A p \in Nodes : Serves(store', x, reqs[<<c, p>>], p)
  BY <1>5 DEF Serves, Waits
<1> QED BY <1>1, <1>2, <1>4, <1>6, <1>7, <1>8, EntryStep, NothingStored

-----------------------------------------------------------------------------
(* Bulk deletes.                                                           *)

(* What the local half of a bulk delete leaves: nothing of the named keys, *)
(* unless it failed or has more pages.                                     *)
LEMMA BulkHere ==
  ASSUME Settings, IInv, NEW n \in Nodes, NEW keys, keys \subseteq Keys, NEW ok \in BOOLEAN,
         DeleteObjectsInternal(n, keys, ok), UNCHANGED <<home, acked>>
  PROVE  Stays /\ (ok => \A k \in Keys : store'[n][k] = IF k \in keys THEN 0 ELSE store[n][k])
<1>1. store \in [Nodes -> [Keys -> Nat]]
  BY DEF IInv
<1>2. CASE ok
  <2> DEFINE f == [k \in Keys |-> IF k \in keys THEN 0 ELSE store[n][k]]
  <2>1. store' = [store EXCEPT ![n] = f]
    BY <1>2 DEF DeleteObjectsInternal
  <2>2. f \in [Keys -> Nat] /\ \A k \in Keys : f[k] \in {store[n][k], 0}
    BY <1>1
  <2>3. \A k \in Keys : f[k] = IF k \in keys THEN 0 ELSE store[n][k]
    OBVIOUS
  <2> HIDE DEF f
  <2>4. store' \in [Nodes -> [Keys -> Nat]] /\ store'[n] = f /\ \A m \in Nodes : m # n => store'[m] = store[m]
    BY <1>1, <2>1, <2>2
  <2>5. \A m \in Nodes, j \in Keys : store'[m][j] \in {store[m][j], 0}
    BY <2>2, <2>4
  <2>6. Stays
    BY <2>4, <2>5 DEF Stays, Grows, IInv
  <2> QED BY <2>3, <2>4, <2>6
<1>3. CASE ~ok
  <2>1. store' = store
    BY <1>3 DEF DeleteObjectsInternal
  <2> QED BY <1>3, <2>1, NothingStored
<1> QED BY <1>2, <1>3

(* The request o after its local half, which left nothing.                 *)
LEMMA BulkStarts ==
  ASSUME Settings, IInv, Stays, UNCHANGED home, NEW s \in Slots, NEW r, r = reqs[s], r.pc = "new", r.op \in Bulk,
         NEW o, Whole(o), SameCall(o, r), o.pc = "new", o.wait = r.wait, o.got = r.got,
         reqs' = [reqs EXCEPT ![s] = ThenPeers(o)],
         ~o.failed /\ ~o.truncated /\ r.after = 0 => \A k \in Named(r) : store'[r.node][k] = 0
  PROVE  IInv'
<1>1. SlotOK(home, r) /\ Whole(r) /\ r # Idle /\ ~Writes(r.op) /\ r.op # "delete" /\ r.node \in Nodes /\ Len(home) \in Nat
  BY IdleOrWhole DEF IInv, SlotOK, Bulk, Writes, Whole
<1>2. CASE o.fwd \/ ~o.bearer
  <2> DEFINE z == IF o.fwd THEN o ELSE [o EXCEPT !.failed = @ \/ Peers(o.node) # {}]
             y == Done(z, "ok")
  <2>1. ThenPeers(o) = y
    BY <1>2 DEF ThenPeers
  <2>2. /\ Whole(z) /\ SameCall(z, o) /\ z.pc = "new" /\ (z.truncated <=> o.truncated)
        /\ z.failed <=> o.failed \/ (~o.fwd /\ Peers(o.node) # {})
    BY DEF Whole, Fields, SameCall
  <2> HIDE DEF z
  <2>3. /\ Whole(y) /\ SameCall(y, z) /\ y.pc = "done" /\ y.wait = {} /\ y.got = {}
        /\ (y.failed <=> z.failed) /\ (y.truncated <=> z.truncated)
    BY <2>2, DoneFields
  <2> HIDE DEF y
  <2>4. SameCall(y, r)
    BY <2>2, <2>3 DEF SameCall
  <2>5. SlotOK(home', y)
    BY <1>1, <2>3, <2>4 DEF SlotOK, SameCall
  <2>6. ~y.failed /\ ~y.truncated /\ r.after = 0 =>
           (\A k \in Named(r) : store'[r.node][k] = 0) /\ (r.fwd \/ Peers(r.node) = {})
    BY <2>2, <2>3 DEF SameCall
  <2> QED BY <1>1, <2>1, <2>3, <2>4, <2>5, <2>6, SlotMoves
<1>3. CASE ~o.fwd /\ o.bearer
  <2> DEFINE c == s[1]
             x == [o EXCEPT !.pc = "bulk", !.wait = Peers(o.node)]
  <2>1. ThenPeers(o) = x
    BY <1>3 DEF ThenPeers
  <2>2. /\ Whole(x) /\ SameCall(x, o) /\ x.pc = "bulk" /\ x.wait = Peers(o.node) /\ x.got = o.got
        /\ (x.failed <=> o.failed) /\ (x.truncated <=> o.truncated)
    BY DEF Whole, Fields, SameCall, Peers
  <2>3. c \in Clients /\ s = Entry(c) /\ EntryOK(store, r)
    BY <1>1, <1>3, AtEntry DEF SameCall
  <2> HIDE DEF x, c
  <2>4. SameCall(x, r) /\ x.got = {} /\ ~x.fwd
    BY <1>3, <2>2, <2>3 DEF SameCall, EntryOK
  <2>5. SlotOK(home', x)
    BY <1>1, <2>2, <2>4 DEF SlotOK, SameCall
  <2>6. ASSUME NEW n \in Nodes, Vouched(x, n) PROVE Gone(store', x, n)
    <3>1. n = r.node /\ ~o.failed /\ ~o.truncated /\ r.after = 0
      BY <1>1, <2>2, <2>4, <2>6 DEF Vouched, SameCall, Peers
    <3>2. Gone(store', r, n)
      BY <1>1, <3>1, ZeroGone
    <3> QED BY <2>4, <3>2, NamedSame
  <2>7. EntryOK(store', x)
    BY <2>2, <2>4, <2>6 DEF EntryOK, SameCall
  <2>8. \A p \in Nodes : Serves(store', x, reqs[<<c, p>>], p)
    BY <2>2 DEF Serves, Waits
  <2> QED BY <2>1, <2>3, <2>5, <2>7, <2>8, EntryStep
<1> QED BY <1>2, <1>3

(* When a page holds all keys, no delete leaves rows for a next page.      *)
LEMMA OnePage ==
  ASSUME Settings, NEW n, NEW after, ~Pages
  PROVE  Page(n, after) = ListActiveRows(n, after)
<1> DEFINE rows == ListActiveRows(n, after)
<1>1. NumKeys \in Nat /\ BatchLimit \in Nat /\ NumKeys <= BatchLimit
  BY DEF Settings, Pages
<1>2. rows \subseteq 1..NumKeys
  BY DEF ListActiveRows, Keys
<1>3. IsFiniteSet(1..NumKeys) /\ Cardinality(1..NumKeys) = NumKeys
  BY <1>1, FS_Interval
<1> HIDE DEF rows
<1>4. ASSUME NEW k \in rows PROVE Cardinality({j \in rows : j <= k}) <= BatchLimit
  <2>1. {j \in rows : j <= k} \subseteq 1..NumKeys
    BY <1>2
  <2>2. /\ Cardinality({j \in rows : j <= k}) \in Nat
        /\ Cardinality({j \in rows : j <= k}) <= NumKeys
    <3> HIDE DEF rows
    <3>1. \A T : T \subseteq 1..NumKeys => IsFiniteSet(T) /\ Cardinality(T) <= NumKeys /\ Cardinality(T) \in Nat
      BY <1>3, FS_Subset, FS_CardinalityType
    <3> QED BY <2>1, <3>1
  <2> QED BY <1>1, <2>2
<1>5. Page(n, after) = {k \in rows : Cardinality({j \in rows : j <= k}) <= BatchLimit}
  BY DEF Page, rows
<1> QED BY <1>4, <1>5 DEF rows

LEMMA PrefixInv == ASSUME Settings, IInv, NEW s \in Slots, DeleteObjectsByPrefix(s) PROVE IInv'
<1> DEFINE r == reqs[s]
           keys == Page(r.node, r.after)
           more == ListActiveRows(r.node, r.after) # keys
           next == IF more THEN Max(keys) ELSE 0
<1>1. r.pc = "new" /\ r.op = "prefix" /\ r.op \in Bulk /\ UNCHANGED <<home, acked>>
  BY DEF DeleteObjectsByPrefix, At, Bulk
<1>2. SlotOK(home, r) /\ Whole(r) /\ r.node \in Nodes
  BY <1>1, IdleOrWhole DEF IInv, SlotOK, Whole
<1>3. PICK ok \in BOOLEAN :
        /\ DeleteObjectsInternal(r.node, keys, ok)
        /\ reqs' = [reqs EXCEPT ![s] = ThenPeers([r EXCEPT !.truncated = more, !.next = next, !.failed = ~ok])]
  BY DEF DeleteObjectsByPrefix
<1> DEFINE o == [r EXCEPT !.truncated = more, !.next = next, !.failed = ~ok]
<1>4. keys \subseteq Keys
  BY DEF Page, ListActiveRows
<1>5. Stays /\ (ok => \A k \in Keys : store'[r.node][k] = IF k \in keys THEN 0 ELSE store[r.node][k])
  <2> HIDE DEF keys
  <2> QED BY <1>1, <1>2, <1>3, <1>4, BulkHere
<1>6. /\ Whole(o) /\ SameCall(o, r) /\ o.pc = "new" /\ o.wait = r.wait /\ o.got = r.got
      /\ (o.truncated <=> more) /\ (o.failed <=> ~ok)
  <2>1. more \in BOOLEAN /\ (Pages \/ ~more)
    BY OnePage, <1>2
  <2> HIDE DEF more, next
  <2> QED BY <1>1, <1>2, <2>1 DEF Whole, Fields, SameCall
<1>7. ASSUME ok, ~more, r.after = 0 PROVE \A k \in Keys : store'[r.node][k] = 0
  <2>1. \A k \in Keys : k > 0
    BY DEF Keys, Settings
  <2>2. \A k \in Keys : k \in keys \/ store[r.node][k] = 0
    BY <1>7, <2>1 DEF ListActiveRows
  <2> HIDE DEF keys
  <2> QED BY <1>5, <1>7, <2>2
<1> HIDE DEF o, more, next, keys
<1>8. reqs' = [reqs EXCEPT ![s] = ThenPeers(o)]
  BY <1>3 DEF o
<1>9. ~o.failed /\ ~o.truncated /\ r.after = 0 => \A k \in Named(r) : store'[r.node][k] = 0
  BY <1>1, <1>6, <1>7 DEF Named
<1> QED BY <1>1, <1>2, <1>5, <1>6, <1>8, <1>9, BulkStarts

LEMMA BatchInv == ASSUME Settings, IInv, NEW s \in Slots, DeleteObjectsBatch(s) PROVE IInv'
<1> DEFINE r == reqs[s]
           keys == {k \in {r.key} : store[r.node][k] # 0}
<1>1. r.pc = "new" /\ r.op = "batch" /\ r.op \in Bulk /\ UNCHANGED <<home, acked>>
  BY DEF DeleteObjectsBatch, At, Bulk
<1>2. SlotOK(home, r) /\ Whole(r) /\ r.node \in Nodes /\ r.key \in Keys
  BY <1>1, IdleOrWhole DEF IInv, SlotOK, Whole
<1>3. PICK ok \in BOOLEAN :
        /\ DeleteObjectsInternal(r.node, keys, ok)
        /\ reqs' = [reqs EXCEPT ![s] = ThenPeers([r EXCEPT !.failed = ~ok])]
  BY DEF DeleteObjectsBatch
<1> DEFINE o == [r EXCEPT !.failed = ~ok]
<1>4. keys \subseteq Keys
  BY <1>2
<1>5. Stays /\ (ok => \A k \in Keys : store'[r.node][k] = IF k \in keys THEN 0 ELSE store[r.node][k])
  <2> HIDE DEF keys
  <2> QED BY <1>1, <1>2, <1>3, <1>4, BulkHere
<1>6. Whole(o) /\ SameCall(o, r) /\ o.pc = "new" /\ o.wait = r.wait /\ o.got = r.got /\ (o.failed <=> ~ok)
  BY <1>1, <1>2 DEF Whole, Fields, SameCall
<1>7. ok => store'[r.node][r.key] = 0
  BY <1>2, <1>5
<1> HIDE DEF o, keys
<1>8. reqs' = [reqs EXCEPT ![s] = ThenPeers(o)]
  BY <1>3 DEF o
<1>9. ~o.failed => \A k \in Named(r) : store'[r.node][k] = 0
  BY <1>1, <1>6, <1>7 DEF Named
<1> QED BY <1>1, <1>5, <1>6, <1>8, <1>9, BulkStarts

(* The next peer is asked, or the outcome is answered.                     *)
LEMMA AskInv ==
  ASSUME Settings, IInv, UNCHANGED <<store, home, acked>>, NEW s \in Slots, reqs[s].pc = "bulk",
         NEW proxied, AskNext(s, reqs[s], proxied),
         \A p \in reqs[s].wait :
            LET q == proxied[p]
            IN  /\ Whole(q) /\ q.pc = "new" /\ q.op = reqs[s].op /\ q.node = p /\ q.key = reqs[s].key /\ q.fwd
                /\ (reqs[s].after = 0 => q.after = 0) /\ q.before = {}
  PROVE  IInv'
<1> DEFINE r == reqs[s]
           c == s[1]
<1>1. c \in Clients /\ s = Entry(c) /\ SlotOK(home, r) /\ EntryOK(store, r) /\ Whole(r) /\ r.wait \subseteq Nodes
  <2>1. r # Idle
    BY IdleOrWhole
  <2> QED BY <2>1, AtEntry DEF Whole
<1>2. ~r.fwd /\ r.op \in Bulk /\ r.got = {}
  BY <1>1 DEF EntryOK
<1>3. Stays
  BY NothingStored
<1>4. CASE r.wait = {}
  <2> DEFINE x == Done(r, "ok")
  <2>1. /\ Whole(x) /\ SameCall(x, r) /\ x.pc = "done" /\ x.wait = {} /\ x.got = {}
        /\ (x.failed <=> r.failed) /\ (x.truncated <=> r.truncated)
    BY <1>1, DoneFields
  <2>2. reqs' = [reqs EXCEPT ![Entry(c)] = x]
    BY <1>1, <1>4 DEF AskNext, Answer
  <2> HIDE DEF x, c
  <2>3. SlotOK(home', x)
    BY <1>1, <1>2, <2>1 DEF SlotOK, SameCall, Bulk, Writes
  <2>4. ASSUME NEW n \in Nodes, Vouched(x, n) PROVE Gone(store', x, n)
    <3>1. Vouched(r, n)
      BY <1>2, <1>4, <2>1, <2>4 DEF Vouched, SameCall, Bulk
    <3> QED BY <1>1, <2>1, <3>1, NamedSame DEF EntryOK
  <2>5. EntryOK(store', x)
    BY <1>2, <2>1, <2>4 DEF EntryOK, SameCall
  <2>6. \A p \in Nodes : Serves(store', x, reqs[<<c, p>>], p)
    BY <2>1 DEF Serves, Waits
  <2> QED BY <1>1, <1>3, <2>2, <2>3, <2>5, <2>6, EntryStep
<1>5. CASE r.wait # {}
  <2>1. PICK p \in r.wait :
          /\ reqs[<<c, p>>] = Idle
          /\ reqs' = [reqs EXCEPT ![s] = [r EXCEPT !.pc = "asking", !.wait = @ \ {p}, !.got = {p}],
                                  ![<<c, p>>] = proxied[p]]
    BY <1>5 DEF AskNext
  <2> DEFINE x == [r EXCEPT !.pc = "asking", !.wait = @ \ {p}, !.got = {p}]
             y == proxied[p]
  <2>2. /\ Whole(x) /\ SameCall(x, r) /\ x.pc = "asking" /\ x.wait = r.wait \ {p} /\ x.got = {p}
        /\ (x.failed <=> r.failed) /\ (x.truncated <=> r.truncated)
    BY <1>1 DEF Whole, Fields, SameCall
  <2>3. /\ Whole(y) /\ y.pc = "new" /\ y.op = r.op /\ y.node = p /\ y.key = r.key /\ y.fwd /\ y.before = {}
        /\ r.after = 0 => y.after = 0
    BY <2>1
  <2>4. p \in Nodes /\ reqs' = [reqs EXCEPT ![Entry(c)] = x, ![<<c, p>>] = y]
    BY <1>1, <2>1
  <2> HIDE DEF x, y, c
  <2>5. /\ DOMAIN reqs' = Slots /\ reqs'[Entry(c)] = x /\ reqs'[<<c, p>>] = y
        /\ \A t \in Slots : t # Entry(c) /\ t # <<c, p>> => reqs'[t] = reqs[t]
    BY <1>1, <2>4, Here DEF IInv
  <2>6. SlotOK(home', x) /\ SlotOK(home', y) /\ PeerOK(y)
    BY <1>1, <2>2, <2>3 DEF SlotOK, PeerOK, SameCall
  <2>7. ASSUME NEW n \in Nodes, Vouched(x, n) PROVE Gone(store', x, n)
    <3>1. Vouched(r, n)
      BY <1>2, <2>2, <2>7 DEF Vouched, SameCall, Bulk
    <3> QED BY <1>1, <2>2, <3>1, NamedSame DEF EntryOK
  <2>8. EntryOK(store', x)
    BY <1>2, <2>2, <2>4, <2>7 DEF EntryOK, SameCall
  <2>9. Serves(store', x, y, p)
    BY <2>2, <2>3, IdleOrWhole DEF Serves, SameCall
  <2>10. \A q \in Nodes : q # p => Serves(store', x, reqs[<<c, q>>], q)
    BY <2>2 DEF Serves, Waits
  <2>11. c \in Clients /\ p \in Nodes
    BY <1>1, <2>4
  <2>12. (x = Idle \/ (SlotOK(home', x) /\ EntryOK(store', x))) /\ (y = Idle \/ (SlotOK(home', y) /\ PeerOK(y)))
    BY <2>6, <2>8
  <2> QED BY ONLY Settings, IInv, <1>3, <2>5, <2>9, <2>10, <2>11, <2>12, BothStep
<1> QED BY <1>4, <1>5

LEMMA AskPeersInv ==
  ASSUME Settings, IInv, NEW s \in Slots, FanoutDeletePrefix(s) \/ FanoutBatchDelete(s)
  PROVE  IInv'
<1> DEFINE r == reqs[s]
           prefix == [p \in r.wait |-> ProxyDeletePrefix(r, p)]
           batch == [p \in r.wait |-> ProxyBatchDelete(r, p)]
<1>1. r.pc = "bulk" /\ UNCHANGED <<store, home, acked>>
  BY DEF FanoutDeletePrefix, FanoutBatchDelete
<1>2. Whole(r) /\ r.wait \subseteq Nodes
  BY <1>1, IdleOrWhole DEF IInv, SlotOK, Whole
<1>3. CASE FanoutDeletePrefix(s)
  <2>1. r.op = "prefix" /\ AskNext(s, r, prefix)
    BY <1>3 DEF FanoutDeletePrefix
  <2>2. ASSUME NEW p \in r.wait
        PROVE  LET q == prefix[p]
               IN  /\ Whole(q) /\ q.pc = "new" /\ q.op = r.op /\ q.node = p /\ q.key = r.key /\ q.fwd
                   /\ (r.after = 0 => q.after = 0) /\ q.before = {}
    <3>1. prefix[p] = ProxyDeletePrefix(r, p)
      OBVIOUS
    <3> QED BY <1>2, <2>1, <3>1, ProxyPrefixFields
  <2> HIDE DEF prefix
  <2> QED BY <1>1, <2>1, <2>2, AskInv
<1>4. CASE FanoutBatchDelete(s)
  <2>1. r.op = "batch" /\ AskNext(s, r, batch)
    BY <1>4 DEF FanoutBatchDelete
  <2>2. ASSUME NEW p \in r.wait
        PROVE  LET q == batch[p]
               IN  /\ Whole(q) /\ q.pc = "new" /\ q.op = r.op /\ q.node = p /\ q.key = r.key /\ q.fwd
                   /\ (r.after = 0 => q.after = 0) /\ q.before = {}
    <3>1. batch[p] = ProxyBatchDelete(r, p)
      OBVIOUS
    <3> QED BY <1>2, <2>1, <3>1, ProxyBatchFields
  <2> HIDE DEF batch
  <2> QED BY <1>1, <2>1, <2>2, AskInv
<1> QED BY <1>3, <1>4

-----------------------------------------------------------------------------
(* Answers.                                                                *)

(* The request r has its answer for the call to p: x is what becomes of    *)
(* it, failed tells that the call failed or that peer's delete did.        *)
LEMMA AnsweredEntry ==
  ASSUME Settings, IInv, UNCHANGED <<store, home, acked>>, NEW c \in Clients, NEW p \in Nodes,
         NEW r, r = reqs[Entry(c)], r # Idle, Waits(r, p),
         NEW x, Whole(x), SameCall(x, r),
         x.pc = IF r.pc = "waiting" THEN "done" ELSE IF r.pc = "fanout" THEN "fanout" ELSE "bulk",
         r.pc = "waiting" =>
            x.wait = {} /\ x.got = {} /\ (Writes(r.op) /\ x.res = "ok" => Kept(home, x)),
         r.pc = "fanout" => x.wait = r.wait \ {p} /\ r.got \subseteq x.got
                            /\ (r.op = "delete" /\ r.match = 0 /\ x.got \subseteq {"ok"} => Gone(store, r, p)),
         r.pc = "asking" => /\ x.wait = r.wait /\ x.got = {} /\ r.got = {p}
                            /\ (~x.failed => ~r.failed) /\ (~x.truncated => ~r.truncated)
                            /\ (~x.failed /\ ~x.truncated /\ r.after = 0 => Gone(store, r, p))
  PROVE  /\ SlotOK(home', x) /\ EntryOK(store', x)
         /\ \A q \in Nodes : q # p => Serves(store', x, reqs[<<c, q>>], q)
         /\ r.pc # "fanout" \/ p # r.node => \A z : Serves(store', x, z, p)
<1>1. SlotOK(home, r) /\ EntryOK(store, r) /\ \A q \in Nodes : Serves(store, r, reqs[<<c, q>>], q)
  BY Here
<1>2. r.pc \in {"waiting", "fanout", "asking"}
  BY DEF Waits
<1>3. SlotOK(home', x)
  BY <1>1, <1>2 DEF SlotOK, SameCall
<1>4. ASSUME NEW n \in Nodes, Vouched(x, n) PROVE Gone(store', x, n)
  <2>1. CASE r.pc = "waiting"
    BY <1>1, <1>4, <2>1 DEF Vouched, EntryOK, SameCall, Bulk
  <2>2. CASE r.pc = "fanout"
    <3>1. r.op = "delete" /\ r.match = 0 /\ x.got \subseteq {"ok"} /\ n \notin x.wait
      BY <1>1, <1>4, <2>2 DEF Vouched, EntryOK, SameCall, Bulk
    <3>2. CASE n = p
      BY <2>2, <3>1, <3>2, NamedSame
    <3>3. CASE n # p
      <4>1. Vouched(r, n)
        BY <2>2, <3>1, <3>3 DEF Vouched
      <4> QED BY <1>1, <4>1, NamedSame DEF EntryOK
    <3> QED BY <3>2, <3>3
  <2>3. CASE r.pc = "asking"
    <3>1. r.op \in Bulk /\ ~x.failed /\ ~x.truncated /\ r.after = 0 /\ n \notin r.wait
      BY <1>1, <1>4, <2>3 DEF Vouched, EntryOK, SameCall, Bulk
    <3>2. CASE n = p
      BY <2>3, <3>1, <3>2, NamedSame
    <3>3. CASE n # p
      <4>1. Vouched(r, n)
        BY <2>3, <3>1, <3>3 DEF Vouched
      <4> QED BY <1>1, <4>1, NamedSame DEF EntryOK
    <3> QED BY <3>2, <3>3
  <2> QED BY <1>2, <2>1, <2>2, <2>3
<1>5. EntryOK(store', x)
  BY <1>1, <1>2, <1>4 DEF EntryOK, SameCall
<1>6. ASSUME NEW q \in Nodes, q # p PROVE Serves(store', x, reqs[<<c, q>>], q)
  <2>1. CASE r.pc = "waiting"
    BY <2>1 DEF Serves, Waits
  <2>2. CASE r.pc = "fanout"
    <3>1. Waits(x, q) => Waits(r, q)
      BY <2>2 DEF Waits
    <3>2. Gone(store, x, q) <=> Gone(store, r, q)
      BY NamedSame
    <3> QED BY <1>1, <2>2, <3>1, <3>2 DEF Serves, SameCall
  <2>3. CASE r.pc = "asking"
    BY <2>3 DEF Serves, Waits
  <2> QED BY <1>2, <2>1, <2>2, <2>3
<1>7. ASSUME r.pc # "fanout" \/ p # r.node, NEW z PROVE Serves(store', x, z, p)
  BY <1>2, <1>7 DEF Serves, Waits, SameCall
<1> QED BY <1>3, <1>5, <1>6, <1>7

LEMMA AnsweredFields ==
  ASSUME NEW r, NEW o, NEW p, Whole(r), Whole(o), Pages \/ ~o.truncated
  PROVE  LET x == PeerAnswered(r, o, p)
         IN  /\ r.pc = "waiting" =>
                 /\ Whole(x) /\ SameCall(x, r) /\ x.pc = "done" /\ x.wait = {} /\ x.got = {}
                 /\ x.res = o.res /\ x.v = o.v /\ x.want = r.want
             /\ r.pc = "fanout" =>
                 /\ Whole(x) /\ SameCall(x, r) /\ x.pc = "fanout" /\ x.wait = r.wait \ {p}
                 /\ x.got = r.got \cup {o.res}
             /\ r.pc = "asking" =>
                 /\ Whole(x) /\ SameCall(x, r) /\ x.pc = "bulk" /\ x.wait = r.wait /\ x.got = {}
                 /\ (x.failed <=> r.failed \/ o.failed) /\ (x.truncated <=> r.truncated \/ o.truncated)
<1> DEFINE x == PeerAnswered(r, o, p)
<1>1. CASE r.pc = "waiting"
  <2> DEFINE z == [r EXCEPT !.v = o.v, !.id = o.id]
  <2>1. Whole(z) /\ SameCall(z, r) /\ z.v = o.v /\ z.want = r.want
    BY DEF Whole, Fields, SameCall
  <2>2. x = Done(z, o.res)
    BY <1>1 DEF PeerAnswered
  <2> HIDE DEF z, x
  <2>3. /\ Whole(x) /\ SameCall(x, z) /\ x.pc = "done" /\ x.wait = {} /\ x.got = {}
        /\ x.res = o.res /\ x.v = z.v /\ x.want = z.want
    BY <2>1, <2>2, DoneFields
  <2>4. SameCall(x, r)
    BY <2>1, <2>3 DEF SameCall
  <2> QED BY <1>1, <2>1, <2>3, <2>4 DEF x
<1>2. CASE r.pc = "fanout"
  <2>1. x = [r EXCEPT !.wait = @ \ {p}, !.got = @ \cup {o.res}]
    BY <1>2 DEF PeerAnswered
  <2> HIDE DEF x
  <2>2. /\ Whole(x) /\ SameCall(x, r) /\ x.pc = "fanout" /\ x.wait = r.wait \ {p}
        /\ x.got = r.got \cup {o.res}
    BY <1>2, <2>1 DEF Whole, Fields, SameCall
  <2> QED BY <1>2, <2>2 DEF x
<1>3. CASE r.pc = "asking"
  <2> DEFINE nx == IF r.next # 0 THEN r.next ELSE o.next
             fl == r.failed \/ o.failed
             tr == r.truncated \/ o.truncated
             m == [r EXCEPT !.failed = fl, !.truncated = tr, !.next = nx]
  <2>1. MergeDeleteOutcome(r, o) = m
    BY DEF MergeDeleteOutcome, Whole, Fields
  <2>2. fl \in BOOLEAN /\ tr \in BOOLEAN /\ (Pages \/ ~tr) /\ (fl <=> r.failed \/ o.failed) /\ (tr <=> r.truncated \/ o.truncated)
    BY DEF Whole
  <2> HIDE DEF nx, fl, tr
  <2>3. /\ Whole(m) /\ SameCall(m, r) /\ m.wait = r.wait /\ m.got = r.got
        /\ (m.failed <=> fl) /\ (m.truncated <=> tr)
    BY <2>2 DEF Whole, Fields, SameCall
  <2>4. x = [m EXCEPT !.pc = "bulk", !.got = {}]
    BY <1>3, <2>1 DEF PeerAnswered
  <2> HIDE DEF m, x
  <2>5. /\ Whole(x) /\ SameCall(x, m) /\ x.pc = "bulk" /\ x.wait = m.wait /\ x.got = {}
        /\ (x.failed <=> m.failed) /\ (x.truncated <=> m.truncated)
    BY <2>3, <2>4 DEF Whole, Fields, SameCall
  <2>6. SameCall(x, r)
    BY <2>3, <2>5 DEF SameCall
  <2> QED BY <1>3, <2>2, <2>3, <2>5, <2>6 DEF x
<1> QED BY <1>1, <1>2, <1>3

LEMMA FailedFields ==
  ASSUME NEW r, NEW p, Whole(r)
  PROVE  LET x == PeerFailed(r, p)
         IN  /\ r.pc = "waiting" =>
                 /\ Whole(x) /\ SameCall(x, r) /\ x.pc = "done" /\ x.wait = {} /\ x.got = {} /\ x.res = "error"
             /\ r.pc = "fanout" =>
                 /\ Whole(x) /\ SameCall(x, r) /\ x.pc = "fanout" /\ x.wait = r.wait \ {p}
                 /\ x.got = r.got \cup {"error"}
             /\ r.pc = "asking" =>
                 /\ Whole(x) /\ SameCall(x, r) /\ x.pc = "bulk" /\ x.wait = r.wait /\ x.got = {}
                 /\ x.failed /\ (x.truncated <=> r.truncated)
<1> DEFINE x == PeerFailed(r, p)
<1>1. CASE r.pc = "waiting"
  BY <1>1, DoneFields DEF PeerFailed
<1>2. CASE r.pc = "fanout"
  <2>1. x = [r EXCEPT !.wait = @ \ {p}, !.got = @ \cup {"error"}]
    BY <1>2 DEF PeerFailed
  <2> HIDE DEF x
  <2>2. /\ Whole(x) /\ SameCall(x, r) /\ x.pc = "fanout" /\ x.wait = r.wait \ {p}
        /\ x.got = r.got \cup {"error"}
    BY <1>2, <2>1 DEF Whole, Fields, SameCall
  <2> QED BY <1>2, <2>2 DEF x
<1>3. CASE r.pc = "asking"
  <2>1. x = [r EXCEPT !.pc = "bulk", !.got = {}, !.failed = TRUE]
    BY <1>3 DEF PeerFailed
  <2> HIDE DEF x
  <2>2. /\ Whole(x) /\ SameCall(x, r) /\ x.pc = "bulk" /\ x.wait = r.wait /\ x.got = {}
        /\ x.failed /\ (x.truncated <=> r.truncated)
    BY <1>3, <2>1 DEF Whole, Fields, SameCall
  <2> QED BY <1>3, <2>2 DEF x
<1> QED BY <1>1, <1>2, <1>3

LEMMA ReplyInv == ASSUME Settings, IInv, NEW c \in Clients, NEW p \in Nodes, Reply(c, p) PROVE IInv'
<1> DEFINE r == reqs[Entry(c)]
           o == reqs[<<c, p>>]
           x == PeerAnswered(r, o, p)
<1>1. o.pc = "done" /\ UNCHANGED <<store, home, acked>>
  BY DEF Reply
<1>2. Stays
  BY <1>1, NothingStored
<1>3. o # Idle /\ SlotOK(home, o) /\ PeerOK(o) /\ Whole(o) /\ Serves(store, r, o, p)
  BY <1>1, Here, IdleOrWhole DEF SlotOK
<1>4. reqs' = [reqs EXCEPT ![<<c, p>>] = Idle, ![Entry(c)] = IF Waits(r, p) THEN x ELSE r]
  BY Here DEF Reply, IInv
<1>5. /\ DOMAIN reqs' = Slots /\ reqs'[<<c, p>>] = Idle /\ reqs'[Entry(c)] = IF Waits(r, p) THEN x ELSE r
      /\ \A t \in Slots : t # Entry(c) /\ t # <<c, p>> => reqs'[t] = reqs[t]
  BY <1>4, Here DEF IInv
<1>6. CASE ~Waits(r, p)
  <2>1. reqs' = [reqs EXCEPT ![<<c, p>>] = Idle]
    BY <1>4, <1>6, Here DEF IInv
  <2>2. Serves(store', r, Idle, p)
    BY <1>6 DEF Serves
  <2> QED BY <1>2, <2>1, <2>2, PeerStep
<1>7. CASE Waits(r, p)
  <2>1. r # Idle /\ SlotOK(home, r) /\ EntryOK(store, r) /\ Whole(r)
    BY <1>7, Here, IdleOrWhole DEF Waits, SlotOK
  <2>2. r.pc \in {"waiting", "fanout", "asking"} /\ ~(r.pc = "fanout" /\ p = r.node)
    BY <1>3, <1>7 DEF Waits, Serves
  <2>3. Pages \/ ~o.truncated
    BY <1>3 DEF Whole
  <2>4. /\ Whole(x) /\ SameCall(x, r)
        /\ x.pc = IF r.pc = "waiting" THEN "done" ELSE IF r.pc = "fanout" THEN "fanout" ELSE "bulk"
    BY <1>3, <2>1, <2>2, <2>3, AnsweredFields
  <2>5. r.pc = "waiting" =>
            x.wait = {} /\ x.got = {} /\ (Writes(r.op) /\ x.res = "ok" => Kept(home, x))
    <3>1. SUFFICES ASSUME r.pc = "waiting"
                   PROVE  x.wait = {} /\ x.got = {} /\ (Writes(r.op) /\ x.res = "ok" => Kept(home, x))
      OBVIOUS
    <3>2. x.wait = {} /\ x.got = {} /\ x.res = o.res /\ x.v = o.v /\ x.want = r.want
      BY <1>3, <2>1, <2>3, <3>1, AnsweredFields
    <3>3. Writes(r.op) /\ o.res = "ok" => o.want = r.want /\ Kept(home, o)
      BY <1>1, <1>3, <1>7, <3>1 DEF Serves, SlotOK
    <3> HIDE DEF x
    <3> QED BY <3>2, <3>3 DEF Kept
  <2>6. r.pc = "fanout" => x.wait = r.wait \ {p} /\ r.got \subseteq x.got
            /\ (r.op = "delete" /\ r.match = 0 /\ x.got \subseteq {"ok"} => Gone(store, r, p))
    <3>1. SUFFICES ASSUME r.pc = "fanout"
                   PROVE  x.wait = r.wait \ {p} /\ r.got \subseteq x.got
                          /\ (r.op = "delete" /\ r.match = 0 /\ x.got \subseteq {"ok"} => Gone(store, r, p))
      OBVIOUS
    <3>2. x.wait = r.wait \ {p} /\ x.got = r.got \cup {o.res}
      BY <1>3, <2>1, <2>3, <3>1, AnsweredFields
    <3>3. r.match = 0 /\ o.res = "ok" => Gone(store, r, p)
      BY <1>1, <1>3, <1>7, <2>2, <3>1 DEF Serves
    <3> HIDE DEF x
    <3> QED BY <3>2, <3>3
  <2>7. r.pc = "asking" => /\ x.wait = r.wait /\ x.got = {} /\ r.got = {p}
                           /\ (~x.failed => ~r.failed) /\ (~x.truncated => ~r.truncated)
                           /\ (~x.failed /\ ~x.truncated /\ r.after = 0 => Gone(store, r, p))
    <3>1. SUFFICES ASSUME r.pc = "asking"
                   PROVE  /\ x.wait = r.wait /\ x.got = {} /\ r.got = {p}
                          /\ (~x.failed => ~r.failed) /\ (~x.truncated => ~r.truncated)
                          /\ (~x.failed /\ ~x.truncated /\ r.after = 0 => Gone(store, r, p))
      OBVIOUS
    <3>2. /\ x.wait = r.wait /\ x.got = {}
          /\ (x.failed <=> r.failed \/ o.failed) /\ (x.truncated <=> r.truncated \/ o.truncated)
      BY <1>3, <2>1, <2>3, <3>1, AnsweredFields
    <3>3. r.got = {p}
      BY <1>7, <2>1, <3>1 DEF Waits, EntryOK
    <3>4. ~o.failed /\ ~o.truncated /\ r.after = 0 => Gone(store, r, p)
      BY <1>1, <1>3, <1>7, <3>1 DEF Serves
    <3> HIDE DEF x
    <3> QED BY <3>2, <3>3, <3>4
  <2> HIDE DEF x
  <2>8. /\ SlotOK(home', x) /\ EntryOK(store', x)
        /\ \A q \in Nodes : q # p => Serves(store', x, reqs[<<c, q>>], q)
        /\ Serves(store', x, Idle, p)
    BY <1>1, <1>7, <2>1, <2>2, <2>4, <2>5, <2>6, <2>7, AnsweredEntry
  <2>9. reqs'[Entry(c)] = x
    BY <1>5, <1>7
  <2> QED BY ONLY Settings, IInv, c \in Clients, p \in Nodes, <1>2, <1>5, <2>8, <2>9, BothStep
<1> QED BY <1>6, <1>7

LEMMA CallFailsInv == ASSUME Settings, IInv, NEW c \in Clients, NEW p \in Nodes, CallFails(c, p) PROVE IInv'
<1> DEFINE r == reqs[Entry(c)]
           o == reqs[<<c, p>>]
           x == PeerFailed(r, p)
<1>1. o.pc # "idle" /\ Waits(r, p) /\ UNCHANGED <<store, home, acked>>
  BY DEF CallFails
<1>2. Stays
  BY <1>1, NothingStored
<1>3. o # Idle /\ SlotOK(home, o) /\ PeerOK(o) /\ Whole(o) /\ Serves(store, r, o, p)
  BY <1>1, Here, IdleOrWhole DEF SlotOK
<1>4. PICK y : y \in {o, Idle} /\ reqs' = [reqs EXCEPT ![Entry(c)] = x, ![<<c, p>>] = y]
  <2>1. PICK kept \in BOOLEAN :
          reqs' = [reqs EXCEPT ![Entry(c)] = PeerFailed(@, p), ![<<c, p>>] = IF kept THEN @ ELSE Idle]
    BY DEF CallFails
  <2>2. reqs' = [reqs EXCEPT ![Entry(c)] = x, ![<<c, p>>] = IF kept THEN o ELSE Idle]
    BY <2>1, Here DEF IInv
  <2> QED BY <2>2
<1>5. /\ DOMAIN reqs' = Slots /\ reqs'[Entry(c)] = x /\ reqs'[<<c, p>>] = y
      /\ \A t \in Slots : t # Entry(c) /\ t # <<c, p>> => reqs'[t] = reqs[t]
  BY <1>4, Here DEF IInv
<1>6. r # Idle /\ SlotOK(home, r) /\ EntryOK(store, r) /\ Whole(r)
  BY <1>1, Here, IdleOrWhole DEF Waits, SlotOK
<1>7. r.pc \in {"waiting", "fanout", "asking"} /\ ~(r.pc = "fanout" /\ p = r.node)
  BY <1>1, <1>3 DEF Waits, Serves
<1>8. /\ Whole(x) /\ SameCall(x, r)
      /\ x.pc = IF r.pc = "waiting" THEN "done" ELSE IF r.pc = "fanout" THEN "fanout" ELSE "bulk"
  BY <1>6, <1>7, FailedFields
<1>9. r.pc = "waiting" =>
          x.wait = {} /\ x.got = {} /\ (Writes(r.op) /\ x.res = "ok" => Kept(home, x))
  <2>1. r.pc = "waiting" => x.wait = {} /\ x.got = {} /\ x.res # "ok"
    BY <1>6, FailedFields
  <2> QED BY <2>1
<1>10. r.pc = "fanout" => x.wait = r.wait \ {p} /\ r.got \subseteq x.got
            /\ (r.op = "delete" /\ r.match = 0 /\ x.got \subseteq {"ok"} => Gone(store, r, p))
  <2>1. r.pc = "fanout" => x.wait = r.wait \ {p} /\ x.got = r.got \cup {"error"}
    BY <1>6, FailedFields
  <2> HIDE DEF x
  <2> QED BY <2>1
<1>11. r.pc = "asking" => /\ x.wait = r.wait /\ x.got = {} /\ r.got = {p}
                          /\ (~x.failed => ~r.failed) /\ (~x.truncated => ~r.truncated)
                          /\ (~x.failed /\ ~x.truncated /\ r.after = 0 => Gone(store, r, p))
  <2>1. r.pc = "asking" => x.wait = r.wait /\ x.got = {} /\ x.failed /\ (x.truncated <=> r.truncated)
    BY <1>6, FailedFields
  <2>2. r.pc = "asking" => r.got = {p}
    BY <1>1, <1>6 DEF Waits, EntryOK
  <2> HIDE DEF x
  <2> QED BY <2>1, <2>2
<1> HIDE DEF x
<1>12. /\ SlotOK(home', x) /\ EntryOK(store', x)
       /\ \A q \in Nodes : q # p => Serves(store', x, reqs[<<c, q>>], q)
       /\ Serves(store', x, y, p)
  BY <1>1, <1>6, <1>7, <1>8, <1>9, <1>10, <1>11, AnsweredEntry
<1>13. y = Idle \/ (SlotOK(home', y) /\ PeerOK(y))
  BY <1>1, <1>3, <1>4
<1> QED BY ONLY Settings, IInv, c \in Clients, p \in Nodes, <1>2, <1>5, <1>12, <1>13, BothStep

-----------------------------------------------------------------------------
(* Clients.                                                                *)

(* A client with nothing under way sends the request x.                    *)
LEMMA SentInv ==
  ASSUME Settings, IInv, UNCHANGED <<store, home, acked>>, NEW c \in Clients,
         \A p \in Nodes : reqs[<<c, p>>] = Idle,
         NEW x, reqs' = [reqs EXCEPT ![Entry(c)] = x], Whole(x), x.pc = "new", ~x.fwd,
         x.wait = {}, x.got = {}, x.before \subseteq 1..Len(home)
  PROVE  IInv'
<1>1. SlotOK(home', x)
  BY DEF SlotOK
<1>2. EntryOK(store', x)
  BY DEF EntryOK, Vouched
<1>3. \A p \in Nodes : Serves(store', x, reqs[<<c, p>>], p)
  BY DEF Serves, Waits
<1> QED BY <1>1, <1>2, <1>3, EntryStep, NothingStored

LEMMA WriteInv == ASSUME Settings, IInv, NEW c \in Clients, Write(c) PROVE IInv'
<1>1. (\A p \in Nodes : reqs[<<c, p>>] = Idle) /\ UNCHANGED <<store, home, acked>>
  BY DEF Write, Free
<1>2. PICK op \in WriteOps, n \in Nodes, k \in Keys, ctx \in Contexts, bearer \in BOOLEAN :
         /\ op \in {"part", "complete", "abort"} => ctx.hint = NoHint
         /\ \E u \in IF op \in {"part", "complete", "abort"} THEN sess
                     ELSE {[id |-> 0, node |-> n, key |-> k]} :
              /\ u.key = k
              /\ reqs' = [reqs EXCEPT ![Entry(c)] = [NewRequest(op, n, k, ctx, bearer) EXCEPT !.id = u.id]]
  BY Zenon DEF Write
<1>u. PICK u : reqs' = [reqs EXCEPT ![Entry(c)] = [NewRequest(op, n, k, ctx, bearer) EXCEPT !.id = u.id]]
  BY <1>2, Zenon
<1>d. DOMAIN ctx = {"hdr", "meta", "hint"}
  BY DEF Settings
<1> DEFINE z == NewRequest(op, n, k, ctx, bearer)
           x == [z EXCEPT !.id = u.id]
<1>3. Whole(z) /\ z.pc = "new" /\ ~z.fwd /\ z.wait = {} /\ z.got = {} /\ z.before = {}
  <2>1. z = NewRequest(op, n, k, ctx, bearer)
    OBVIOUS
  <2> HIDE DEF z
  <2> QED BY <1>d, <2>1, NewFields
<1> HIDE DEF z
<1>4. Whole(x) /\ x.pc = "new" /\ ~x.fwd /\ x.wait = {} /\ x.got = {} /\ x.before = {}
  BY <1>3 DEF Whole, Fields
<1>5. reqs' = [reqs EXCEPT ![Entry(c)] = x]
  BY <1>u DEF z
<1> HIDE DEF x
<1> QED BY <1>1, <1>4, <1>5, SentInv

LEMMA DeleteInv == ASSUME Settings, IInv, NEW c \in Clients, Delete(c) PROVE IInv'
<1>1. (\A p \in Nodes : reqs[<<c, p>>] = Idle) /\ UNCHANGED <<store, home, acked>>
  BY DEF Delete, Free
<1>m. PICK op \in DeleteOps, n \in Nodes, k \in Keys,
           ctx \in {x \in Contexts : x.hint = NoHint}, match \in {0} \cup acked, bearer \in BOOLEAN :
         /\ match # 0 => op = "delete"
         /\ op = "prefix" => k = 1
         /\ reqs' = [reqs EXCEPT ![Entry(c)] =
                [NewRequest(op, n, k, ctx, bearer) EXCEPT !.match = match, !.before = acked]]
  BY Zenon DEF Delete
<1>d. DOMAIN ctx = {"hdr", "meta", "hint"}
  BY DEF Settings
<1> DEFINE z == NewRequest(op, n, k, ctx, bearer)
           x == [z EXCEPT !.match = match, !.before = acked]
<1>3. Whole(z) /\ z.pc = "new" /\ ~z.fwd /\ z.wait = {} /\ z.got = {}
  <2>1. z = NewRequest(op, n, k, ctx, bearer)
    OBVIOUS
  <2> HIDE DEF z
  <2> QED BY <1>d, <2>1, NewFields
<1> HIDE DEF z
<1>4. Whole(x) /\ x.pc = "new" /\ ~x.fwd /\ x.wait = {} /\ x.got = {} /\ x.before = acked
  BY <1>3 DEF Whole, Fields
<1>5. reqs' = [reqs EXCEPT ![Entry(c)] = x]
  BY <1>m DEF z
<1>6. x.before \subseteq 1..Len(home)
  BY <1>4 DEF IInv
<1> HIDE DEF x
<1> QED BY <1>1, <1>4, <1>5, <1>6, SentInv

LEMMA NextPageInv == ASSUME Settings, IInv, NEW c \in Clients, NextPage(c) PROVE IInv'
<1> DEFINE r == reqs[Entry(c)]
           z == NewRequest("prefix", r.node, r.key, NoContext, r.bearer)
           x == [z EXCEPT !.before = r.before, !.after = r.next]
<1>1. /\ r.pc = "done" /\ r.truncated /\ (\A p \in Nodes : reqs[<<c, p>>] = Idle)
      /\ UNCHANGED <<store, home, acked>> /\ reqs' = [reqs EXCEPT ![Entry(c)] = x]
  BY DEF NextPage
<1>2. SlotOK(home, r) /\ Whole(r) /\ r.node \in Nodes /\ r.key \in Keys
  BY <1>1, Here, IdleOrWhole DEF SlotOK, Whole
<1>3. Pages /\ r.before \subseteq 1..Len(home)
  BY <1>1, <1>2 DEF Whole, SlotOK
<1>4. Whole(z) /\ z.pc = "new" /\ ~z.fwd /\ z.wait = {} /\ z.got = {}
  BY <1>2 DEF NewRequest, NoContext, Whole, Fields
<1> HIDE DEF z
<1>5. Whole(x) /\ x.pc = "new" /\ ~x.fwd /\ x.wait = {} /\ x.got = {} /\ x.before = r.before
  BY <1>3, <1>4 DEF Whole, Fields
<1> HIDE DEF x
<1> QED BY <1>1, <1>3, <1>5, SentInv

LEMMA FinishInv == ASSUME Settings, IInv, NEW c \in Clients, Finish(c) PROVE IInv'
<1> DEFINE r == reqs[Entry(c)]
<1>1. /\ r.pc = "done" /\ UNCHANGED <<store, home>> /\ reqs' = [reqs EXCEPT ![Entry(c)] = Idle]
      /\ acked' = IF Writes(r.op) /\ r.res = "ok" THEN acked \cup {r.v} ELSE acked
  BY DEF Finish
<1>2. Writes(r.op) /\ r.res = "ok" => r.v \in 1..Len(home)
  BY <1>1, Here, IdleOrWhole DEF SlotOK, Kept
<1>3. Stays
  <2>1. acked' \subseteq 1..Len(home)
    BY <1>1, <1>2 DEF IInv
  <2> QED BY <1>1, <2>1 DEF Stays, Grows, IInv
<1>4. \A p \in Nodes : Serves(store', Idle, reqs[<<c, p>>], p)
  BY IdleServes
<1> QED BY <1>1, <1>3, <1>4, EntryStep

-----------------------------------------------------------------------------
(* The specification.                                                      *)

LEMMA GreatestNat ==
  ASSUME NEW N \in Nat, NEW T, T \subseteq 0..N, T # {}
  PROVE  Max(T) \in T
<1> DEFINE M == {i \in 0..N : N - i \in T}
<1>1. PICK t : t \in T
  OBVIOUS
<1>2. N - t \in M /\ M \subseteq Nat
  <2>1. t \in 0..N /\ N - (N - t) = t /\ N - t \in 0..N
    BY <1>1
  <2> QED BY <1>1, <2>1
<1> DEFINE R == OpToRel(<, Nat)
<1>3. IsWellFoundedOn(R, Nat)
  BY NatLessThanWellFounded
<1>4. \A a, b \in Nat : a < b => <<a, b>> \in R
  BY DEF OpToRel
<1>5. PICK m \in M : \A y \in M : ~ (<<y, m>> \in R)
  <2> HIDE DEF R, M
  <2> QED BY <1>2, <1>3, WFMin
<1>6. N - m \in T /\ \A y \in T : N - m >= y
  <2>1. m \in 0..N /\ N - m \in T
    OBVIOUS
  <2>2. ASSUME NEW y \in T PROVE N - m >= y
    <3>1. y \in 0..N /\ N - y \in 0..N /\ N - (N - y) = y
      OBVIOUS
    <3>2. N - y \in M
      BY <3>1
    <3>3. ~(N - y < m)
      <4> HIDE DEF R, M
      <4> QED BY <1>2, <1>4, <1>5, <3>1, <3>2
    <3> QED BY <2>1, <3>1, <3>3
  <2> QED BY <2>1, <2>2
<1> QED BY <1>6 DEF Max

LEMMA InitInv == ASSUME Settings, Init PROVE IInv
<1> DEFINE held(n, k) == {v \in DOMAIN Stock : Stock[v].node = n /\ Stock[v].key = k}
<1>1. PICK len \in Nat : DOMAIN Stock = 1..len
  <2>1. Len(Stock) \in Nat /\ DOMAIN Stock = 1..Len(Stock)
    BY DEF Settings
  <2> QED BY <2>1
<1>2. ASSUME NEW n, NEW k PROVE Max({0} \cup held(n, k)) \in Nat
  <2> DEFINE T == {0} \cup held(n, k)
  <2>1. T \subseteq 0..len /\ T # {}
    BY <1>1
  <2> HIDE DEF T
  <2>2. Max(T) \in T
    BY <1>1, <2>1, GreatestNat
  <2> QED BY <1>1, <2>1, <2>2 DEF T
<1>3. store \in [Nodes -> [Keys -> Nat]]
  <2>1. store = [n \in Nodes |-> [k \in Keys |-> Max({0} \cup held(n, k))]]
    BY DEF Init
  <2> HIDE DEF held
  <2>2. \A n \in Nodes : [k \in Keys |-> Max({0} \cup held(n, k))] \in [Keys -> Nat]
    BY <1>2
  <2> QED BY <2>1, <2>2
<1>4. home \in Seq(Homes) /\ Len(home) = len
  <2>1. home = [v \in 1..len |-> [node |-> Stock[v].node, class |-> Stock[v].class]]
    BY <1>1 DEF Init
  <2>2. \A v \in 1..len : Stock[v].node \in Nodes /\ Stock[v].class \in {Stock[w].class : w \in DOMAIN Stock}
    BY <1>1 DEF Settings
  <2>3. \A v \in 1..len : [node |-> Stock[v].node, class |-> Stock[v].class] \in Homes
    BY <2>2 DEF Homes
  <2>4. home \in [1..len -> Homes]
    BY <2>1, <2>3
  <2> QED BY <1>1, <2>4
<1>5. acked = 1..Len(home)
  BY <1>1, <1>4 DEF Init
<1>6. reqs = [s \in Slots |-> Idle]
  BY DEF Init
<1>7. ASSUME NEW c \in Clients, NEW p \in Nodes
      PROVE  Entry(c) \in Slots /\ <<c, p>> \in Slots /\ Serves(store, Idle, Idle, p)
  BY SlotsDiffer, IdleServes
<1>8. \A c \in Clients : Entry(c) \in Slots
  BY DEF Entry, Slots
<1> QED BY <1>3, <1>4, <1>5, <1>6, <1>7, <1>8 DEF IInv

LEMMA NextInv == ASSUME Settings, IInv, [Next]_vars PROVE IInv'
<1>1. CASE UNCHANGED vars
  BY <1>1 DEF vars, IInv
<1>2. ASSUME NEW s \in Slots,
             \/ PutObject(s) \/ InitMultipart(s) \/ UploadUnknown(s) \/ UploadPart(s)
             \/ CompleteMultipart(s) \/ AbortMultipart(s) \/ \E src \in Keys : CopyObject(s, src)
      PROVE  IInv'
  BY <1>2, WritesInv
<1>3. ASSUME NEW s \in Slots, RecordPlacement(s) \/ DeleteHere(s) \/ DeleteFanout(s) \/ DeleteLocalPart(s) \/ DeleteCombined(s)
      PROVE  IInv'
  BY <1>3, RecordInv, DeleteHereInv, FanoutInv, LocalPartInv, CombinedInv
<1>4. ASSUME NEW s \in Slots, DeleteObjectsByPrefix(s) \/ FanoutDeletePrefix(s) \/ DeleteObjectsBatch(s) \/ FanoutBatchDelete(s)
      PROVE  IInv'
  BY <1>4, PrefixInv, BatchInv, AskPeersInv
<1>5. ASSUME NEW c \in Clients, Write(c) \/ Delete(c) \/ NextPage(c) \/ Finish(c)
      PROVE  IInv'
  BY <1>5, WriteInv, DeleteInv, NextPageInv, FinishInv
<1>6. ASSUME NEW c \in Clients, NEW p \in Nodes, Reply(c, p) \/ CallFails(c, p)
      PROVE  IInv'
  BY <1>6, ReplyInv, CallFailsInv
<1> QED BY <1>1, <1>2, <1>3, <1>4, <1>5, <1>6 DEF Next

LEMMA Placements == ASSUME Settings, IInv PROVE PlacedAsResolved
BY Here, IdleOrWhole DEF PlacedAsResolved, SlotOK, Kept

LEMMA Deletions == ASSUME Settings, IInv PROVE DeletedEverywhere
<1> SUFFICES ASSUME NEW c \in Clients, NEW r, r = reqs[Entry(c)],
                    r.pc = "done", r.op = "delete", r.res = "ok", r.match = 0, Forwards(r), NEW n \in Nodes
             PROVE  store[n][r.key] \notin r.before
  BY DEF DeletedEverywhere
<1>1. EntryOK(store, r)
  BY Here, IdleOrWhole
<1>2. Gone(store, r, n)
  BY <1>1 DEF EntryOK, Vouched
<1> QED BY <1>2 DEF Gone, Named

(* A bulk delete that was answered on its first page, with no failure and  *)
(* nothing left, has removed on every node all that the request names and  *)
(* that had been acknowledged before it.                                   *)
FirstPageComplete == \A c \in Clients :
    LET r == reqs[Entry(c)]
        named == IF r.op = "prefix" THEN Keys ELSE {r.key}
    IN  r.pc = "done" /\ r.op \in {"prefix", "batch"} /\ ~r.failed /\ ~r.truncated /\ r.after = 0 =>
            \A n \in Nodes, k \in named : store[n][k] \notin r.before

LEMMA FirstPages == ASSUME Settings, IInv PROVE FirstPageComplete
<1> SUFFICES ASSUME NEW c \in Clients, NEW r, r = reqs[Entry(c)],
                    r.pc = "done", r.op \in Bulk, ~r.failed, ~r.truncated, r.after = 0, NEW n \in Nodes
             PROVE  \A k \in Named(r) : store[n][k] \notin r.before
  BY DEF FirstPageComplete, Bulk, Named
<1>1. EntryOK(store, r)
  BY Here, IdleOrWhole
<1> QED BY <1>1 DEF EntryOK, Vouched, Gone

(* Where one page takes all keys, every answer is a first page's.          *)
LEMMA BulkDeletions == ASSUME Settings, IInv, ~Pages PROVE BulkDeleteComplete
<1>1. \A c \in Clients : reqs[Entry(c)].pc = "done" => reqs[Entry(c)].after = 0
  BY Here, IdleOrWhole DEF SlotOK, Whole
<1> QED BY <1>1, FirstPages DEF BulkDeleteComplete, FirstPageComplete

LEMMA Invariance == ASSUME Settings PROVE Spec => []IInv
<1>1. Init => IInv
  BY InitInv
<1>2. IInv /\ [Next]_vars => IInv'
  BY NextInv
<1> QED BY <1>1, <1>2, PTL DEF Spec

(* A write answered with success is stored under the class the node that   *)
(* was asked resolved, on a node that keeps it: the class header sent      *)
(* along (apply_placement_headers) outranks the peer's own rules.          *)
THEOREM WritesPlaced == ASSUME Settings PROVE Spec => []PlacedAsResolved
BY Placements, Invariance, PTL

(* A delete fanned out to all nodes that reports success has reached every *)
(* node, whatever failed, ran late or was written meanwhile                *)
(* (combine_delete_results).                                               *)
THEOREM DeletesReachAll == ASSUME Settings PROVE Spec => []DeletedEverywhere
BY Deletions, Invariance, PTL

(* A bulk delete reported complete on its first page is, with pages of any *)
(* size: a peer that failed or has more to delete is never left out        *)
(* (merge_delete_outcome).                                                 *)
THEOREM FirstPagesComplete == ASSUME Settings PROVE Spec => []FirstPageComplete
BY FirstPages, Invariance, PTL

(* A bulk delete reported complete is, where one page takes every key of   *)
(* the prefix on each node.                                                *)
THEOREM BulkDeletesComplete == ASSUME Settings, ~Pages PROVE Spec => []BulkDeleteComplete
BY BulkDeletions, Invariance, PTL

=============================================================================
