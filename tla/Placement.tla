----------------------------- MODULE Placement -----------------------------
(***************************************************************************)
(* Assigned placement: which node of a cluster keeps an object, and how a  *)
(* request sent to another node reaches it (cluster/assigned.rs,           *)
(* cluster/assignment.rs, cluster/forward.rs and the multipart routes).    *)
(*                                                                         *)
(* A request occupies a slot <<c, "client">> where a client c sent it, or  *)
(* <<c, p>> on the peer p it was forwarded to.  A forwarded request runs   *)
(* the same handlers, marked by the x-nd-forwarded header.  The engine of  *)
(* a node is one atomic step per object (its inside is ObjectStore's       *)
(* subject); what interleaves are handlers, forwarded calls and answers.   *)
(***************************************************************************)
EXTENDS Integers, Sequences, FiniteSets, FiniteSetsExt

CONSTANTS
    Nodes,          \* node ids; every node lists every other as a peer
    Writers,        \* clients that write, each with one request at a time
    Deleters,       \* clients that delete
    NumKeys,        \* keys are 1 .. NumKeys, in key order
    DotKeys,        \* keys with a `.` segment, which no URL can name
    NoClass,        \* no class header / no custom-meta class
    NoNode,         \* a rule without assigned_node
    DefaultClass,   \* NOS_DEFAULT_STORAGE_CLASS
    ClassesOf,      \* node -> NOS_STORAGE_CLASSES
    Rules,          \* node -> sequence of [class, keys, hints, node]
    WriteOps,       \* kinds of request the writers send
    DeleteOps,      \* kinds of request the deleters send
    Contexts,       \* the WriteContexts clients send: [hdr, meta, hint]
    Forwarders,     \* nodes with NOS_ASSIGNMENT_FORWARD
    BatchLimit,     \* objects one prefix delete removes per node
    Stock,          \* objects written before: sequence of [node, key, class]
    MaxWrites,      \* bound: objects written
    MaxUploads,     \* bound: multipart uploads open at once
    MaxDeletes      \* bound: delete requests (pages included)

VARIABLES
    store,    \* node -> key -> version held, 0 for none
    placed,   \* node -> key -> storage_class column of the row
    sess,     \* open multipart uploads, as [id, node, key]
    reqs,     \* slot -> request
    home,     \* version -> [node, class] it was committed with, in order
    acked,    \* versions whose write was answered with success
    dels      \* delete requests made

vars == <<store, placed, sess, reqs, home, acked, dels>>

Keys == 1 .. NumKeys
Clients == Writers \cup Deleters
Slots == Clients \X (Nodes \cup {"client"})
Idle == [pc |-> "idle"]
NoHint == "none"
NoContext == [hdr |-> NoClass, meta |-> NoClass, hint |-> NoHint]

(* The slot a request was forwarded from is its client's own slot: a       *)
(* forwarded request is never forwarded again (Forwards).                  *)
Entry(c) == <<c, "client">>
Peers(n) == Nodes \ {n}

-----------------------------------------------------------------------------
(* Resolution of a request's class and node.                               *)

Matches(rule, k, ctx) == k \in rule.keys /\ ctx.hint \in rule.hints

\* Header, then custom metadata, then the first matching rule, then default.
ResolveClass(n, k, ctx) ==
    LET hits == {i \in DOMAIN Rules[n] : Matches(Rules[n][i], k, ctx)}
    IN  IF ctx.hdr # NoClass THEN ctx.hdr
        ELSE IF ctx.meta # NoClass THEN ctx.meta
        ELSE IF hits # {} THEN Rules[n][Min(hits)].class
        ELSE DefaultClass

\* The nodes assigned_node_hint may answer with: the node of the first rule
\* for the class, else whichever other peer the map yields first.
AssignedNodes(n, class) ==
    LET of == {i \in DOMAIN Rules[n] : Rules[n][i].class = class}
        named == IF of = {} THEN NoNode ELSE Rules[n][Min(of)].node
    IN  IF named # NoNode THEN {named} ELSE Peers(n)

ClassOf(r) == ResolveClass(r.node, r.key, r.ctx)
AcceptLocal(r) == ClassOf(r) \in ClassesOf[r.node]
Forwards(r) == r.node \in Forwarders /\ ~r.fwd /\ r.bearer

-----------------------------------------------------------------------------
(* Requests.                                                               *)

NewRequest(op, n, k, ctx, bearer) ==
    [pc |-> "new", op |-> op, node |-> n, key |-> k, ctx |-> ctx,
     bearer |-> bearer, fwd |-> FALSE, res |-> "none", v |-> 0,
     want |-> NoClass, match |-> 0, id |-> 0, wait |-> {}, got |-> {},
     failed |-> FALSE, truncated |-> FALSE, next |-> 0, after |-> 0,
     before |-> {}]

\* An answered request keeps nothing of how it was handled.
Done(r, res) == [r EXCEPT !.pc = "done", !.res = res, !.ctx = NoContext, !.wait = {}, !.got = {}]
Answer(s, r, res) == reqs' = [reqs EXCEPT ![s] = Done(r, res)]

At(s, ops) == reqs[s].pc = "new" /\ reqs[s].op \in ops

\* Mutant of Placed: leaves the class header out of the forwarded request.
PlacedWithoutClass(r, p, ctx) ==
    [NewRequest(r.op, p, r.key, ctx, r.bearer) EXCEPT !.fwd = TRUE, !.id = r.id, !.v = r.v]

\* apply_placement_headers: the peer sees the class resolved here as the
\* class header, and the mark that stops it from forwarding again.
Placed(r, p, ctx) ==
    [NewRequest(r.op, p, r.key, [ctx EXCEPT !.hdr = ClassOf(r)], r.bearer)
        EXCEPT !.fwd = TRUE, !.id = r.id, !.v = r.v]

\* The request goes to the assigned node, or fails before it leaves.
\* `ctx` is what of the caller's context the proxied request still carries.
ProxyTo(s, r, ctx, sendable) ==
    \E p \in AssignedNodes(r.node, ClassOf(r)) :
        IF p \notin Nodes THEN Answer(s, r, "error")
        ELSE IF ~sendable THEN Answer(s, r, "bad_request")
        ELSE /\ reqs[<<s[1], p>>] = Idle
             /\ reqs' = [reqs EXCEPT
                    ![s] = [r EXCEPT !.pc = "waiting", !.wait = {p}, !.want = ClassOf(r),
                                     !.ctx = NoContext],
                    ![<<s[1], p>>] = Placed(r, p, ctx)]

\* A request this node does not take: passed on once, or refused with 409.
NotLocal(s, r, ctx, sendable) ==
    /\ ~AcceptLocal(r)
    /\ IF Forwards(r) THEN ProxyTo(s, r, ctx, sendable) ELSE Answer(s, r, "not_assigned")

HasPath(k) == k \notin DotKeys
ProxyPut(s, r) == NotLocal(s, r, r.ctx, HasPath(r.key))
ProxyCopy(s, r) == NotLocal(s, r, [r.ctx EXCEPT !.hint = NoHint, !.meta = NoClass], HasPath(r.key))
ProxyInitMultipart(s, r) == NotLocal(s, r, [r.ctx EXCEPT !.meta = NoClass], TRUE)
ProxyUploadPart(s, r) == NotLocal(s, r, [r.ctx EXCEPT !.hint = NoHint, !.meta = NoClass], TRUE)
ProxyCompleteMultipart(s, r) == NotLocal(s, r, [r.ctx EXCEPT !.hint = NoHint], TRUE)

\* The engine commits the object; its class is recorded by a later step.
CommitLocal(s, r) ==
    LET v == Len(home) + 1
    IN  /\ Len(home) < MaxWrites
        /\ store' = [store EXCEPT ![r.node][r.key] = v]
        /\ home' = Append(home, [node |-> r.node, class |-> ClassOf(r)])
        /\ reqs' = [reqs EXCEPT ![s] = [r EXCEPT !.pc = "committed", !.v = v,
                        !.want = ClassOf(r), !.ctx = NoContext]]

RecordPlacement(s) ==
    LET r == reqs[s]
    IN  /\ r.pc = "committed"
        /\ placed' = IF store[r.node][r.key] = 0 THEN placed
                     ELSE [placed EXCEPT ![r.node][r.key] = r.want]
        /\ Answer(s, r, "ok")
        /\ UNCHANGED <<store, sess, home, acked, dels>>

PutObject(s) ==
    LET r == reqs[s]
    IN  /\ At(s, {"put"})
        /\ \/ AcceptLocal(r) /\ CommitLocal(s, r)
           \/ ProxyPut(s, r) /\ UNCHANGED <<store, home>>
        /\ UNCHANGED <<placed, sess, acked, dels>>

\* The source is looked up on the node that takes the copy.
CopyObject(s, src) ==
    LET r == reqs[s]
    IN  /\ At(s, {"copy"})
        /\ \/ AcceptLocal(r) /\ store[r.node][src] # 0 /\ CommitLocal(s, r)
           \/ /\ AcceptLocal(r) /\ store[r.node][src] = 0
              /\ Answer(s, r, "not_found") /\ UNCHANGED <<store, home>>
           \/ ProxyCopy(s, r) /\ UNCHANGED <<store, home>>
        /\ UNCHANGED <<placed, sess, acked, dels>>

InitMultipart(s) ==
    LET r == reqs[s]
        u == Min({i \in 1 .. MaxUploads + Cardinality(Slots) :
                    \A x \in sess : x.id # i /\ \A t \in Slots : reqs[t] = Idle \/ reqs[t].id # i})
    IN  /\ At(s, {"init"})
        /\ \/ /\ AcceptLocal(r) /\ Cardinality(sess) < MaxUploads
              /\ sess' = sess \cup {[id |-> u, node |-> r.node, key |-> r.key]}
              /\ Answer(s, [r EXCEPT !.id = u], "ok")
           \/ ProxyInitMultipart(s, r) /\ UNCHANGED sess
        /\ UNCHANGED <<store, placed, home, acked, dels>>

\* multipart_key_for_upload: the routes look the upload up on the node they
\* run on, before they resolve or forward anything.
KnownUpload(r) == \E u \in sess : u.id = r.id /\ u.node = r.node /\ u.key = r.key

UploadUnknown(s) ==
    /\ At(s, {"part", "complete", "abort"})
    /\ ~KnownUpload(reqs[s])
    /\ Answer(s, reqs[s], "not_found")
    /\ UNCHANGED <<store, placed, sess, home, acked, dels>>

UploadPart(s) ==
    LET r == reqs[s]
    IN  /\ At(s, {"part"}) /\ KnownUpload(r)
        /\ \/ AcceptLocal(r) /\ Answer(s, r, "ok")
           \/ ProxyUploadPart(s, r)
        /\ UNCHANGED <<store, placed, sess, home, acked, dels>>

CompleteMultipart(s) ==
    LET r == reqs[s]
    IN  /\ At(s, {"complete"}) /\ KnownUpload(r)
        /\ \/ AcceptLocal(r) /\ CommitLocal(s, r)
              /\ sess' = {u \in sess : u.id # r.id}
           \/ ProxyCompleteMultipart(s, r) /\ UNCHANGED <<store, home, sess>>
        /\ UNCHANGED <<placed, acked, dels>>

AbortMultipart(s) ==
    LET r == reqs[s]
    IN  /\ At(s, {"abort"}) /\ KnownUpload(r)
        /\ sess' = {u \in sess : u.id # r.id}
        /\ Answer(s, r, "ok")
        /\ UNCHANGED <<store, placed, home, acked, dels>>

-----------------------------------------------------------------------------
(* Deletes.                                                                *)

\* The engine's answer to a delete of one key on one node.
DeleteResult(n, k, match) ==
    IF match # 0 /\ store[n][k] # match THEN "precondition" ELSE "ok"

DeleteAt(n, k, match) ==
    store' = IF DeleteResult(n, k, match) = "ok" THEN [store EXCEPT ![n][k] = 0] ELSE store

\* Not fanned out: a request another node forwarded, or one this node may
\* not pass on; the latter must be placed here.
DeleteHere(s) ==
    LET r == reqs[s]
    IN  /\ At(s, {"delete"})
        /\ ~Forwards(r)
        /\ IF r.fwd \/ AcceptLocal(r)
           THEN /\ DeleteAt(r.node, r.key, r.match)
                /\ Answer(s, r, DeleteResult(r.node, r.key, r.match))
           ELSE Answer(s, r, "not_assigned") /\ UNCHANGED store
        /\ UNCHANGED <<placed, sess, home, acked, dels>>

\* Every peer deletes its own copy; only the If-Match goes along.
ProxyDeleteObject(r, p) ==
    [NewRequest("delete", p, r.key, NoContext, r.bearer) EXCEPT !.fwd = TRUE, !.match = r.match]

\* Sent to every node, in parallel with the local delete.
DeleteFanout(s) ==
    LET r == reqs[s]
        c == s[1]
    IN  /\ At(s, {"delete"})
        /\ Forwards(r)
        /\ IF r.key \in DotKeys THEN Answer(s, r, "bad_request")
           ELSE /\ \A p \in Peers(r.node) : reqs[<<c, p>>] = Idle
                /\ reqs' = [t \in Slots |->
                     IF t = s THEN [r EXCEPT !.pc = "fanout", !.wait = Nodes, !.ctx = NoContext]
                     ELSE IF t[1] = c /\ t[2] \in Peers(r.node)
                     THEN ProxyDeleteObject(r, t[2])
                     ELSE reqs[t]]
        /\ UNCHANGED <<store, placed, sess, home, acked, dels>>

DeleteLocalPart(s) ==
    LET r == reqs[s]
    IN  /\ r.pc = "fanout" /\ r.node \in r.wait
        /\ DeleteAt(r.node, r.key, r.match)
        /\ reqs' = [reqs EXCEPT ![s].wait = @ \ {r.node},
                        ![s].got = @ \cup {DeleteResult(r.node, r.key, r.match)}]
        /\ UNCHANGED <<placed, sess, home, acked, dels>>

\* Mutant of CombineDeleteResults: takes any node's success for the delete's.
CombineAnyOk(conditional, got) ==
    IF "ok" \in got THEN "ok" ELSE IF "precondition" \in got THEN "precondition" ELSE "error"

\* One answer out of all of them: conditional and deleted somewhere, else
\* the first failure, else 412 if any node said so.
CombineDeleteResults(conditional, got) ==
    IF conditional /\ "ok" \in got THEN "ok"
    ELSE IF got \ {"ok", "precondition"} # {} THEN "error"
    ELSE IF "precondition" \in got THEN "precondition"
    ELSE "ok"

DeleteCombined(s) ==
    LET r == reqs[s]
    IN  /\ r.pc = "fanout" /\ r.wait = {}
        /\ Answer(s, r, CombineDeleteResults(r.match # 0, r.got))
        /\ UNCHANGED <<store, placed, sess, home, acked, dels>>

\* The rows of a prefix after the cursor, and the first BatchLimit of them.
ListActiveRows(n, after) == {k \in Keys : k > after /\ store[n][k] # 0}
Page(n, after) ==
    LET rows == ListActiveRows(n, after)
    IN  {k \in rows : Cardinality({j \in rows : j <= k}) <= BatchLimit}

\* delete_objects_internal: a metadata failure reports its keys and deletes
\* nothing.
DeleteObjectsInternal(n, keys, ok) ==
    /\ ok \/ keys # {}
    /\ store' = IF ok THEN [store EXCEPT ![n] = [k \in Keys |-> IF k \in keys THEN 0 ELSE @[k]]]
                ELSE store

\* What follows the local half: nothing for a forwarded request; without a
\* bearer token every peer counts as failed; else the peers are asked.
ThenPeers(o) ==
    IF o.fwd THEN Done(o, "ok")
    ELSE IF ~o.bearer THEN Done([o EXCEPT !.failed = @ \/ Peers(o.node) # {}], "ok")
    ELSE [o EXCEPT !.pc = "bulk", !.wait = Peers(o.node)]

DeleteObjectsByPrefix(s) ==
    LET r == reqs[s]
        keys == Page(r.node, r.after)
        more == ListActiveRows(r.node, r.after) # keys
        next == IF more THEN Max(keys) ELSE 0
    IN  /\ At(s, {"prefix"})
        /\ \E ok \in BOOLEAN :
             /\ DeleteObjectsInternal(r.node, keys, ok)
             /\ reqs' = [reqs EXCEPT ![s] =
                    ThenPeers([r EXCEPT !.truncated = more, !.next = next, !.failed = ~ok])]
        /\ UNCHANGED <<placed, sess, home, acked, dels>>

\* The keys the request names; one key stands for the list.
DeleteObjectsBatch(s) ==
    LET r == reqs[s]
    IN  /\ At(s, {"batch"})
        /\ \E ok \in BOOLEAN :
             /\ DeleteObjectsInternal(r.node, {k \in {r.key} : store[r.node][k] # 0}, ok)
             /\ reqs' = [reqs EXCEPT ![s] = ThenPeers([r EXCEPT !.failed = ~ok])]
        /\ UNCHANGED <<placed, sess, home, acked, dels>>

\* The peers are asked one after the other, each with its own request.
AskNext(s, r, proxied) ==
    IF r.wait = {} THEN Answer(s, r, "ok")
    ELSE \E p \in r.wait :
           /\ reqs[<<s[1], p>>] = Idle
           /\ reqs' = [reqs EXCEPT
                 ![s] = [r EXCEPT !.pc = "asking", !.wait = @ \ {p}, !.got = {p}],
                 ![<<s[1], p>>] = proxied[p]]

ProxyDeletePrefix(r, p) ==
    [NewRequest("prefix", p, r.key, NoContext, r.bearer) EXCEPT !.fwd = TRUE, !.after = r.after]
ProxyBatchDelete(r, p) ==
    [NewRequest("batch", p, r.key, NoContext, r.bearer) EXCEPT !.fwd = TRUE]

FanoutDeletePrefix(s) ==
    /\ reqs[s].pc = "bulk" /\ reqs[s].op = "prefix"
    /\ AskNext(s, reqs[s], [p \in reqs[s].wait |-> ProxyDeletePrefix(reqs[s], p)])
    /\ UNCHANGED <<store, placed, sess, home, acked, dels>>

FanoutBatchDelete(s) ==
    /\ reqs[s].pc = "bulk" /\ reqs[s].op = "batch"
    /\ AskNext(s, reqs[s], [p \in reqs[s].wait |-> ProxyBatchDelete(reqs[s], p)])
    /\ UNCHANGED <<store, placed, sess, home, acked, dels>>

\* merge_delete_outcome: failures and truncation add up; the first cursor wins.
MergeDeleteOutcome(r, o) ==
    [r EXCEPT !.failed = @ \/ o.failed, !.truncated = @ \/ o.truncated,
              !.next = IF @ # 0 THEN @ ELSE o.next]

-----------------------------------------------------------------------------
(* Answers of peers, and calls that fail.                                  *)

\* map_forward_status, peer_error: the peer's refusal is this node's.
PeerAnswered(r, o, p) ==
    CASE r.pc = "waiting" -> Done([r EXCEPT !.v = o.v, !.id = o.id], o.res)
      [] r.pc = "fanout"  -> [r EXCEPT !.wait = @ \ {p}, !.got = @ \cup {o.res}]
      [] r.pc = "asking"  -> [MergeDeleteOutcome(r, o) EXCEPT !.pc = "bulk", !.got = {}]

\* Mutant of PeerFailed: a peer that could not be asked is left out of the outcome.
PeerFailedQuietly(r, p) ==
    CASE r.pc = "waiting" -> Done(r, "error")
      [] r.pc = "fanout"  -> [r EXCEPT !.wait = @ \ {p}, !.got = @ \cup {"error"}]
      [] r.pc = "asking"  -> [r EXCEPT !.pc = "bulk", !.got = {}]

PeerFailed(r, p) ==
    CASE r.pc = "waiting" -> Done(r, "error")
      [] r.pc = "fanout"  -> [r EXCEPT !.wait = @ \ {p}, !.got = @ \cup {"error"}]
      [] r.pc = "asking"  -> [r EXCEPT !.pc = "bulk", !.got = {}, !.failed = TRUE]

Waits(r, p) == \/ r.pc \in {"waiting", "fanout"} /\ p \in r.wait
               \/ r.pc = "asking" /\ p \in r.got

Reply(c, p) ==
    /\ reqs[<<c, p>>].pc = "done"
    /\ reqs' = [reqs EXCEPT ![<<c, p>>] = Idle,
            ![Entry(c)] = IF Waits(@, p) THEN PeerAnswered(@, reqs[<<c, p>>], p) ELSE @]
    /\ UNCHANGED <<store, placed, sess, home, acked, dels>>

\* The call fails here: never sent, or still running on the peer.
CallFails(c, p) ==
    /\ reqs[<<c, p>>].pc # "idle" /\ Waits(reqs[Entry(c)], p)
    /\ \E kept \in BOOLEAN :
         /\ kept \/ reqs[<<c, p>>].pc = "new"
         /\ reqs' = [reqs EXCEPT ![Entry(c)] = PeerFailed(@, p),
                        ![<<c, p>>] = IF kept THEN @ ELSE Idle]
    /\ UNCHANGED <<store, placed, sess, home, acked, dels>>

-----------------------------------------------------------------------------
(* Clients.                                                                *)

Free(c) == \A n \in Nodes \cup {"client"} : reqs[<<c, n>>] = Idle

\* Part, complete and abort name an upload and carry no content hint.
Write(c) ==
    /\ Free(c) /\ Len(home) < MaxWrites
    /\ \E op \in WriteOps, n \in Nodes, k \in Keys, ctx \in Contexts, bearer \in BOOLEAN :
         /\ op \in {"part", "complete", "abort"} => ctx.hint = NoHint
         /\ \E u \in IF op \in {"part", "complete", "abort"} THEN sess
                     ELSE {[id |-> 0, node |-> n, key |-> k]} :
              /\ u.key = k
              /\ reqs' = [reqs EXCEPT ![Entry(c)] =
                    [NewRequest(op, n, k, ctx, bearer) EXCEPT !.id = u.id]]
    /\ UNCHANGED <<store, placed, sess, home, acked, dels>>

Delete(c) ==
    /\ Free(c) /\ dels < MaxDeletes /\ dels' = dels + 1
    /\ \E op \in DeleteOps, n \in Nodes, k \in Keys,
          ctx \in {x \in Contexts : x.hint = NoHint}, match \in {0} \cup acked, bearer \in BOOLEAN :
         /\ match # 0 => op = "delete"
         /\ op = "prefix" => k = 1
         /\ reqs' = [reqs EXCEPT ![Entry(c)] =
                [NewRequest(op, n, k, ctx, bearer) EXCEPT !.match = match, !.before = acked]]
    /\ UNCHANGED <<store, placed, sess, home, acked>>

\* A truncated answer without failures: the client continues at its cursor.
NextPage(c) ==
    LET r == reqs[Entry(c)]
    IN  /\ r.pc = "done" /\ r.op = "prefix" /\ r.truncated /\ ~r.failed
        /\ \A n \in Nodes : reqs[<<c, n>>] = Idle
        /\ dels < MaxDeletes /\ dels' = dels + 1
        /\ reqs' = [reqs EXCEPT ![Entry(c)] =
              [NewRequest("prefix", r.node, r.key, NoContext, r.bearer)
                  EXCEPT !.before = r.before, !.after = r.next]]
        /\ UNCHANGED <<store, placed, sess, home, acked>>

Writes(op) == op \in {"put", "copy", "complete"}

Finish(c) ==
    LET r == reqs[Entry(c)]
    IN  /\ r.pc = "done"
        /\ acked' = IF Writes(r.op) /\ r.res = "ok" THEN acked \cup {r.v} ELSE acked
        /\ reqs' = [reqs EXCEPT ![Entry(c)] = Idle]
        /\ UNCHANGED <<store, placed, sess, home, dels>>

Init ==
    LET held(n, k) == {v \in DOMAIN Stock : Stock[v].node = n /\ Stock[v].key = k}
    IN  /\ store = [n \in Nodes |-> [k \in Keys |-> Max({0} \cup held(n, k))]]
        /\ placed = [n \in Nodes |-> [k \in Keys |->
                IF held(n, k) = {} THEN NoClass ELSE Stock[Max(held(n, k))].class]]
        /\ home = [v \in DOMAIN Stock |-> [node |-> Stock[v].node, class |-> Stock[v].class]]
        /\ acked = DOMAIN Stock
        /\ sess = {} /\ dels = 0
        /\ reqs = [s \in Slots |-> Idle]

Next ==
    \/ \E s \in Slots :
          \/ PutObject(s) \/ InitMultipart(s) \/ UploadUnknown(s) \/ UploadPart(s)
          \/ CompleteMultipart(s) \/ AbortMultipart(s) \/ RecordPlacement(s)
          \/ DeleteHere(s) \/ DeleteFanout(s) \/ DeleteLocalPart(s) \/ DeleteCombined(s)
          \/ DeleteObjectsByPrefix(s) \/ FanoutDeletePrefix(s)
          \/ DeleteObjectsBatch(s) \/ FanoutBatchDelete(s)
          \/ \E src \in Keys : CopyObject(s, src)
    \/ \E c \in Clients :
          \/ c \in Writers /\ Write(c)
          \/ c \in Deleters /\ (Delete(c) \/ NextPage(c))
          \/ Finish(c)
          \/ \E p \in Nodes : Reply(c, p) \/ CallFails(c, p)

Spec == Init /\ [][Next]_vars

-----------------------------------------------------------------------------
(* Properties.                                                             *)

(* A write answered with success is stored under the class that the node   *)
(* the client asked resolved, on a node that keeps that class, even when   *)
(* that node's own rules would have chosen another (the class header of a  *)
(* forwarded request wins).                                                *)
PlacedAsResolved == \A c \in Clients :
    LET r == reqs[Entry(c)]
    IN  r.pc = "done" /\ Writes(r.op) /\ r.res = "ok" =>
            home[r.v].class = r.want /\ r.want \in ClassesOf[home[r.v].node]

(* When a delete fanned out to all nodes reports success, no node still    *)
(* holds a version that had been acknowledged before the delete was sent,  *)
(* whichever node hints had placed it on and whichever calls failed.       *)
DeletedEverywhere == \A c \in Clients :
    LET r == reqs[Entry(c)]
    IN  r.pc = "done" /\ r.op = "delete" /\ r.res = "ok" /\ r.match = 0 /\ Forwards(r) =>
            \A n \in Nodes : store[n][r.key] \notin r.before

(* A bulk delete (the last page of it) that reports no failure and nothing *)
(* left has removed every object the request names that was acknowledged   *)
(* before it, on every node: a node that could not be asked is listed as   *)
(* failed, never left out.                                                 *)
BulkDeleteComplete == \A c \in Clients :
    LET r == reqs[Entry(c)]
        named == IF r.op = "prefix" THEN Keys ELSE {r.key}
    IN  r.pc = "done" /\ r.op \in {"prefix", "batch"} /\ ~r.failed /\ ~r.truncated =>
            \A n \in Nodes, k \in named : store[n][k] \notin r.before

=============================================================================
