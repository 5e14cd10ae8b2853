---------------------------- MODULE Replication ----------------------------
(***************************************************************************)
(* Asynchronous replication of objects between nodes that all may accept    *)
(* writes: a change made on a node is versioned and queued under the key's  *)
(* write lock, a worker pushes queued events to peers until the replication *)
(* factor is met, and a peer applies an event only when it is newer than    *)
(* what it has.  Pushes are lost, delayed and repeated; nodes crash; events *)
(* are dead-lettered and replayed; finished history is pruned; objects      *)
(* missing on a node are restored from a peer; old objects are backfilled.  *)
(*                                                                          *)
(* An object is its content (the etag is the digest of the content) or      *)
(* None: that the row and the bytes of an object are one thing to everyone  *)
(* who does not hold its lock is what ObjectStore shows.  Node ids are      *)
(* numbers because versions made at the same time are ordered by node id.   *)
(***************************************************************************)
EXTENDS Naturals, FiniteSets

CONSTANTS
    Nodes,        \* the cluster, every node a peer of every other
    Writers,      \* the nodes that are not read-only replicas
    Keys,
    Contents,
    Stored,       \* content stored on all nodes before versions existed, or None
    Factor,       \* NOS_REPLICATION_FACTOR
    MaxAttempts,  \* NOS_REPLICATION_MAX_ATTEMPTS
    Ops,          \* the kinds of operation a run exercises
    Faults,       \* the kinds of failure that may happen
    Ids,          \* event ids, an initial segment of the positive numbers
    MaxTime,      \* bound: clock readings are in 1 .. MaxTime
    MaxFaults,    \* bound: how many failures happen
    MaxCrashes,   \* bound: how many times a process dies
    None

OpKinds == {"put", "delete", "heal", "backfill", "replay", "prune"}
FaultKinds == {"push", "apply", "record"}
Times == 1 .. MaxTime
ContentOrNone == Contents \cup {None}
Versions == [at : Times, origin : Nodes]
KeyVersions == [at : Times, origin : Nodes, deleted : BOOLEAN]
\* A replicated change; a delete has no etag.
Events == [origin : Nodes, key : Keys, etag : ContentOrNone, at : Times]
Statuses == {"pending", "failed", "dead_letter", "sent", "superseded"}
Stages == {"sent", "open", "checked", "committed", "ok", "err"}
\* A push on its way: what it carries, how far the peer's handler is with it,
\* and whether the sender still waits for the answer.
Messages == [id : Ids, to : Nodes, content : ContentOrNone, stage : Stages, live : BOOLEAN]
Pushes == [to : Nodes \cup {None}, tried : SUBSET Nodes]
Heals == [key : Keys, from : Nodes, content : Contents, version : Versions \cup {None},
          stage : {"opened", "versioned", "fetched", "committed"}]
Scans == [key : Keys, etag : Contents, at : Times]

ASSUME ConstantsAssumption ==
    /\ Nodes \subseteq Nat
    /\ Writers \subseteq Nodes
    /\ Stored \in ContentOrNone
    /\ Factor \in Nat
    /\ MaxAttempts \in Nat
    /\ Ops \subseteq OpKinds
    /\ Faults \subseteq FaultKinds
    /\ Ids \subseteq Nat \ {0}
    /\ MaxTime \in Nat
    /\ MaxFaults \in Nat
    /\ MaxCrashes \in Nat

ASSUME NoneAssumption ==
    None \notin Contents \cup Nodes \cup Versions \cup KeyVersions \cup Events \cup Statuses
                \cup Pushes \cup Heals \cup Scans

VARIABLES
    obj,        \* Nodes -> Keys -> content of the object
    ver,        \* Nodes -> Keys -> row of replication_versions
    hold,       \* Nodes -> Keys -> who holds the key's write lock
    events,     \* Ids -> the event of that id, once made
    status,     \* Ids -> status of the event's row on its origin
    attempts,   \* Ids -> its attempts column
    delivered,  \* Ids -> its delivered_to column
    applied,    \* Nodes -> ids of the node's rows with status applied
    push,       \* Ids -> the worker's delivery in progress
    net,        \* pushes on their way
    heal,       \* Nodes -> the restore from a peer in progress
    scan,       \* Nodes -> the row a backfill has read
    floor,      \* Keys -> how far every clock is, at least, since a prune
    newest,     \* history: Nodes -> Keys -> the newest version ever recorded
    faults, crashes

objects == <<obj, ver, hold, newest>>
log == <<events, status, attempts, delivered>>
traffic == <<push, net>>
repair == <<heal, scan>>
counters == <<faults, crashes>>
vars == <<objects, log, applied, traffic, repair, floor, counters>>

\* Ord for Version: time first, then node id.
Less(v, w) == v.at < w.at \/ (v.at = w.at /\ v.origin < w.origin)
AtLeast(v, w) == ~ Less(v, w)
EventVersion(e) == [at |-> e.at, origin |-> e.origin]
Version(i) == EventVersion(events[i])
Key(i) == events[i].key
Peers(n) == Nodes \ {n}
Needed == IF Factor = 0 THEN 0 ELSE Factor - 1

Fault(kind) == kind \in Faults /\ faults < MaxFaults /\ faults' = faults + 1

Init ==
    /\ obj = [n \in Nodes |-> [k \in Keys |-> Stored]]
    /\ ver = [n \in Nodes |-> [k \in Keys |-> None]]
    /\ hold = [n \in Nodes |-> [k \in Keys |-> "free"]]
    /\ events = [i \in Ids |-> None]
    /\ status = [i \in Ids |-> None]
    /\ attempts = [i \in Ids |-> 0]
    /\ delivered = [i \in Ids |-> {}]
    /\ applied = [n \in Nodes |-> {}]
    /\ push = [i \in Ids |-> None]
    /\ net = {}
    /\ heal = [n \in Nodes |-> None]
    /\ scan = [n \in Nodes |-> None]
    /\ floor = [k \in Keys |-> 0]
    /\ newest = [n \in Nodes |-> [k \in Keys |-> None]]
    /\ faults = 0
    /\ crashes = 0

-----------------------------------------------------------------------------
(* Recording what a key's state is.                                         *)

Free(n, k) == hold[n][k] = "free"
SetHold(n, k, h) == hold' = [hold EXCEPT ![n][k] = h]
SetObj(n, k, c) == obj' = [obj EXCEPT ![n][k] = c]
NoteNewest(n, k, v) ==
    newest' = [newest EXCEPT ![n][k] = IF @ = None \/ Less(@, v) THEN v ELSE @]

\* Upsert of the key's row, whatever it held before.
Store(n, k, v, deleted) ==
    /\ ver' = [ver EXCEPT ![n][k] = [at |-> v.at, origin |-> v.origin, deleted |-> deleted]]
    /\ NoteNewest(n, k, v)

\* The version of a change made here at clock reading t: later than the key's
\* current one even when the clock stepped back.
LocalVersion(n, k, t) ==
    [at |-> IF ver[n][k] # None /\ ver[n][k].at >= t THEN ver[n][k].at + 1 ELSE t, origin |-> n]

\* True when the key's state here is at least as new as version v.
UpToDate(n, k, v) == ver[n][k] # None /\ AtLeast(ver[n][k], v)
HasTombstone(n, k) == ver[n][k] # None /\ ver[n][k].deleted

FreeIds == {i \in Ids : events[i] = None}
IsNext(i) == i \in FreeIds /\ \A j \in FreeIds : i <= j
\* Bound: every change in progress still finds an event id.
Room == Cardinality({x \in Nodes \X Keys : hold[x[1]][x[2]] = "local"})
        + Cardinality({n \in Nodes : scan[n] # None}) < Cardinality(FreeIds)

Enqueue(i, e) ==
    /\ events' = [events EXCEPT ![i] = e]
    /\ status' = [status EXCEPT ![i] = "pending"]
    /\ UNCHANGED <<attempts, delivered>>

-----------------------------------------------------------------------------
(* A change made on this node (LocalChange).                                *)

\* The object is written or deleted under the key's lock; deleting an object
\* that is not there counts as a change.
LocalCommit(n, k, c) ==
    /\ n \in Writers
    /\ (IF c = None THEN "delete" ELSE "put") \in Ops
    /\ Free(n, k)
    /\ Room
    /\ ver[n][k] # None => ver[n][k].at < MaxTime
    /\ SetObj(n, k, c)
    /\ SetHold(n, k, "local")
    /\ UNCHANGED <<ver, newest, log, applied, traffic, repair, floor, counters>>

\* hook.after: one transaction stores the version and queues the event.
LocalRecord(n, k, t, i) ==
    LET v == LocalVersion(n, k, t)
    IN  /\ hold[n][k] = "local"
        /\ t > floor[k]
        /\ v.at \in Times
        /\ IsNext(i)
        /\ Store(n, k, v, obj[n][k] = None)
        /\ Enqueue(i, [origin |-> n, key |-> k, etag |-> obj[n][k], at |-> v.at])
        /\ SetHold(n, k, "free")
        /\ UNCHANGED <<obj, applied, traffic, repair, floor, counters>>

\* hook.after fails: the request answers an error, the change stays.
LocalRecordFail(n, k) ==
    /\ hold[n][k] = "local"
    /\ Fault("record")
    /\ SetHold(n, k, "free")
    /\ UNCHANGED <<obj, ver, newest, log, applied, traffic, repair, floor, crashes>>

-----------------------------------------------------------------------------
(* The worker delivers a queued event.                                      *)

SetStatus(i, s) == status' = [status EXCEPT ![i] = s]

MarkFailed(i) ==
    /\ attempts' = [attempts EXCEPT ![i] = @ + 1]
    /\ SetStatus(i, IF attempts[i] + 1 >= MaxAttempts THEN "dead_letter" ELSE "failed")

\* A newer change to the key was made or applied on the origin since.
Superseded(i) ==
    LET current == ver[events[i].origin][Key(i)]
    IN  current # None /\ Less(Version(i), current)

\* Mutant of Due: failed events are not retried.
DueOnce(i) == status[i] = "pending" /\ push[i] = None

\* New events and failed ones, whose retry time comes sooner or later.
Due(i) == status[i] \in {"pending", "failed"} /\ push[i] = None

\* How the worker settles an event it need not send, if it does.
Unsent(i) == IF Needed = 0 THEN "sent" ELSE IF Superseded(i) THEN "superseded" ELSE None

\* With no peer to send to, the delivery starts and ends short.
DeliverStart(i) ==
    /\ Due(i)
    /\ \/ /\ Unsent(i) # None
          /\ SetStatus(i, Unsent(i))
          /\ UNCHANGED push
       \/ /\ Unsent(i) = None
          /\ SetStatus(i, "pending")
          /\ push' = [push EXCEPT ![i] = [to |-> None, tried |-> {}]]
    /\ UNCHANGED <<objects, events, attempts, delivered, applied, net, repair, floor, counters>>

Enough(i) == Cardinality(delivered[i]) >= Needed
Untried(i) == Peers(events[i].origin) \ (delivered[i] \cup push[i].tried)
Delivering(i) == push[i] # None /\ push[i].to = None

\* The content is whatever the origin's file holds now; a put whose file is
\* gone fails here.
PushTo(i, p) ==
    LET c == obj[events[i].origin][Key(i)]
    IN  /\ Delivering(i)
        /\ ~ Enough(i)
        /\ p \in Untried(i)
        /\ \/ /\ events[i].etag # None
              /\ c = None
              /\ push' = [push EXCEPT ![i].tried = @ \cup {p}]
              /\ UNCHANGED net
           \/ /\ events[i].etag = None \/ c # None
              /\ push' = [push EXCEPT ![i].to = p]
              /\ net' = net \cup {[id |-> i, to |-> p, stage |-> "sent", live |-> TRUE,
                                   content |-> IF events[i].etag = None THEN None ELSE c]}
        /\ UNCHANGED <<objects, log, applied, repair, floor, counters>>

Pushed(i, p) == push' = [push EXCEPT ![i] = [to |-> None, tried |-> @.tried \cup {p}]]

PushOk(m) ==
    /\ m.live
    /\ m.stage = "ok"
    /\ delivered' = [delivered EXCEPT ![m.id] = @ \cup {m.to}]
    /\ Pushed(m.id, m.to)
    /\ net' = net \ {m}
    /\ UNCHANGED <<objects, events, status, attempts, applied, repair, floor, counters>>

PushErr(m) ==
    /\ m.live
    /\ m.stage = "err"
    /\ Pushed(m.id, m.to)
    /\ net' = net \ {m}
    /\ UNCHANGED <<objects, log, applied, repair, floor, counters>>

\* The peer cannot be reached, the request or its answer is lost, or the push
\* times out, and then the peer may still be working on it.
PushLost(m) ==
    /\ m.live
    /\ Fault("push")
    /\ Pushed(m.id, m.to)
    /\ \/ m.stage \in {"sent", "ok", "err"} /\ net' = net \ {m}
       \/ /\ m.stage \in {"sent", "open", "checked", "committed"}
          /\ net' = (net \ {m}) \cup {[m EXCEPT !.live = FALSE]}
    /\ UNCHANGED <<objects, log, applied, repair, floor, crashes>>

\* Mutant of DeliverEnd: one round of pushes, whatever came of it.
DeliverOnce(i) ==
    /\ Delivering(i)
    /\ Enough(i) \/ Untried(i) = {}
    /\ push' = [push EXCEPT ![i] = None]
    /\ SetStatus(i, "sent")
    /\ UNCHANGED <<objects, events, attempts, delivered, applied, net, repair, floor, counters>>

DeliverEnd(i) ==
    /\ Delivering(i)
    /\ Enough(i) \/ Untried(i) = {}
    /\ push' = [push EXCEPT ![i] = None]
    /\ \/ Enough(i) /\ SetStatus(i, "sent") /\ UNCHANGED attempts
       \/ ~ Enough(i) /\ MarkFailed(i)
    /\ UNCHANGED <<objects, events, delivered, applied, net, repair, floor, counters>>

ReplayDeadLetter(i) ==
    /\ "replay" \in Ops
    /\ status[i] = "dead_letter"
    /\ SetStatus(i, "pending")
    /\ attempts' = [attempts EXCEPT ![i] = 0]
    /\ UNCHANGED <<objects, events, delivered, applied, traffic, repair, floor, counters>>

-----------------------------------------------------------------------------
(* The peer applies an event (RemoteChange).                                *)

\* The handler reaches a stage; once it is through, only a waiting sender
\* makes a difference between its answers.
Reach(m, stage) ==
    net' = (net \ {m}) \cup (IF m.live \/ stage \notin {"ok", "err"}
                             THEN {[m EXCEPT !.stage = stage]} ELSE {})
RecordApplied(m) == applied' = [applied EXCEPT ![m.to] = @ \cup {m.id}]
HasEvent(n, i) == i \in applied[n] \/ (events[i].origin = n /\ status[i] # None)

\* Before the lock: the content must be what the event announces; an event
\* seen before, or older than the key's state here, is acknowledged at once.
Receive(m) ==
    LET e == events[m.id]
        mismatch == e.etag # None /\ m.content # e.etag
        known == HasEvent(m.to, m.id)
        stale == UpToDate(m.to, e.key, Version(m.id))
    IN  /\ m.stage = "sent"
        /\ \/ mismatch /\ UNCHANGED applied /\ Reach(m, "err")
           \/ ~ mismatch /\ known /\ UNCHANGED applied /\ Reach(m, "ok")
           \/ ~ mismatch /\ ~ known /\ stale /\ RecordApplied(m) /\ Reach(m, "ok")
           \/ ~ mismatch /\ ~ known /\ ~ stale /\ UNCHANGED applied /\ Reach(m, "open")
        /\ UNCHANGED <<objects, log, push, repair, floor, counters>>

\* Mutant of ApplyCheck: the version is not compared again under the lock.
ApplyUnchecked(m) ==
    /\ m.stage = "open"
    /\ Free(m.to, Key(m.id))
    /\ SetHold(m.to, Key(m.id), "remote")
    /\ Reach(m, "checked")
    /\ UNCHANGED <<obj, ver, newest, log, applied, push, repair, floor, counters>>

\* hook.before, under the key's lock.
ApplyCheck(m) ==
    LET k == Key(m.id)
        stale == UpToDate(m.to, k, Version(m.id))
    IN  /\ m.stage = "open"
        /\ Free(m.to, k)
        /\ \/ stale /\ RecordApplied(m) /\ Reach(m, "ok") /\ UNCHANGED hold
           \/ ~ stale /\ SetHold(m.to, k, "remote") /\ Reach(m, "checked") /\ UNCHANGED applied
        /\ UNCHANGED <<obj, ver, newest, log, push, repair, floor, counters>>

ApplyCommit(m) ==
    /\ m.stage = "checked"
    /\ SetObj(m.to, Key(m.id), m.content)
    /\ Reach(m, "committed")
    /\ UNCHANGED <<ver, newest, hold, log, applied, push, repair, floor, counters>>

\* hook.after: one transaction stores the event's version and an applied row.
ApplyRecord(m) ==
    /\ m.stage = "committed"
    /\ Store(m.to, Key(m.id), Version(m.id), events[m.id].etag = None)
    /\ RecordApplied(m)
    /\ SetHold(m.to, Key(m.id), "free")
    /\ Reach(m, "ok")
    /\ UNCHANGED <<obj, log, push, repair, floor, counters>>

\* Mutant of ApplyFail: the push is answered although nothing was recorded.
ApplyFailQuietly(m) ==
    /\ \/ m.stage = "checked" /\ Fault("apply")
       \/ m.stage = "committed" /\ Fault("record")
    /\ SetHold(m.to, Key(m.id), "free")
    /\ Reach(m, "ok")
    /\ UNCHANGED <<obj, ver, newest, log, applied, push, repair, floor, crashes>>

\* Writing the object fails, before or after its commit.
ApplyFail(m) ==
    /\ \/ m.stage = "checked" /\ Fault("apply")
       \/ m.stage = "committed" /\ Fault("record")
    /\ SetHold(m.to, Key(m.id), "free")
    /\ Reach(m, "err")
    /\ UNCHANGED <<obj, ver, newest, log, applied, push, repair, floor, crashes>>

-----------------------------------------------------------------------------
(* An object missing here is restored from a peer (heal, Restore).          *)

\* A GET misses here without a tombstone, and a peer opens its copy under the
\* read lock.
HealOpen(n, p, k) ==
    /\ "heal" \in Ops
    /\ heal[n] = None
    /\ obj[n][k] = None
    /\ ~ HasTombstone(n, k)
    /\ p \in Peers(n)
    /\ hold[p][k] = "free"
    /\ obj[p][k] # None
    /\ heal' = [heal EXCEPT ![n] = [key |-> k, from |-> p, content |-> obj[p][k],
                                    version |-> None, stage |-> "opened"]]
    /\ UNCHANGED <<objects, log, applied, traffic, scan, floor, counters>>

\* The peer reads the key's version after it has opened the copy ...
HealVersion(n) ==
    /\ heal[n] # None
    /\ heal[n].stage = "opened"
    /\ LET current == ver[heal[n].from][heal[n].key]
       IN  heal' = [heal EXCEPT
                        ![n].stage = "versioned",
                        ![n].version = IF current = None THEN None ELSE EventVersion(current)]
    /\ UNCHANGED <<objects, log, applied, traffic, scan, floor, counters>>

\* Mutant of HealRecheck: the version is sent whatever the peer's row says now.
HealLabel(n) ==
    /\ heal[n] # None
    /\ heal[n].stage = "versioned"
    /\ heal' = [heal EXCEPT ![n].stage = "fetched"]
    /\ UNCHANGED <<objects, log, applied, traffic, scan, floor, counters>>

\* ... and sends it only if its row still names the copy it serves.
HealRecheck(n) ==
    /\ heal[n] # None
    /\ heal[n].stage = "versioned"
    /\ heal' = [heal EXCEPT
                    ![n].stage = "fetched",
                    ![n].version = IF obj[heal[n].from][heal[n].key] = heal[n].content
                                   THEN @ ELSE None]
    /\ UNCHANGED <<objects, log, applied, traffic, scan, floor, counters>>

\* Mutant of HealCommit: a key deleted here is restored.
HealOverTombstone(n) ==
    LET h == heal[n]
    IN  /\ h # None
        /\ h.stage = "fetched"
        /\ Free(n, h.key)
        /\ obj[n][h.key] = None
        /\ SetObj(n, h.key, h.content)
        /\ SetHold(n, h.key, "restore")
        /\ heal' = [heal EXCEPT ![n].stage = "committed"]
        /\ UNCHANGED <<ver, newest, log, applied, traffic, scan, floor, counters>>

\* hook.before, If-None-Match: * and the commit, under the key's lock: refused
\* over a tombstone or over an object written here meanwhile.
HealCommit(n) ==
    LET h == heal[n]
        refused == HasTombstone(n, h.key) \/ obj[n][h.key] # None
    IN  /\ h # None
        /\ h.stage = "fetched"
        /\ Free(n, h.key)
        /\ \/ refused /\ heal' = [heal EXCEPT ![n] = None] /\ UNCHANGED <<obj, hold>>
           \/ /\ ~ refused
              /\ SetObj(n, h.key, h.content)
              /\ SetHold(n, h.key, "restore")
              /\ heal' = [heal EXCEPT ![n].stage = "committed"]
        /\ UNCHANGED <<ver, newest, log, applied, traffic, scan, floor, counters>>

\* hook.after: the copy's version is recorded unless the key's is as new.
HealRecord(n) ==
    LET h == heal[n]
        newer == h.version # None /\ ~ UpToDate(n, h.key, h.version)
    IN  /\ h # None
        /\ h.stage = "committed"
        /\ \/ newer /\ Store(n, h.key, h.version, FALSE)
           \/ ~ newer /\ UNCHANGED <<ver, newest>>
        /\ SetHold(n, h.key, "free")
        /\ heal' = [heal EXCEPT ![n] = None]
        /\ UNCHANGED <<obj, log, applied, traffic, scan, floor, counters>>

-----------------------------------------------------------------------------
(* Backfill queues the objects a node has.                                  *)

\* The row is read without a lock; its last-modified time is any clock reading.
BackfillRead(n, k, t) ==
    /\ "backfill" \in Ops
    /\ scan[n] = None
    /\ Room
    /\ obj[n][k] # None
    /\ scan' = [scan EXCEPT ![n] = [key |-> k, etag |-> obj[n][k], at |-> t]]
    /\ UNCHANGED <<objects, log, applied, traffic, heal, floor, counters>>

\* store_if_absent, then an event of this node at the time of the key's version.
BackfillEnqueue(n, i) ==
    LET s == scan[n]
        current == ver[n][s.key]
        at == IF current = None THEN s.at ELSE current.at
    IN  /\ s # None
        /\ IsNext(i)
        /\ \/ current = None /\ Store(n, s.key, [at |-> at, origin |-> n], FALSE)
           \/ current # None /\ UNCHANGED <<ver, newest>>
        /\ Enqueue(i, [origin |-> n, key |-> s.key, etag |-> s.etag, at |-> at])
        /\ scan' = [scan EXCEPT ![n] = None]
        /\ UNCHANGED <<obj, hold, applied, traffic, heal, floor, counters>>

-----------------------------------------------------------------------------
(* Old history is dropped.  Retention is longer than any clock skew, any    *)
(* request and any event's retries: nothing as old as a pruned row is still *)
(* on its way, and every later clock reading is later than a pruned version.*)
(* Dead letters are kept, and may be older.                                 *)

InFlight(i) ==
    \/ status[i] \in {"pending", "failed"}
    \/ push[i] # None
    \/ \E m \in net : m.id = i

PruneEvent(i) ==
    /\ "prune" \in Ops
    /\ ~ InFlight(i)
    /\ \/ status[i] \in {"sent", "superseded"} /\ SetStatus(i, None) /\ UNCHANGED applied
       \/ /\ \E n \in Nodes : i \in applied[n] /\ applied' = [applied EXCEPT ![n] = @ \ {i}]
          /\ UNCHANGED status
    /\ UNCHANGED <<objects, events, attempts, delivered, traffic, repair, floor, counters>>

PruneTombstone(n, k) ==
    /\ "prune" \in Ops
    /\ HasTombstone(n, k)
    /\ ver[n][k].at < MaxTime
    /\ \A i \in Ids : events[i] # None /\ Key(i) = k /\ InFlight(i) => Less(ver[n][k], Version(i))
    /\ \A m \in Nodes : /\ heal[m] # None => heal[m].key # k
                        /\ scan[m] # None => scan[m].key # k
    /\ ver' = [ver EXCEPT ![n][k] = None]
    /\ floor' = [floor EXCEPT ![k] = IF @ < ver[n][k].at THEN ver[n][k].at ELSE @]
    /\ UNCHANGED <<obj, hold, newest, log, applied, traffic, repair, counters>>

-----------------------------------------------------------------------------
(* The process of a node dies and is started again: what it was doing is    *)
(* gone, the objects and the tables are not.                                *)

Crash(n) ==
    /\ crashes < MaxCrashes
    /\ crashes' = crashes + 1
    /\ hold' = [hold EXCEPT ![n] = [k \in Keys |-> "free"]]
    /\ push' = [i \in Ids |-> IF events[i] # None /\ events[i].origin = n THEN None ELSE push[i]]
    /\ net' = LET ours(m) == events[m.id].origin = n
                  working(m) == m.to = n /\ m.stage \notin {"ok", "err"}
                  kept == {m \in net : ~ working(m) /\ ~ ours(m)}
                  cut == {m \in net : working(m) /\ m.live}
                  late == {m \in net : ours(m) /\ m.stage \notin {"ok", "err"}}
              IN  kept \cup {[m EXCEPT !.stage = "err"] : m \in cut}
                       \cup {[m EXCEPT !.live = FALSE] : m \in late}
    /\ heal' = [heal EXCEPT ![n] = None]
    /\ scan' = [scan EXCEPT ![n] = None]
    /\ UNCHANGED <<obj, ver, newest, log, applied, floor, faults>>

-----------------------------------------------------------------------------
Change == \E n \in Nodes, k \in Keys :
    \/ \E c \in ContentOrNone : LocalCommit(n, k, c)
    \/ \E t \in Times, i \in Ids : LocalRecord(n, k, t, i)
    \/ LocalRecordFail(n, k)
Deliver == \E i \in Ids :
    \/ DeliverStart(i)
    \/ \E p \in Nodes : PushTo(i, p)
    \/ DeliverEnd(i)
    \/ ReplayDeadLetter(i)
Apply == \E m \in net :
    \/ PushOk(m)
    \/ PushErr(m)
    \/ PushLost(m)
    \/ Receive(m)
    \/ ApplyCheck(m)
    \/ ApplyCommit(m)
    \/ ApplyRecord(m)
    \/ ApplyFail(m)
Repair == \E n \in Nodes :
    \/ \E p \in Nodes, k \in Keys : HealOpen(n, p, k)
    \/ HealVersion(n)
    \/ HealRecheck(n)
    \/ HealCommit(n)
    \/ HealRecord(n)
    \/ \E k \in Keys, t \in Times : BackfillRead(n, k, t)
    \/ \E i \in Ids : BackfillEnqueue(n, i)
Prune ==
    \/ \E i \in Ids : PruneEvent(i)
    \/ \E n \in Nodes, k \in Keys : PruneTombstone(n, k)
Next == Change \/ Deliver \/ Apply \/ Repair \/ Prune \/ \E n \in Nodes : Crash(n)

Spec == Init /\ [][Next]_vars

\* The worker ticks every second, handlers run to their end even when their
\* client is gone, and a sender gets an answer or a time-out.
FairSpec ==
    /\ Spec
    /\ \A n \in Nodes, k \in Keys : WF_vars(\E t \in Times, i \in Ids : LocalRecord(n, k, t, i))
    /\ \A i \in Ids : /\ WF_vars(DeliverStart(i))
                      /\ WF_vars(\E p \in Nodes : PushTo(i, p))
                      /\ WF_vars(DeliverEnd(i))
                      /\ WF_vars(\E m \in net : m.id = i /\ (PushOk(m) \/ PushErr(m)))
                      /\ WF_vars(\E m \in net : m.id = i /\ (Receive(m) \/ ApplyCommit(m)
                                                             \/ ApplyRecord(m)))
                      /\ WF_vars(\E m \in net : m.id = i /\ ApplyCheck(m))

-----------------------------------------------------------------------------
TypeOK ==
    /\ obj \in [Nodes -> [Keys -> ContentOrNone]]
    /\ ver \in [Nodes -> [Keys -> KeyVersions \cup {None}]]
    /\ hold \in [Nodes -> [Keys -> {"free", "local", "remote", "restore"}]]
    /\ events \in [Ids -> Events \cup {None}]
    /\ status \in [Ids -> Statuses \cup {None}]
    /\ attempts \in [Ids -> Nat]
    /\ delivered \in [Ids -> SUBSET Nodes]
    /\ applied \in [Nodes -> SUBSET Ids]
    /\ push \in [Ids -> Pushes \cup {None}]
    /\ net \subseteq Messages
    /\ heal \in [Nodes -> Heals \cup {None}]
    /\ scan \in [Nodes -> Scans \cup {None}]
    /\ floor \in [Keys -> Nat]
    /\ newest \in [Nodes -> [Keys -> Versions \cup {None}]]
    /\ faults \in Nat
    /\ crashes \in Nat

\* Nothing is on its way and nothing is left to deliver.
Settled ==
    /\ \A n \in Nodes, k \in Keys : hold[n][k] = "free"
    /\ \A i \in Ids : ~ InFlight(i) /\ status[i] # "dead_letter"
    /\ \A n \in Nodes : heal[n] = None /\ scan[n] = None
Agree == \A n, m \in Nodes, k \in Keys : obj[n][k] = obj[m][k]

\* Nodes that write the same keys hold the same objects once every queued
\* change has been delivered or superseded (README, "Split-brain").
Convergence == Settled => Agree

\* The recorded version of a key never goes back, a pruned tombstone included:
\* no late or repeated event overwrites a newer change or undoes a delete
\* (hooks.rs RemoteChange, apply_event).
NeverGoesBack ==
    \A n \in Nodes, k \in Keys :
        ver[n][k] # None => newest[n][k] # None /\ AtLeast(ver[n][k], newest[n][k])

\* Some event announces content c as version v of key k.
Announced(k, v, c) ==
    \E i \in Ids : /\ events[i] # None
                   /\ Key(i) = k
                   /\ Version(i) = v
                   /\ events[i].etag = c
\* A change to k newer than v has been made, or is being made on a node that
\* has v or a newer version and will therefore number it higher.
NewerChange(k, v) ==
    \/ \E i \in Ids : events[i] # None /\ Key(i) = k /\ Less(v, Version(i))
    \/ \E q \in Nodes : hold[q][k] = "local" /\ newest[q][k] # None /\ AtLeast(newest[q][k], v)

\* While nobody holds its lock, the version of a key describes its object: a
\* tombstone when there is none, otherwise the content some event of exactly
\* that version announces, or content that a newer change is about to replace
\* (hooks.rs, "inside the key's write lock"). A key this node deleted is not
\* restored from a peer that has yet to apply the delete.
VersionDescribesObject ==
    \A n \in Nodes, k \in Keys :
        hold[n][k] = "free" /\ ver[n][k] # None =>
            /\ ver[n][k].deleted <=> obj[n][k] = None
            /\ \/ Announced(k, EventVersion(ver[n][k]), obj[n][k])
               \/ NewerChange(k, ver[n][k])

\* A peer counts as having an event only if it has recorded the event's change,
\* or a newer one, for the key: an answered push is never undone by a crash, a
\* failed write or a late handler (mark_delivered, apply_event).
DeliveredIsDurable ==
    \A i \in Ids : \A p \in delivered[i] :
        newest[p][Key(i)] # None /\ AtLeast(newest[p][Key(i)], Version(i))

\* Every queued event is delivered, superseded or dead-lettered in the end.
EventsSettle ==
    \A i \in Ids : status[i] = "pending" ~> status[i] \in {"sent", "superseded", "dead_letter"}

\* When pushes fail less often than they are tried, all nodes agree in the end.
EventuallyAgree == <>[]Agree
====
