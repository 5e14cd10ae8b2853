--------------------------- MODULE ReplicationInv ---------------------------
(***************************************************************************)
(* The inductive invariant of Replication: what holds between the versions  *)
(* a node has recorded, the pushes on their way and the key locks.          *)
(***************************************************************************)
EXTENDS Replication

\* Whatever is queued, sent, delivered or applied was made by some change, and
\* is never sent to the node it was made on.
EventsMade ==
    /\ \A i \in Ids : status[i] # None \/ push[i] # None \/ delivered[i] # {} => events[i] # None
    /\ \A m \in net : events[m.id] # None /\ m.to # events[m.id].origin
    /\ \A n \in Nodes : \A i \in applied[n] : events[i] # None

\* The history variable is at least the recorded version.
NewestKept ==
    \A n \in Nodes, k \in Keys :
        ver[n][k] # None => newest[n][k] # None /\ AtLeast(newest[n][k], ver[n][k])

Recorded(n, i) == newest[n][Key(i)] # None /\ AtLeast(newest[n][Key(i)], Version(i))

\* An event is acknowledged, now or when it comes again, only by a node that
\* has recorded it or a newer change to its key.
Acknowledged ==
    /\ \A n \in Nodes : \A i \in applied[n] : Recorded(n, i)
    /\ \A m \in net : m.stage = "ok" => Recorded(m.to, m.id)

Held(m) == m.stage \in {"checked", "committed"}

\* The lock of a key is held by the one handler, change or restore that is
\* between its check and its record.
OneHolder ==
    /\ \A m \in net : Held(m) => hold[m.to][Key(m.id)] = "remote"
    /\ \A m1, m2 \in net : Held(m1) /\ Held(m2) /\ m1.to = m2.to /\ Key(m1.id) = Key(m2.id)
                            => m1 = m2
    /\ \A n \in Nodes : heal[n] # None /\ heal[n].stage = "committed"
                            => hold[n][heal[n].key] = "restore"

\* A sender waits for at most one answer to an event, that of the push the worker
\* has under way.
OneSender ==
    /\ \A m \in net : m.live => push[m.id] # None /\ push[m.id].to = m.to
    /\ \A m1, m2 \in net : m1.live /\ m2.live /\ m1.id = m2.id => m1 = m2

\* The configurations in which versions never go back: no backfill, whose
\* version is stored without the lock, and, where tombstones are pruned, nothing
\* that brings back a change older than those still on their way.
Safe ==
    /\ "backfill" \notin Ops
    /\ "prune" \in Ops => "replay" \notin Ops /\ "heal" \notin Ops

Newer(n, k, v) == newest[n][k] = None \/ Less(newest[n][k], v)

\* The check made under the lock stays true until the change is recorded.
HeldIsNewer == \A m \in net : Held(m) => Newer(m.to, Key(m.id), Version(m.id))

\* Whatever is on its way is newer than every pruned tombstone, and so is every
\* clock.
PrunedIsOld ==
    /\ \A n \in Nodes, k \in Keys : ver[n][k] = None /\ newest[n][k] # None =>
           /\ "prune" \in Ops
           /\ newest[n][k].at <= floor[k]
    /\ \A n \in Nodes, i \in Ids :
           events[i] # None /\ InFlight(i) /\ ver[n][Key(i)] = None => Newer(n, Key(i), Version(i))

\* What a run does not exercise never starts.
Unused ==
    /\ "backfill" \notin Ops => \A n \in Nodes : scan[n] = None
    /\ "heal" \notin Ops => \A n \in Nodes : heal[n] = None

Durable == EventsMade /\ NewestKept /\ Acknowledged /\ DeliveredIsDurable
Forward == NeverGoesBack /\ HeldIsNewer /\ PrunedIsOld

\* The inductive invariant.
ReplInv == TypeOK /\ Durable /\ OneHolder /\ OneSender /\ Unused /\ (Safe => Forward)

-----------------------------------------------------------------------------
(* What VersionDescribesObject and Convergence rest on, where every change   *)
(* that is committed is also recorded: no crash, and no failure between the  *)
(* two.                                                                      *)

CommitsRecorded == Safe /\ "record" \notin Faults /\ MaxCrashes = 0

\* v is the version of content c of key k, unless a newer change takes its place.
Labels(k, v, c) == Announced(k, v, c) \/ NewerChange(k, v)

\* A push past its first check carries what its event announces, and what its
\* handler has written is there until it has been recorded.
PushedContent ==
    \A m \in net :
        /\ events[m.id].etag = None => m.content = None
        /\ m.stage \in {"open", "checked", "committed"} => m.content = events[m.id].etag
        /\ m.stage = "committed" => obj[m.to][Key(m.id)] = m.content

\* A lock that a handler or a restore holds is held by one that is there.
HeldBySomeone ==
    \A n \in Nodes, k \in Keys :
        /\ hold[n][k] = "remote" => \E m \in net : Held(m) /\ m.to = n /\ Key(m.id) = k
        /\ hold[n][k] = "restore" => /\ heal[n] # None /\ heal[n].stage = "committed"
                                     /\ heal[n].key = k
                                     /\ obj[n][k] = heal[n].content
                                     /\ newest[n][k] = None

\* The object a tombstone names is gone, and only that.
Tombstones ==
    \A n \in Nodes, k \in Keys :
        /\ ver[n][k] # None
        /\ hold[n][k] = "free" \/ \E m \in net : m.stage = "checked" /\ m.to = n /\ Key(m.id) = k
        => (ver[n][k].deleted <=> obj[n][k] = None)

\* What a node has recorded was announced, and labels the object it holds.
NewestLabels ==
    \A n \in Nodes, k \in Keys :
        newest[n][k] # None =>
            /\ \E i \in Ids : events[i] # None /\ Key(i) = k /\ Version(i) = newest[n][k]
            /\ Labels(k, newest[n][k], obj[n][k])

\* The version that comes with a copy labels it as far as the copy is still the
\* peer's object, and for good once that was checked.
CopyAt(n) ==
    LET h == heal[n]
    IN  /\ h.stage = "opened" => h.version = None
        /\ h.version # None =>
            /\ \E i \in Ids : events[i] # None /\ Key(i) = h.key /\ Version(i) = h.version
            /\ newest[h.from][h.key] # None /\ AtLeast(newest[h.from][h.key], h.version)
            /\ h.stage # "versioned" \/ obj[h.from][h.key] = h.content =>
                    Labels(h.key, h.version, h.content)
CopyLabels == \A n \in Nodes : heal[n] # None => CopyAt(n)

\* A node has recorded the changes it made, each under a version of its own.
OwnChanges ==
    /\ \A i \in Ids : events[i] # None => Recorded(events[i].origin, i)
    /\ \A i, j \in Ids : events[i] # None /\ events[j] # None /\ Key(i) = Key(j)
                          /\ Version(i) = Version(j) => i = j

\* An event that is done with has reached enough peers, or is not the newest.
DoneWith ==
    \A i \in Ids :
        /\ push[i] # None => status[i] = "pending"
        /\ events[i] # None => delivered[i] \subseteq Peers(events[i].origin)
        /\ events[i] # None /\ status[i] \notin {"pending", "failed", "dead_letter"} =>
                \/ Needed = 0 \/ Enough(i)
                \/ newest[events[i].origin][Key(i)] # None
                   /\ Less(Version(i), newest[events[i].origin][Key(i)])

NoChange(k) == \A i \in Ids : events[i] # None => Key(i) # k

\* A key without changes is as it was stored, except where one is being made.
Untouched ==
    \A k \in Keys : NoChange(k) =>
        /\ \A n \in Nodes : hold[n][k] # "local" => obj[n][k] = Stored
        /\ \A n \in Nodes : heal[n] # None /\ heal[n].key = k => heal[n].content = Stored

Described == PushedContent /\ HeldBySomeone /\ Tombstones /\ NewestLabels /\ CopyLabels
DescribedInv == CommitsRecorded => Described /\ OwnChanges /\ DoneWith /\ Untouched
=============================================================================
