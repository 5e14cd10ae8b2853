-------------------------- MODULE Replication_proofs --------------------------
(***************************************************************************)
(* Proofs about Replication, for any number of nodes, keys, contents,       *)
(* events, faults and crashes: its type invariant, DeliveredIsDurable, and, *)
(* in the configurations Safe describes, NeverGoesBack, from the inductive  *)
(* invariant ReplInv of ReplicationInv.  Then, where every committed change *)
(* is recorded, VersionDescribesObject and Convergence, from DescribedInv.  *)
(***************************************************************************)
EXTENDS ReplicationInv, TLAPS, FiniteSetTheorems, WellFoundedInduction

USE ConstantsAssumption, NoneAssumption
USE DEF objects, log, traffic, repair, counters, SetHold, SetObj, SetStatus, Fault

-----------------------------------------------------------------------------
(* Facts every step uses.                                                   *)

\* Versions are totally ordered: by time, then by node.
LEMMA Order ==
  ASSUME NEW u, NEW v, NEW w, u.at \in Nat, v.at \in Nat, w.at \in Nat,
         u.origin \in Nat, v.origin \in Nat, w.origin \in Nat
  PROVE  /\ ~ Less(u, u)
         /\ Less(u, v) => ~ Less(v, u)
         /\ Less(u, v) /\ Less(v, w) => Less(u, w)
         /\ Less(u, v) /\ ~ Less(w, v) => Less(u, w)
         /\ ~ Less(v, u) /\ Less(v, w) => Less(u, w)
         /\ ~ Less(v, u) /\ ~ Less(w, v) => ~ Less(w, u)
  BY DEF Less

\* None is no status, no event, no version and no delivery.
LEMMA Distinct ==
  /\ \A s \in Statuses : s # None
  /\ {"pending", "failed", "dead_letter", "sent", "superseded"} = Statuses
  /\ \A e \in Events : e # None
  /\ \A v \in Versions \cup KeyVersions : v # None
  /\ \A x \in Pushes \cup Heals \cup Scans : x # None
  BY DEF Statuses

\* A version is made of two numbers.
LEMMA InVersions ==
  ASSUME NEW v \in Versions
  PROVE  v.at \in Nat /\ v.origin \in Nat /\ v.at \in Times /\ v.origin \in Nodes
  <1>1. v.at \in Times /\ v.origin \in Nodes
    BY DEF Versions
  <1>2. Times \subseteq Nat /\ Nodes \subseteq Nat
    BY DEF Times
  <1> QED BY <1>1, <1>2

\* What an event that was made names.
LEMMA EventTypes ==
  ASSUME TypeOK, NEW i \in Ids, events[i] # None
  PROVE  /\ events[i] \in Events
         /\ Key(i) \in Keys /\ events[i].origin \in Nodes /\ events[i].etag \in ContentOrNone
         /\ Version(i) \in Versions
         /\ Version(i).at = events[i].at /\ Version(i).origin = events[i].origin
         /\ Version(i).at \in Nat /\ Version(i).origin \in Nat /\ Version(i).at \in Times
  <1>1. events[i] \in Events
    BY DEF TypeOK
  <1>2. /\ events[i].key \in Keys /\ events[i].origin \in Nodes /\ events[i].etag \in ContentOrNone
        /\ events[i].at \in Times
    BY <1>1 DEF Events
  <1>5. Times \subseteq Nat /\ Nodes \subseteq Nat
    BY DEF Times
  <1>3. events[i].at \in Nat /\ events[i].origin \in Nat
    BY <1>2, <1>5
  <1>4. /\ Version(i) = [at |-> events[i].at, origin |-> events[i].origin]
    BY DEF Version, EventVersion
  <1> QED BY <1>1, <1>2, <1>3, <1>4 DEF Key, Versions

\* What a push on its way names.
LEMMA MessageTypes ==
  ASSUME TypeOK, EventsMade, NEW m \in net
  PROVE  /\ m \in Messages
         /\ m.id \in Ids /\ m.to \in Nodes /\ m.content \in ContentOrNone
         /\ m.stage \in Stages /\ m.live \in BOOLEAN
         /\ \A s \in Stages : [m EXCEPT !.stage = s] \in Messages
         /\ [m EXCEPT !.live = FALSE] \in Messages
         /\ events[m.id] # None /\ m.to # events[m.id].origin /\ Key(m.id) \in Keys
         /\ Version(m.id) \in Versions /\ Version(m.id).at \in Nat /\ Version(m.id).origin \in Nat
  <1>1. m \in Messages
    BY DEF TypeOK
  <1>2. m.id \in Ids /\ m.to \in Nodes /\ m.content \in ContentOrNone /\ m.stage \in Stages
        /\ m.live \in BOOLEAN
    BY <1>1 DEF Messages
  <1>3. /\ \A s \in Stages : [m EXCEPT !.stage = s] \in Messages
        /\ [m EXCEPT !.live = FALSE] \in Messages
    BY <1>1 DEF Messages
  <1>4. events[m.id] # None /\ m.to # events[m.id].origin
    BY DEF EventsMade
  <1> QED BY <1>1, <1>2, <1>3, <1>4, EventTypes

\* What a recorded version, and the newest one, are made of.
LEMMA VersionTypes ==
  ASSUME TypeOK, NEW n \in Nodes, NEW k \in Keys
  PROVE  /\ ver[n][k] # None => /\ ver[n][k] \in KeyVersions
                                /\ ver[n][k].at \in Nat /\ ver[n][k].origin \in Nat
                                /\ ver[n][k].at \in Times /\ ver[n][k].origin \in Nodes
                                /\ ver[n][k].deleted \in BOOLEAN
         /\ newest[n][k] # None => /\ newest[n][k] \in Versions
                                   /\ newest[n][k].at \in Nat /\ newest[n][k].origin \in Nat
  <1>1. ver[n][k] \in KeyVersions \cup {None} /\ newest[n][k] \in Versions \cup {None}
    BY DEF TypeOK
  <1>2. ASSUME ver[n][k] # None
        PROVE  ver[n][k].at \in Times /\ ver[n][k].origin \in Nodes /\ ver[n][k].deleted \in BOOLEAN
    BY <1>1, <1>2 DEF KeyVersions
  <1>3. ASSUME newest[n][k] # None PROVE newest[n][k].at \in Times /\ newest[n][k].origin \in Nodes
    BY <1>1, <1>3 DEF Versions
  <1>4. Times \subseteq Nat
    BY DEF Times
  <1> QED BY <1>1, <1>2, <1>3, <1>4

\* A handler's step changes its own message, and nothing else on its way.
LEMMA ReachNet ==
  ASSUME NEW m \in net, m \in Messages, NEW s, Reach(m, s)
  PROVE  \A x \in net' : \/ x \in net /\ x # m
                         \/ /\ x = [m EXCEPT !.stage = s]
                            /\ x.stage = s /\ x.id = m.id /\ x.to = m.to
                            /\ x.content = m.content /\ x.live = m.live
  BY DEF Reach, Messages

\* The lemmas below say what of the invariant survives a step that changes
\* versions only forward, and events not at all once they are made.

EventsKept == \A j \in Ids : events[j] # None => events'[j] = events[j]
NewestGrows ==
  \A x \in Nodes, y \in Keys : newest[x][y] # None =>
      newest'[x][y] # None /\ AtLeast(newest'[x][y], newest[x][y])
FlightEnds == \A j \in Ids : InFlight(j)' => InFlight(j)

\* What a node has recorded it goes on having recorded.
LEMMA RecordedKept ==
  ASSUME TypeOK, newest' \in [Nodes -> [Keys -> Versions \cup {None}]], EventsKept, NewestGrows,
         NEW x \in Nodes, NEW j \in Ids, events[j] # None, Recorded(x, j)
  PROVE  Recorded(x, j)'
  <1> DEFINE y == Key(j)
             old == newest[x][y]
             new == newest'[x][y]
  <1>1. y \in Keys /\ Version(j).at \in Nat /\ Version(j).origin \in Nat
    BY EventTypes
  <1>2. Key(j)' = y /\ Version(j)' = Version(j)
    BY DEF EventsKept, Key, Version
  <1>3. old # None /\ ~ Less(old, Version(j))
    BY DEF Recorded, AtLeast
  <1>4. new # None /\ ~ Less(new, old)
    BY <1>1, <1>3 DEF NewestGrows, AtLeast
  <1>5. old.at \in Nat /\ old.origin \in Nat
    BY <1>1, <1>3, VersionTypes
  <1>6. new \in Versions
    BY <1>1, <1>4
  <1>7. new.at \in Nat /\ new.origin \in Nat
    BY <1>6, InVersions
  <1> HIDE DEF y, old, new
  <1>8. ~ Less(new, Version(j))
    BY <1>1, <1>3, <1>4, <1>5, <1>7, Order
  <1> QED BY <1>2, <1>4, <1>8 DEF Recorded, AtLeast, y, new

\* No version is older than itself.
LEMMA GrowsUnchanged ==
  ASSUME TypeOK, UNCHANGED newest
  PROVE  NewestGrows
  <1>1. ASSUME NEW x \in Nodes, NEW y \in Keys, newest[x][y] # None
        PROVE  ~ Less(newest[x][y], newest[x][y])
    <2>1. newest[x][y].at \in Nat /\ newest[x][y].origin \in Nat
      BY <1>1, VersionTypes
    <2> QED BY <2>1, Order
  <1> QED BY <1>1 DEF NewestGrows, AtLeast

\* A node whose version is as new as an event's has recorded the event.
LEMMA UpToDateRecorded ==
  ASSUME TypeOK, NewestKept, NEW n \in Nodes, NEW i \in Ids, events[i] # None,
         UpToDate(n, Key(i), Version(i))
  PROVE  Recorded(n, i)
  <1> DEFINE k == Key(i)
  <1>1. k \in Keys /\ Version(i).at \in Nat /\ Version(i).origin \in Nat
    BY EventTypes
  <1>2. ver[n][k] # None /\ ~ Less(ver[n][k], Version(i))
    BY DEF UpToDate, AtLeast
  <1>3. newest[n][k] # None /\ ~ Less(newest[n][k], ver[n][k])
    BY <1>1, <1>2 DEF NewestKept, AtLeast
  <1>4. /\ ver[n][k].at \in Nat /\ ver[n][k].origin \in Nat
        /\ newest[n][k].at \in Nat /\ newest[n][k].origin \in Nat
    BY <1>1, <1>2, <1>3, VersionTypes
  <1>5. ~ Less(newest[n][k], Version(i))
    BY <1>1, <1>2, <1>3, <1>4, Order
  <1> QED BY <1>3, <1>5 DEF Recorded, AtLeast

\* What a node's version is older than, every version it ever recorded is older
\* than.
LEMMA NotUpToDate ==
  ASSUME TypeOK, NeverGoesBack, PrunedIsOld, NEW n \in Nodes, NEW i \in Ids, events[i] # None,
         InFlight(i), ~ UpToDate(n, Key(i), Version(i))
  PROVE  Newer(n, Key(i), Version(i))
  <1> DEFINE k == Key(i)
  <1>1. k \in Keys /\ Version(i).at \in Nat /\ Version(i).origin \in Nat
    BY EventTypes
  <1>2. CASE ver[n][k] = None
    BY <1>2 DEF PrunedIsOld
  <1>3. CASE ver[n][k] # None
    <2>1. newest[n][k] # None /\ ~ Less(ver[n][k], newest[n][k])
      BY <1>1, <1>3 DEF NeverGoesBack, AtLeast
    <2>2. Less(ver[n][k], Version(i))
      BY <1>3 DEF UpToDate, AtLeast
    <2>3. /\ ver[n][k].at \in Nat /\ ver[n][k].origin \in Nat
          /\ newest[n][k].at \in Nat /\ newest[n][k].origin \in Nat
      BY <1>1, <1>3, <2>1, VersionTypes
    <2>4. Less(newest[n][k], Version(i))
      BY <1>1, <2>1, <2>2, <2>3, Order
    <2> QED BY <2>4 DEF Newer
  <1> QED BY <1>2, <1>3

\* PrunedIsOld survives where no version changes and nothing new is on its way.
LEMMA FlightKept ==
  ASSUME PrunedIsOld, UNCHANGED <<events, ver, newest, floor>>, FlightEnds
  PROVE  PrunedIsOld'
  BY DEF PrunedIsOld, FlightEnds, Newer, Key, Version

\* What recording a version changes: one key on one node, and newest only forward.
LEMMA StoreStep ==
  ASSUME TypeOK, NewestKept, NEW n \in Nodes, NEW k \in Keys, NEW v \in Versions, NEW d \in BOOLEAN,
         Store(n, k, v, d)
  PROVE  /\ ver' \in [Nodes -> [Keys -> KeyVersions \cup {None}]]
         /\ newest' \in [Nodes -> [Keys -> Versions \cup {None}]]
         /\ \A x \in Nodes, y \in Keys : ~ (x = n /\ y = k) =>
                ver'[x][y] = ver[x][y] /\ newest'[x][y] = newest[x][y]
         /\ ver'[n][k] # None /\ ver'[n][k].at = v.at /\ ver'[n][k].origin = v.origin
         /\ newest'[n][k] \in Versions /\ newest'[n][k] # None /\ AtLeast(newest'[n][k], v)
         /\ Newer(n, k, v) => newest'[n][k] = v
         /\ NewestGrows /\ NewestKept'
  <1> DEFINE r == [at |-> v.at, origin |-> v.origin, deleted |-> d]
             w == IF newest[n][k] = None \/ Less(newest[n][k], v) THEN v ELSE newest[n][k]
  <1>1. /\ ver \in [Nodes -> [Keys -> KeyVersions \cup {None}]]
        /\ newest \in [Nodes -> [Keys -> Versions \cup {None}]]
    BY DEF TypeOK
  <1>2. v.at \in Nat /\ v.origin \in Nat /\ v.at \in Times /\ v.origin \in Nodes
    BY InVersions
  <1>3. r \in KeyVersions /\ r.at = v.at /\ r.origin = v.origin
    BY <1>2 DEF KeyVersions
  <1>4. w \in Versions
    BY <1>1
  <1>5. r # None /\ w # None
    BY <1>3, <1>4, Distinct
  <1>6. ver' = [ver EXCEPT ![n][k] = r] /\ newest' = [newest EXCEPT ![n][k] = w]
    BY <1>1 DEF Store, NoteNewest
  <1>7. w.at \in Nat /\ w.origin \in Nat
    BY <1>4, InVersions
  <1>8. newest[n][k] # None => newest[n][k].at \in Nat /\ newest[n][k].origin \in Nat
    BY VersionTypes
  <1>9. ~ Less(w, v) /\ (newest[n][k] # None => ~ Less(w, newest[n][k]))
    <2>1. CASE newest[n][k] = None
      BY <2>1, <1>2, Order
    <2>2. CASE newest[n][k] # None /\ Less(newest[n][k], v)
      BY <2>2, <1>2, <1>8, Order
    <2>3. CASE newest[n][k] # None /\ ~ Less(newest[n][k], v)
      BY <2>3, <1>2, <1>8, Order
    <2> QED BY <2>1, <2>2, <2>3
  <1>10. Newer(n, k, v) => w = v
    BY DEF Newer
  <1> HIDE DEF r, w
  <1>11. /\ ver' \in [Nodes -> [Keys -> KeyVersions \cup {None}]]
         /\ newest' \in [Nodes -> [Keys -> Versions \cup {None}]]
         /\ \A x \in Nodes, y \in Keys : ~ (x = n /\ y = k) =>
                ver'[x][y] = ver[x][y] /\ newest'[x][y] = newest[x][y]
         /\ ver'[n][k] = r /\ newest'[n][k] = w
    BY <1>1, <1>3, <1>4, <1>6
  <1>12. NewestGrows
    <2>1. \A x \in Nodes, y \in Keys : newest[x][y] # None => ~ Less(newest[x][y], newest[x][y])
      BY VersionTypes, Order
    <2> QED BY <1>5, <1>9, <1>11, <2>1 DEF NewestGrows, AtLeast
  <1>13. ~ Less(w, r)
    BY <1>3, <1>9 DEF Less
  <1>14. NewestKept'
    BY <1>5, <1>11, <1>13 DEF NewestKept, AtLeast
  <1> QED BY <1>3, <1>4, <1>5, <1>9, <1>10, <1>11, <1>12, <1>14 DEF AtLeast

\* Recording a version newer than every one before keeps what Safe promises, if
\* no handler is between its check and its record for the key.
LEMMA StoreForward ==
  ASSUME TypeOK, EventsMade, NewestKept, Forward, EventsKept, UNCHANGED floor,
         NEW n \in Nodes, NEW k \in Keys, NEW v \in Versions, NEW d \in BOOLEAN,
         Store(n, k, v, d), Newer(n, k, v),
         \A x \in net' : Held(x) => x \in net /\ ~ (x.to = n /\ Key(x.id) = k),
         \A j \in Ids, x \in Nodes : events'[j] # None /\ InFlight(j)' /\ ver'[x][Key(j)'] = None
             => \/ events[j] # None /\ InFlight(j)
                \/ Key(j)' \in Keys /\ Newer(x, Key(j)', Version(j)')
  PROVE  Forward'
  <1>1. /\ \A x \in Nodes, y \in Keys : ~ (x = n /\ y = k) =>
                ver'[x][y] = ver[x][y] /\ newest'[x][y] = newest[x][y]
        /\ ver'[n][k] # None /\ ver'[n][k].at = v.at /\ ver'[n][k].origin = v.origin
        /\ newest'[n][k] = v /\ v # None
    BY StoreStep, Distinct
  <1>2. ~ Less(ver'[n][k], v)
    <2>1. v.at \in Nat /\ v.origin \in Nat
      BY InVersions
    <2> QED BY <1>1, <2>1 DEF Less
  <1>3. NeverGoesBack'
    BY <1>1, <1>2 DEF Forward, NeverGoesBack, AtLeast
  <1>4. \A j \in Ids : events[j] # None => Key(j) \in Keys /\ Key(j)' = Key(j) /\ Version(j)' = Version(j)
    BY EventTypes DEF EventsKept, Key, Version
  <1>5. HeldIsNewer'
    <2> SUFFICES ASSUME NEW x \in net', Held(x)'
                 PROVE  Newer(x.to, Key(x.id), Version(x.id))'
      BY DEF HeldIsNewer
    <2>1. x \in net /\ Held(x) /\ ~ (x.to = n /\ Key(x.id) = k)
      BY DEF Held
    <2>2. x.to \in Nodes /\ x.id \in Ids /\ events[x.id] # None
      BY <2>1, MessageTypes
    <2>3. Newer(x.to, Key(x.id), Version(x.id))
      BY <2>1 DEF Forward, HeldIsNewer
    <2>4. Key(x.id) \in Keys /\ Key(x.id)' = Key(x.id) /\ Version(x.id)' = Version(x.id)
      BY <1>4, <2>2
    <2>5. newest'[x.to][Key(x.id)] = newest[x.to][Key(x.id)]
      BY <1>1, <2>1, <2>2, <2>4
    <2> QED BY <2>3, <2>4, <2>5 DEF Newer
  <1>6. ASSUME NEW x \in Nodes, NEW y \in Keys, ver'[x][y] = None, newest'[x][y] # None
        PROVE  "prune" \in Ops /\ newest'[x][y].at <= floor'[y]
    BY <1>1, <1>6 DEF Forward, PrunedIsOld
  <1>7. ASSUME NEW x \in Nodes, NEW j \in Ids, events'[j] # None, InFlight(j)', ver'[x][Key(j)'] = None
        PROVE  Newer(x, Key(j), Version(j))'
    <2>1. CASE Key(j)' \in Keys /\ Newer(x, Key(j)', Version(j)')
      <3>1. ~ (x = n /\ Key(j)' = k)
        BY <1>1, <1>7
      <3> QED BY <1>1, <2>1, <3>1 DEF Newer
    <2>2. CASE events[j] # None /\ InFlight(j)
      <3>1. Key(j) \in Keys /\ Key(j)' = Key(j) /\ Version(j)' = Version(j)
        BY <1>4, <2>2
      <3>2. ~ (x = n /\ Key(j) = k) /\ ver[x][Key(j)] = None
        BY <1>1, <1>7, <3>1
      <3>3. Newer(x, Key(j), Version(j))
        BY <2>2, <3>2 DEF Forward, PrunedIsOld
      <3> QED BY <1>1, <3>1, <3>2, <3>3 DEF Newer
    <2> QED BY <1>7, <2>1, <2>2
  <1>8. PrunedIsOld'
    BY <1>6, <1>7 DEF PrunedIsOld
  <1> QED BY <1>3, <1>5, <1>8 DEF Forward

\* The lock of a key stays with its one holder when a message m becomes y, or
\* leaves: the lock is kept, taken, or given back by m's handler.
LEMMA HolderKept ==
  ASSUME TypeOK, EventsMade, OneHolder, NEW m \in net, NEW y, y.id = m.id, y.to = m.to,
         \A x \in net' : (x \in net /\ x # m) \/ x = y,
         UNCHANGED <<events, heal>>,
         LET k == Key(m.id)
         IN  \/ hold' = hold /\ (Held(y) => Held(m))
             \/ hold[m.to][k] = "free" /\ hold' = [hold EXCEPT ![m.to][k] = "remote"]
             \/ Held(m) /\ ~ Held(y) /\ hold' = [hold EXCEPT ![m.to][k] = "free"]
  PROVE  OneHolder'
  <1> DEFINE k == Key(m.id)
  <1>1. m.to \in Nodes /\ k \in Keys
    BY MessageTypes
  <1>2. \A x \in net : x.to \in Nodes /\ Key(x.id) \in Keys
    BY MessageTypes
  <1>3. \A j : Key(j)' = Key(j)
    BY DEF Key
  <1>4. hold \in [Nodes -> [Keys -> {"free", "local", "remote", "restore"}]]
        /\ \A n \in Nodes : heal[n] # None => heal[n].key \in Keys
    BY DEF TypeOK, Heals
  <1>5. \A x \in net' : x.to \in Nodes /\ Key(x.id) \in Keys
    BY <1>1, <1>2
  <1>6. \/ hold' = hold /\ (Held(y) => Held(m))
        \/ hold[m.to][k] = "free" /\ hold' = [hold EXCEPT ![m.to][k] = "remote"]
        \/ Held(m) /\ ~ Held(y) /\ hold' = [hold EXCEPT ![m.to][k] = "free"]
    OBVIOUS
  <1> HIDE DEF k
  <1>7. CASE hold' = hold /\ (Held(y) => Held(m))
    BY <1>3, <1>7 DEF OneHolder, Held
  <1>8. CASE hold[m.to][k] = "free" /\ hold' = [hold EXCEPT ![m.to][k] = "remote"]
    <2>1. \A x \in Nodes, z \in Keys :
              hold'[x][z] = IF x = m.to /\ z = k THEN "remote" ELSE hold[x][z]
      BY <1>1, <1>4, <1>8
    <2>2. \A x \in net : Held(x) => ~ (x.to = m.to /\ Key(x.id) = k)
      BY <1>8 DEF OneHolder
    <2>3. \A x \in net' : Held(x) => hold'[x.to][Key(x.id)] = "remote"
      BY <1>5, <2>1 DEF OneHolder, k
    <2>4. \A m1, m2 \in net' : Held(m1) /\ Held(m2) /\ m1.to = m2.to /\ Key(m1.id) = Key(m2.id)
                                => m1 = m2
      BY <2>2 DEF OneHolder, k
    <2>5. \A n \in Nodes : heal[n] # None /\ heal[n].stage = "committed"
                                => hold'[n][heal[n].key] = "restore"
      <3>1. hold[m.to][k] = "free"
        BY <1>8
      <3> QED BY <1>4, <2>1, <3>1 DEF OneHolder
    <2> QED BY <1>3, <2>3, <2>4, <2>5 DEF OneHolder, Held
  <1>9. CASE Held(m) /\ ~ Held(y) /\ hold' = [hold EXCEPT ![m.to][k] = "free"]
    <2>1. \A x \in Nodes, z \in Keys :
              hold'[x][z] = IF x = m.to /\ z = k THEN "free" ELSE hold[x][z]
      BY <1>1, <1>4, <1>9
    <2>2. \A x \in net' : Held(x) => x \in net /\ ~ (x.to = m.to /\ Key(x.id) = k)
      BY <1>9 DEF OneHolder, k
    <2>3. \A x \in net' : Held(x) => hold'[x.to][Key(x.id)] = "remote"
      BY <1>2, <2>1, <2>2 DEF OneHolder
    <2>4. \A m1, m2 \in net' : Held(m1) /\ Held(m2) /\ m1.to = m2.to /\ Key(m1.id) = Key(m2.id)
                                => m1 = m2
      BY <2>2 DEF OneHolder
    <2>5. hold[m.to][k] = "remote"
      BY <1>9 DEF OneHolder, k
    <2>6. \A n \in Nodes : heal[n] # None /\ heal[n].stage = "committed"
                                => hold'[n][heal[n].key] = "restore"
      BY <1>4, <2>1, <2>5 DEF OneHolder
    <2> QED BY <1>3, <2>3, <2>4, <2>6 DEF OneHolder, Held
  <1> QED BY <1>6, <1>7, <1>8, <1>9

\* What a step of a peer's handler keeps, whatever it records.
LEMMA HandlerStep ==
  ASSUME ReplInv, NEW m \in net, NEW s \in Stages, Reach(m, s), UNCHANGED <<log, push, repair>>,
         newest' \in [Nodes -> [Keys -> Versions \cup {None}]], NewestGrows,
         \A x \in Nodes : \A j \in applied'[x] :
             j \in applied[x] \/ (x = m.to /\ j = m.id /\ Recorded(x, j)'),
         applied' \in [Nodes -> SUBSET Ids],
         s = "ok" => Recorded(m.to, m.id)',
         LET k == Key(m.id)
         IN  \/ hold' = hold /\ (s \in {"checked", "committed"} => Held(m))
             \/ hold[m.to][k] = "free" /\ hold' = [hold EXCEPT ![m.to][k] = "remote"]
             \/ /\ Held(m) /\ s \notin {"checked", "committed"}
                /\ hold' = [hold EXCEPT ![m.to][k] = "free"]
  PROVE  /\ net' \subseteq Messages
         /\ EventsMade' /\ Acknowledged' /\ DeliveredIsDurable' /\ OneHolder' /\ OneSender'
         /\ FlightEnds
         /\ \A x \in net' : x \in net \/ (x.id = m.id /\ x.to = m.to /\ x.stage = s)
  <1>0. TypeOK /\ EventsMade /\ Acknowledged /\ DeliveredIsDurable /\ OneHolder
    BY DEF ReplInv, Durable
  <1> DEFINE y == [m EXCEPT !.stage = s]
  <1>1. /\ m \in Messages /\ y \in Messages
        /\ m.id \in Ids /\ m.to \in Nodes /\ events[m.id] # None /\ m.to # events[m.id].origin
    BY <1>0, MessageTypes
  <1>2. y.id = m.id /\ y.to = m.to /\ y.stage = s
    BY <1>1 DEF Messages
  <1>3. \A x \in net' : (x \in net /\ x # m) \/ x = y
    BY <1>1, ReachNet
  <1> HIDE DEF y
  <1>4. net' \subseteq Messages
    BY <1>0, <1>1, <1>3 DEF TypeOK
  <1>5. EventsMade'
    BY <1>0, <1>1, <1>2, <1>3 DEF EventsMade
  <1>6. EventsKept
    BY DEF EventsKept
  <1>7. \A x \in Nodes, j \in Ids : events[j] # None /\ Recorded(x, j) => Recorded(x, j)'
    BY <1>0, <1>6, RecordedKept
  <1>8. Acknowledged'
    <2>1. \A x \in Nodes : \A j \in applied'[x] : Recorded(x, j)'
      <3> SUFFICES ASSUME NEW x \in Nodes, NEW j \in applied'[x], j \in applied[x]
                   PROVE  Recorded(x, j)'
        OBVIOUS
      <3>1. j \in Ids /\ events[j] # None /\ Recorded(x, j)
        BY <1>0 DEF EventsMade, Acknowledged
      <3> QED BY <3>1, <1>7
    <2>2. ASSUME NEW x \in net', x.stage = "ok" PROVE Recorded(x.to, x.id)'
      <3>1. CASE x = y
        BY <1>2, <2>2, <3>1
      <3>2. CASE x \in net
        BY <1>0, <1>7, <2>2, <3>2, MessageTypes, ZenonT(30) DEF Acknowledged
      <3> QED BY <1>3, <3>1, <3>2
    <2> QED BY <2>1, <2>2 DEF Acknowledged
  <1>9. DeliveredIsDurable'
    <2> SUFFICES ASSUME NEW j \in Ids, NEW p \in delivered[j] PROVE Recorded(p, j)'
      BY DEF DeliveredIsDurable, Recorded
    <2>1. p \in Nodes /\ events[j] # None /\ Recorded(p, j)
      BY <1>0 DEF TypeOK, EventsMade, DeliveredIsDurable, Recorded
    <2> QED BY <2>1, <1>7
  <1>10. OneHolder'
    <2>1. Held(y) <=> s \in {"checked", "committed"}
      BY <1>2 DEF Held
    <2> QED BY <1>0, <1>2, <1>3, <2>1, HolderKept
  <1>11. FlightEnds
    BY <1>2, <1>3 DEF FlightEnds, InFlight
  <1>12. OneSender'
    <2>1. y.live = m.live
      BY <1>1 DEF y, Messages
    <2> QED BY <1>2, <1>3, <2>1 DEF ReplInv, OneSender
  <1> QED BY <1>2, <1>3, <1>4, <1>5, <1>8, <1>9, <1>10, <1>11, <1>12

\* When a handler records, no other one is past its check for the same key.
LEMMA OtherHeld ==
  ASSUME TypeOK, EventsMade, OneHolder, NEW m \in net, Held(m), Reach(m, "ok")
  PROVE  \A x \in net' : Held(x) => x \in net /\ ~ (x.to = m.to /\ Key(x.id) = Key(m.id))
  <1>1. \A x \in net' : (x \in net /\ x # m) \/ x.stage = "ok"
    <2>1. m \in Messages
      BY MessageTypes
    <2> QED BY <2>1, ReachNet
  <1> QED BY <1>1 DEF OneHolder, Held

\* What a restore in progress names.
LEMMA HealTypes ==
  ASSUME TypeOK, NEW n \in Nodes, heal[n] # None
  PROVE  /\ heal \in [Nodes -> Heals \cup {None}] /\ heal[n] \in Heals
         /\ heal[n].key \in Keys /\ heal[n].from \in Nodes /\ heal[n].content \in Contents
         /\ heal[n].version \in Versions \cup {None}
  <1>1. heal \in [Nodes -> Heals \cup {None}]
    BY DEF TypeOK
  <1>2. heal[n] \in Heals
    BY <1>1
  <1>3. /\ heal[n].key \in Keys /\ heal[n].from \in Nodes /\ heal[n].content \in Contents
        /\ heal[n].version \in Versions \cup {None}
    BY <1>2 DEF Heals
  <1> QED BY <1>1, <1>2, <1>3

\* A restore that stores nothing yet, or ends, leaves every lock with its holder.
LEMMA HealUnheld ==
  ASSUME TypeOK, OneHolder, NEW n \in Nodes, NEW h, heal' = [heal EXCEPT ![n] = h],
         h # None => h.stage # "committed", UNCHANGED <<hold, events, net>>
  PROVE  OneHolder'
  <1>1. heal \in [Nodes -> Heals \cup {None}]
    BY DEF TypeOK
  <1> QED BY <1>1 DEF OneHolder, Held, Key

\* Acknowledgements stay good when no message, applied row or event changes.
LEMMA AckKept ==
  ASSUME TypeOK, EventsMade, Acknowledged, UNCHANGED <<applied, net>>,
         \A x \in Nodes, j \in Ids : events[j] # None /\ Recorded(x, j) => Recorded(x, j)'
  PROVE  Acknowledged'
  <1>1. ASSUME NEW x \in Nodes, NEW j \in applied[x] PROVE Recorded(x, j)'
    <2>1. j \in Ids /\ events[j] # None /\ Recorded(x, j)
      BY DEF TypeOK, EventsMade, Acknowledged
    <2> QED BY <2>1
  <1>2. ASSUME NEW x \in net, x.stage = "ok" PROVE Recorded(x.to, x.id)'
    <2>1. x.to \in Nodes /\ x.id \in Ids /\ events[x.id] # None
      BY MessageTypes
    <2>2. Recorded(x.to, x.id)
      BY <1>2 DEF Acknowledged
    <2> QED BY <2>1, <2>2
  <1> QED BY <1>1, <1>2 DEF Acknowledged

\* So does what was delivered.
LEMMA DurableKept ==
  ASSUME TypeOK, EventsMade, DeliveredIsDurable, UNCHANGED delivered,
         \A x \in Nodes, j \in Ids : events[j] # None /\ Recorded(x, j) => Recorded(x, j)'
  PROVE  DeliveredIsDurable'
  <1> SUFFICES ASSUME NEW j \in Ids, NEW p \in delivered[j] PROVE Recorded(p, j)'
    BY DEF DeliveredIsDurable, Recorded
  <1>1. p \in Nodes /\ events[j] # None /\ Recorded(p, j)
    BY DEF TypeOK, EventsMade, DeliveredIsDurable, Recorded
  <1> QED BY <1>1

\* A version newer than the node's own, or than nothing, is newer than all before.
LEMMA NewerThanHere ==
  ASSUME TypeOK, NeverGoesBack, NEW n \in Nodes, NEW k \in Keys, NEW v \in Versions,
         ~ UpToDate(n, k, v), ver[n][k] = None => newest[n][k] = None
  PROVE  Newer(n, k, v)
  <1>1. CASE ver[n][k] = None
    BY <1>1 DEF Newer
  <1>2. CASE ver[n][k] # None
    <2>1. newest[n][k] # None /\ ~ Less(ver[n][k], newest[n][k])
      BY <1>2 DEF NeverGoesBack, AtLeast
    <2>2. Less(ver[n][k], v)
      BY <1>2 DEF UpToDate, AtLeast
    <2>3. /\ ver[n][k].at \in Nat /\ ver[n][k].origin \in Nat
          /\ newest[n][k].at \in Nat /\ newest[n][k].origin \in Nat
          /\ v.at \in Nat /\ v.origin \in Nat
      BY <1>2, <2>1, VersionTypes, InVersions
    <2>4. Less(newest[n][k], v)
      BY <2>1, <2>2, <2>3, Order
    <2> QED BY <2>4 DEF Newer
  <1> QED BY <1>1, <1>2

-----------------------------------------------------------------------------
(* One lemma per action: it preserves the invariant.                        *)

\* A client change is committed under the key's lock and is not yet versioned.
LEMMA LocalCommitStep ==
  ASSUME ReplInv, NEW n \in Nodes, NEW k \in Keys, NEW c \in ContentOrNone, LocalCommit(n, k, c)
  PROVE  ReplInv'
<1>0. TypeOK /\ EventsMade
  BY DEF ReplInv, Durable
<1>1. TypeOK'
  BY DEF ReplInv, TypeOK, Statuses, Stages, Pushes, LocalCommit
<1>2. EventsMade'
  BY DEF ReplInv, Durable, EventsMade, Key, LocalCommit
<1>3. NewestKept'
  BY DEF ReplInv, Durable, NewestKept, LocalCommit
<1>4. Acknowledged'
  BY DEF ReplInv, Durable, Acknowledged, Recorded, Key, Version, LocalCommit
<1>5. DeliveredIsDurable'
  BY DEF ReplInv, Durable, DeliveredIsDurable, Key, Version, LocalCommit
<1>6. OneHolder'
  BY DEF ReplInv, OneHolder, Held, Key, LocalCommit, Free
<1>7. Unused'
  BY DEF ReplInv, Unused, LocalCommit
<1>8. Safe => NeverGoesBack'
  BY DEF ReplInv, Forward, NeverGoesBack, LocalCommit
<1>9. Safe => HeldIsNewer'
  BY DEF ReplInv, Forward, HeldIsNewer, Newer, Held, Key, Version, LocalCommit
<1>10. Safe => PrunedIsOld'
  BY DEF ReplInv, Forward, PrunedIsOld, Newer, InFlight, Key, Version, LocalCommit
<1>11. OneSender'
  BY DEF ReplInv, OneSender, LocalCommit
<1> QED BY <1>1, <1>2, <1>3, <1>4, <1>5, <1>6, <1>7, <1>8, <1>9, <1>10, <1>11
    DEF ReplInv, Durable, Forward

\* The version it gets is above every one its node recorded, pruned ones included.
LEMMA LocalRecordStep ==
  ASSUME ReplInv, NEW n \in Nodes, NEW k \in Keys, NEW t \in Times, NEW i \in Ids, LocalRecord(n, k, t, i)
  PROVE  ReplInv'
<1>0. TypeOK /\ EventsMade
  BY DEF ReplInv, Durable
<1>s. /\ UNCHANGED <<obj, applied, traffic, repair, floor, counters, attempts, delivered>>
      /\ hold[n][k] = "local" /\ t > floor[k] /\ events[i] = None
      /\ hold' = [hold EXCEPT ![n][k] = "free"]
      /\ Store(n, k, LocalVersion(n, k, t), obj[n][k] = None)
      /\ events' = [events EXCEPT ![i] = [origin |-> n, key |-> k, etag |-> obj[n][k],
                                          at |-> LocalVersion(n, k, t).at]]
      /\ status' = [status EXCEPT ![i] = "pending"]
  BY DEF LocalRecord, Enqueue, IsNext, FreeIds
<1>v. /\ LocalVersion(n, k, t) \in Versions /\ LocalVersion(n, k, t).origin = n
      /\ LocalVersion(n, k, t).at \in Nat /\ LocalVersion(n, k, t).at >= t /\ t \in Nat
      /\ ver[n][k] # None => LocalVersion(n, k, t).at > ver[n][k].at
  <2>1. LocalVersion(n, k, t).at \in Times /\ LocalVersion(n, k, t).origin = n
    BY DEF LocalRecord, LocalVersion
  <2>2. Times \subseteq Nat
    BY DEF Times
  <2>3. LocalVersion(n, k, t) = [at |-> LocalVersion(n, k, t).at, origin |-> n]
    BY DEF LocalVersion
  <2>4. ver[n][k] # None => ver[n][k].at \in Nat
    BY <1>0, VersionTypes
  <2>5. LocalVersion(n, k, t).at >= t /\ (ver[n][k] # None => LocalVersion(n, k, t).at > ver[n][k].at)
    BY <2>2, <2>4 DEF LocalVersion
  <2> QED BY <2>1, <2>2, <2>3, <2>5 DEF Versions
<1>y. /\ [origin |-> n, key |-> k, etag |-> obj[n][k], at |-> LocalVersion(n, k, t).at] \in Events
      /\ obj[n][k] \in ContentOrNone
  <2>1. obj[n][k] \in ContentOrNone
    BY <1>0 DEF TypeOK
  <2>2. LocalVersion(n, k, t).at \in Times
    BY DEF LocalRecord
  <2> QED BY <2>1, <2>2 DEF Events
<1>z. PICK e \in Events :
          /\ events' = [events EXCEPT ![i] = e] /\ events[i] = None
          /\ status' = [status EXCEPT ![i] = "pending"]
          /\ e.key = k /\ e.at = LocalVersion(n, k, t).at /\ e.origin = n
  BY <1>s, <1>y
<1>x. /\ events' \in [Ids -> Events \cup {None}] /\ status' \in [Ids -> Statuses \cup {None}]
      /\ events'[i] = e /\ e # None /\ \A j \in Ids : j # i => events'[j] = events[j] /\ status'[j] = status[j]
  <2>1. events \in [Ids -> Events \cup {None}] /\ status \in [Ids -> Statuses \cup {None}]
    BY <1>0 DEF TypeOK
  <2> QED BY <1>z, <2>1, Distinct
<1>d. PICK d \in BOOLEAN : Store(n, k, LocalVersion(n, k, t), d)
  BY <1>s
<1>t. /\ ver' \in [Nodes -> [Keys -> KeyVersions \cup {None}]]
      /\ newest' \in [Nodes -> [Keys -> Versions \cup {None}]]
      /\ \A x \in Nodes, y \in Keys : ~ (x = n /\ y = k) => ver'[x][y] = ver[x][y]
      /\ ver'[n][k] # None
      /\ NewestGrows /\ NewestKept'
  <2>1. NewestKept
    BY DEF ReplInv, Durable
  <2>2. PICK v \in Versions : v = LocalVersion(n, k, t)
    BY <1>v
  <2>3. Store(n, k, v, d)
    BY <1>d, <2>2
  <2>4. /\ ver' \in [Nodes -> [Keys -> KeyVersions \cup {None}]]
        /\ newest' \in [Nodes -> [Keys -> Versions \cup {None}]]
        /\ NewestGrows /\ NewestKept'
    BY <1>0, <2>1, <2>2, <2>3, StoreStep
  <2>5. ver'[n][k] # None
    BY <1>0, <2>1, <2>2, <2>3, StoreStep
  <2>6. \A x \in Nodes, y \in Keys : ~ (x = n /\ y = k) => ver'[x][y] = ver[x][y]
    BY <1>0, <2>1, <2>2, <2>3, StoreStep
  <2> QED BY <2>4, <2>5, <2>6
<1>e. EventsKept
  BY <1>z, <1>x DEF EventsKept
<1>q. \A x \in Nodes, j \in Ids : events[j] # None /\ Recorded(x, j) => Recorded(x, j)'
  BY <1>0, <1>e, <1>t, RecordedKept
<1>w. Safe => Forward'
  <2> SUFFICES ASSUME Safe PROVE Forward'
    OBVIOUS
  <2> DEFINE v == LocalVersion(n, k, t)
  <2>0. Forward /\ NewestKept
    BY DEF ReplInv, Durable
  <2>1. \A x \in Nodes : ver[x][k] = None => Newer(x, k, v)
    <3> SUFFICES ASSUME NEW x \in Nodes, ver[x][k] = None, newest[x][k] # None
                 PROVE  Less(newest[x][k], v)
      BY DEF Newer
    <3>1. newest[x][k].at <= floor[k]
      BY <2>0 DEF Forward, PrunedIsOld
    <3>2. newest[x][k].at \in Nat /\ floor[k] \in Nat
      BY <1>0, VersionTypes DEF TypeOK
    <3>3. t > floor[k] /\ v.at >= t /\ v.at \in Nat /\ t \in Nat
      BY <1>s, <1>v
    <3> HIDE DEF v
    <3> QED BY <3>1, <3>2, <3>3 DEF Less
  <2>2. Newer(n, k, v)
    <3>1. CASE ver[n][k] = None
      BY <2>1, <3>1
    <3>2. CASE ver[n][k] # None
      <4>1. ver[n][k].at \in Nat /\ v.at \in Nat /\ v.at > ver[n][k].at
        BY <1>0, <1>v, <3>2, VersionTypes
      <4>2. Less(ver[n][k], v)
        BY <4>1 DEF Less
      <4>3. ~ UpToDate(n, k, v)
        BY <4>2 DEF UpToDate, AtLeast
      <4> QED BY <1>0, <1>v, <2>0, <3>2, <4>3, NewerThanHere DEF Forward
    <3> QED BY <3>1, <3>2
  <2>3. \A x \in net' : Held(x) => x \in net /\ ~ (x.to = n /\ Key(x.id) = k)
    BY <1>s DEF ReplInv, OneHolder
  <2>4. \A j \in Ids : j # i => (InFlight(j)' => InFlight(j)) /\ events'[j] = events[j]
    BY <1>s, <1>x DEF InFlight
  <2>5. Key(i)' = k /\ Version(i)' = v
    <3>1. v = [at |-> v.at, origin |-> n]
      BY DEF LocalVersion
    <3>2. events'[i].key = k /\ events'[i].at = v.at /\ events'[i].origin = n
      BY <1>x, <1>z
    <3> QED BY <3>1, <3>2 DEF Key, Version, EventVersion
  <2> HIDE DEF v
  <2>6. \A j \in Ids, x \in Nodes : events'[j] # None /\ InFlight(j)' /\ ver'[x][Key(j)'] = None
             => \/ events[j] # None /\ InFlight(j)
                \/ Key(j)' \in Keys /\ Newer(x, Key(j)', Version(j)')
    BY <1>t, <2>1, <2>4, <2>5
  <2>7. v \in Versions /\ Store(n, k, v, d) /\ UNCHANGED floor
    BY <1>v, <1>d, <1>s DEF v
  <2> QED BY <1>0, <1>e, <2>0, <2>2, <2>3, <2>6, <2>7, StoreForward
<1>1. TypeOK'
  <2>1. hold' \in [Nodes -> [Keys -> {"free", "local", "remote", "restore"}]]
    <3>1. hold \in [Nodes -> [Keys -> {"free", "local", "remote", "restore"}]]
      BY <1>0 DEF TypeOK
    <3> QED BY <1>s, <3>1
  <2> QED BY <1>0, <1>s, <1>t, <1>x, <2>1 DEF TypeOK
<1>2. EventsMade'
  <2>1. \A x \in net : x.id \in Ids /\ events[x.id] # None
    BY <1>0, MessageTypes
  <2>2. \A x \in Nodes : applied[x] \subseteq Ids
    BY <1>0 DEF TypeOK
  <2> QED BY <1>0, <1>s, <1>e, <1>x, <2>1, <2>2 DEF EventsMade, EventsKept
<1>3. NewestKept'
  BY <1>t
<1>4. Acknowledged'
  BY <1>0, <1>s, <1>q, AckKept DEF ReplInv, Durable
<1>5. DeliveredIsDurable'
  BY <1>0, <1>s, <1>q, DurableKept DEF ReplInv, Durable
<1>6. OneHolder'
  <2>0. hold \in [Nodes -> [Keys -> {"free", "local", "remote", "restore"}]]
    BY <1>0 DEF TypeOK
  <2>1. \A x \in Nodes, z \in Keys : hold'[x][z] = IF x = n /\ z = k THEN "free" ELSE hold[x][z]
    BY <1>s, <2>0
  <2>2. hold[n][k] = "local"
    BY <1>s
  <2>3. \A x \in net : x.to \in Nodes /\ Key(x.id) \in Keys /\ Key(x.id)' = Key(x.id)
    BY <1>0, <1>e, MessageTypes DEF EventsKept, Key
  <2>4. \A x \in Nodes : heal[x] # None => heal[x].key \in Keys
    BY <1>0, HealTypes
  <2>5. \A x \in net : Held(x) => hold'[x.to][Key(x.id)] = "remote"
    BY <2>1, <2>2, <2>3 DEF ReplInv, OneHolder
  <2>6. \A x \in Nodes : heal[x] # None /\ heal[x].stage = "committed" => hold'[x][heal[x].key] = "restore"
    BY <2>1, <2>2, <2>4 DEF ReplInv, OneHolder
  <2> QED BY <1>s, <2>3, <2>5, <2>6 DEF ReplInv, OneHolder, Held
<1>7. Unused'
  BY <1>s DEF ReplInv, Unused
<1>8. Safe => NeverGoesBack'
  BY <1>w DEF Forward
<1>9. Safe => HeldIsNewer'
  BY <1>w DEF Forward
<1>10. Safe => PrunedIsOld'
  BY <1>w DEF Forward
<1>11. OneSender'
  BY <1>s DEF ReplInv, OneSender
<1> QED BY <1>1, <1>2, <1>3, <1>4, <1>5, <1>6, <1>7, <1>8, <1>9, <1>10, <1>11
    DEF ReplInv, Durable, Forward

\* A change that is not recorded leaves the versions as they were.
LEMMA LocalRecordFailStep ==
  ASSUME ReplInv, NEW n \in Nodes, NEW k \in Keys, LocalRecordFail(n, k)
  PROVE  ReplInv'
<1>0. TypeOK /\ EventsMade
  BY DEF ReplInv, Durable
<1>1. TypeOK'
  BY DEF ReplInv, TypeOK, Statuses, Stages, Pushes, LocalRecordFail
<1>2. EventsMade'
  BY DEF ReplInv, Durable, EventsMade, Key, LocalRecordFail
<1>3. NewestKept'
  BY DEF ReplInv, Durable, NewestKept, LocalRecordFail
<1>4. Acknowledged'
  BY DEF ReplInv, Durable, Acknowledged, Recorded, Key, Version, LocalRecordFail
<1>5. DeliveredIsDurable'
  BY DEF ReplInv, Durable, DeliveredIsDurable, Key, Version, LocalRecordFail
<1>6. OneHolder'
  BY DEF ReplInv, OneHolder, Held, Key, LocalRecordFail
<1>7. Unused'
  BY DEF ReplInv, Unused, LocalRecordFail
<1>8. Safe => NeverGoesBack'
  BY DEF ReplInv, Forward, NeverGoesBack, LocalRecordFail
<1>9. Safe => HeldIsNewer'
  BY DEF ReplInv, Forward, HeldIsNewer, Newer, Held, Key, Version, LocalRecordFail
<1>10. Safe => PrunedIsOld'
  BY DEF ReplInv, Forward, PrunedIsOld, Newer, InFlight, Key, Version, LocalRecordFail
<1>11. OneSender'
  BY DEF ReplInv, OneSender, LocalRecordFail
<1> QED BY <1>1, <1>2, <1>3, <1>4, <1>5, <1>6, <1>7, <1>8, <1>9, <1>10, <1>11
    DEF ReplInv, Durable, Forward

\* The worker settles an event without sending it, or starts to send it.
LEMMA DeliverStartStep ==
  ASSUME ReplInv, NEW i \in Ids, DeliverStart(i)
  PROVE  ReplInv'
<1>0. TypeOK /\ EventsMade
  BY DEF ReplInv, Durable
<1>s. /\ events[i] # None /\ status[i] \in {"pending", "failed"}
      /\ \A j \in Ids : j # i => status'[j] = status[j] /\ push'[j] = push[j]
      /\ UNCHANGED <<events, net, applied, delivered, ver, newest, floor>>
  BY <1>0, Distinct DEF EventsMade, TypeOK, DeliverStart, Due, Unsent
<1>f. FlightEnds
  BY <1>s DEF FlightEnds, InFlight
<1>1. TypeOK'
  BY DEF ReplInv, TypeOK, Statuses, Stages, Pushes, DeliverStart, Due, Unsent
<1>2. EventsMade'
  BY <1>0, <1>s DEF EventsMade
<1>3. NewestKept'
  BY <1>s DEF ReplInv, Durable, NewestKept
<1>4. Acknowledged'
  BY <1>s DEF ReplInv, Durable, Acknowledged, Recorded, Key, Version
<1>5. DeliveredIsDurable'
  BY <1>s DEF ReplInv, Durable, DeliveredIsDurable, Key, Version
<1>6. OneHolder'
  BY DEF ReplInv, OneHolder, Held, Key, DeliverStart
<1>7. Unused'
  BY DEF ReplInv, Unused, DeliverStart
<1>8. Safe => NeverGoesBack'
  BY <1>s DEF ReplInv, Forward, NeverGoesBack
<1>9. Safe => HeldIsNewer'
  BY <1>s DEF ReplInv, Forward, HeldIsNewer, Newer, Held, Key, Version
<1>10. Safe => PrunedIsOld'
  BY <1>f, <1>s, FlightKept DEF ReplInv, Forward
<1>11. OneSender'
  <2>1. push[i] = None
    BY DEF DeliverStart, Due, Unsent
  <2>2. \A x \in net : x.to \in Nodes /\ x.id \in Ids
    BY <1>0, MessageTypes
  <2>3. \A x \in net : x.live => x.id # i
    BY <2>1, <2>2, NoneAssumption DEF ReplInv, OneSender
  <2> QED BY <1>s, <2>2, <2>3 DEF ReplInv, OneSender
<1> QED BY <1>1, <1>2, <1>3, <1>4, <1>5, <1>6, <1>7, <1>8, <1>9, <1>10, <1>11
    DEF ReplInv, Durable, Forward

\* A push goes to a peer, never to the node the event was made on.
LEMMA PushToStep ==
  ASSUME ReplInv, NEW i \in Ids, NEW p \in Nodes, PushTo(i, p)
  PROVE  ReplInv'
<1>0. TypeOK /\ EventsMade
  BY DEF ReplInv, Durable
<1>e. /\ events[i] # None /\ events[i].origin \in Nodes /\ p # events[i].origin /\ push[i] \in Pushes
      /\ Key(i) \in Keys
  BY <1>0, EventTypes DEF EventsMade, TypeOK, PushTo, Delivering, Untried, Peers
<1>c. obj[events[i].origin][Key(i)] \in ContentOrNone
  <2>1. obj \in [Nodes -> [Keys -> ContentOrNone]]
    BY <1>0 DEF TypeOK
  <2> QED BY <2>1, <1>e, ZenonT(30)
<1>s. /\ push' \in [Ids -> Pushes \cup {None}]
      /\ \A j \in Ids : j # i => push'[j] = push[j]
      /\ push[i] # None
      /\ UNCHANGED <<objects, log, applied, repair, floor, counters>>
  <2>1. push \in [Ids -> Pushes \cup {None}]
    BY <1>0 DEF TypeOK
  <2>2. /\ [push[i] EXCEPT !.tried = @ \cup {p}] \in Pushes
        /\ [push[i] EXCEPT !.to = p] \in Pushes
    BY <1>e DEF Pushes
  <2>3. \E q \in Pushes : push' = [push EXCEPT ![i] = q]
    BY <2>1, <2>2, <1>e DEF PushTo
  <2> QED BY <2>1, <2>3, <1>e, Distinct DEF PushTo
<1>n. \A x \in net' : x \in net \/ (x \in Messages /\ x.id = i /\ x.to = p /\ x.stage = "sent")
  <2> DEFINE c == IF events[i].etag = None THEN None ELSE obj[events[i].origin][Key(i)]
             y == [id |-> i, to |-> p, stage |-> "sent", live |-> TRUE, content |-> c]
  <2>1. net' = net \/ net' = net \cup {y}
    BY DEF PushTo
  <2>2. c \in ContentOrNone
    BY <1>c DEF ContentOrNone
  <2>3. y \in Messages /\ y.id = i /\ y.to = p /\ y.stage = "sent"
    BY <2>2 DEF Messages, Stages
  <2> QED BY <2>1, <2>3
<1>f. FlightEnds
  BY <1>s, <1>n DEF FlightEnds, InFlight
<1>1. TypeOK'
  BY <1>0, <1>s, <1>n DEF TypeOK
<1>2. EventsMade'
  BY <1>0, <1>e, <1>s, <1>n DEF EventsMade
<1>3. NewestKept'
  BY <1>s DEF ReplInv, Durable, NewestKept
<1>4. Acknowledged'
  <2>1. applied' = applied /\ \A n, j : Recorded(n, j)' <=> Recorded(n, j)
    BY <1>s DEF Recorded, Key, Version
  <2>2. \A x \in net' : x.stage = "ok" => x \in net
    BY <1>n
  <2> QED BY <2>1, <2>2 DEF ReplInv, Durable, Acknowledged
<1>5. DeliveredIsDurable'
  BY <1>s DEF ReplInv, Durable, DeliveredIsDurable, Key, Version
<1>6. OneHolder'
  <2>1. \A x \in net' : Held(x) => x \in net
    BY <1>n DEF Held
  <2>2. hold' = hold /\ heal' = heal /\ \A j : Key(j)' = Key(j)
    BY <1>s DEF Key
  <2> QED BY <2>1, <2>2 DEF ReplInv, OneHolder
<1>7. Unused'
  BY <1>s DEF ReplInv, Unused
<1>8. Safe => NeverGoesBack'
  BY <1>s DEF ReplInv, Forward, NeverGoesBack
<1>9. Safe => HeldIsNewer'
  BY DEF ReplInv, Forward, HeldIsNewer, Newer, Held, Key, Version, PushTo
<1>10. Safe => PrunedIsOld'
  BY <1>f, <1>s, FlightKept DEF ReplInv, Forward
<1>11. OneSender'
  <2>1. push[i].to = None
    BY DEF PushTo, Delivering
  <2>2. \A x \in net : x.live => x.id # i /\ x.id \in Ids /\ push[x.id] # None /\ push[x.id].to = x.to
    BY <1>0, <2>1, MessageTypes DEF ReplInv, OneSender
  <2>3. \A m1, m2 \in net : m1.live /\ m2.live /\ m1.id = m2.id => m1 = m2
    BY DEF ReplInv, OneSender
  <2>4. CASE net' = net
    BY <1>s, <2>2, <2>3, <2>4 DEF OneSender
  <2>5. CASE net' # net
    <3> DEFINE c == IF events[i].etag = None THEN None ELSE obj[events[i].origin][Key(i)]
               y == [id |-> i, to |-> p, stage |-> "sent", live |-> TRUE, content |-> c]
    <3>1. net' = net \cup {y} /\ push' = [push EXCEPT ![i].to = p]
      BY <2>5 DEF PushTo
    <3>2. y.id = i /\ y.to = p
      OBVIOUS
    <3>3. push'[i] # None /\ push'[i].to = p
      <4>1. push \in [Ids -> Pushes \cup {None}]
        BY <1>0 DEF TypeOK
      <4>2. [push[i] EXCEPT !.to = p] \in Pushes /\ [push[i] EXCEPT !.to = p].to = p
        BY <1>e DEF Pushes
      <4> QED BY <3>1, <4>1, <4>2, Distinct
    <3> HIDE DEF y
    <3> QED BY <1>s, <2>2, <2>3, <3>1, <3>2, <3>3 DEF OneSender
  <2> QED BY <2>4, <2>5
<1> QED BY <1>1, <1>2, <1>3, <1>4, <1>5, <1>6, <1>7, <1>8, <1>9, <1>10, <1>11
    DEF ReplInv, Durable, Forward

\* The worker settles an event, or keeps it for a retry or as a dead letter.
LEMMA DeliverEndStep ==
  ASSUME ReplInv, NEW i \in Ids, DeliverEnd(i)
  PROVE  ReplInv'
<1>0. TypeOK /\ EventsMade
  BY DEF ReplInv, Durable
<1>s. /\ events[i] # None /\ push[i] # None
      /\ \A j \in Ids : j # i => status'[j] = status[j] /\ push'[j] = push[j]
      /\ UNCHANGED <<events, net, applied, delivered, ver, newest, floor>>
  BY <1>0, Distinct DEF EventsMade, TypeOK, DeliverEnd, Delivering, MarkFailed
<1>f. FlightEnds
  BY <1>s DEF FlightEnds, InFlight
<1>1. TypeOK'
  BY DEF ReplInv, TypeOK, Statuses, Stages, Pushes, DeliverEnd, Delivering, MarkFailed
<1>2. EventsMade'
  BY <1>0, <1>s DEF EventsMade
<1>3. NewestKept'
  BY <1>s DEF ReplInv, Durable, NewestKept
<1>4. Acknowledged'
  BY <1>s DEF ReplInv, Durable, Acknowledged, Recorded, Key, Version
<1>5. DeliveredIsDurable'
  BY <1>s DEF ReplInv, Durable, DeliveredIsDurable, Key, Version
<1>6. OneHolder'
  BY DEF ReplInv, OneHolder, Held, Key, DeliverEnd
<1>7. Unused'
  BY DEF ReplInv, Unused, DeliverEnd
<1>8. Safe => NeverGoesBack'
  BY <1>s DEF ReplInv, Forward, NeverGoesBack
<1>9. Safe => HeldIsNewer'
  BY <1>s DEF ReplInv, Forward, HeldIsNewer, Newer, Held, Key, Version
<1>10. Safe => PrunedIsOld'
  BY <1>f, <1>s, FlightKept DEF ReplInv, Forward
<1>11. OneSender'
  <2>1. push[i].to = None
    BY DEF DeliverEnd, Delivering, MarkFailed
  <2>2. \A x \in net : x.to \in Nodes /\ x.id \in Ids
    BY <1>0, MessageTypes
  <2>3. \A x \in net : x.live => x.id # i
    BY <2>1, <2>2, NoneAssumption DEF ReplInv, OneSender
  <2> QED BY <1>s, <2>2, <2>3 DEF ReplInv, OneSender
<1> QED BY <1>1, <1>2, <1>3, <1>4, <1>5, <1>6, <1>7, <1>8, <1>9, <1>10, <1>11
    DEF ReplInv, Durable, Forward

\* A replayed event is on its way again; where Safe holds nothing was pruned meanwhile.
LEMMA ReplayDeadLetterStep ==
  ASSUME ReplInv, NEW i \in Ids, ReplayDeadLetter(i)
  PROVE  ReplInv'
<1>0. TypeOK /\ EventsMade
  BY DEF ReplInv, Durable
<1>s. /\ "replay" \in Ops
      /\ UNCHANGED <<events, ver, newest, floor>>
  BY DEF ReplayDeadLetter
<1>1. TypeOK'
  BY DEF ReplInv, TypeOK, Statuses, Stages, Pushes, ReplayDeadLetter
<1>2. EventsMade'
  BY <1>0, Distinct DEF ReplInv, Durable, EventsMade, Key, ReplayDeadLetter
<1>3. NewestKept'
  BY <1>s DEF ReplInv, Durable, NewestKept
<1>4. Acknowledged'
  BY DEF ReplInv, Durable, Acknowledged, Recorded, Key, Version, ReplayDeadLetter
<1>5. DeliveredIsDurable'
  BY DEF ReplInv, Durable, DeliveredIsDurable, Key, Version, ReplayDeadLetter
<1>6. OneHolder'
  BY DEF ReplInv, OneHolder, Held, Key, ReplayDeadLetter
<1>7. Unused'
  BY DEF ReplInv, Unused, ReplayDeadLetter
<1>8. Safe => NeverGoesBack'
  BY <1>s DEF ReplInv, Forward, NeverGoesBack
<1>9. Safe => HeldIsNewer'
  BY DEF ReplInv, Forward, HeldIsNewer, Newer, Held, Key, Version, ReplayDeadLetter
<1>10. Safe => PrunedIsOld'
  <2> SUFFICES ASSUME Safe PROVE PrunedIsOld'
    OBVIOUS
  <2>1. \A x \in Nodes, y \in Keys : ver[x][y] = None => newest[x][y] = None
    BY <1>s DEF ReplInv, Forward, PrunedIsOld, Safe
  <2>2. \A j \in Ids : events[j] # None => Key(j) \in Keys
    BY <1>0, EventTypes
  <2> QED BY <1>s, <2>1, <2>2 DEF PrunedIsOld, Newer, Key, Version
<1>11. OneSender'
  BY DEF ReplInv, OneSender, ReplayDeadLetter
<1> QED BY <1>1, <1>2, <1>3, <1>4, <1>5, <1>6, <1>7, <1>8, <1>9, <1>10, <1>11
    DEF ReplInv, Durable, Forward

\* Only an answer of a node that recorded the event enters delivered_to.
LEMMA PushOkStep ==
  ASSUME ReplInv, NEW m \in net, PushOk(m)
  PROVE  ReplInv'
<1>0. TypeOK /\ EventsMade
  BY DEF ReplInv, Durable
<1>m. /\ m.id \in Ids /\ m.to \in Nodes /\ m.content \in ContentOrNone
      /\ events[m.id] # None /\ m.to # events[m.id].origin /\ Key(m.id) \in Keys
      /\ \A s \in Stages : [m EXCEPT !.stage = s] \in Messages
      /\ [m EXCEPT !.live = FALSE] \in Messages
  BY <1>0, MessageTypes
<1>s. /\ UNCHANGED <<objects, events, status, attempts, applied, repair, floor, crashes>>
      /\ m.live /\ push' = [push EXCEPT ![m.id] = [to |-> None, tried |-> @.tried \cup {m.to}]]
      /\ UNCHANGED faults /\ delivered' = [delivered EXCEPT ![m.id] = @ \cup {m.to}]
      /\ m.stage = "ok"
  BY DEF PushOk, Pushed
<1>o. push[m.id] \in Pushes /\ push[m.id] # None /\ push[m.id].to = m.to
  BY <1>0, <1>m, <1>s DEF ReplInv, OneSender, TypeOK
<1>t. /\ push' \in [Ids -> Pushes \cup {None}]
      /\ \A j \in Ids : push'[j] # None => push[j] # None
      /\ \A j \in Ids : j # m.id => push'[j] = push[j]
  <2>1. push \in [Ids -> Pushes \cup {None}]
    BY <1>0 DEF TypeOK
  <2>2. [to |-> None, tried |-> push[m.id].tried \cup {m.to}] \in Pushes
    BY <1>o, <1>m DEF Pushes
  <2> QED BY <1>s, <1>o, <1>m, <2>1, <2>2
<1>n. net' \subseteq net \ {m}
  BY DEF PushOk
<1>f. FlightEnds
  BY <1>s, <1>t, <1>n, <1>o, <1>m DEF FlightEnds, InFlight
<1>1. TypeOK'
  <2>1. delivered' \in [Ids -> SUBSET Nodes]
    BY <1>0, <1>m, <1>s DEF TypeOK
  <2> QED BY <1>0, <1>s, <1>t, <1>n, <2>1 DEF TypeOK
<1>2. EventsMade'
  <2>1. \A j \in Ids : delivered'[j] # {} => delivered[j] # {} \/ j = m.id
    BY <1>0, <1>m, <1>s DEF TypeOK
  <2> QED BY <1>0, <1>s, <1>t, <1>n, <1>m, <2>1 DEF EventsMade
<1>3. NewestKept'
  BY <1>s DEF ReplInv, Durable, NewestKept
<1>4. Acknowledged'
  BY <1>s, <1>n DEF ReplInv, Durable, Acknowledged, Recorded, Key, Version
<1>5. DeliveredIsDurable'
  <2>1. \A j \in Ids : \A x \in delivered'[j] : x \in delivered[j] \/ (j = m.id /\ x = m.to)
    BY <1>0, <1>m, <1>s DEF TypeOK
  <2>2. Recorded(m.to, m.id)
    BY <1>s DEF ReplInv, Durable, Acknowledged
  <2> QED BY <1>s, <2>1, <2>2 DEF ReplInv, Durable, DeliveredIsDurable, Recorded, Key, Version
<1>6. OneHolder'
  BY DEF ReplInv, OneHolder, Held, Key, PushOk
<1>7. Unused'
  BY <1>s DEF ReplInv, Unused
<1>8. Safe => NeverGoesBack'
  BY <1>s DEF ReplInv, Forward, NeverGoesBack
<1>9. Safe => HeldIsNewer'
  BY DEF ReplInv, Forward, HeldIsNewer, Newer, Held, Key, Version, PushOk
<1>10. Safe => PrunedIsOld'
  BY <1>f, <1>s, FlightKept DEF ReplInv, Forward
<1>11. OneSender'
  BY <1>0, <1>s, <1>t, <1>n, <1>o, <1>m, MessageTypes DEF ReplInv, OneSender
<1> QED BY <1>1, <1>2, <1>3, <1>4, <1>5, <1>6, <1>7, <1>8, <1>9, <1>10, <1>11
    DEF ReplInv, Durable, Forward

\* An error answer leaves delivered_to alone.
LEMMA PushErrStep ==
  ASSUME ReplInv, NEW m \in net, PushErr(m)
  PROVE  ReplInv'
<1>0. TypeOK /\ EventsMade
  BY DEF ReplInv, Durable
<1>m. /\ m.id \in Ids /\ m.to \in Nodes /\ m.content \in ContentOrNone
      /\ events[m.id] # None /\ m.to # events[m.id].origin /\ Key(m.id) \in Keys
      /\ \A s \in Stages : [m EXCEPT !.stage = s] \in Messages
      /\ [m EXCEPT !.live = FALSE] \in Messages
  BY <1>0, MessageTypes
<1>s. /\ UNCHANGED <<objects, events, status, attempts, applied, repair, floor, crashes>>
      /\ m.live /\ push' = [push EXCEPT ![m.id] = [to |-> None, tried |-> @.tried \cup {m.to}]]
      /\ UNCHANGED <<delivered, faults>>
  BY DEF PushErr, Pushed
<1>o. push[m.id] \in Pushes /\ push[m.id] # None /\ push[m.id].to = m.to
  BY <1>0, <1>m, <1>s DEF ReplInv, OneSender, TypeOK
<1>t. /\ push' \in [Ids -> Pushes \cup {None}]
      /\ \A j \in Ids : push'[j] # None => push[j] # None
      /\ \A j \in Ids : j # m.id => push'[j] = push[j]
  <2>1. push \in [Ids -> Pushes \cup {None}]
    BY <1>0 DEF TypeOK
  <2>2. [to |-> None, tried |-> push[m.id].tried \cup {m.to}] \in Pushes
    BY <1>o, <1>m DEF Pushes
  <2> QED BY <1>s, <1>o, <1>m, <2>1, <2>2
<1>n. net' \subseteq net \ {m}
  BY DEF PushErr
<1>f. FlightEnds
  BY <1>s, <1>t, <1>n, <1>o, <1>m DEF FlightEnds, InFlight
<1>1. TypeOK'
  BY <1>0, <1>s, <1>t, <1>n DEF TypeOK
<1>2. EventsMade'
  BY <1>0, <1>s, <1>t, <1>n, <1>m DEF EventsMade
<1>3. NewestKept'
  BY <1>s DEF ReplInv, Durable, NewestKept
<1>4. Acknowledged'
  BY <1>s, <1>n DEF ReplInv, Durable, Acknowledged, Recorded, Key, Version
<1>5. DeliveredIsDurable'
  BY <1>s DEF ReplInv, Durable, DeliveredIsDurable, Key, Version
<1>6. OneHolder'
  BY DEF ReplInv, OneHolder, Held, Key, PushErr
<1>7. Unused'
  BY <1>s DEF ReplInv, Unused
<1>8. Safe => NeverGoesBack'
  BY <1>s DEF ReplInv, Forward, NeverGoesBack
<1>9. Safe => HeldIsNewer'
  BY DEF ReplInv, Forward, HeldIsNewer, Newer, Held, Key, Version, PushErr
<1>10. Safe => PrunedIsOld'
  BY <1>f, <1>s, FlightKept DEF ReplInv, Forward
<1>11. OneSender'
  BY <1>0, <1>s, <1>t, <1>n, <1>o, <1>m, MessageTypes DEF ReplInv, OneSender
<1> QED BY <1>1, <1>2, <1>3, <1>4, <1>5, <1>6, <1>7, <1>8, <1>9, <1>10, <1>11
    DEF ReplInv, Durable, Forward

\* A sender that gives up leaves the peer's handler as it is.
LEMMA PushLostStep ==
  ASSUME ReplInv, NEW m \in net, PushLost(m)
  PROVE  ReplInv'
<1>0. TypeOK /\ EventsMade
  BY DEF ReplInv, Durable
<1>m. /\ m.id \in Ids /\ m.to \in Nodes /\ m.content \in ContentOrNone
      /\ events[m.id] # None /\ m.to # events[m.id].origin /\ Key(m.id) \in Keys
      /\ \A s \in Stages : [m EXCEPT !.stage = s] \in Messages
      /\ [m EXCEPT !.live = FALSE] \in Messages
  BY <1>0, MessageTypes
<1>s. /\ UNCHANGED <<objects, events, status, attempts, applied, repair, floor, crashes>>
      /\ m.live /\ push' = [push EXCEPT ![m.id] = [to |-> None, tried |-> @.tried \cup {m.to}]]
      /\ UNCHANGED delivered /\ faults' = faults + 1
  BY DEF PushLost, Pushed
<1>o. push[m.id] \in Pushes /\ push[m.id] # None /\ push[m.id].to = m.to
  BY <1>0, <1>m, <1>s DEF ReplInv, OneSender, TypeOK
<1>t. /\ push' \in [Ids -> Pushes \cup {None}]
      /\ \A j \in Ids : push'[j] # None => push[j] # None
      /\ \A j \in Ids : j # m.id => push'[j] = push[j]
  <2>1. push \in [Ids -> Pushes \cup {None}]
    BY <1>0 DEF TypeOK
  <2>2. [to |-> None, tried |-> push[m.id].tried \cup {m.to}] \in Pushes
    BY <1>o, <1>m DEF Pushes
  <2> QED BY <1>s, <1>o, <1>m, <2>1, <2>2
<1>n. \E y \in Messages :
          /\ y.id = m.id /\ y.to = m.to /\ y.stage = m.stage /\ ~ y.live
          /\ \A x \in net' : (x \in net /\ x # m) \/ x = y
  <2> DEFINE y == [m EXCEPT !.live = FALSE]
  <2>1. \A x \in net' : (x \in net /\ x # m) \/ x = y
    BY DEF PushLost
  <2>2. m \in Messages /\ y \in Messages
    BY <1>0, MessageTypes
  <2>3. y.id = m.id /\ y.to = m.to /\ y.stage = m.stage /\ ~ y.live
    BY <2>2 DEF Messages
  <2> QED BY <2>1, <2>2, <2>3
<1>f. FlightEnds
  BY <1>s, <1>t, <1>n, <1>o, <1>m DEF FlightEnds, InFlight
<1>1. TypeOK'
  <2>1. net' \subseteq Messages
    BY <1>0, <1>n DEF TypeOK
  <2>2. faults' \in Nat
    BY <1>0, <1>s DEF TypeOK
  <2> QED BY <1>0, <1>s, <1>t, <2>1, <2>2 DEF TypeOK
<1>2. EventsMade'
  BY <1>0, <1>s, <1>t, <1>n, <1>m DEF EventsMade
<1>3. NewestKept'
  BY <1>s DEF ReplInv, Durable, NewestKept
<1>4. Acknowledged'
  BY <1>s, <1>n DEF ReplInv, Durable, Acknowledged, Recorded, Key, Version
<1>5. DeliveredIsDurable'
  BY <1>s DEF ReplInv, Durable, DeliveredIsDurable, Key, Version
<1>6. OneHolder'
  <2>1. PICK y \in Messages :
            /\ y.id = m.id /\ y.to = m.to /\ y.stage = m.stage
            /\ \A x \in net' : (x \in net /\ x # m) \/ x = y
    BY <1>n
  <2>2. Held(y) => Held(m)
    BY <2>1 DEF Held
  <2> QED BY <1>0, <1>s, <2>1, <2>2, HolderKept DEF ReplInv
<1>7. Unused'
  BY <1>s DEF ReplInv, Unused
<1>8. Safe => NeverGoesBack'
  BY <1>s DEF ReplInv, Forward, NeverGoesBack
<1>9. Safe => HeldIsNewer'
  BY <1>s, <1>n DEF ReplInv, Forward, HeldIsNewer, Held, Newer, Key, Version
<1>10. Safe => PrunedIsOld'
  BY <1>f, <1>s, FlightKept DEF ReplInv, Forward
<1>11. OneSender'
  BY <1>0, <1>s, <1>t, <1>n, <1>o, <1>m, MessageTypes DEF ReplInv, OneSender
<1> QED BY <1>1, <1>2, <1>3, <1>4, <1>5, <1>6, <1>7, <1>8, <1>9, <1>10, <1>11
    DEF ReplInv, Durable, Forward

\* What a peer acknowledges at once it has recorded, or something newer.
LEMMA ReceiveStep ==
  ASSUME ReplInv, NEW m \in net, Receive(m)
  PROVE  ReplInv'
<1>0. TypeOK /\ EventsMade
  BY DEF ReplInv, Durable
<1>m. /\ m.id \in Ids /\ m.to \in Nodes /\ m.content \in ContentOrNone
      /\ events[m.id] # None /\ m.to # events[m.id].origin /\ Key(m.id) \in Keys
      /\ \A s \in Stages : [m EXCEPT !.stage = s] \in Messages
      /\ [m EXCEPT !.live = FALSE] \in Messages
  BY <1>0, MessageTypes
<1>s. UNCHANGED <<objects, log, push, repair, floor, counters>>
  BY DEF Receive
<1>u. UpToDate(m.to, Key(m.id), Version(m.id)) => Recorded(m.to, m.id)
  BY <1>0, <1>m, UpToDateRecorded DEF ReplInv, Durable
<1>h. HasEvent(m.to, m.id) => Recorded(m.to, m.id)
  BY <1>m DEF HasEvent, ReplInv, Durable, Acknowledged
<1>p. \E s \in {"ok", "err", "open"} :
          /\ Reach(m, s) /\ (s = "ok" => Recorded(m.to, m.id))
          /\ applied' = applied \/ (s = "ok" /\ applied' = [applied EXCEPT ![m.to] = @ \cup {m.id}])
  BY <1>u, <1>h DEF Receive, RecordApplied, Key
<1>r. PICK s \in {"ok", "err", "open"} :
          /\ Reach(m, s) /\ (s = "ok" => Recorded(m.to, m.id))
          /\ applied' = applied \/ (s = "ok" /\ applied' = [applied EXCEPT ![m.to] = @ \cup {m.id}])
  BY <1>p
<1>g. NewestGrows
  BY <1>0, <1>s, GrowsUnchanged
<1>q. Recorded(m.to, m.id)' <=> Recorded(m.to, m.id)
  BY <1>s DEF Recorded, Key, Version
<1>a. /\ applied' \in [Nodes -> SUBSET Ids]
      /\ \A x \in Nodes : \A j \in applied'[x] :
             j \in applied[x] \/ (x = m.to /\ j = m.id /\ Recorded(x, j)')
  <2>1. applied \in [Nodes -> SUBSET Ids]
    BY <1>0 DEF TypeOK
  <2> QED BY <1>m, <1>r, <1>q, <2>1
<1>k. /\ net' \subseteq Messages
      /\ EventsMade' /\ Acknowledged' /\ DeliveredIsDurable' /\ OneHolder' /\ OneSender'
      /\ FlightEnds
      /\ \A x \in net' : x \in net \/ (x.id = m.id /\ x.to = m.to /\ x.stage = s)
  <2>1. newest' \in [Nodes -> [Keys -> Versions \cup {None}]]
    BY <1>0, <1>s DEF TypeOK
  <2>2. s \in Stages
    BY DEF Stages
  <2> QED BY <1>s, <1>r, <1>g, <1>q, <1>a, <2>1, <2>2, HandlerStep
<1>1. TypeOK'
  BY <1>0, <1>s, <1>a, <1>k DEF TypeOK
<1>2. EventsMade'
  BY <1>k
<1>3. NewestKept'
  BY <1>s DEF ReplInv, Durable, NewestKept
<1>4. Acknowledged'
  BY <1>k
<1>5. DeliveredIsDurable'
  BY <1>k
<1>6. OneHolder'
  BY <1>k
<1>7. Unused'
  BY <1>s DEF ReplInv, Unused
<1>8. Safe => NeverGoesBack'
  BY <1>s DEF ReplInv, Forward, NeverGoesBack
<1>9. Safe => HeldIsNewer'
  BY <1>s, <1>r, <1>k DEF ReplInv, Forward, HeldIsNewer, Held, Newer, Key, Version
<1>10. Safe => PrunedIsOld'
  BY <1>s, <1>k, FlightKept DEF ReplInv, Forward
<1>11. OneSender'
  BY <1>k
<1> QED BY <1>1, <1>2, <1>3, <1>4, <1>5, <1>6, <1>7, <1>8, <1>9, <1>10, <1>11
    DEF ReplInv, Durable, Forward

\* A handler past the check under the lock carries a change newer than all recorded here.
LEMMA ApplyCheckStep ==
  ASSUME ReplInv, NEW m \in net, ApplyCheck(m)
  PROVE  ReplInv'
<1>0. TypeOK /\ EventsMade
  BY DEF ReplInv, Durable
<1>m. /\ m.id \in Ids /\ m.to \in Nodes /\ m.content \in ContentOrNone
      /\ events[m.id] # None /\ m.to # events[m.id].origin /\ Key(m.id) \in Keys
      /\ \A s \in Stages : [m EXCEPT !.stage = s] \in Messages
      /\ [m EXCEPT !.live = FALSE] \in Messages
  BY <1>0, MessageTypes
<1>s. UNCHANGED <<obj, ver, newest, log, push, repair, floor, counters>> /\ ~ Held(m)
  BY DEF ApplyCheck, Held
<1>u. UpToDate(m.to, Key(m.id), Version(m.id)) => Recorded(m.to, m.id)
  BY <1>0, <1>m, UpToDateRecorded DEF ReplInv, Durable
<1>p. \E s \in {"ok", "checked"} :
          /\ Reach(m, s)
          /\ \/ /\ s = "ok" /\ Recorded(m.to, m.id) /\ hold' = hold
                /\ applied' = [applied EXCEPT ![m.to] = @ \cup {m.id}]
             \/ /\ s = "checked" /\ ~ UpToDate(m.to, Key(m.id), Version(m.id))
                /\ applied' = applied
                /\ hold[m.to][Key(m.id)] = "free"
                /\ hold' = [hold EXCEPT ![m.to][Key(m.id)] = "remote"]
  BY <1>u DEF ApplyCheck, RecordApplied, Free
<1>r. PICK s \in {"ok", "checked"} :
          /\ Reach(m, s)
          /\ \/ /\ s = "ok" /\ Recorded(m.to, m.id) /\ hold' = hold
                /\ applied' = [applied EXCEPT ![m.to] = @ \cup {m.id}]
             \/ /\ s = "checked" /\ ~ UpToDate(m.to, Key(m.id), Version(m.id))
                /\ applied' = applied
                /\ hold[m.to][Key(m.id)] = "free"
                /\ hold' = [hold EXCEPT ![m.to][Key(m.id)] = "remote"]
  BY <1>p
<1>g. NewestGrows
  BY <1>0, <1>s, GrowsUnchanged
<1>q. Recorded(m.to, m.id)' <=> Recorded(m.to, m.id)
  BY <1>s DEF Recorded, Key, Version
<1>a. /\ applied' \in [Nodes -> SUBSET Ids]
      /\ \A x \in Nodes : \A j \in applied'[x] :
             j \in applied[x] \/ (x = m.to /\ j = m.id /\ Recorded(x, j)')
  <2>1. applied \in [Nodes -> SUBSET Ids]
    BY <1>0 DEF TypeOK
  <2> QED BY <1>m, <1>r, <1>q, <2>1
<1>k. /\ net' \subseteq Messages
      /\ EventsMade' /\ Acknowledged' /\ DeliveredIsDurable' /\ OneHolder' /\ OneSender'
      /\ FlightEnds
      /\ \A x \in net' : x \in net \/ (x.id = m.id /\ x.to = m.to /\ x.stage = s)
  <2>1. newest' \in [Nodes -> [Keys -> Versions \cup {None}]]
    BY <1>0, <1>s DEF TypeOK
  <2>2. s \in Stages
    BY DEF Stages
  <2> QED BY <1>s, <1>r, <1>g, <1>q, <1>a, <2>1, <2>2, HandlerStep
<1>1. TypeOK'
  <2>1. hold' \in [Nodes -> [Keys -> {"free", "local", "remote", "restore"}]]
    <3>1. hold \in [Nodes -> [Keys -> {"free", "local", "remote", "restore"}]]
      BY <1>0 DEF TypeOK
    <3> QED BY <1>m, <1>r, <3>1
  <2> QED BY <1>0, <1>s, <1>a, <1>k, <2>1 DEF TypeOK
<1>2. EventsMade'
  BY <1>k
<1>3. NewestKept'
  BY <1>s DEF ReplInv, Durable, NewestKept
<1>4. Acknowledged'
  BY <1>k
<1>5. DeliveredIsDurable'
  BY <1>k
<1>6. OneHolder'
  BY <1>k
<1>7. Unused'
  BY <1>s DEF ReplInv, Unused
<1>8. Safe => NeverGoesBack'
  BY <1>s DEF ReplInv, Forward, NeverGoesBack
<1>9. Safe => HeldIsNewer'
  <2> SUFFICES ASSUME Safe, s = "checked" PROVE Newer(m.to, Key(m.id), Version(m.id))
    BY <1>s, <1>r, <1>k DEF ReplInv, Forward, HeldIsNewer, Held, Newer, Key, Version
  <2>1. InFlight(m.id)
    BY DEF InFlight
  <2>2. ~ UpToDate(m.to, Key(m.id), Version(m.id))
    BY <1>r
  <2> QED BY <1>0, <1>m, <2>1, <2>2, NotUpToDate DEF ReplInv, Forward
<1>10. Safe => PrunedIsOld'
  BY <1>s, <1>k, FlightKept DEF ReplInv, Forward
<1>11. OneSender'
  BY <1>k
<1> QED BY <1>1, <1>2, <1>3, <1>4, <1>5, <1>6, <1>7, <1>8, <1>9, <1>10, <1>11
    DEF ReplInv, Durable, Forward

\* The object changes; the lock and the check stay.
LEMMA ApplyCommitStep ==
  ASSUME ReplInv, NEW m \in net, ApplyCommit(m)
  PROVE  ReplInv'
<1>0. TypeOK /\ EventsMade
  BY DEF ReplInv, Durable
<1>m. /\ m.id \in Ids /\ m.to \in Nodes /\ m.content \in ContentOrNone
      /\ events[m.id] # None /\ m.to # events[m.id].origin /\ Key(m.id) \in Keys
      /\ \A s \in Stages : [m EXCEPT !.stage = s] \in Messages
      /\ [m EXCEPT !.live = FALSE] \in Messages
  BY <1>0, MessageTypes
<1>s. /\ UNCHANGED <<ver, newest, hold, log, applied, push, repair, floor, counters>> /\ Held(m)
      /\ obj' = [obj EXCEPT ![m.to][Key(m.id)] = m.content]
  BY DEF ApplyCommit, Held
<1>r. Reach(m, "committed")
  BY DEF ApplyCommit
<1>g. NewestGrows
  BY <1>0, <1>s, GrowsUnchanged
<1>q. Recorded(m.to, m.id)' <=> Recorded(m.to, m.id)
  BY <1>s DEF Recorded, Key, Version
<1>a. /\ applied' \in [Nodes -> SUBSET Ids]
      /\ \A x \in Nodes : \A j \in applied'[x] :
             j \in applied[x] \/ (x = m.to /\ j = m.id /\ Recorded(x, j)')
  <2>1. applied \in [Nodes -> SUBSET Ids]
    BY <1>0 DEF TypeOK
  <2> QED BY <1>s, <2>1
<1>k. /\ net' \subseteq Messages
      /\ EventsMade' /\ Acknowledged' /\ DeliveredIsDurable' /\ OneHolder' /\ OneSender'
      /\ FlightEnds
      /\ \A x \in net' : x \in net \/ (x.id = m.id /\ x.to = m.to /\ x.stage = "committed")
  <2>1. newest' \in [Nodes -> [Keys -> Versions \cup {None}]]
    BY <1>0, <1>s DEF TypeOK
  <2>2. "committed" \in Stages
    BY DEF Stages
  <2> QED BY <1>s, <1>r, <1>g, <1>q, <1>a, <2>1, <2>2, HandlerStep
<1>1. TypeOK'
  <2>1. obj' \in [Nodes -> [Keys -> ContentOrNone]]
    BY <1>0, <1>m, <1>s DEF TypeOK
  <2> QED BY <1>0, <1>s, <1>a, <1>k, <2>1 DEF TypeOK
<1>2. EventsMade'
  BY <1>k
<1>3. NewestKept'
  BY <1>s DEF ReplInv, Durable, NewestKept
<1>4. Acknowledged'
  BY <1>k
<1>5. DeliveredIsDurable'
  BY <1>k
<1>6. OneHolder'
  BY <1>k
<1>7. Unused'
  BY <1>s DEF ReplInv, Unused
<1>8. Safe => NeverGoesBack'
  BY <1>s DEF ReplInv, Forward, NeverGoesBack
<1>9. Safe => HeldIsNewer'
  BY <1>s, <1>k DEF ReplInv, Forward, HeldIsNewer, Held, Newer, Key, Version
<1>10. Safe => PrunedIsOld'
  BY <1>s, <1>k, FlightKept DEF ReplInv, Forward
<1>11. OneSender'
  BY <1>k
<1> QED BY <1>1, <1>2, <1>3, <1>4, <1>5, <1>6, <1>7, <1>8, <1>9, <1>10, <1>11
    DEF ReplInv, Durable, Forward

\* The version it stores is newer than all recorded here, because the lock was held.
LEMMA ApplyRecordStep ==
  ASSUME ReplInv, NEW m \in net, ApplyRecord(m)
  PROVE  ReplInv'
<1>0. TypeOK /\ EventsMade
  BY DEF ReplInv, Durable
<1>m. /\ m.id \in Ids /\ m.to \in Nodes /\ m.content \in ContentOrNone
      /\ events[m.id] # None /\ m.to # events[m.id].origin /\ Key(m.id) \in Keys
      /\ \A s \in Stages : [m EXCEPT !.stage = s] \in Messages
      /\ [m EXCEPT !.live = FALSE] \in Messages
  BY <1>0, MessageTypes
<1>s. /\ UNCHANGED <<obj, log, push, repair, floor, counters>> /\ Held(m) /\ m.stage = "committed"
      /\ hold' = [hold EXCEPT ![m.to][Key(m.id)] = "free"]
      /\ applied' = [applied EXCEPT ![m.to] = @ \cup {m.id}]
      /\ Store(m.to, Key(m.id), Version(m.id), events[m.id].etag = None)
      /\ Reach(m, "ok")
  BY DEF ApplyRecord, Held, RecordApplied
<1>v. Version(m.id) \in Versions /\ (events[m.id].etag = None) \in BOOLEAN
  BY <1>0, MessageTypes
<1>t. /\ ver' \in [Nodes -> [Keys -> KeyVersions \cup {None}]]
      /\ newest' \in [Nodes -> [Keys -> Versions \cup {None}]]
      /\ newest'[m.to][Key(m.id)] # None /\ AtLeast(newest'[m.to][Key(m.id)], Version(m.id))
      /\ NewestGrows /\ NewestKept'
  <2>1. NewestKept
    BY DEF ReplInv, Durable
  <2>2. PICK d \in BOOLEAN : Store(m.to, Key(m.id), Version(m.id), d)
    BY <1>s, <1>v
  <2> QED BY <1>0, <1>m, <1>v, <2>1, <2>2, StoreStep
<1>q. Recorded(m.to, m.id)'
  BY <1>s, <1>t DEF Recorded, Key, Version
<1>a. /\ applied' \in [Nodes -> SUBSET Ids]
      /\ \A x \in Nodes : \A j \in applied'[x] :
             j \in applied[x] \/ (x = m.to /\ j = m.id /\ Recorded(x, j)')
  <2>1. applied \in [Nodes -> SUBSET Ids]
    BY <1>0 DEF TypeOK
  <2> QED BY <1>m, <1>s, <1>q, <2>1
<1>k. /\ net' \subseteq Messages
      /\ EventsMade' /\ Acknowledged' /\ DeliveredIsDurable' /\ OneHolder' /\ OneSender'
      /\ FlightEnds
      /\ \A x \in net' : x \in net \/ (x.id = m.id /\ x.to = m.to /\ x.stage = "ok")
  <2>1. "ok" \in Stages
    BY DEF Stages
  <2> QED BY <1>s, <1>t, <1>q, <1>a, <2>1, HandlerStep
<1>w. Safe => Forward'
  <2> SUFFICES ASSUME Safe PROVE Forward'
    OBVIOUS
  <2>1. Newer(m.to, Key(m.id), Version(m.id)) /\ Forward /\ NewestKept
    BY <1>s DEF ReplInv, Durable, Forward, HeldIsNewer
  <2>2. \A x \in net' : Held(x) => x \in net /\ ~ (x.to = m.to /\ Key(x.id) = Key(m.id))
    BY <1>0, <1>s, <1>k, OtherHeld DEF ReplInv
  <2>3. EventsKept
    BY <1>s DEF EventsKept
  <2>4. \A j \in Ids : events'[j] # None /\ InFlight(j)' => events[j] # None /\ InFlight(j)
    BY <1>s, <1>k DEF FlightEnds
  <2> QED BY <1>0, <1>m, <1>s, <1>v, <2>1, <2>2, <2>3, <2>4, StoreForward
<1>1. TypeOK'
  <2>1. hold' \in [Nodes -> [Keys -> {"free", "local", "remote", "restore"}]]
    BY <1>0, <1>m, <1>s DEF TypeOK
  <2> QED BY <1>0, <1>s, <1>t, <1>a, <1>k, <2>1 DEF TypeOK
<1>2. EventsMade'
  BY <1>k
<1>3. NewestKept'
  BY <1>t
<1>4. Acknowledged'
  BY <1>k
<1>5. DeliveredIsDurable'
  BY <1>k
<1>6. OneHolder'
  BY <1>k
<1>7. Unused'
  BY <1>s DEF ReplInv, Unused
<1>8. Safe => NeverGoesBack'
  BY <1>w DEF Forward
<1>9. Safe => HeldIsNewer'
  BY <1>w DEF Forward
<1>10. Safe => PrunedIsOld'
  BY <1>w DEF Forward
<1>11. OneSender'
  BY <1>k
<1> QED BY <1>1, <1>2, <1>3, <1>4, <1>5, <1>6, <1>7, <1>8, <1>9, <1>10, <1>11
    DEF ReplInv, Durable, Forward

\* A failed apply gives the lock back and is not acknowledged as applied.
LEMMA ApplyFailStep ==
  ASSUME ReplInv, NEW m \in net, ApplyFail(m)
  PROVE  ReplInv'
<1>0. TypeOK /\ EventsMade
  BY DEF ReplInv, Durable
<1>m. /\ m.id \in Ids /\ m.to \in Nodes /\ m.content \in ContentOrNone
      /\ events[m.id] # None /\ m.to # events[m.id].origin /\ Key(m.id) \in Keys
      /\ \A s \in Stages : [m EXCEPT !.stage = s] \in Messages
      /\ [m EXCEPT !.live = FALSE] \in Messages
  BY <1>0, MessageTypes
<1>s. /\ UNCHANGED <<obj, ver, newest, log, applied, push, repair, floor, crashes>> /\ Held(m)
      /\ faults' = faults + 1
      /\ hold' = [hold EXCEPT ![m.to][Key(m.id)] = "free"]
  BY DEF ApplyFail, Held
<1>r. Reach(m, "err")
  BY DEF ApplyFail
<1>g. NewestGrows
  BY <1>0, <1>s, GrowsUnchanged
<1>q. Recorded(m.to, m.id)' <=> Recorded(m.to, m.id)
  BY <1>s DEF Recorded, Key, Version
<1>a. /\ applied' \in [Nodes -> SUBSET Ids]
      /\ \A x \in Nodes : \A j \in applied'[x] :
             j \in applied[x] \/ (x = m.to /\ j = m.id /\ Recorded(x, j)')
  <2>1. applied \in [Nodes -> SUBSET Ids]
    BY <1>0 DEF TypeOK
  <2> QED BY <1>s, <2>1
<1>k. /\ net' \subseteq Messages
      /\ EventsMade' /\ Acknowledged' /\ DeliveredIsDurable' /\ OneHolder' /\ OneSender'
      /\ FlightEnds
      /\ \A x \in net' : x \in net \/ (x.id = m.id /\ x.to = m.to /\ x.stage = "err")
  <2>1. newest' \in [Nodes -> [Keys -> Versions \cup {None}]]
    BY <1>0, <1>s DEF TypeOK
  <2>2. "err" \in Stages
    BY DEF Stages
  <2> QED BY <1>s, <1>r, <1>g, <1>q, <1>a, <2>1, <2>2, HandlerStep
<1>1. TypeOK'
  <2>1. hold' \in [Nodes -> [Keys -> {"free", "local", "remote", "restore"}]]
    BY <1>0, <1>m, <1>s DEF TypeOK
  <2>2. faults' \in Nat
    BY <1>0, <1>s DEF TypeOK
  <2> QED BY <1>0, <1>s, <1>a, <1>k, <2>1, <2>2 DEF TypeOK
<1>2. EventsMade'
  BY <1>k
<1>3. NewestKept'
  BY <1>s DEF ReplInv, Durable, NewestKept
<1>4. Acknowledged'
  BY <1>k
<1>5. DeliveredIsDurable'
  BY <1>k
<1>6. OneHolder'
  BY <1>k
<1>7. Unused'
  BY <1>s DEF ReplInv, Unused
<1>8. Safe => NeverGoesBack'
  BY <1>s DEF ReplInv, Forward, NeverGoesBack
<1>9. Safe => HeldIsNewer'
  BY <1>s, <1>k DEF ReplInv, Forward, HeldIsNewer, Held, Newer, Key, Version
<1>10. Safe => PrunedIsOld'
  BY <1>s, <1>k, FlightKept DEF ReplInv, Forward
<1>11. OneSender'
  BY <1>k
<1> QED BY <1>1, <1>2, <1>3, <1>4, <1>5, <1>6, <1>7, <1>8, <1>9, <1>10, <1>11
    DEF ReplInv, Durable, Forward

\* A restore begins without a lock.
LEMMA HealOpenStep ==
  ASSUME ReplInv, NEW n \in Nodes, NEW p \in Nodes, NEW k \in Keys, HealOpen(n, p, k)
  PROVE  ReplInv'
<1>0. TypeOK /\ EventsMade
  BY DEF ReplInv, Durable
<1>h. PICK h \in Heals : heal' = [heal EXCEPT ![n] = h] /\ h.stage = "opened"
  <2> DEFINE h == [key |-> k, from |-> p, content |-> obj[p][k], version |-> None, stage |-> "opened"]
  <2>1. obj[p][k] \in Contents
    <3>1. obj \in [Nodes -> [Keys -> ContentOrNone]]
      BY <1>0 DEF TypeOK
    <3>2. obj[p][k] \in ContentOrNone
      BY <3>1
    <3>3. obj[p][k] # None
      BY DEF HealOpen
    <3> QED BY <3>2, <3>3 DEF ContentOrNone
  <2>2. h \in Heals
    BY <2>1 DEF Heals
  <2>3. heal' = [heal EXCEPT ![n] = h] /\ h.stage = "opened"
    BY DEF HealOpen
  <2> QED BY <2>2, <2>3
<1>s. UNCHANGED <<objects, log, applied, traffic, scan, floor, counters>> /\ "heal" \in Ops
  BY DEF HealOpen
<1>1. TypeOK'
  <2>1. heal' \in [Nodes -> Heals \cup {None}]
    BY <1>0, <1>h DEF TypeOK
  <2> QED BY <1>0, <1>s, <2>1 DEF TypeOK
<1>2. EventsMade'
  BY <1>s DEF ReplInv, Durable, EventsMade, Key
<1>3. NewestKept'
  BY <1>s DEF ReplInv, Durable, NewestKept
<1>4. Acknowledged'
  BY <1>s DEF ReplInv, Durable, Acknowledged, Recorded, Key, Version
<1>5. DeliveredIsDurable'
  BY <1>s DEF ReplInv, Durable, DeliveredIsDurable, Key, Version
<1>6. OneHolder'
  BY <1>0, <1>h, <1>s, HealUnheld DEF ReplInv
<1>7. Unused'
  BY <1>s DEF ReplInv, Unused
<1>8. Safe => NeverGoesBack'
  BY <1>s DEF ReplInv, Forward, NeverGoesBack
<1>9. Safe => HeldIsNewer'
  BY <1>s DEF ReplInv, Forward, HeldIsNewer, Newer, Held, Key, Version
<1>10. Safe => PrunedIsOld'
  BY <1>s DEF ReplInv, Forward, PrunedIsOld, Newer, InFlight, Key, Version
<1>11. OneSender'
  BY <1>s DEF ReplInv, OneSender
<1> QED BY <1>1, <1>2, <1>3, <1>4, <1>5, <1>6, <1>7, <1>8, <1>9, <1>10, <1>11
    DEF ReplInv, Durable, Forward

\* It learns a version of the peer.
LEMMA HealVersionStep ==
  ASSUME ReplInv, NEW n \in Nodes, HealVersion(n)
  PROVE  ReplInv'
<1>0. TypeOK /\ EventsMade
  BY DEF ReplInv, Durable
<1>s. heal[n] # None /\ UNCHANGED <<objects, log, applied, traffic, scan, floor, counters>>
  BY DEF HealVersion
<1>g. /\ heal \in [Nodes -> Heals \cup {None}] /\ heal[n] \in Heals
      /\ heal[n].key \in Keys /\ heal[n].from \in Nodes /\ heal[n].content \in Contents
      /\ heal[n].version \in Versions \cup {None}
  BY <1>0, <1>s, HealTypes
<1>h. PICK h \in Heals : heal' = [heal EXCEPT ![n] = h] /\ h.stage = "versioned"
  <2> DEFINE c == ver[heal[n].from][heal[n].key]
             v == IF c = None THEN None ELSE EventVersion(c)
             h == [heal[n] EXCEPT !.stage = "versioned", !.version = v]
  <2>1. c # None => c.at \in Times /\ c.origin \in Nodes
    BY <1>0, <1>g, VersionTypes
  <2>2. v \in Versions \cup {None}
    BY <2>1 DEF EventVersion, Versions
  <2>3. heal' = [heal EXCEPT ![n] = h]
    BY <1>g DEF HealVersion
  <2> HIDE DEF v
  <2>4. h \in Heals /\ h.stage = "versioned"
    BY <1>g, <2>2 DEF Heals
  <2> QED BY <2>3, <2>4
<1>1. TypeOK'
  <2>1. heal' \in [Nodes -> Heals \cup {None}]
    BY <1>0, <1>h DEF TypeOK
  <2> QED BY <1>0, <1>s, <2>1 DEF TypeOK
<1>2. EventsMade'
  BY <1>s DEF ReplInv, Durable, EventsMade, Key
<1>3. NewestKept'
  BY <1>s DEF ReplInv, Durable, NewestKept
<1>4. Acknowledged'
  BY <1>s DEF ReplInv, Durable, Acknowledged, Recorded, Key, Version
<1>5. DeliveredIsDurable'
  BY <1>s DEF ReplInv, Durable, DeliveredIsDurable, Key, Version
<1>6. OneHolder'
  BY <1>0, <1>h, <1>s, HealUnheld DEF ReplInv
<1>7. Unused'
  BY <1>s DEF ReplInv, Unused
<1>8. Safe => NeverGoesBack'
  BY <1>s DEF ReplInv, Forward, NeverGoesBack
<1>9. Safe => HeldIsNewer'
  BY <1>s DEF ReplInv, Forward, HeldIsNewer, Newer, Held, Key, Version
<1>10. Safe => PrunedIsOld'
  BY <1>s DEF ReplInv, Forward, PrunedIsOld, Newer, InFlight, Key, Version
<1>11. OneSender'
  BY <1>s DEF ReplInv, OneSender
<1> QED BY <1>1, <1>2, <1>3, <1>4, <1>5, <1>6, <1>7, <1>8, <1>9, <1>10, <1>11
    DEF ReplInv, Durable, Forward

\* It keeps that version or drops it.
LEMMA HealRecheckStep ==
  ASSUME ReplInv, NEW n \in Nodes, HealRecheck(n)
  PROVE  ReplInv'
<1>0. TypeOK /\ EventsMade
  BY DEF ReplInv, Durable
<1>s. heal[n] # None /\ UNCHANGED <<objects, log, applied, traffic, scan, floor, counters>>
  BY DEF HealRecheck
<1>g. /\ heal \in [Nodes -> Heals \cup {None}] /\ heal[n] \in Heals
      /\ heal[n].key \in Keys /\ heal[n].from \in Nodes /\ heal[n].content \in Contents
      /\ heal[n].version \in Versions \cup {None}
  BY <1>0, <1>s, HealTypes
<1>h. PICK h \in Heals : heal' = [heal EXCEPT ![n] = h] /\ h.stage = "fetched"
  <2> DEFINE v == IF obj[heal[n].from][heal[n].key] = heal[n].content THEN heal[n].version ELSE None
             h == [heal[n] EXCEPT !.stage = "fetched", !.version = v]
  <2>2. v \in Versions \cup {None}
    BY <1>g
  <2>3. heal' = [heal EXCEPT ![n] = h]
    BY <1>g DEF HealRecheck
  <2> HIDE DEF v
  <2>4. h \in Heals /\ h.stage = "fetched"
    BY <1>g, <2>2 DEF Heals
  <2> QED BY <2>3, <2>4
<1>1. TypeOK'
  <2>1. heal' \in [Nodes -> Heals \cup {None}]
    BY <1>0, <1>h DEF TypeOK
  <2> QED BY <1>0, <1>s, <2>1 DEF TypeOK
<1>2. EventsMade'
  BY <1>s DEF ReplInv, Durable, EventsMade, Key
<1>3. NewestKept'
  BY <1>s DEF ReplInv, Durable, NewestKept
<1>4. Acknowledged'
  BY <1>s DEF ReplInv, Durable, Acknowledged, Recorded, Key, Version
<1>5. DeliveredIsDurable'
  BY <1>s DEF ReplInv, Durable, DeliveredIsDurable, Key, Version
<1>6. OneHolder'
  BY <1>0, <1>h, <1>s, HealUnheld DEF ReplInv
<1>7. Unused'
  BY <1>s DEF ReplInv, Unused
<1>8. Safe => NeverGoesBack'
  BY <1>s DEF ReplInv, Forward, NeverGoesBack
<1>9. Safe => HeldIsNewer'
  BY <1>s DEF ReplInv, Forward, HeldIsNewer, Newer, Held, Key, Version
<1>10. Safe => PrunedIsOld'
  BY <1>s DEF ReplInv, Forward, PrunedIsOld, Newer, InFlight, Key, Version
<1>11. OneSender'
  BY <1>s DEF ReplInv, OneSender
<1> QED BY <1>1, <1>2, <1>3, <1>4, <1>5, <1>6, <1>7, <1>8, <1>9, <1>10, <1>11
    DEF ReplInv, Durable, Forward

\* It stores the copy under the key's lock, or ends.
LEMMA HealCommitStep ==
  ASSUME ReplInv, NEW n \in Nodes, HealCommit(n)
  PROVE  ReplInv'
<1>0. TypeOK /\ EventsMade
  BY DEF ReplInv, Durable
<1>b. heal[n] # None /\ heal[n].stage = "fetched"
  BY DEF HealCommit
<1>g. /\ heal \in [Nodes -> Heals \cup {None}] /\ heal[n] \in Heals
      /\ heal[n].key \in Keys /\ heal[n].from \in Nodes /\ heal[n].content \in Contents
      /\ heal[n].version \in Versions \cup {None}
  BY <1>0, <1>b, HealTypes
<1>s. UNCHANGED <<ver, newest, log, applied, traffic, scan, floor, counters>>
  BY DEF HealCommit
<1>h. \/ heal' = [heal EXCEPT ![n] = None] /\ UNCHANGED <<obj, hold>>
      \/ /\ hold[n][heal[n].key] = "free"
         /\ hold' = [hold EXCEPT ![n][heal[n].key] = "restore"]
         /\ obj' = [obj EXCEPT ![n][heal[n].key] = heal[n].content]
         /\ \E h \in Heals : heal' = [heal EXCEPT ![n] = h] /\ h.stage = "committed" /\ h.key = heal[n].key
  <2>1. /\ [heal[n] EXCEPT !.stage = "committed"] \in Heals
        /\ [heal[n] EXCEPT !.stage = "committed"].stage = "committed"
        /\ [heal[n] EXCEPT !.stage = "committed"].key = heal[n].key
    BY <1>g DEF Heals
  <2> QED BY <2>1, <1>g DEF HealCommit, Free
<1>1. TypeOK'
  <2>1. heal' \in [Nodes -> Heals \cup {None}]
    BY <1>g, <1>h
  <2>2. hold' \in [Nodes -> [Keys -> {"free", "local", "remote", "restore"}]]
    <3>1. hold \in [Nodes -> [Keys -> {"free", "local", "remote", "restore"}]]
      BY <1>0 DEF TypeOK
    <3>2. hold' = hold \/ hold' = [hold EXCEPT ![n][heal[n].key] = "restore"]
      BY <1>h
    <3> QED BY <1>g, <3>1, <3>2
  <2>3. obj' \in [Nodes -> [Keys -> ContentOrNone]]
    <3>1. obj \in [Nodes -> [Keys -> ContentOrNone]]
      BY <1>0 DEF TypeOK
    <3>2. heal[n].content \in ContentOrNone
      BY <1>g DEF ContentOrNone
    <3>3. obj' = obj \/ obj' = [obj EXCEPT ![n][heal[n].key] = heal[n].content]
      BY <1>h
    <3> QED BY <1>g, <3>1, <3>2, <3>3
  <2> QED BY <1>0, <1>s, <2>1, <2>2, <2>3 DEF TypeOK
<1>2. EventsMade'
  BY <1>s DEF ReplInv, Durable, EventsMade, Key
<1>3. NewestKept'
  BY <1>s DEF ReplInv, Durable, NewestKept
<1>4. Acknowledged'
  BY <1>s DEF ReplInv, Durable, Acknowledged, Recorded, Key, Version
<1>5. DeliveredIsDurable'
  BY <1>s DEF ReplInv, Durable, DeliveredIsDurable, Key, Version
<1>6. OneHolder'
  <2>1. CASE heal' = [heal EXCEPT ![n] = None] /\ UNCHANGED <<obj, hold>>
    BY <1>0, <1>s, <2>1, HealUnheld DEF ReplInv
  <2>2. CASE /\ hold[n][heal[n].key] = "free"
             /\ hold' = [hold EXCEPT ![n][heal[n].key] = "restore"]
             /\ \E h \in Heals : heal' = [heal EXCEPT ![n] = h] /\ h.stage = "committed" /\ h.key = heal[n].key
    <3> DEFINE k == heal[n].key
    <3>0. hold \in [Nodes -> [Keys -> {"free", "local", "remote", "restore"}]]
      BY <1>0 DEF TypeOK
    <3>1. \A x \in Nodes, z \in Keys : hold'[x][z] = IF x = n /\ z = k THEN "restore" ELSE hold[x][z]
      BY <1>g, <2>2, <3>0
    <3>2. hold[n][k] = "free"
      BY <2>2
    <3>3. heal'[n].key = k /\ \A x \in Nodes : x # n => heal'[x] = heal[x]
      BY <1>g, <2>2
    <3>4. \A x \in net : x.to \in Nodes /\ Key(x.id) \in Keys
      BY <1>0, MessageTypes
    <3>5. \A x \in Nodes : heal[x] # None => heal[x].key \in Keys
      BY <1>0, HealTypes
    <3>6. \A x \in net' : Held(x) => hold'[x.to][Key(x.id)] = "remote"
      BY <1>s, <3>1, <3>2, <3>4, ZenonT(30) DEF ReplInv, OneHolder
    <3>7. \A x \in Nodes : heal'[x] # None /\ heal'[x].stage = "committed"
                               => hold'[x][heal'[x].key] = "restore"
      BY <1>g, <3>1, <3>3, <3>5 DEF ReplInv, OneHolder
    <3> QED BY <1>s, <3>6, <3>7 DEF ReplInv, OneHolder, Held, Key
  <2> QED BY <1>h, <2>1, <2>2
<1>7. Unused'
  BY <1>s, <1>b DEF ReplInv, Unused
<1>8. Safe => NeverGoesBack'
  BY <1>s DEF ReplInv, Forward, NeverGoesBack
<1>9. Safe => HeldIsNewer'
  BY <1>s DEF ReplInv, Forward, HeldIsNewer, Newer, Held, Key, Version
<1>10. Safe => PrunedIsOld'
  BY <1>s DEF ReplInv, Forward, PrunedIsOld, Newer, InFlight, Key, Version
<1>11. OneSender'
  BY <1>s DEF ReplInv, OneSender
<1> QED BY <1>1, <1>2, <1>3, <1>4, <1>5, <1>6, <1>7, <1>8, <1>9, <1>10, <1>11
    DEF ReplInv, Durable, Forward

\* It records the copy's version only above the node's own.
LEMMA HealRecordStep ==
  ASSUME ReplInv, NEW n \in Nodes, HealRecord(n)
  PROVE  ReplInv'
<1>0. TypeOK /\ EventsMade
  BY DEF ReplInv, Durable
<1>b. heal[n] # None /\ heal[n].stage = "committed"
  BY DEF HealRecord
<1>g. /\ heal \in [Nodes -> Heals \cup {None}] /\ heal[n] \in Heals
      /\ heal[n].key \in Keys /\ heal[n].from \in Nodes /\ heal[n].content \in Contents
      /\ heal[n].version \in Versions \cup {None}
  BY <1>0, <1>b, HealTypes
<1>s. /\ UNCHANGED <<obj, log, applied, traffic, scan, floor, counters>>
      /\ heal' = [heal EXCEPT ![n] = None]
      /\ hold' = [hold EXCEPT ![n][heal[n].key] = "free"]
  BY DEF HealRecord
<1>h. \/ UNCHANGED <<ver, newest>>
      \/ /\ heal[n].version \in Versions /\ ~ UpToDate(n, heal[n].key, heal[n].version)
         /\ Store(n, heal[n].key, heal[n].version, FALSE)
  BY <1>g DEF HealRecord
<1>t. /\ ver' \in [Nodes -> [Keys -> KeyVersions \cup {None}]]
      /\ newest' \in [Nodes -> [Keys -> Versions \cup {None}]]
      /\ NewestGrows /\ NewestKept'
  <2>0. NewestKept
    BY DEF ReplInv, Durable
  <2>1. CASE UNCHANGED <<ver, newest>>
    BY <1>0, <2>0, <2>1, GrowsUnchanged DEF TypeOK, NewestKept
  <2>2. CASE heal[n].version \in Versions /\ Store(n, heal[n].key, heal[n].version, FALSE)
    BY <1>0, <1>g, <2>0, <2>2, StoreStep
  <2> QED BY <1>h, <2>1, <2>2
<1>e. EventsKept
  BY <1>s DEF EventsKept
<1>q. \A x \in Nodes, j \in Ids : events[j] # None /\ Recorded(x, j) => Recorded(x, j)'
  BY <1>0, <1>e, <1>t, RecordedKept
<1>w. Safe => Forward'
  <2> SUFFICES ASSUME Safe PROVE Forward'
    OBVIOUS
  <2>0. Forward /\ NewestKept
    BY DEF ReplInv, Durable
  <2>1. "prune" \notin Ops
    BY <1>b DEF ReplInv, Unused, Safe
  <2>2. FlightEnds
    BY <1>s DEF FlightEnds, InFlight
  <2>3. CASE UNCHANGED <<ver, newest>>
    BY <1>s, <2>0, <2>2, <2>3, FlightKept DEF Forward, NeverGoesBack, HeldIsNewer, Held, Newer, Key, Version
  <2>4. CASE /\ heal[n].version \in Versions /\ ~ UpToDate(n, heal[n].key, heal[n].version)
             /\ Store(n, heal[n].key, heal[n].version, FALSE)
    <3>1. Newer(n, heal[n].key, heal[n].version)
      <4>1. ver[n][heal[n].key] = None => newest[n][heal[n].key] = None
        BY <1>g, <2>0, <2>1 DEF Forward, PrunedIsOld
      <4> QED BY <1>0, <1>g, <2>0, <2>4, <4>1, NewerThanHere DEF Forward
    <3>2. \A x \in net' : Held(x) => x \in net /\ ~ (x.to = n /\ Key(x.id) = heal[n].key)
      BY <1>s, <1>b DEF ReplInv, OneHolder
    <3>3. \A j \in Ids : events'[j] # None /\ InFlight(j)' => events[j] # None /\ InFlight(j)
      BY <1>s, <2>2 DEF FlightEnds
    <3>4. PICK d \in BOOLEAN : Store(n, heal[n].key, heal[n].version, d)
      BY <2>4
    <3>5. heal[n].version \in Versions
      BY <2>4
    <3> QED BY <1>0, <1>g, <1>s, <1>e, <2>0, <3>1, <3>2, <3>3, <3>4, <3>5, StoreForward
  <2> QED BY <1>h, <2>3, <2>4
<1>1. TypeOK'
  <2>1. heal' \in [Nodes -> Heals \cup {None}]
    BY <1>g, <1>s
  <2>2. hold' \in [Nodes -> [Keys -> {"free", "local", "remote", "restore"}]]
    <3>1. hold \in [Nodes -> [Keys -> {"free", "local", "remote", "restore"}]]
      BY <1>0 DEF TypeOK
    <3> QED BY <1>g, <1>s, <3>1
  <2> QED BY <1>0, <1>s, <1>t, <2>1, <2>2 DEF TypeOK
<1>2. EventsMade'
  BY <1>0, <1>s DEF EventsMade
<1>3. NewestKept'
  BY <1>t
<1>4. Acknowledged'
  BY <1>0, <1>s, <1>q, AckKept DEF ReplInv, Durable
<1>5. DeliveredIsDurable'
  BY <1>0, <1>s, <1>q, DurableKept DEF ReplInv, Durable
<1>6. OneHolder'
  <2> DEFINE k == heal[n].key
  <2>0. hold \in [Nodes -> [Keys -> {"free", "local", "remote", "restore"}]]
    BY <1>0 DEF TypeOK
  <2>1. \A x \in Nodes, z \in Keys : hold'[x][z] = IF x = n /\ z = k THEN "free" ELSE hold[x][z]
    BY <1>g, <1>s, <2>0
  <2>2. hold[n][k] = "restore"
    BY <1>b DEF ReplInv, OneHolder
  <2>3. heal'[n] = None /\ \A x \in Nodes : x # n => heal'[x] = heal[x]
    BY <1>g, <1>s
  <2>4. \A x \in net : x.to \in Nodes /\ Key(x.id) \in Keys
    BY <1>0, MessageTypes
  <2>5. \A x \in Nodes : heal[x] # None => heal[x].key \in Keys
    BY <1>0, HealTypes
  <2>6. \A x \in net' : Held(x) => hold'[x.to][Key(x.id)] = "remote"
    BY <1>s, <2>1, <2>2, <2>4 DEF ReplInv, OneHolder
  <2>7. \A x \in Nodes : heal'[x] # None /\ heal'[x].stage = "committed"
                             => hold'[x][heal'[x].key] = "restore"
    <3>1. \A x \in Nodes : heal[x] # None /\ heal[x].stage = "committed"
                               => hold[x][heal[x].key] = "restore"
      BY DEF ReplInv, OneHolder
    <3> SUFFICES ASSUME NEW x \in Nodes, heal'[x] # None, heal'[x].stage = "committed"
                 PROVE  hold'[x][heal'[x].key] = "restore"
      OBVIOUS
    <3>2. x # n /\ heal'[x] = heal[x]
      BY <2>3
    <3>3. heal[x].key \in Keys /\ hold[x][heal[x].key] = "restore"
      BY <2>5, <3>1, <3>2
    <3> QED BY <2>1, <3>2, <3>3
  <2> QED BY <1>s, <2>6, <2>7 DEF ReplInv, OneHolder, Held, Key
<1>7. Unused'
  BY <1>s, <1>b DEF ReplInv, Unused
<1>8. Safe => NeverGoesBack'
  BY <1>w DEF Forward
<1>9. Safe => HeldIsNewer'
  BY <1>w DEF Forward
<1>10. Safe => PrunedIsOld'
  BY <1>w DEF Forward
<1>11. OneSender'
  BY <1>s DEF ReplInv, OneSender
<1> QED BY <1>1, <1>2, <1>3, <1>4, <1>5, <1>6, <1>7, <1>8, <1>9, <1>10, <1>11
    DEF ReplInv, Durable, Forward

\* A backfill reads a row without a lock.
LEMMA BackfillReadStep ==
  ASSUME ReplInv, NEW n \in Nodes, NEW k \in Keys, NEW t \in Times, BackfillRead(n, k, t)
  PROVE  ReplInv'
<1>0. TypeOK /\ EventsMade
  BY DEF ReplInv, Durable
<1>s. /\ UNCHANGED <<objects, log, applied, traffic, heal, floor, counters>> /\ "backfill" \in Ops
      /\ \E r \in Scans : scan' = [scan EXCEPT ![n] = r]
  <2>1. obj[n][k] \in ContentOrNone
    BY <1>0 DEF TypeOK
  <2>2. obj[n][k] \in Contents
    BY <2>1 DEF BackfillRead, ContentOrNone
  <2>3. [key |-> k, etag |-> obj[n][k], at |-> t] \in Scans
    BY <2>2 DEF Scans
  <2> QED BY <2>3 DEF BackfillRead
<1>1. TypeOK'
  <2>1. scan' \in [Nodes -> Scans \cup {None}]
    <3>1. scan \in [Nodes -> Scans \cup {None}]
      BY <1>0 DEF TypeOK
    <3> QED BY <1>s, <3>1
  <2> QED BY <1>0, <1>s, <2>1 DEF TypeOK
<1>2. EventsMade'
  BY <1>s DEF ReplInv, Durable, EventsMade, Key
<1>3. NewestKept'
  BY <1>s DEF ReplInv, Durable, NewestKept
<1>4. Acknowledged'
  BY <1>s DEF ReplInv, Durable, Acknowledged, Recorded, Key, Version
<1>5. DeliveredIsDurable'
  BY <1>s DEF ReplInv, Durable, DeliveredIsDurable, Key, Version
<1>6. OneHolder'
  BY <1>s DEF ReplInv, OneHolder, Held, Key
<1>7. Unused'
  BY <1>s DEF ReplInv, Unused
<1>8. Safe => NeverGoesBack'
  BY <1>s DEF ReplInv, Forward, NeverGoesBack
<1>9. Safe => HeldIsNewer'
  BY <1>s DEF ReplInv, Forward, HeldIsNewer, Newer, Held, Key, Version
<1>10. Safe => PrunedIsOld'
  BY <1>s DEF ReplInv, Forward, PrunedIsOld, Newer, InFlight, Key, Version
<1>11. OneSender'
  BY <1>s DEF ReplInv, OneSender
<1> QED BY <1>1, <1>2, <1>3, <1>4, <1>5, <1>6, <1>7, <1>8, <1>9, <1>10, <1>11
    DEF ReplInv, Durable, Forward

\* It versions a key that has no version, which Safe leaves out.
LEMMA BackfillEnqueueStep ==
  ASSUME ReplInv, NEW n \in Nodes, NEW i \in Ids, BackfillEnqueue(n, i)
  PROVE  ReplInv'
<1>0. TypeOK /\ EventsMade
  BY DEF ReplInv, Durable
<1>b. /\ scan[n] # None /\ scan[n] \in Scans /\ scan[n].key \in Keys /\ scan[n].etag \in Contents
      /\ scan[n].at \in Times
  <2>1. scan[n] # None
    BY DEF BackfillEnqueue
  <2>2. scan[n] \in Scans
    BY <1>0, <2>1 DEF TypeOK
  <2> QED BY <2>1, <2>2 DEF Scans
<1>v. PICK e \in Events :
          /\ events' = [events EXCEPT ![i] = e] /\ events[i] = None
          /\ status' = [status EXCEPT ![i] = "pending"]
  <2> DEFINE c == ver[n][scan[n].key]
             at == IF c = None THEN scan[n].at ELSE c.at
             e == [origin |-> n, key |-> scan[n].key, etag |-> scan[n].etag, at |-> at]
  <2>1. at \in Times
    BY <1>0, <1>b, VersionTypes
  <2>2. e \in Events
    BY <1>b, <2>1 DEF Events, ContentOrNone
  <2>3. events' = [events EXCEPT ![i] = e] /\ status' = [status EXCEPT ![i] = "pending"] /\ events[i] = None
    BY DEF BackfillEnqueue, Enqueue, IsNext, FreeIds
  <2> QED BY <2>2, <2>3
<1>s. /\ UNCHANGED <<obj, hold, attempts, delivered, applied, traffic, heal, floor, counters>>
      /\ scan' = [scan EXCEPT ![n] = None]
  BY DEF BackfillEnqueue, Enqueue
<1>h. \/ UNCHANGED <<ver, newest>>
      \/ \E v \in Versions : Store(n, scan[n].key, v, FALSE)
  <2>1. [at |-> scan[n].at, origin |-> n] \in Versions
    BY <1>b DEF Versions
  <2> QED BY <2>1 DEF BackfillEnqueue
<1>t. /\ ver' \in [Nodes -> [Keys -> KeyVersions \cup {None}]]
      /\ newest' \in [Nodes -> [Keys -> Versions \cup {None}]]
      /\ NewestGrows /\ NewestKept'
  <2>0. NewestKept
    BY DEF ReplInv, Durable
  <2>1. CASE UNCHANGED <<ver, newest>>
    BY <1>0, <2>0, <2>1, GrowsUnchanged DEF TypeOK, NewestKept
  <2>2. CASE \E v \in Versions : Store(n, scan[n].key, v, FALSE)
    BY <1>0, <1>b, <2>0, <2>2, StoreStep
  <2> QED BY <1>h, <2>1, <2>2
<1>x. /\ events' \in [Ids -> Events \cup {None}] /\ status' \in [Ids -> Statuses \cup {None}]
      /\ events'[i] = e /\ e # None /\ \A j \in Ids : j # i => events'[j] = events[j] /\ status'[j] = status[j]
  <2>1. events \in [Ids -> Events \cup {None}] /\ status \in [Ids -> Statuses \cup {None}]
    BY <1>0 DEF TypeOK
  <2> QED BY <1>v, <2>1, Distinct
<1>e. EventsKept
  BY <1>v, <1>x DEF EventsKept
<1>q. \A x \in Nodes, j \in Ids : events[j] # None /\ Recorded(x, j) => Recorded(x, j)'
  BY <1>0, <1>e, <1>t, RecordedKept
<1>w. ~ Safe
  BY <1>b DEF Safe, ReplInv, Unused
<1>1. TypeOK'
  <2>1. scan' \in [Nodes -> Scans \cup {None}]
    BY <1>0, <1>s DEF TypeOK
  <2> QED BY <1>0, <1>s, <1>t, <1>x, <2>1 DEF TypeOK
<1>2. EventsMade'
  <2>1. \A x \in net : x.id \in Ids /\ events[x.id] # None
    BY <1>0, MessageTypes
  <2>2. \A x \in Nodes : applied[x] \subseteq Ids
    BY <1>0 DEF TypeOK
  <2> QED BY <1>0, <1>s, <1>e, <1>x, <2>1, <2>2 DEF EventsMade, EventsKept
<1>3. NewestKept'
  BY <1>t
<1>4. Acknowledged'
  BY <1>0, <1>s, <1>q, AckKept DEF ReplInv, Durable
<1>5. DeliveredIsDurable'
  BY <1>0, <1>s, <1>q, DurableKept DEF ReplInv, Durable
<1>6. OneHolder'
  <2>1. \A x \in net : Key(x.id)' = Key(x.id)
    BY <1>0, <1>e, MessageTypes DEF EventsKept, Key
  <2> QED BY <1>s, <2>1 DEF ReplInv, OneHolder, Held
<1>7. Unused'
  BY <1>0, <1>s DEF ReplInv, Unused, TypeOK
<1>8. Safe => NeverGoesBack'
  BY <1>w
<1>9. Safe => HeldIsNewer'
  BY <1>w
<1>10. Safe => PrunedIsOld'
  BY <1>w
<1>11. OneSender'
  BY <1>s DEF ReplInv, OneSender
<1> QED BY <1>1, <1>2, <1>3, <1>4, <1>5, <1>6, <1>7, <1>8, <1>9, <1>10, <1>11
    DEF ReplInv, Durable, Forward

\* A finished event's row goes; what it delivered stays recorded.
LEMMA PruneEventStep ==
  ASSUME ReplInv, NEW i \in Ids, PruneEvent(i)
  PROVE  ReplInv'
<1>0. TypeOK /\ EventsMade
  BY DEF ReplInv, Durable
<1>s. /\ \A j \in Ids : status'[j] # None => status[j] # None
      /\ \A x \in Nodes : applied'[x] \subseteq applied[x]
      /\ \A j \in Ids : status'[j] \in {"pending", "failed"} => status[j] \in {"pending", "failed"}
      /\ UNCHANGED <<events, net, push, delivered, ver, newest, floor>>
  BY <1>0, Distinct DEF TypeOK, PruneEvent
<1>f. FlightEnds
  BY <1>s DEF FlightEnds, InFlight
<1>1. TypeOK'
  BY DEF ReplInv, TypeOK, Statuses, Stages, Pushes, PruneEvent
<1>2. EventsMade'
  BY <1>0, <1>s DEF EventsMade
<1>3. NewestKept'
  BY <1>s DEF ReplInv, Durable, NewestKept
<1>4. Acknowledged'
  BY <1>s DEF ReplInv, Durable, Acknowledged, Recorded, Key, Version
<1>5. DeliveredIsDurable'
  BY <1>s DEF ReplInv, Durable, DeliveredIsDurable, Key, Version
<1>6. OneHolder'
  BY DEF ReplInv, OneHolder, Held, Key, PruneEvent
<1>7. Unused'
  BY DEF ReplInv, Unused, PruneEvent
<1>8. Safe => NeverGoesBack'
  BY <1>s DEF ReplInv, Forward, NeverGoesBack
<1>9. Safe => HeldIsNewer'
  BY <1>s DEF ReplInv, Forward, HeldIsNewer, Newer, Held, Key, Version
<1>10. Safe => PrunedIsOld'
  BY <1>f, <1>s, FlightKept DEF ReplInv, Forward
<1>11. OneSender'
  BY <1>s DEF ReplInv, OneSender
<1> QED BY <1>1, <1>2, <1>3, <1>4, <1>5, <1>6, <1>7, <1>8, <1>9, <1>10, <1>11
    DEF ReplInv, Durable, Forward

\* A pruned tombstone is older than all that is on its way and than every later clock.
LEMMA PruneTombstoneStep ==
  ASSUME ReplInv, NEW n \in Nodes, NEW k \in Keys, PruneTombstone(n, k)
  PROVE  ReplInv'
<1>0. TypeOK /\ EventsMade
  BY DEF ReplInv, Durable
<1>s. /\ "prune" \in Ops /\ ver[n][k] # None /\ ver[n][k].at \in Nat /\ ver[n][k].origin \in Nat
      /\ \A i \in Ids : events[i] # None /\ Key(i) = k /\ InFlight(i) => Less(ver[n][k], Version(i))
      /\ UNCHANGED <<obj, hold, newest, log, applied, traffic, repair, counters>>
  <2>1. ver[n][k] # None
    BY DEF PruneTombstone, HasTombstone
  <2> QED BY <1>0, <2>1, VersionTypes DEF PruneTombstone
<1>v. /\ ver' \in [Nodes -> [Keys -> KeyVersions \cup {None}]]
      /\ floor' \in [Keys -> Nat]
      /\ ver'[n][k] = None
      /\ \A x \in Nodes, y \in Keys : ~ (x = n /\ y = k) => ver'[x][y] = ver[x][y]
      /\ ver[n][k].at <= floor'[k]
      /\ \A y \in Keys : floor[y] \in Nat /\ floor'[y] \in Nat /\ floor[y] <= floor'[y]
  <2>1. ver \in [Nodes -> [Keys -> KeyVersions \cup {None}]] /\ floor \in [Keys -> Nat]
    BY <1>0 DEF TypeOK
  <2>2. ver' = [ver EXCEPT ![n][k] = None]
    BY DEF PruneTombstone
  <2>3. /\ ver' \in [Nodes -> [Keys -> KeyVersions \cup {None}]]
        /\ ver'[n][k] = None
        /\ \A x \in Nodes, y \in Keys : ~ (x = n /\ y = k) => ver'[x][y] = ver[x][y]
    BY <2>1, <2>2
  <2>4. PICK f \in Nat : f >= floor[k] /\ f >= ver[n][k].at /\ floor' = [floor EXCEPT ![k] = f]
    <3> DEFINE a == ver[n][k].at
    <3>1. a \in Nat /\ floor[k] \in Nat
      BY <1>s, <2>1
    <3>2. floor' = [floor EXCEPT ![k] = IF floor[k] < a THEN a ELSE floor[k]]
      BY <2>1 DEF PruneTombstone
    <3> HIDE DEF a
    <3>3. CASE floor[k] < a
      <4>1. floor' = [floor EXCEPT ![k] = a] /\ a >= floor[k] /\ a >= a
        BY <3>1, <3>2, <3>3
      <4> QED BY <3>1, <4>1 DEF a
    <3>4. CASE ~ (floor[k] < a)
      <4>1. floor' = [floor EXCEPT ![k] = floor[k]] /\ floor[k] >= floor[k] /\ floor[k] >= a
        BY <3>1, <3>2, <3>4
      <4> QED BY <3>1, <4>1 DEF a
    <3> QED BY <3>3, <3>4
  <2>5. floor' \in [Keys -> Nat] /\ \A y \in Keys : floor'[y] = IF y = k THEN f ELSE floor[y]
    BY <2>1, <2>4
  <2>6. \A y \in Keys : floor[y] \in Nat /\ floor'[y] \in Nat /\ floor[y] <= floor'[y]
    BY <2>1, <2>4, <2>5
  <2> QED BY <1>s, <2>3, <2>4, <2>5, <2>6
<1>1. TypeOK'
  BY <1>0, <1>s, <1>v DEF TypeOK
<1>2. EventsMade'
  BY <1>0, <1>s DEF EventsMade
<1>3. NewestKept'
  <2>1. \A x \in Nodes, y \in Keys : ver'[x][y] # None => ver'[x][y] = ver[x][y]
    BY <1>v
  <2> QED BY <1>s, <2>1 DEF ReplInv, Durable, NewestKept
<1>4. Acknowledged'
  BY <1>s DEF ReplInv, Durable, Acknowledged, Recorded, Key, Version
<1>5. DeliveredIsDurable'
  BY <1>s DEF ReplInv, Durable, DeliveredIsDurable, Key, Version
<1>6. OneHolder'
  BY <1>s DEF ReplInv, OneHolder, Held, Key
<1>7. Unused'
  BY <1>s DEF ReplInv, Unused
<1>8. Safe => NeverGoesBack'
  <2>1. \A x \in Nodes, y \in Keys : ver'[x][y] # None => ver'[x][y] = ver[x][y]
    BY <1>v
  <2> QED BY <1>s, <2>1 DEF ReplInv, Forward, NeverGoesBack
<1>9. Safe => HeldIsNewer'
  BY <1>s DEF ReplInv, Forward, HeldIsNewer, Newer, Held, Key, Version
<1>10. Safe => PrunedIsOld'
  <2> SUFFICES ASSUME Safe PROVE PrunedIsOld'
    OBVIOUS
  <2>0. NeverGoesBack /\ PrunedIsOld
    BY DEF ReplInv, Forward
  <2>1. newest[n][k] # None /\ ~ Less(ver[n][k], newest[n][k])
    BY <1>s, <2>0 DEF NeverGoesBack, AtLeast
  <2>2. newest[n][k].at \in Nat /\ newest[n][k].origin \in Nat
    BY <1>0, <2>1, VersionTypes
  <2>3. newest[n][k].at <= ver[n][k].at
    BY <1>s, <2>1, <2>2 DEF Less
  <2>4. newest[n][k].at <= floor'[k]
    BY <1>s, <1>v, <2>2, <2>3
  <2>5. ASSUME NEW x \in Nodes, NEW y \in Keys, ver'[x][y] = None, newest[x][y] # None
        PROVE  newest[x][y].at <= floor'[y]
    <3>1. CASE x = n /\ y = k
      BY <2>4, <3>1
    <3>2. CASE ~ (x = n /\ y = k)
      <4>1. newest[x][y].at <= floor[y]
        BY <1>v, <2>0, <2>5, <3>2 DEF PrunedIsOld
      <4>2. newest[x][y].at \in Nat
        BY <1>0, <2>5, VersionTypes
      <4> QED BY <1>v, <4>1, <4>2
    <3> QED BY <3>1, <3>2
  <2>6. ASSUME NEW x \in Nodes, NEW j \in Ids, events[j] # None, InFlight(j), ver'[x][Key(j)] = None
        PROVE  Newer(x, Key(j), Version(j))
    <3>0. Key(j) \in Keys /\ Version(j).at \in Nat /\ Version(j).origin \in Nat
      BY <1>0, <2>6, EventTypes
    <3>1. CASE x = n /\ Key(j) = k
      <4>1. Less(ver[n][k], Version(j))
        BY <1>s, <2>6, <3>1
      <4>2. Less(newest[n][k], Version(j))
        BY <1>s, <2>1, <2>2, <3>0, <4>1, Order
      <4> QED BY <3>1, <4>2 DEF Newer
    <3>2. CASE ~ (x = n /\ Key(j) = k)
      BY <1>v, <2>0, <2>6, <3>0, <3>2 DEF PrunedIsOld
    <3> QED BY <3>1, <3>2
  <2>7. \A j : (InFlight(j)' <=> InFlight(j)) /\ Key(j)' = Key(j) /\ Version(j)' = Version(j)
    BY <1>s DEF InFlight, Key, Version
  <2> QED BY <1>s, <2>5, <2>6, <2>7 DEF PrunedIsOld, Newer
<1>11. OneSender'
  BY <1>s DEF ReplInv, OneSender
<1> QED BY <1>1, <1>2, <1>3, <1>4, <1>5, <1>6, <1>7, <1>8, <1>9, <1>10, <1>11
    DEF ReplInv, Durable, Forward

\* Locks, deliveries and handlers of the node are gone; its tables are not.
LEMMA CrashStep ==
  ASSUME ReplInv, NEW n \in Nodes, Crash(n)
  PROVE  ReplInv'
<1>0. TypeOK /\ EventsMade
  BY DEF ReplInv, Durable
<1>s. /\ UNCHANGED <<obj, ver, newest, log, applied, floor, faults>> /\ crashes' = crashes + 1
      /\ hold' = [hold EXCEPT ![n] = [k \in Keys |-> "free"]]
      /\ push' = [i \in Ids |-> IF events[i] # None /\ events[i].origin = n THEN None ELSE push[i]]
      /\ heal' = [heal EXCEPT ![n] = None]
      /\ scan' = [scan EXCEPT ![n] = None]
  BY DEF Crash
<1>t. /\ hold' \in [Nodes -> [Keys -> {"free", "local", "remote", "restore"}]]
      /\ heal' \in [Nodes -> Heals \cup {None}] /\ scan' \in [Nodes -> Scans \cup {None}]
      /\ push' \in [Ids -> Pushes \cup {None}]
      /\ heal'[n] = None /\ scan'[n] = None
      /\ \A x \in Nodes : x # n => hold'[x] = hold[x] /\ heal'[x] = heal[x] /\ scan'[x] = scan[x]
      /\ \A j \in Ids : push'[j] = None \/ push'[j] = push[j]
      /\ \A j \in Ids : events[j] # None /\ events[j].origin # n => push'[j] = push[j]
  <2>1. hold \in [Nodes -> [Keys -> {"free", "local", "remote", "restore"}]]
    BY <1>0 DEF TypeOK
  <2>2. heal \in [Nodes -> Heals \cup {None}] /\ scan \in [Nodes -> Scans \cup {None}]
    BY <1>0 DEF TypeOK
  <2>3. push \in [Ids -> Pushes \cup {None}]
    BY <1>0 DEF TypeOK
  <2>4. /\ hold' \in [Nodes -> [Keys -> {"free", "local", "remote", "restore"}]]
        /\ \A x \in Nodes : x # n => hold'[x] = hold[x]
    BY <1>s, <2>1
  <2>5. /\ heal' \in [Nodes -> Heals \cup {None}] /\ scan' \in [Nodes -> Scans \cup {None}]
        /\ heal'[n] = None /\ scan'[n] = None
        /\ \A x \in Nodes : x # n => heal'[x] = heal[x] /\ scan'[x] = scan[x]
    BY <1>s, <2>2
  <2>6. /\ push' \in [Ids -> Pushes \cup {None}]
        /\ \A j \in Ids : push'[j] = None \/ push'[j] = push[j]
        /\ \A j \in Ids : events[j] # None /\ events[j].origin # n => push'[j] = push[j]
    BY <1>s, <2>3
  <2> QED BY <2>4, <2>5, <2>6
<1>u. \A x \in net' : \E z \in net :
          \/ /\ x = z /\ events[z.id].origin # n
             /\ ~ (z.to = n /\ z.stage \notin {"ok", "err"})
          \/ /\ x = [z EXCEPT !.stage = "err"] /\ z.live
             /\ z.to = n /\ z.stage \notin {"ok", "err"}
          \/ /\ x = [z EXCEPT !.live = FALSE] /\ events[z.id].origin = n
             /\ z.stage \notin {"ok", "err"}
  BY DEF Crash
<1>n. \A x \in net' : \E z \in net :
          /\ x \in Messages /\ x.id = z.id /\ x.to = z.to
          /\ x.id \in Ids /\ x.to \in Nodes /\ events[x.id] # None /\ x.to # events[x.id].origin
          /\ \/ /\ x = z /\ events[x.id].origin # n
                /\ ~ (x.to = n /\ z.stage \notin {"ok", "err"})
             \/ /\ x = [z EXCEPT !.stage = "err"] /\ x.stage = "err" /\ z.live
                /\ events[x.id].origin # n /\ x.to = n /\ z.stage \notin {"ok", "err"}
             \/ /\ x = [z EXCEPT !.live = FALSE] /\ ~ x.live /\ x.stage = z.stage
                /\ events[x.id].origin = n /\ x.to # n /\ z.stage \notin {"ok", "err"}
  <2> SUFFICES ASSUME NEW x \in net', NEW z \in net,
          \/ /\ x = z /\ events[z.id].origin # n
             /\ ~ (z.to = n /\ z.stage \notin {"ok", "err"})
          \/ /\ x = [z EXCEPT !.stage = "err"] /\ z.live
             /\ z.to = n /\ z.stage \notin {"ok", "err"}
          \/ /\ x = [z EXCEPT !.live = FALSE] /\ events[z.id].origin = n
             /\ z.stage \notin {"ok", "err"}
               PROVE
          /\ x \in Messages /\ x.id = z.id /\ x.to = z.to
          /\ x.id \in Ids /\ x.to \in Nodes /\ events[x.id] # None /\ x.to # events[x.id].origin
          /\ \/ /\ x = z /\ events[x.id].origin # n
                /\ ~ (x.to = n /\ z.stage \notin {"ok", "err"})
             \/ /\ x = [z EXCEPT !.stage = "err"] /\ x.stage = "err" /\ z.live
                /\ events[x.id].origin # n /\ x.to = n /\ z.stage \notin {"ok", "err"}
             \/ /\ x = [z EXCEPT !.live = FALSE] /\ ~ x.live /\ x.stage = z.stage
                /\ events[x.id].origin = n /\ x.to # n /\ z.stage \notin {"ok", "err"}
    BY <1>u
  <2>1. /\ z \in Messages /\ z.id \in Ids /\ z.to \in Nodes
        /\ events[z.id] # None /\ z.to # events[z.id].origin
    BY <1>0, MessageTypes
  <2>2. /\ [z EXCEPT !.stage = "err"] \in Messages /\ [z EXCEPT !.live = FALSE] \in Messages
    BY <2>1 DEF Messages, Stages
  <2>3. /\ [z EXCEPT !.stage = "err"].id = z.id /\ [z EXCEPT !.stage = "err"].to = z.to
        /\ [z EXCEPT !.stage = "err"].stage = "err"
        /\ [z EXCEPT !.live = FALSE].id = z.id /\ [z EXCEPT !.live = FALSE].to = z.to
        /\ [z EXCEPT !.live = FALSE].stage = z.stage /\ ~ [z EXCEPT !.live = FALSE].live
    BY <2>1 DEF Messages
  <2> QED BY <2>1, <2>2, <2>3
<1>h. \A x \in net' : \E z \in net :
          /\ x.id = z.id /\ x.to = z.to /\ x.id \in Ids /\ x.to \in Nodes /\ Key(x.id) \in Keys
          /\ Held(x) => x.stage = z.stage /\ Held(z) /\ x.to # n
          /\ x.stage = "ok" => x = z
  <2>1. \A z \in net : Key(z.id) \in Keys
    BY <1>0, MessageTypes
  <2> QED BY <1>n, <2>1 DEF Held
<1>f. FlightEnds
  BY <1>s, <1>t, <1>n DEF FlightEnds, InFlight
<1>1. TypeOK'
  <2>1. net' \subseteq Messages
    BY <1>n
  <2>2. crashes' \in Nat
    BY <1>0, <1>s DEF TypeOK
  <2> QED BY <1>0, <1>s, <1>t, <2>1, <2>2 DEF TypeOK
<1>2. EventsMade'
  <2>1. \A x \in net' : events[x.id] # None /\ x.to # events[x.id].origin
    BY <1>n
  <2>2. \A j \in Ids : push'[j] # None => push[j] # None
    BY <1>t
  <2> QED BY <1>0, <1>s, <2>1, <2>2 DEF EventsMade
<1>3. NewestKept'
  BY <1>s DEF ReplInv, Durable, NewestKept
<1>4. Acknowledged'
  <2>1. \A x \in net' : x.stage = "ok" => x \in net
    BY <1>h
  <2> QED BY <1>s, <2>1 DEF ReplInv, Durable, Acknowledged, Recorded, Key, Version
<1>5. DeliveredIsDurable'
  BY <1>s DEF ReplInv, Durable, DeliveredIsDurable, Key, Version
<1>6. OneHolder'
  <2>0. OneHolder
    BY DEF ReplInv
  <2>1. ASSUME NEW x \in net', Held(x) PROVE hold'[x.to][Key(x.id)] = "remote"
    <3>1. PICK z \in net : x.id = z.id /\ x.to = z.to /\ x.to \in Nodes /\ Held(z) /\ x.to # n
      BY <1>h, <2>1
    <3>2. hold[x.to][Key(x.id)] = "remote"
      BY <2>0, <3>1 DEF OneHolder
    <3> QED BY <1>t, <3>1, <3>2
  <2>2. ASSUME NEW x \in net', NEW y \in net', Held(x), Held(y), x.to = y.to, Key(x.id) = Key(y.id)
        PROVE  x = y
    <3>1. PICK z \in net : /\ x.id = z.id /\ x.to = z.to /\ Held(z)
                          /\ \/ x = z /\ events[x.id].origin # n
                             \/ x = [z EXCEPT !.live = FALSE] /\ events[x.id].origin = n
      BY <1>n, <2>2 DEF Held
    <3>2. PICK w \in net : /\ y.id = w.id /\ y.to = w.to /\ Held(w)
                          /\ \/ y = w /\ events[y.id].origin # n
                             \/ y = [w EXCEPT !.live = FALSE] /\ events[y.id].origin = n
      BY <1>n, <2>2 DEF Held
    <3>3. z = w
      BY <2>0, <2>2, <3>1, <3>2 DEF OneHolder
    <3> QED BY <3>1, <3>2, <3>3
  <2>3. \A x \in Nodes : heal'[x] # None /\ heal'[x].stage = "committed"
                             => hold'[x][heal'[x].key] = "restore"
    BY <1>t, <2>0 DEF OneHolder
  <2>4. \A j : Key(j)' = Key(j)
    BY <1>s DEF Key
  <2> QED BY <2>1, <2>2, <2>3, <2>4 DEF OneHolder, Held
<1>7. Unused'
  BY <1>t DEF ReplInv, Unused
<1>8. Safe => NeverGoesBack'
  BY <1>s DEF ReplInv, Forward, NeverGoesBack
<1>9. Safe => HeldIsNewer'
  BY <1>s, <1>h DEF ReplInv, Forward, HeldIsNewer, Newer, Held, Key, Version
<1>10. Safe => PrunedIsOld'
  BY <1>f, <1>s, FlightKept DEF ReplInv, Forward
<1>11. OneSender'
  <2>0. OneSender
    BY DEF ReplInv
  <2>1. ASSUME NEW x \in net', x.live
        PROVE  \E z \in net : /\ x.id = z.id /\ x.to = z.to /\ z.live /\ push'[x.id] = push[x.id]
                               /\ \/ x = z /\ ~ (x.to = n /\ z.stage \notin {"ok", "err"})
                                  \/ /\ x = [z EXCEPT !.stage = "err"] /\ x.to = n
                                     /\ z.stage \notin {"ok", "err"}
    BY <1>n, <1>t, <2>1
  <2>2. \A x \in net' : x.live => push'[x.id] # None /\ push'[x.id].to = x.to
    BY <2>0, <2>1 DEF OneSender
  <2>3. ASSUME NEW x \in net', NEW y \in net', x.live, y.live, x.id = y.id
        PROVE  x = y
    <3>1. PICK z \in net : /\ x.id = z.id /\ x.to = z.to /\ z.live
                          /\ \/ x = z /\ ~ (x.to = n /\ z.stage \notin {"ok", "err"})
                             \/ /\ x = [z EXCEPT !.stage = "err"] /\ x.to = n
                                /\ z.stage \notin {"ok", "err"}
      BY <2>1, <2>3
    <3>2. PICK w \in net : /\ y.id = w.id /\ y.to = w.to /\ w.live
                          /\ \/ y = w /\ ~ (y.to = n /\ w.stage \notin {"ok", "err"})
                             \/ /\ y = [w EXCEPT !.stage = "err"] /\ y.to = n
                                /\ w.stage \notin {"ok", "err"}
      BY <2>1, <2>3
    <3>3. z = w
      BY <2>0, <2>3, <3>1, <3>2 DEF OneSender
    <3> QED BY <3>1, <3>2, <3>3
  <2> QED BY <2>2, <2>3 DEF OneSender
<1> QED BY <1>1, <1>2, <1>3, <1>4, <1>5, <1>6, <1>7, <1>8, <1>9, <1>10, <1>11
    DEF ReplInv, Durable, Forward

-----------------------------------------------------------------------------
(* The theorems.                                                            *)

\* The empty cluster, whatever it stored before versions existed, satisfies the
\* invariant.
LEMMA InitInv ==
  ASSUME Init
  PROVE  ReplInv
<1>1. TypeOK
  BY DEF Init, TypeOK, ContentOrNone
<1>2. EventsMade /\ NewestKept /\ Acknowledged /\ DeliveredIsDurable
  BY DEF Init, EventsMade, NewestKept, Acknowledged, DeliveredIsDurable
<1>3. OneHolder /\ OneSender /\ Unused
  BY DEF Init, OneHolder, OneSender, Unused
<1>4. NeverGoesBack /\ HeldIsNewer /\ PrunedIsOld
  BY DEF Init, NeverGoesBack, HeldIsNewer, PrunedIsOld
<1> QED BY <1>1, <1>2, <1>3, <1>4 DEF ReplInv, Durable, Forward

\* A step that changes nothing keeps the invariant.
LEMMA StutterStep ==
  ASSUME ReplInv, UNCHANGED vars
  PROVE  ReplInv'
<1>1. UNCHANGED <<obj, ver, hold, newest, events, status, attempts, delivered, applied,
                  push, net, heal, scan, floor, faults, crashes>>
  BY DEF vars
<1>2. TypeOK' /\ Unused'
  BY <1>1 DEF ReplInv, TypeOK, Unused
<1>3. EventsMade' /\ NewestKept' /\ Acknowledged' /\ DeliveredIsDurable'
  BY <1>1 DEF ReplInv, Durable, EventsMade, NewestKept, Acknowledged, DeliveredIsDurable,
              Recorded, Key, Version
<1>4. OneHolder' /\ OneSender'
  BY <1>1 DEF ReplInv, OneHolder, OneSender, Held, Key
<1>5. Safe => NeverGoesBack' /\ HeldIsNewer'
  BY <1>1 DEF ReplInv, Forward, NeverGoesBack, HeldIsNewer, Held, Newer, Key, Version
<1>6. Safe => PrunedIsOld'
  BY <1>1, FlightKept DEF ReplInv, Forward, FlightEnds, InFlight
<1> QED BY <1>2, <1>3, <1>4, <1>5, <1>6 DEF ReplInv, Durable, Forward

\* Every step of the cluster keeps the invariant.
LEMMA NextInv ==
  ASSUME ReplInv, [Next]_vars
  PROVE  ReplInv'
<1>1. CASE Change
  BY <1>1, LocalCommitStep, LocalRecordStep, LocalRecordFailStep DEF Change
<1>2. CASE Deliver
  BY <1>2, DeliverStartStep, PushToStep, DeliverEndStep, ReplayDeadLetterStep DEF Deliver
<1>3. CASE Apply
  BY <1>3, PushOkStep, PushErrStep, PushLostStep, ReceiveStep, ApplyCheckStep, ApplyCommitStep,
     ApplyRecordStep, ApplyFailStep DEF Apply
<1>4. CASE Repair
  BY <1>4, HealOpenStep, HealVersionStep, HealRecheckStep, HealCommitStep, HealRecordStep,
     BackfillReadStep, BackfillEnqueueStep DEF Repair
<1>5. CASE Prune
  BY <1>5, PruneEventStep, PruneTombstoneStep DEF Prune
<1>6. CASE \E n \in Nodes : Crash(n)
  BY <1>6, CrashStep
<1>7. CASE UNCHANGED vars
  BY <1>7, StutterStep
<1> QED BY <1>1, <1>2, <1>3, <1>4, <1>5, <1>6, <1>7 DEF Next

\* ReplInv holds in every reachable state of a cluster of any size, under any
\* number of lost pushes, failed writes and crashes.
THEOREM Inductive == Spec => []ReplInv
<1>1. Init => ReplInv
  BY InitInv
<1>2. ReplInv /\ [Next]_vars => ReplInv'
  BY NextInv
<1> QED BY <1>1, <1>2, PTL DEF Spec

\* The tables, the queue, the pushes and the restores always hold what their
\* columns and fields allow.
THEOREM TypeCorrect == Spec => []TypeOK
<1>1. ReplInv => TypeOK
  BY DEF ReplInv
<1> QED BY <1>1, Inductive, PTL

\* A peer listed in an event's delivered_to column has recorded that change, or a
\* newer one to the same key, whatever was lost, repeated, failed or crashed, and
\* whatever was restored, backfilled, replayed or pruned.
THEOREM DeliveredDurable == Spec => []DeliveredIsDurable
<1>1. ReplInv => DeliveredIsDurable
  BY DEF ReplInv, Durable
<1> QED BY <1>1, Inductive, PTL

\* Where Safe holds, no late, repeated or restored change takes a key's recorded
\* version back behind one recorded before, pruned tombstones included.
THEOREM VersionsGoForward == ASSUME Safe PROVE Spec => []NeverGoesBack
<1>1. ReplInv => NeverGoesBack
  BY DEF ReplInv, Forward
<1> QED BY <1>1, Inductive, PTL


-----------------------------------------------------------------------------
(* Versions describe objects, and nodes agree (VersionDescribesObject,      *)
(* Convergence), where every committed change is recorded.                  *)

\* What the newest version is made of after a step.
LEMMA NewestTypes ==
  ASSUME TypeOK', NEW n \in Nodes, NEW k \in Keys, newest'[n][k] # None
  PROVE  newest'[n][k] \in Versions /\ newest'[n][k].at \in Nat /\ newest'[n][k].origin \in Nat
<1>1. newest' \in [Nodes -> [Keys -> Versions \cup {None}]]
  BY DEF TypeOK
<1>2. newest'[n][k] \in Versions
  BY <1>1
<1> QED BY <1>2, InVersions

\* The labels of the next state, for versions and contents of this one.
NewerNext(k, v) ==
  \/ \E i \in Ids : events'[i] # None /\ events'[i].key = k /\ Less(v, EventVersion(events'[i]))
  \/ \E q \in Nodes : hold'[q][k] = "local" /\ newest'[q][k] # None /\ AtLeast(newest'[q][k], v)
MadeNext(k, v) ==
  \E i \in Ids : events'[i] # None /\ events'[i].key = k /\ EventVersion(events'[i]) = v
LabelsNext(k, v, c) ==
  \/ \E i \in Ids : /\ events'[i] # None /\ events'[i].key = k
                    /\ EventVersion(events'[i]) = v /\ events'[i].etag = c
  \/ NewerNext(k, v)
CopyNext(n) ==
  LET h == heal'[n]
  IN  /\ h.stage = "opened" => h.version = None
      /\ h.version # None =>
          /\ MadeNext(h.key, h.version)
          /\ newest'[h.from][h.key] # None /\ AtLeast(newest'[h.from][h.key], h.version)
          /\ h.stage # "versioned" \/ obj'[h.from][h.key] = h.content =>
                  LabelsNext(h.key, h.version, h.content)

\* They are what NewestLabels and CopyLabels say after the step.
LEMMA NextLabels ==
  /\ NewestLabels' <=> \A n \in Nodes, k \in Keys : newest'[n][k] # None =>
                           MadeNext(k, newest'[n][k]) /\ LabelsNext(k, newest'[n][k], obj'[n][k])
  /\ CopyLabels' <=> \A n \in Nodes : heal'[n] # None => CopyNext(n)
<1>1. NewestLabels' <=> \A n \in Nodes, k \in Keys : newest'[n][k] # None =>
                           MadeNext(k, newest'[n][k]) /\ LabelsNext(k, newest'[n][k], obj'[n][k])
  BY DEF NewestLabels, MadeNext, LabelsNext, Labels, Announced, NewerChange, NewerNext, Key, Version
<1>2. CopyLabels' <=> \A n \in Nodes : heal'[n] # None => CopyNext(n)
  BY DEF CopyLabels, CopyAt, CopyNext, MadeNext, LabelsNext, Labels, Announced, NewerChange, NewerNext, Key, Version
<1> QED BY <1>1, <1>2

\* A local change ends with an event newer than all its node has recorded.
LocalsKept ==
  \A q \in Nodes, k \in Keys : hold[q][k] = "local" =>
      \/ hold'[q][k] = "local"
      \/ \E i \in Ids : events'[i] # None /\ events'[i].key = k /\ Newer(q, k, EventVersion(events'[i]))

\* What the version of an event is made of after a step.
LEMMA NextEventTypes ==
  ASSUME TypeOK', NEW i \in Ids, events'[i] # None
  PROVE  EventVersion(events'[i]).at \in Nat /\ EventVersion(events'[i]).origin \in Nat
<1>0. events' \in [Ids -> Events \cup {None}]
  BY DEF TypeOK
<1>1. events'[i] \in Events
  BY <1>0
<1>2. events'[i].at \in Times /\ events'[i].origin \in Nodes /\ Times \subseteq Nat /\ Nodes \subseteq Nat
  BY <1>1 DEF Events, Times
<1> QED BY <1>2 DEF EventVersion

\* A label stays one: its event stays, and a newer change stays newer.
LEMMA LabelsKept ==
  ASSUME TypeOK, TypeOK', EventsKept, NewestGrows, LocalsKept,
         NEW k \in Keys, NEW v, v.at \in Nat, v.origin \in Nat, NEW c, Labels(k, v, c)
  PROVE  LabelsNext(k, v, c)
<1>e. \A i \in Ids : events[i] # None => events'[i] # None /\ events'[i].key = Key(i) /\ EventVersion(events'[i]) = Version(i)
                                         /\ events'[i] = events[i]
  BY DEF EventsKept, Key, Version
<1>1. CASE Announced(k, v, c)
  BY <1>1, <1>e DEF Announced, LabelsNext
<1>2. ASSUME NEW i \in Ids, events[i] # None, Key(i) = k, Less(v, Version(i)) PROVE NewerNext(k, v)
  BY <1>2, <1>e DEF NewerNext
<1>3. ASSUME NEW q \in Nodes, hold[q][k] = "local", newest[q][k] # None, AtLeast(newest[q][k], v)
      PROVE  NewerNext(k, v)
  <2>1. /\ newest[q][k].at \in Nat /\ newest[q][k].origin \in Nat
        /\ newest'[q][k] # None /\ ~ Less(newest'[q][k], newest[q][k])
    BY <1>3, VersionTypes DEF NewestGrows, AtLeast
  <2>2. CASE hold'[q][k] = "local"
    <3>2. newest'[q][k].at \in Nat /\ newest'[q][k].origin \in Nat
      BY <2>1, NewestTypes
    <3>3. ~ Less(newest'[q][k], v)
      BY <1>3, <2>1, <3>2, Order DEF AtLeast
    <3> QED BY <2>1, <2>2, <3>3 DEF NewerNext, AtLeast
  <2>3. ASSUME NEW i \in Ids, events'[i] # None, events'[i].key = k, Newer(q, k, EventVersion(events'[i]))
        PROVE  NewerNext(k, v)
    <3>3. EventVersion(events'[i]).at \in Nat /\ EventVersion(events'[i]).origin \in Nat
      BY <2>3, NextEventTypes
    <3>4. Less(newest[q][k], EventVersion(events'[i]))
      BY <1>3, <2>3 DEF Newer
    <3>5. Less(v, EventVersion(events'[i]))
      BY <1>3, <2>1, <3>3, <3>4, Order DEF AtLeast
    <3> QED BY <2>3, <3>5 DEF NewerNext
  <2> QED BY <1>3, <2>2, <2>3 DEF LocalsKept
<1> QED BY <1>1, <1>2, <1>3 DEF Labels, NewerChange, LabelsNext

\* Where events, versions and locks stay, so do the labels.
LEMMA LabelsSame ==
  ASSUME UNCHANGED <<events, hold, newest>>, NEW k, NEW v, NEW c
  PROVE  Labels(k, v, c)' = Labels(k, v, c)
BY DEF Labels, Announced, NewerChange, Key, Version

\* A key's lock that a restore holds, or a handler.
LEMMA HoldersThere ==
  ASSUME Described, NEW n \in Nodes, NEW k \in Keys
  PROVE  /\ hold[n][k] = "restore" =>
                /\ heal[n] # None /\ heal[n].stage = "committed" /\ heal[n].key = k
                /\ obj[n][k] = heal[n].content /\ newest[n][k] = None
         /\ hold[n][k] = "remote" => \E m \in net : Held(m) /\ m.to = n /\ Key(m.id) = k
<1>1. HeldBySomeone
  BY DEF Described
<1> QED BY <1>1 DEF HeldBySomeone

\* HeldBySomeone after a step, said of the two locks one by one.
LEMMA HeldNext ==
  ASSUME \A n \in Nodes, k \in Keys : hold'[n][k] = "remote" =>
             \E m \in net' : Held(m) /\ m.to = n /\ events'[m.id].key = k,
         \A n \in Nodes, k \in Keys : hold'[n][k] = "restore" =>
             /\ heal'[n] # None /\ heal'[n].stage = "committed" /\ heal'[n].key = k
             /\ obj'[n][k] = heal'[n].content /\ newest'[n][k] = None
  PROVE  HeldBySomeone'
BY DEF HeldBySomeone, Held, Key

\* A step that changes only the pushes on their way: what is written stays written,
\* no push is past its check that was not, and those that are stay.
NetQuiet ==
  /\ UNCHANGED <<obj, ver, hold, newest, events, heal>>
  /\ \A x \in net' :
        \/ x \in net
        \/ x.stage = "sent" /\ (events[x.id].etag = None => x.content = None)
        \/ \E m \in net : /\ x.id = m.id /\ x.to = m.to /\ x.content = m.content
                          /\ \/ x.stage = m.stage \/ x.stage \in {"ok", "err"}
                             \/ x.stage = "open" /\ x.content = events[m.id].etag
  /\ \A m \in net : Held(m) => \E x \in net' : x.id = m.id /\ x.to = m.to /\ x.stage = m.stage

\* Such a step leaves every version with its object.
LEMMA QuietDescribed ==
  ASSUME Described, NetQuiet
  PROVE  Described'
<1>k. \A i : Key(i)' = Key(i) /\ Version(i)' = Version(i)
  BY DEF NetQuiet, Key, Version
<1>1. PushedContent'
  <2> SUFFICES ASSUME NEW x \in net'
               PROVE  /\ events[x.id].etag = None => x.content = None
                      /\ x.stage \in {"open", "checked", "committed"} => x.content = events[x.id].etag
                      /\ x.stage = "committed" => obj[x.to][Key(x.id)] = x.content
    BY <1>k DEF PushedContent, NetQuiet
  <2>1. CASE x \in net
    BY <2>1 DEF Described, PushedContent
  <2>2. CASE x.stage = "sent" /\ (events[x.id].etag = None => x.content = None)
    BY <2>2
  <2>3. ASSUME NEW m \in net, x.id = m.id, x.to = m.to, x.content = m.content,
               \/ x.stage = m.stage \/ x.stage \in {"ok", "err"}
               \/ x.stage = "open" /\ x.content = events[m.id].etag
        PROVE  /\ events[x.id].etag = None => x.content = None
               /\ x.stage \in {"open", "checked", "committed"} => x.content = events[x.id].etag
               /\ x.stage = "committed" => obj[x.to][Key(x.id)] = x.content
    BY <2>3 DEF Described, PushedContent
  <2> QED BY <2>1, <2>2, <2>3 DEF NetQuiet
<1>2. HeldBySomeone'
  <2> SUFFICES ASSUME NEW n \in Nodes, NEW k \in Keys
               PROVE  /\ hold[n][k] = "remote" => \E x \in net' : Held(x) /\ x.to = n /\ Key(x.id) = k
                      /\ hold[n][k] = "restore" =>
                            /\ heal[n] # None /\ heal[n].stage = "committed" /\ heal[n].key = k
                            /\ obj[n][k] = heal[n].content /\ newest[n][k] = None
    BY <1>k DEF HeldBySomeone, NetQuiet, Held
  <2>1. ASSUME NEW m \in net, Held(m), m.to = n, Key(m.id) = k
        PROVE  \E x \in net' : Held(x) /\ x.to = n /\ Key(x.id) = k
    BY <2>1 DEF NetQuiet, Held
  <2> QED BY <2>1 DEF Described, HeldBySomeone
<1>3. ASSUME NEW x \in net', x.stage = "checked" PROVE \E m \in net : m.stage = "checked" /\ m.to = x.to /\ m.id = x.id
  BY <1>3 DEF NetQuiet
<1>4. Tombstones'
  BY <1>k, <1>3 DEF Described, Tombstones, NetQuiet
<1>5. NewestLabels'
  BY <1>k, LabelsSame DEF Described, NewestLabels, NetQuiet
<1>6. CopyLabels'
  BY <1>k, LabelsSame DEF Described, CopyLabels, CopyAt, NetQuiet
<1> QED BY <1>1, <1>2, <1>4, <1>5, <1>6 DEF Described

\* Such a step leaves the changes made and the keys without one as they are.
LEMMA QuietChanges ==
  ASSUME OwnChanges, Untouched, UNCHANGED <<obj, hold, newest, events, heal>>
  PROVE  OwnChanges' /\ Untouched'
<1>k. \A i : Key(i)' = Key(i) /\ Version(i)' = Version(i)
  BY DEF Key, Version
<1>1. OwnChanges'
  BY <1>k DEF OwnChanges, Recorded
<1>2. Untouched'
  BY <1>k DEF Untouched, NoChange
<1> QED BY <1>1, <1>2

-----------------------------------------------------------------------------
(* The worker's steps.                                                      *)

\* What holds before a step, and after it by NextInv.
Calm ==
  /\ ReplInv /\ ReplInv' /\ CommitsRecorded
  /\ Described /\ OwnChanges /\ DoneWith /\ Untouched

\* The parts of it.
LEMMA CalmFacts ==
  ASSUME Calm
  PROVE  /\ TypeOK /\ EventsMade /\ NewestKept /\ OneHolder /\ OneSender /\ Unused /\ Forward
         /\ TypeOK' /\ EventsMade' /\ Forward' /\ DeliveredIsDurable
         /\ Safe /\ "record" \notin Faults /\ MaxCrashes = 0 /\ "backfill" \notin Ops
BY DEF Calm, ReplInv, Durable, CommitsRecorded, Safe

\* An event is done with as long as its deliveries stay and versions grow.
LEMMA DoneKept ==
  ASSUME Calm, EventsKept, NewestGrows, NEW i \in Ids, events[i] # None,
         delivered'[i] = delivered[i],
         status'[i] \in {"pending", "failed", "dead_letter"}
            \/ status[i] \notin {"pending", "failed", "dead_letter"}
  PROVE  /\ delivered'[i] \subseteq Peers(events'[i].origin)
         /\ status'[i] \notin {"pending", "failed", "dead_letter"} =>
                \/ Needed = 0 \/ Enough(i)'
                \/ newest'[events'[i].origin][Key(i)'] # None
                   /\ Less(Version(i)', newest'[events'[i].origin][Key(i)'])
<1>k. events'[i] = events[i] /\ Key(i)' = Key(i) /\ Version(i)' = Version(i)
  BY DEF EventsKept, Key, Version
<1>1. delivered'[i] \subseteq Peers(events'[i].origin)
  BY <1>k DEF Calm, DoneWith
<1>2. ASSUME status'[i] \notin {"pending", "failed", "dead_letter"}, Needed # 0, ~ Enough(i)'
      PROVE  newest'[events'[i].origin][Key(i)'] # None
             /\ Less(Version(i)', newest'[events'[i].origin][Key(i)'])
  <2> DEFINE o == events[i].origin
             k == Key(i)
  <2>1. ~ Enough(i)
    BY <1>2 DEF Enough
  <2>2. newest[o][k] # None /\ Less(Version(i), newest[o][k])
    BY <1>2, <2>1 DEF Calm, DoneWith
  <2>3. TypeOK /\ TypeOK'
    BY CalmFacts
  <2>4. o \in Nodes /\ k \in Keys /\ Version(i).at \in Nat /\ Version(i).origin \in Nat
    BY <2>3, EventTypes
  <2>5. newest'[o][k] # None /\ ~ Less(newest'[o][k], newest[o][k])
    BY <2>2, <2>4 DEF NewestGrows, AtLeast
  <2>6. newest[o][k].at \in Nat /\ newest[o][k].origin \in Nat
    BY <2>2, <2>3, <2>4, VersionTypes
  <2>8. newest'[o][k].at \in Nat /\ newest'[o][k].origin \in Nat
    BY <2>3, <2>4, <2>5, NewestTypes
  <2>9. Less(Version(i), newest'[o][k])
    BY <2>2, <2>4, <2>5, <2>6, <2>8, Order
  <2> QED BY <1>k, <2>5, <2>9
<1> QED BY <1>1, <1>2

\* Steps that leave the queue alone keep what is done with.
LEMMA DoneSame ==
  ASSUME Calm, EventsKept, NewestGrows, UNCHANGED <<delivered, status>>,
         \A i \in Ids : push'[i] # None => push[i] # None,
         \A i \in Ids : events'[i] # None => events[i] # None
  PROVE  DoneWith'
<1> SUFFICES ASSUME NEW i \in Ids, events'[i] # None
             PROVE  /\ delivered'[i] \subseteq Peers(events'[i].origin)
                    /\ status'[i] \notin {"pending", "failed", "dead_letter"} =>
                         \/ Needed = 0 \/ Enough(i)'
                         \/ newest'[events'[i].origin][Key(i)'] # None
                            /\ Less(Version(i)', newest'[events'[i].origin][Key(i)'])
  BY DEF DoneWith, Calm
<1> QED BY DoneKept

\* The worker settles an event only when it has enough peers or is superseded.
LEMMA DeliverDescribed ==
  ASSUME Calm, NEW i \in Ids,
         \/ DeliverStart(i) \/ (\E p \in Nodes : PushTo(i, p)) \/ DeliverEnd(i) \/ ReplayDeadLetter(i)
  PROVE  DescribedInv'
<1>0. TypeOK /\ EventsMade /\ Described /\ OwnChanges /\ Untouched
  BY CalmFacts DEF Calm
<1>1. UNCHANGED <<obj, ver, hold, newest, events, heal>>
  BY DEF DeliverStart, PushTo, DeliverEnd, ReplayDeadLetter
<1>2. NetQuiet
  <2>1. CASE DeliverStart(i) \/ DeliverEnd(i) \/ ReplayDeadLetter(i)
    <3>1. UNCHANGED net
      BY <2>1 DEF DeliverStart, DeliverEnd, ReplayDeadLetter
    <3> QED BY <1>1, <3>1 DEF NetQuiet
  <2>2. ASSUME NEW p \in Nodes, PushTo(i, p) PROVE NetQuiet
    <3>1. \/ UNCHANGED net
          \/ net' = net \cup {[id |-> i, to |-> p, stage |-> "sent", live |-> TRUE,
                               content |-> IF events[i].etag = None THEN None
                                           ELSE obj[events[i].origin][Key(i)]]}
      BY <2>2 DEF PushTo
    <3> QED BY <1>1, <3>1 DEF NetQuiet
  <2> QED BY <2>1, <2>2
<1>3. EventsKept /\ NewestGrows
  BY <1>0, <1>1, GrowsUnchanged DEF EventsKept
<1>4. DoneWith'
  <2> SUFFICES ASSUME NEW j \in Ids, events'[j] # None
               PROVE  /\ delivered'[j] \subseteq Peers(events'[j].origin)
                      /\ status'[j] \notin {"pending", "failed", "dead_letter"} =>
                           \/ Needed = 0 \/ Enough(j)'
                           \/ newest'[events'[j].origin][Key(j)'] # None
                              /\ Less(Version(j)', newest'[events'[j].origin][Key(j)'])
    <3>1. status \in [Ids -> Statuses \cup {None}] /\ push \in [Ids -> Pushes \cup {None}]
      BY <1>0 DEF TypeOK
    <3>2. \A j \in Ids : push'[j] # None => status'[j] = "pending"
      <4>1. \A j \in Ids : push[j] # None => status[j] = "pending"
        BY DEF Calm, DoneWith
      <4>2. CASE DeliverStart(i)
        BY <3>1, <4>1, <4>2 DEF DeliverStart, Due
      <4>3. ASSUME NEW p \in Nodes, PushTo(i, p) PROVE UNCHANGED status /\ \A j \in Ids : push'[j] # None => push[j] # None
        BY <3>1, <4>3 DEF PushTo, Delivering
      <4>4. CASE DeliverEnd(i)
        BY <3>1, <4>1, <4>4 DEF DeliverEnd, MarkFailed
      <4>5. CASE ReplayDeadLetter(i)
        BY <3>1, <4>1, <4>5 DEF ReplayDeadLetter
      <4> QED BY <4>1, <4>2, <4>3, <4>4, <4>5
    <3> QED BY <3>2 DEF DoneWith
  <2>0. UNCHANGED delivered /\ status \in [Ids -> Statuses \cup {None}]
    BY <1>0 DEF DeliverStart, PushTo, DeliverEnd, ReplayDeadLetter, TypeOK
  <2>1. \/ status'[j] \in {"pending", "failed", "dead_letter"} \/ status'[j] = status[j]
        \/ j = i /\ Enough(i) /\ DeliverEnd(i)
        \/ j = i /\ DeliverStart(i) /\ Unsent(i) # None
    BY <2>0 DEF DeliverStart, PushTo, DeliverEnd, ReplayDeadLetter, MarkFailed
  <2>2. CASE status'[j] \in {"pending", "failed", "dead_letter"} \/ status'[j] = status[j]
    BY <1>1, <1>3, <2>0, <2>2, DoneKept
  <2>3. CASE j = i /\ Enough(i)
    <3>1. Enough(j)' /\ delivered'[j] \subseteq Peers(events'[j].origin)
      BY <1>1, <2>0, <2>3 DEF Enough, Calm, DoneWith
    <3> QED BY <3>1
  <2>4. CASE j = i /\ Unsent(i) # None
    <3>1. Needed = 0 \/ Superseded(i)
      BY <2>4 DEF Unsent
    <3>2. delivered'[j] \subseteq Peers(events'[j].origin)
      BY <1>1, <2>0, <2>4 DEF Calm, DoneWith
    <3>3. CASE Needed = 0
      BY <3>2, <3>3
    <3>4. CASE Superseded(i)
      <4> DEFINE o == events[i].origin
                 k == Key(i)
      <4>1. o \in Nodes /\ k \in Keys /\ Version(i).at \in Nat /\ Version(i).origin \in Nat
        BY <1>0, <1>1, <2>4, EventTypes
      <4>2. ver[o][k] # None /\ Less(Version(i), ver[o][k])
        BY <3>4 DEF Superseded
      <4>3. newest[o][k] # None /\ ~ Less(newest[o][k], ver[o][k])
        BY <4>1, <4>2, CalmFacts DEF NewestKept, AtLeast
      <4>4. /\ ver[o][k].at \in Nat /\ ver[o][k].origin \in Nat
            /\ newest[o][k].at \in Nat /\ newest[o][k].origin \in Nat
        BY <1>0, <4>1, <4>2, <4>3, VersionTypes
      <4>5. Less(Version(i), newest[o][k])
        BY <4>1, <4>2, <4>3, <4>4, Order
      <4>6. Key(j)' = k /\ Version(j)' = Version(i) /\ events'[j].origin = o /\ UNCHANGED newest
        BY <1>1, <2>4 DEF Key, Version
      <4> QED BY <3>2, <4>3, <4>5, <4>6
    <3> QED BY <3>1, <3>3, <3>4
  <2> QED BY <2>1, <2>2, <2>3, <2>4
<1> QED BY <1>0, <1>1, <1>2, <1>4, QuietDescribed, QuietChanges DEF DescribedInv

\* An answer or a loss, and a handler's steps before it takes the lock.
LEMMA PushDescribed ==
  ASSUME Calm, NEW m \in net, PushOk(m) \/ PushErr(m) \/ PushLost(m) \/ Receive(m)
  PROVE  DescribedInv'
<1>0. /\ TypeOK /\ EventsMade /\ OneSender /\ Described /\ OwnChanges /\ Untouched
      /\ m \in Messages /\ m.id \in Ids /\ m.to \in Nodes /\ events[m.id] # None
      /\ m.to # events[m.id].origin /\ m.stage \in Stages
  BY CalmFacts, MessageTypes DEF Calm
<1>1. UNCHANGED <<obj, ver, hold, newest, events, heal, status>>
  BY DEF PushOk, PushErr, PushLost, Receive
<1>2. NetQuiet
  <2>1. CASE PushOk(m) \/ PushErr(m)
    <3>1. net' = net \ {m} /\ ~ Held(m)
      BY <2>1 DEF PushOk, PushErr, Held
    <3> QED BY <1>1, <3>1 DEF NetQuiet
  <2>2. CASE PushLost(m)
    <3>1. \/ net' = net \ {m} /\ ~ Held(m)
          \/ net' = (net \ {m}) \cup {[m EXCEPT !.live = FALSE]}
      BY <2>2 DEF PushLost, Held
    <3>2. [m EXCEPT !.live = FALSE].id = m.id /\ [m EXCEPT !.live = FALSE].to = m.to
          /\ [m EXCEPT !.live = FALSE].stage = m.stage /\ [m EXCEPT !.live = FALSE].content = m.content
      BY <1>0 DEF Messages
    <3> QED BY <1>1, <3>1, <3>2 DEF NetQuiet
  <2>3. CASE Receive(m)
    <3>1. PICK s \in {"ok", "err", "open"} :
              Reach(m, s) /\ (s = "open" => m.content = events[m.id].etag) /\ m.stage = "sent"
      <4>1. events[m.id].etag = None => m.content = None
        BY DEF Calm, Described, PushedContent
      <4> QED BY <2>3, <4>1 DEF Receive
    <3>2. \A x \in net' : x \in net \/ (x.id = m.id /\ x.to = m.to /\ x.content = m.content /\ x.stage = s)
      BY <1>0, <3>1, ReachNet
    <3>3. \A x \in net : x # m => x \in net'
      BY <3>1 DEF Reach
    <3>4. ~ Held(m)
      BY <3>1 DEF Held
    <3> QED BY <1>1, <3>1, <3>2, <3>3, <3>4 DEF NetQuiet
  <2> QED BY <2>1, <2>2, <2>3
<1>3. EventsKept /\ NewestGrows
  BY <1>0, <1>1, GrowsUnchanged DEF EventsKept
<1>4. DoneWith'
  <2>t. push \in [Ids -> Pushes \cup {None}] /\ delivered \in [Ids -> SUBSET Nodes]
    BY <1>0 DEF TypeOK
  <2>1. CASE Receive(m)
    <3>1. UNCHANGED <<push, delivered>>
      BY <2>1 DEF Receive
    <3> QED BY <1>1, <1>3, <3>1, DoneSame
  <2>2. CASE ~ Receive(m)
    <3>1. push[m.id] # None
      BY <1>0, <2>2 DEF PushOk, PushErr, PushLost, OneSender
    <3>2. \A j \in Ids : push'[j] # None => push[j] # None
      BY <2>t, <2>2, <3>1 DEF PushOk, PushErr, PushLost, Pushed
    <3>3. CASE UNCHANGED delivered
      BY <1>1, <1>3, <3>2, <3>3, DoneSame
    <3>4. CASE delivered' = [delivered EXCEPT ![m.id] = @ \cup {m.to}]
      <4> SUFFICES ASSUME NEW j \in Ids, events'[j] # None
                   PROVE  /\ delivered'[j] \subseteq Peers(events'[j].origin)
                          /\ status'[j] \notin {"pending", "failed", "dead_letter"} =>
                               \/ Needed = 0 \/ Enough(j)'
                               \/ newest'[events'[j].origin][Key(j)'] # None
                                  /\ Less(Version(j)', newest'[events'[j].origin][Key(j)'])
        BY <1>1, <3>2 DEF DoneWith, Calm
      <4>1. CASE j # m.id
        <5>1. delivered'[j] = delivered[j]
          BY <2>t, <3>4, <4>1
        <5> QED BY <1>1, <1>3, <5>1, DoneKept
      <4>2. CASE j = m.id
        <5>1. status'[j] = "pending"
          BY <1>1, <3>1, <4>2 DEF Calm, DoneWith
        <5>2. delivered'[j] = delivered[j] \cup {m.to} /\ delivered[j] \subseteq Peers(events[j].origin)
          BY <1>1, <2>t, <3>4, <4>2 DEF Calm, DoneWith
        <5>3. m.to \in Peers(events[j].origin)
          BY <1>0, <4>2 DEF Peers
        <5> QED BY <1>1, <5>1, <5>2, <5>3
      <4> QED BY <4>1, <4>2
    <3> QED BY <2>2, <3>3, <3>4 DEF PushOk, PushErr, PushLost
  <2> QED BY <2>1, <2>2
<1> QED BY <1>0, <1>1, <1>2, <1>4, QuietDescribed, QuietChanges DEF DescribedInv

\* History that goes leaves what it was about.
LEMMA PruneEventDescribed ==
  ASSUME Calm, NEW i \in Ids, PruneEvent(i)
  PROVE  DescribedInv'
<1>0. TypeOK /\ EventsMade /\ Described /\ OwnChanges /\ Untouched
  BY CalmFacts DEF Calm
<1>1. UNCHANGED <<obj, ver, hold, newest, events, heal, net, push, delivered>>
  BY DEF PruneEvent
<1>2. NetQuiet
  BY <1>1 DEF NetQuiet
<1>3. EventsKept /\ NewestGrows
  BY <1>0, <1>1, GrowsUnchanged DEF EventsKept
<1>4. \A j \in Ids : \/ status'[j] = status[j]
                     \/ j = i /\ status[i] \in {"sent", "superseded"} /\ push[i] = None
  <2>1. status \in [Ids -> Statuses \cup {None}]
    BY <1>0 DEF TypeOK
  <2> QED BY <2>1 DEF PruneEvent, InFlight
<1>5. \A j \in Ids : push'[j] # None => status'[j] = "pending"
  BY <1>1, <1>4 DEF Calm, DoneWith
<1>6. ASSUME NEW j \in Ids, events'[j] # None
      PROVE  /\ delivered'[j] \subseteq Peers(events'[j].origin)
             /\ status'[j] \notin {"pending", "failed", "dead_letter"} =>
                    \/ Needed = 0 \/ Enough(j)'
                    \/ newest'[events'[j].origin][Key(j)'] # None
                       /\ Less(Version(j)', newest'[events'[j].origin][Key(j)'])
  BY <1>1, <1>3, <1>4, <1>6, DoneKept
<1>7. DoneWith'
  BY <1>5, <1>6 DEF DoneWith
<1> QED BY <1>0, <1>1, <1>2, <1>7, QuietDescribed, QuietChanges DEF DescribedInv

-----------------------------------------------------------------------------
(* What changes objects, versions and locks.                                *)

\* An object changes only where no version is recorded or a newer one comes.
ObjectsMove ==
  \A p \in Nodes, k \in Keys :
      obj'[p][k] = obj[p][k] \/ newest[p][k] = None \/ NewerNext(k, newest[p][k])

\* A change newer than v is newer than what v is not older than.
LEMMA NewerThanOlder ==
  ASSUME TypeOK', NEW k \in Keys, NEW v, NEW w,
         v.at \in Nat, v.origin \in Nat, w.at \in Nat, w.origin \in Nat,
         AtLeast(v, w), NewerNext(k, v)
  PROVE  NewerNext(k, w)
<1>1. ASSUME NEW i \in Ids, events'[i] # None, events'[i].key = k, Less(v, EventVersion(events'[i]))
      PROVE  NewerNext(k, w)
  <2>3. EventVersion(events'[i]).at \in Nat /\ EventVersion(events'[i]).origin \in Nat
    BY <1>1, NextEventTypes
  <2>4. Less(w, EventVersion(events'[i]))
    BY <1>1, <2>3, Order DEF AtLeast
  <2> QED BY <1>1, <2>4 DEF NewerNext
<1>2. ASSUME NEW q \in Nodes, hold'[q][k] = "local", newest'[q][k] # None, AtLeast(newest'[q][k], v)
      PROVE  NewerNext(k, w)
  <2>1. newest'[q][k].at \in Nat /\ newest'[q][k].origin \in Nat
    BY <1>2, NewestTypes
  <2>2. ~ Less(newest'[q][k], w)
    BY <1>2, <2>1, Order DEF AtLeast
  <2> QED BY <1>2, <2>2 DEF NewerNext, AtLeast
<1> QED BY <1>1, <1>2 DEF NewerNext

\* Labels stay good when objects move only forward.
LEMMA LabelsForward ==
  ASSUME Calm, EventsKept, NewestGrows, LocalsKept, ObjectsMove,
         \A n \in Nodes, k \in Keys :
            \/ newest'[n][k] = newest[n][k]
            \/ MadeNext(k, newest'[n][k]) /\ LabelsNext(k, newest'[n][k], obj'[n][k]),
         \A n \in Nodes : heal'[n] = None \/ heal'[n] = heal[n] \/ CopyNext(n)
  PROVE  NewestLabels' /\ CopyLabels'
<1>0. TypeOK /\ TypeOK'
  BY CalmFacts
<1>e. \A i \in Ids : events[i] # None => events'[i] # None /\ events'[i].key = Key(i) /\ EventVersion(events'[i]) = Version(i)
  BY DEF EventsKept, Key, Version
<1>1. ASSUME NEW n \in Nodes, NEW k \in Keys, newest'[n][k] # None
      PROVE  MadeNext(k, newest'[n][k]) /\ LabelsNext(k, newest'[n][k], obj'[n][k])
  <2> SUFFICES ASSUME newest'[n][k] = newest[n][k]
               PROVE  MadeNext(k, newest[n][k]) /\ LabelsNext(k, newest[n][k], obj'[n][k])
    OBVIOUS
  <2>1. /\ \E i \in Ids : events[i] # None /\ Key(i) = k /\ Version(i) = newest[n][k]
        /\ Labels(k, newest[n][k], obj[n][k])
    BY <1>1 DEF Calm, Described, NewestLabels
  <2>2. MadeNext(k, newest[n][k])
    BY <1>e, <2>1 DEF MadeNext
  <2>3. newest[n][k].at \in Nat /\ newest[n][k].origin \in Nat
    BY <1>0, <1>1, VersionTypes
  <2>4. LabelsNext(k, newest[n][k], obj'[n][k])
    <3>1. CASE obj'[n][k] = obj[n][k]
      BY <1>0, <2>1, <2>3, <3>1, LabelsKept
    <3>2. CASE NewerNext(k, newest[n][k])
      BY <3>2 DEF LabelsNext
    <3> QED BY <1>1, <3>1, <3>2 DEF ObjectsMove
  <2> QED BY <2>2, <2>4
<1>2. ASSUME NEW n \in Nodes, heal'[n] # None PROVE CopyNext(n)
  <2> DEFINE h == heal[n]
             w == newest[h.from][h.key]
  <2> SUFFICES ASSUME heal'[n] = h PROVE CopyNext(n)
    BY <1>2
  <2>0. h \in Heals /\ h.key \in Keys /\ h.from \in Nodes /\ h.version \in Versions \cup {None}
    BY <1>0, <1>2, HealTypes
  <2>1. h.stage = "opened" => h.version = None
    BY <1>2 DEF Calm, Described, CopyLabels, CopyAt
  <2>2. ASSUME h.version # None
        PROVE  /\ MadeNext(h.key, h.version)
               /\ newest'[h.from][h.key] # None /\ AtLeast(newest'[h.from][h.key], h.version)
               /\ h.stage # "versioned" \/ obj'[h.from][h.key] = h.content =>
                       LabelsNext(h.key, h.version, h.content)
    <3>1. /\ \E i \in Ids : events[i] # None /\ Key(i) = h.key /\ Version(i) = h.version
          /\ w # None /\ ~ Less(w, h.version)
          /\ h.stage # "versioned" \/ obj[h.from][h.key] = h.content =>
                 Labels(h.key, h.version, h.content)
      BY <1>2, <2>2 DEF Calm, Described, CopyLabels, CopyAt, AtLeast
    <3>2. MadeNext(h.key, h.version)
      BY <1>e, <3>1 DEF MadeNext
    <3>3. h.version.at \in Nat /\ h.version.origin \in Nat
      BY <2>0, <2>2, InVersions
    <3>4. w.at \in Nat /\ w.origin \in Nat
      BY <1>0, <2>0, <3>1, VersionTypes
    <3>5. newest'[h.from][h.key] # None /\ ~ Less(newest'[h.from][h.key], w)
      BY <2>0, <3>1 DEF NewestGrows, AtLeast
    <3>6. newest'[h.from][h.key].at \in Nat /\ newest'[h.from][h.key].origin \in Nat
      BY <1>0, <2>0, <3>5, NewestTypes
    <3>7. ~ Less(newest'[h.from][h.key], h.version)
      BY <3>1, <3>3, <3>4, <3>5, <3>6, Order
    <3>8. CASE h.stage # "versioned" \/ obj[h.from][h.key] = h.content
      <4>1. LabelsNext(h.key, h.version, h.content)
        BY <1>0, <2>0, <3>1, <3>3, <3>8, LabelsKept
      <4> QED BY <3>2, <3>5, <3>7, <4>1 DEF AtLeast
    <3>9. CASE NewerNext(h.key, w)
      <4>1. NewerNext(h.key, h.version)
        BY <1>0, <2>0, <3>1, <3>3, <3>4, <3>9, NewerThanOlder DEF AtLeast
      <4> QED BY <3>2, <3>5, <3>7, <4>1 DEF AtLeast, LabelsNext
    <3>10. CASE h.stage = "versioned" /\ obj'[h.from][h.key] # h.content
      BY <3>2, <3>5, <3>7, <3>10 DEF AtLeast
    <3> QED BY <2>0, <3>1, <3>8, <3>9, <3>10 DEF ObjectsMove
  <2> QED BY <2>1, <2>2 DEF CopyNext
<1> QED BY <1>1, <1>2, NextLabels

\* A step that makes no event keeps what is known of the changes made, and of the
\* keys without one if it leaves those alone.
LEMMA ChangesKept ==
  ASSUME Calm, UNCHANGED events, NewestGrows,
         \A n \in Nodes, k \in Keys : NoChange(k) =>
             \/ hold'[n][k] = "local"
             \/ obj'[n][k] = Stored
             \/ hold[n][k] # "local" /\ obj'[n][k] = obj[n][k],
         \A n \in Nodes : heal'[n] # None /\ NoChange(heal'[n].key) =>
             \/ heal'[n].content = Stored
             \/ heal[n] # None /\ heal'[n].key = heal[n].key /\ heal'[n].content = heal[n].content
  PROVE  OwnChanges' /\ Untouched'
<1>0. TypeOK /\ TypeOK' /\ EventsKept
  BY CalmFacts DEF EventsKept
<1>k. \A i : Key(i)' = Key(i) /\ Version(i)' = Version(i)
  BY DEF Key, Version
<1>1. ASSUME NEW i \in Ids, events[i] # None
      PROVE  newest'[events[i].origin][Key(i)] # None /\ AtLeast(newest'[events[i].origin][Key(i)], Version(i))
  <2>1. events[i].origin \in Nodes /\ Recorded(events[i].origin, i)
    BY <1>0, <1>1, EventTypes DEF Calm, OwnChanges
  <2>2. newest' \in [Nodes -> [Keys -> Versions \cup {None}]]
    BY <1>0 DEF TypeOK
  <2>3. PICK x \in Nodes : x = events[i].origin
    BY <2>1
  <2>4. Recorded(x, i)'
    BY <1>0, <1>1, <2>1, <2>2, <2>3, RecordedKept
  <2>5. newest'[x][Key(i)'] # None /\ AtLeast(newest'[x][Key(i)'], Version(i)')
    BY <2>4 DEF Recorded
  <2> QED BY <1>k, <2>3, <2>5
<1>2. OwnChanges'
  <2>1. \A i, j \in Ids : events'[i] # None /\ events'[j] # None /\ Key(i)' = Key(j)'
                          /\ Version(i)' = Version(j)' => i = j
    BY <1>k DEF OwnChanges, Calm
  <2> QED BY <1>k, <1>1, <2>1 DEF OwnChanges, Recorded
<1>3. \A k : NoChange(k)' <=> NoChange(k)
  BY <1>k DEF NoChange
<1>4. Untouched'
  <2>1. ASSUME NEW k \in Keys, NoChange(k), NEW n \in Nodes, hold'[n][k] # "local" PROVE obj'[n][k] = Stored
    BY <2>1 DEF Calm, Untouched
  <2>2. ASSUME NEW k \in Keys, NoChange(k), NEW n \in Nodes, heal'[n] # None, heal'[n].key = k
        PROVE  heal'[n].content = Stored
    BY <2>2 DEF Calm, Untouched
  <2> QED BY <1>3, <2>1, <2>2 DEF Untouched
<1> QED BY <1>2, <1>4

\* A handler's step on a key leaves keys without a change alone.
LEMMA HandlerChanges ==
  ASSUME Calm, NEW m \in net, UNCHANGED <<events, heal>>, NewestGrows,
         \A n \in Nodes, k \in Keys : ~ (n = m.to /\ k = Key(m.id)) =>
             obj'[n][k] = obj[n][k] /\ hold'[n][k] = hold[n][k]
  PROVE  OwnChanges' /\ Untouched'
<1>1. ~ NoChange(Key(m.id))
  BY CalmFacts, MessageTypes DEF NoChange
<1>2. ASSUME NEW n \in Nodes, NEW k \in Keys, NoChange(k)
      PROVE  \/ hold'[n][k] = "local" \/ obj'[n][k] = Stored
             \/ hold[n][k] # "local" /\ obj'[n][k] = obj[n][k]
  BY <1>1, <1>2
<1> QED BY <1>2, ChangesKept

\* What a message that becomes another one leaves of the others.
LEMMA ReachOthers ==
  ASSUME Calm, NEW m \in net, NEW s \in Stages, Reach(m, s)
  PROVE  /\ m \in Messages /\ m.id \in Ids /\ m.to \in Nodes /\ Key(m.id) \in Keys
         /\ events[m.id] # None /\ m.stage \in Stages
         /\ \A x \in net' : \/ x \in net /\ x # m
                            \/ x.id = m.id /\ x.to = m.to /\ x.content = m.content /\ x.stage = s
         /\ \A x \in net : x # m => x \in net'
         /\ s \notin {"ok", "err"} =>
                \E x \in net' : x.id = m.id /\ x.to = m.to /\ x.content = m.content /\ x.stage = s
<1>1. /\ m \in Messages /\ m.id \in Ids /\ m.to \in Nodes /\ Key(m.id) \in Keys
      /\ events[m.id] # None /\ m.stage \in Stages
  BY CalmFacts, MessageTypes
<1>2. \A x \in net' : \/ x \in net /\ x # m
                      \/ x.id = m.id /\ x.to = m.to /\ x.content = m.content /\ x.stage = s
  BY <1>1, ReachNet
<1>3. \A x \in net : x # m => x \in net'
  BY DEF Reach
<1>4. ASSUME s \notin {"ok", "err"}
      PROVE  \E x \in net' : x.id = m.id /\ x.to = m.to /\ x.content = m.content /\ x.stage = s
  <2>1. [m EXCEPT !.stage = s] \in net'
    BY <1>4 DEF Reach
  <2>2. /\ [m EXCEPT !.stage = s].id = m.id /\ [m EXCEPT !.stage = s].to = m.to
        /\ [m EXCEPT !.stage = s].content = m.content /\ [m EXCEPT !.stage = s].stage = s
    BY <1>1 DEF Messages
  <2> QED BY <2>1, <2>2
<1> QED BY <1>1, <1>2, <1>3, <1>4

\* What a handler's step keeps, as far as it leaves its key as it should be.
LEMMA HandlerOthers ==
  ASSUME Calm, NEW m \in net, NEW s \in Stages, Reach(m, s), UNCHANGED <<events, heal>>,
         NEW n \in Nodes, NEW k \in Keys, n = m.to, k = Key(m.id),
         \A p \in Nodes, q \in Keys : ~ (p = n /\ q = k) =>
             /\ obj'[p][q] = obj[p][q] /\ ver'[p][q] = ver[p][q]
             /\ hold'[p][q] = hold[p][q] /\ newest'[p][q] = newest[p][q],
         hold'[n][k] = "remote" => s \in {"checked", "committed"},
         hold'[n][k] # "restore",
         \A x \in net : x # m /\ x.to = n /\ Key(x.id) = k => ~ Held(x),
         hold'[n][k] = "free" \/ s = "checked" =>
             ver'[n][k] = None \/ (ver'[n][k].deleted <=> obj'[n][k] = None),
         s \in {"open", "checked", "committed"} => m.content = events[m.id].etag,
         s = "committed" => obj'[n][k] = m.content
  PROVE  PushedContent' /\ HeldBySomeone' /\ Tombstones'
<1>k. \A i : Key(i)' = Key(i) /\ Version(i)' = Version(i)
  BY DEF Key, Version
<1>2. /\ \A x \in net' : \/ x \in net /\ x # m
                         \/ x.id = m.id /\ x.to = m.to /\ x.content = m.content /\ x.stage = s
      /\ \A x \in net : x # m => x \in net'
      /\ s \notin {"ok", "err"} =>
             \E x \in net' : x.id = m.id /\ x.to = m.to /\ x.content = m.content /\ x.stage = s
  BY ReachOthers
<1>t. \A x \in net : x.to \in Nodes /\ Key(x.id) \in Keys
  BY CalmFacts, MessageTypes
<1>5. PushedContent'
  <2>1. ASSUME NEW x \in net'
        PROVE  /\ events[x.id].etag = None => x.content = None
               /\ x.stage \in {"open", "checked", "committed"} => x.content = events[x.id].etag
               /\ x.stage = "committed" => obj'[x.to][Key(x.id)] = x.content
    <3>1. CASE x \in net /\ x # m
      <4>1. /\ events[x.id].etag = None => x.content = None
            /\ x.stage \in {"open", "checked", "committed"} => x.content = events[x.id].etag
            /\ x.stage = "committed" => obj[x.to][Key(x.id)] = x.content
        BY <3>1 DEF Calm, Described, PushedContent
      <4>2. x.stage = "committed" => ~ (x.to = n /\ Key(x.id) = k)
        BY <3>1 DEF Held
      <4>3. x.to \in Nodes /\ Key(x.id) \in Keys
        BY <1>t, <3>1
      <4>4. x.stage = "committed" => obj'[x.to][Key(x.id)] = obj[x.to][Key(x.id)]
        BY <4>2, <4>3, ZenonT(30)
      <4> QED BY <4>1, <4>4
    <3>2. CASE x.id = m.id /\ x.to = m.to /\ x.content = m.content /\ x.stage = s
      BY <3>2 DEF Calm, Described, PushedContent
    <3> QED BY <1>2, <3>1, <3>2
  <2> QED BY <1>k, <2>1 DEF PushedContent
<1>6. HeldBySomeone'
  <2>1. ASSUME NEW p \in Nodes, NEW q \in Keys, hold'[p][q] = "remote"
        PROVE  \E x \in net' : Held(x) /\ x.to = p /\ Key(x.id) = q
    <3>1. CASE p = n /\ q = k
      BY <1>2, <2>1, <3>1 DEF Held
    <3>2. CASE ~ (p = n /\ q = k)
      <4>1. \E x \in net : Held(x) /\ x.to = p /\ Key(x.id) = q
        BY <2>1, <3>2, HoldersThere DEF Calm
      <4> QED BY <1>2, <3>2, <4>1
    <3> QED BY <3>1, <3>2
  <2>2. ASSUME NEW p \in Nodes, NEW q \in Keys, hold'[p][q] = "restore"
        PROVE  /\ heal'[p] # None /\ heal'[p].stage = "committed" /\ heal'[p].key = q
               /\ obj'[p][q] = heal'[p].content /\ newest'[p][q] = None
    BY <2>2, HoldersThere DEF Calm
  <2>3. ASSUME NEW p \in Nodes, NEW q \in Keys, hold'[p][q] = "remote"
        PROVE  \E x \in net' : Held(x) /\ x.to = p /\ events'[x.id].key = q
    <3>1. PICK x \in net' : Held(x) /\ x.to = p /\ Key(x.id) = q
      BY <2>1, <2>3
    <3>2. events'[x.id].key = q
      BY <3>1 DEF Key
    <3> QED BY <3>1, <3>2
  <2> QED BY <2>2, <2>3, HeldNext
<1>7. Tombstones'
  <2> SUFFICES ASSUME NEW p \in Nodes, NEW q \in Keys, ver'[p][q] # None,
                      hold'[p][q] = "free" \/ \E x \in net' : x.stage = "checked" /\ x.to = p /\ Key(x.id) = q
               PROVE  ver'[p][q].deleted <=> obj'[p][q] = None
    BY <1>k DEF Tombstones
  <2>1. CASE p = n /\ q = k
    <3>1. ASSUME NEW x \in net', x.stage = "checked", x.to = p, Key(x.id) = q PROVE s = "checked"
      BY <1>2, <2>1, <3>1 DEF Held
    <3> QED BY <2>1, <3>1
  <2>2. CASE ~ (p = n /\ q = k)
    BY <1>2, <2>2 DEF Calm, Described, Tombstones
  <2> QED BY <2>1, <2>2
<1> QED BY <1>5, <1>6, <1>7

\* hook.before: an outdated event is acknowledged, for a newer one the lock is taken.
LEMMA ApplyCheckDescribed ==
  ASSUME Calm, NEW m \in net, ApplyCheck(m)
  PROVE  DescribedInv'
<1>0. TypeOK /\ TypeOK' /\ EventsMade /\ OneHolder /\ Described /\ OwnChanges /\ Untouched
  BY CalmFacts DEF Calm
<1>1. /\ UNCHANGED <<obj, ver, newest, events, heal, status, delivered, push>>
      /\ m.stage = "open" /\ hold[m.to][Key(m.id)] = "free" /\ ~ Held(m)
  BY DEF ApplyCheck, Free, Held
<1>2. EventsKept /\ NewestGrows
  BY <1>0, <1>1, GrowsUnchanged DEF EventsKept
<1>3. DoneWith'
  BY <1>1, <1>2, DoneSame
<1>4. CASE Reach(m, "ok") /\ UNCHANGED hold
  <2>1. "ok" \in Stages
    BY DEF Stages
  <2>2. NetQuiet
    BY <1>1, <1>4, <2>1, ReachOthers DEF NetQuiet
  <2> QED BY <1>0, <1>1, <1>3, <1>4, <2>2, QuietDescribed, QuietChanges DEF DescribedInv
<1>5. CASE Reach(m, "checked") /\ hold' = [hold EXCEPT ![m.to][Key(m.id)] = "remote"]
  <2> DEFINE n == m.to
             k == Key(m.id)
  <2>1. "checked" \in Stages
    BY DEF Stages
  <2>2. n \in Nodes /\ k \in Keys
    BY <1>0, MessageTypes
  <2>3. hold \in [Nodes -> [Keys -> {"free", "local", "remote", "restore"}]]
    BY <1>0 DEF TypeOK
  <2>4. /\ hold'[n][k] = "remote"
        /\ \A p \in Nodes, q \in Keys : ~ (p = n /\ q = k) => hold'[p][q] = hold[p][q]
    BY <1>5, <2>2, <2>3
  <2>5. \A x \in net : x # m /\ x.to = n /\ Key(x.id) = k => ~ Held(x)
    BY <1>0, <1>1 DEF OneHolder
  <2>6. ver[n][k] = None \/ (ver[n][k].deleted <=> obj[n][k] = None)
    BY <1>1, <2>2 DEF Calm, Described, Tombstones
  <2>7. m.content = events[m.id].etag
    BY <1>1 DEF Calm, Described, PushedContent
  <2>8. PushedContent' /\ HeldBySomeone' /\ Tombstones'
    BY <1>1, <1>5, <2>1, <2>2, <2>4, <2>5, <2>6, <2>7, HandlerOthers
  <2>9. LocalsKept
    BY <1>1, <2>4 DEF LocalsKept
  <2>10. NewestLabels' /\ CopyLabels'
    BY <1>1, <1>2, <2>9, LabelsForward DEF ObjectsMove
  <2>11. OwnChanges' /\ Untouched'
    BY <1>1, <1>2, <2>4, HandlerChanges
  <2> QED BY <1>3, <2>8, <2>10, <2>11 DEF DescribedInv, Described
<1> QED BY <1>4, <1>5 DEF ApplyCheck

\* The event's object takes the place of an older one.
LEMMA ApplyCommitDescribed ==
  ASSUME Calm, NEW m \in net, ApplyCommit(m)
  PROVE  DescribedInv'
<1>0. /\ TypeOK /\ TypeOK' /\ EventsMade /\ OneHolder /\ Forward
      /\ m.to \in Nodes /\ Key(m.id) \in Keys /\ m.id \in Ids /\ events[m.id] # None
  BY CalmFacts, MessageTypes
<1> DEFINE n == m.to
           k == Key(m.id)
<1>1. /\ UNCHANGED <<hold, ver, newest, events, heal, status, delivered, push>>
      /\ m.stage = "checked" /\ Held(m) /\ Reach(m, "committed") /\ "committed" \in Stages
      /\ obj' = [obj EXCEPT ![n][k] = m.content]
  BY DEF ApplyCommit, Held, Stages
<1>2. EventsKept /\ NewestGrows
  BY <1>0, <1>1, GrowsUnchanged DEF EventsKept
<1>3. DoneWith'
  BY <1>1, <1>2, DoneSame
<1>4. obj'[n][k] = m.content /\ \A p \in Nodes, q \in Keys : ~ (p = n /\ q = k) => obj'[p][q] = obj[p][q]
  <2>1. obj \in [Nodes -> [Keys -> ContentOrNone]]
    BY <1>0 DEF TypeOK
  <2> QED BY <1>0, <1>1, <2>1
<1>5. hold[n][k] = "remote" /\ \A x \in net : x # m /\ x.to = n /\ Key(x.id) = k => ~ Held(x)
  BY <1>0, <1>1 DEF OneHolder
<1>6. m.content = events[m.id].etag
  BY <1>1 DEF Calm, Described, PushedContent
<1>7. PushedContent' /\ HeldBySomeone' /\ Tombstones'
  BY <1>0, <1>1, <1>4, <1>5, <1>6, HandlerOthers
<1>8. LocalsKept
  BY <1>1 DEF LocalsKept
<1>9. ObjectsMove
  <2>1. newest[n][k] = None \/ Less(newest[n][k], Version(m.id))
    BY <1>0, <1>1 DEF Forward, HeldIsNewer, Newer
  <2>2. newest[n][k] = None \/ NewerNext(k, newest[n][k])
    BY <1>0, <1>1, <2>1 DEF NewerNext, Key, Version
  <2> QED BY <1>4, <2>2 DEF ObjectsMove
<1>10. NewestLabels' /\ CopyLabels'
  BY <1>1, <1>2, <1>8, <1>9, LabelsForward
<1>11. OwnChanges' /\ Untouched'
  BY <1>1, <1>2, <1>4, HandlerChanges
<1> QED BY <1>3, <1>7, <1>10, <1>11 DEF DescribedInv, Described

\* A version newer than all before is recorded on one node for one key.
StoredAt(n, k, v, d) ==
  /\ newest'[n][k] = v /\ ver'[n][k].deleted = d /\ NewestGrows
  /\ \A x \in Nodes, y \in Keys : ~ (x = n /\ y = k) =>
         ver'[x][y] = ver[x][y] /\ newest'[x][y] = newest[x][y]

\* That is what Store does with such a version.
LEMMA StoreNewer ==
  ASSUME TypeOK, NewestKept, NEW n \in Nodes, NEW k \in Keys, NEW v \in Versions, NEW d \in BOOLEAN,
         Store(n, k, v, d), Newer(n, k, v)
  PROVE  StoredAt(n, k, v, d)
<1>1. NewestGrows
  BY StoreStep
<1>2. /\ ver \in [Nodes -> [Keys -> KeyVersions \cup {None}]]
      /\ newest \in [Nodes -> [Keys -> Versions \cup {None}]]
  BY DEF TypeOK
<1> DEFINE r == [at |-> v.at, origin |-> v.origin, deleted |-> d]
<1>3. ver' = [ver EXCEPT ![n][k] = r] /\ newest' = [newest EXCEPT ![n][k] = v]
  <2>1. newest' = [newest EXCEPT ![n][k] = IF newest[n][k] = None \/ Less(newest[n][k], v) THEN v
                                           ELSE newest[n][k]]
    BY <1>2 DEF Store, NoteNewest
  <2> QED BY <2>1 DEF Store, Newer
<1>4. r.deleted = d
  OBVIOUS
<1> HIDE DEF r
<1>5. ver'[n][k] = r /\ newest'[n][k] = v
  BY <1>2, <1>3
<1>6. \A x \in Nodes, y \in Keys : ~ (x = n /\ y = k) =>
          ver'[x][y] = ver[x][y] /\ newest'[x][y] = newest[x][y]
  BY <1>2, <1>3
<1> QED BY <1>1, <1>4, <1>5, <1>6 DEF StoredAt

\* hook.after: the event's version is recorded with its object.
LEMMA ApplyRecordDescribed ==
  ASSUME Calm, NEW m \in net, ApplyRecord(m)
  PROVE  DescribedInv'
<1>0. /\ TypeOK /\ TypeOK' /\ EventsMade /\ OneHolder /\ Forward /\ NewestKept
      /\ m.to \in Nodes /\ Key(m.id) \in Keys /\ m.id \in Ids /\ events[m.id] # None
      /\ Version(m.id) \in Versions
  BY CalmFacts, MessageTypes
<1> DEFINE n == m.to
           k == Key(m.id)
           v == Version(m.id)
<1>1. /\ UNCHANGED <<obj, events, heal, status, delivered, push>>
      /\ m.stage = "committed" /\ Held(m) /\ Reach(m, "ok") /\ "ok" \in Stages
      /\ hold' = [hold EXCEPT ![n][k] = "free"]
      /\ Store(n, k, v, events[m.id].etag = None)
  BY DEF ApplyRecord, Held, Stages
<1>2. PICK d \in BOOLEAN : d = (events[m.id].etag = None)
  OBVIOUS
<1>3. Newer(n, k, v)
  BY <1>0, <1>1 DEF Forward, HeldIsNewer
<1>s. StoredAt(n, k, v, d)
  <2>1. Store(n, k, v, d)
    BY <1>1, <1>2
  <2> HIDE DEF n, k, v
  <2>2. n \in Nodes /\ k \in Keys /\ v \in Versions
    BY <1>0 DEF n, k, v
  <2> QED BY <1>0, <1>3, <2>1, <2>2, StoreNewer
<1>4. /\ \A x \in Nodes, y \in Keys : ~ (x = n /\ y = k) =>
                ver'[x][y] = ver[x][y] /\ newest'[x][y] = newest[x][y]
      /\ newest'[n][k] = v /\ NewestGrows
  BY <1>s DEF StoredAt
<1>5. ver'[n][k].deleted = d
  BY <1>s DEF StoredAt
<1>6. EventsKept
  BY <1>1 DEF EventsKept
<1>7. DoneWith'
  BY <1>1, <1>4, <1>6, DoneSame
<1>8. hold'[n][k] = "free" /\ \A p \in Nodes, q \in Keys : ~ (p = n /\ q = k) => hold'[p][q] = hold[p][q]
  <2>1. hold \in [Nodes -> [Keys -> {"free", "local", "remote", "restore"}]]
    BY <1>0 DEF TypeOK
  <2> QED BY <1>0, <1>1, <2>1
<1>9. hold[n][k] = "remote" /\ \A x \in net : x # m /\ x.to = n /\ Key(x.id) = k => ~ Held(x)
  BY <1>0, <1>1 DEF OneHolder
<1>10. m.content = events[m.id].etag /\ obj[n][k] = m.content
  BY <1>1 DEF Calm, Described, PushedContent
<1>11. PushedContent' /\ HeldBySomeone' /\ Tombstones'
  <2>1. ver'[n][k].deleted <=> obj'[n][k] = None
    BY <1>1, <1>2, <1>5, <1>10
  <2> QED BY <1>0, <1>1, <1>4, <1>8, <1>9, <2>1, HandlerOthers
<1>12. LocalsKept
  BY <1>8, <1>9 DEF LocalsKept
<1>13. ObjectsMove
  BY <1>1 DEF ObjectsMove
<1>14. NewestLabels' /\ CopyLabels'
  <2>1. MadeNext(k, newest'[n][k]) /\ LabelsNext(k, newest'[n][k], obj'[n][k])
    BY <1>0, <1>1, <1>4, <1>10 DEF MadeNext, LabelsNext, Key, Version
  <2> QED BY <1>1, <1>4, <1>6, <1>12, <1>13, <2>1, LabelsForward
<1>15. OwnChanges' /\ Untouched'
  BY <1>1, <1>4, <1>8, HandlerChanges
<1> QED BY <1>7, <1>11, <1>14, <1>15 DEF DescribedInv, Described

\* A write that fails before its commit leaves the object its version describes.
LEMMA ApplyFailDescribed ==
  ASSUME Calm, NEW m \in net, ApplyFail(m)
  PROVE  DescribedInv'
<1>0. /\ TypeOK /\ TypeOK' /\ EventsMade /\ OneHolder /\ "record" \notin Faults
      /\ m.to \in Nodes /\ Key(m.id) \in Keys /\ m.id \in Ids /\ events[m.id] # None
  BY CalmFacts, MessageTypes
<1> DEFINE n == m.to
           k == Key(m.id)
<1>1. /\ UNCHANGED <<obj, ver, newest, events, heal, status, delivered, push>>
      /\ m.stage = "checked" /\ Held(m) /\ Reach(m, "err") /\ "err" \in Stages
      /\ hold' = [hold EXCEPT ![n][k] = "free"]
  BY <1>0 DEF ApplyFail, Held, Stages
<1>2. EventsKept /\ NewestGrows
  BY <1>0, <1>1, GrowsUnchanged DEF EventsKept
<1>3. DoneWith'
  BY <1>1, <1>2, DoneSame
<1>4. hold'[n][k] = "free" /\ \A p \in Nodes, q \in Keys : ~ (p = n /\ q = k) => hold'[p][q] = hold[p][q]
  <2>1. hold \in [Nodes -> [Keys -> {"free", "local", "remote", "restore"}]]
    BY <1>0 DEF TypeOK
  <2> QED BY <1>0, <1>1, <2>1
<1>5. hold[n][k] = "remote" /\ \A x \in net : x # m /\ x.to = n /\ Key(x.id) = k => ~ Held(x)
  BY <1>0, <1>1 DEF OneHolder
<1>6. ver[n][k] = None \/ (ver[n][k].deleted <=> obj[n][k] = None)
  BY <1>0, <1>1 DEF Calm, Described, Tombstones
<1>7. PushedContent' /\ HeldBySomeone' /\ Tombstones'
  BY <1>0, <1>1, <1>4, <1>5, <1>6, HandlerOthers
<1>8. LocalsKept
  BY <1>4, <1>5 DEF LocalsKept
<1>9. NewestLabels' /\ CopyLabels'
  BY <1>1, <1>2, <1>8, LabelsForward DEF ObjectsMove
<1>10. OwnChanges' /\ Untouched'
  BY <1>1, <1>2, <1>4, HandlerChanges
<1> QED BY <1>3, <1>7, <1>9, <1>10 DEF DescribedInv, Described

\* A client change is committed and not yet numbered: it will be newer than all
\* its node has recorded.
LEMMA LocalCommitDescribed ==
  ASSUME Calm, NEW n \in Nodes, NEW k \in Keys, NEW c \in ContentOrNone, LocalCommit(n, k, c)
  PROVE  DescribedInv'
<1>0. TypeOK /\ TypeOK' /\ EventsMade /\ OneHolder
  BY CalmFacts
<1>1. /\ UNCHANGED <<ver, newest, events, heal, status, delivered, push, net>>
      /\ hold[n][k] = "free" /\ obj' = [obj EXCEPT ![n][k] = c] /\ hold' = [hold EXCEPT ![n][k] = "local"]
  BY DEF LocalCommit, Free
<1>2. EventsKept /\ NewestGrows
  BY <1>0, <1>1, GrowsUnchanged DEF EventsKept
<1>3. DoneWith'
  BY <1>1, <1>2, DoneSame
<1>4. /\ hold'[n][k] = "local"
      /\ \A p \in Nodes, q \in Keys : ~ (p = n /\ q = k) => obj'[p][q] = obj[p][q] /\ hold'[p][q] = hold[p][q]
  <2>1. /\ obj \in [Nodes -> [Keys -> ContentOrNone]]
        /\ hold \in [Nodes -> [Keys -> {"free", "local", "remote", "restore"}]]
    BY <1>0 DEF TypeOK
  <2> QED BY <1>1, <2>1
<1>5. \A x \in net : Held(x) => ~ (x.to = n /\ Key(x.id) = k)
  BY <1>0, <1>1 DEF OneHolder
<1>k. \A i : Key(i)' = Key(i) /\ Version(i)' = Version(i)
  BY <1>1 DEF Key, Version
<1>t. \A x \in net : x.to \in Nodes /\ Key(x.id) \in Keys
  BY <1>0, MessageTypes
<1>6. PushedContent'
  <2>1. ASSUME NEW x \in net, x.stage = "committed" PROVE obj'[x.to][Key(x.id)] = obj[x.to][Key(x.id)]
    <3>1. x.to \in Nodes /\ Key(x.id) \in Keys /\ ~ (x.to = n /\ Key(x.id) = k)
      BY <1>5, <1>t, <2>1 DEF Held
    <3> QED BY <1>4, <3>1
  <2> QED BY <1>1, <1>k, <2>1 DEF Calm, Described, PushedContent
<1>7. HeldBySomeone'
  <2>2. ASSUME NEW p \in Nodes, NEW q \in Keys, hold'[p][q] = "remote"
        PROVE  \E x \in net : Held(x) /\ x.to = p /\ events[x.id].key = q
    <3>1. hold[p][q] = "remote"
      BY <1>4, <2>2
    <3>2. Described
      BY DEF Calm
    <3> QED BY <3>1, <3>2, HoldersThere DEF Key
  <2>3. ASSUME NEW p \in Nodes, NEW q \in Keys, hold'[p][q] = "restore"
        PROVE  /\ heal[p] # None /\ heal[p].stage = "committed" /\ heal[p].key = q
               /\ obj'[p][q] = heal[p].content /\ newest[p][q] = None
    <3>1. hold[p][q] = "restore" /\ obj'[p][q] = obj[p][q]
      BY <1>4, <2>3
    <3>2. Described
      BY DEF Calm
    <3>3. /\ heal[p] # None /\ heal[p].stage = "committed" /\ heal[p].key = q
          /\ obj[p][q] = heal[p].content /\ newest[p][q] = None
      BY <3>1, <3>2, HoldersThere
    <3> QED BY <3>1, <3>3
  <2> QED BY <1>1, <2>2, <2>3, HeldNext
<1>8. Tombstones'
  <2> SUFFICES ASSUME NEW p \in Nodes, NEW q \in Keys, ver[p][q] # None,
                      hold'[p][q] = "free" \/ \E x \in net : x.stage = "checked" /\ x.to = p /\ Key(x.id) = q
               PROVE  ver[p][q].deleted <=> obj'[p][q] = None
    BY <1>1, <1>k DEF Tombstones
  <2>1. ~ (p = n /\ q = k)
    BY <1>4, <1>5 DEF Held
  <2>2. obj'[p][q] = obj[p][q] /\ hold'[p][q] = hold[p][q]
    BY <1>4, <2>1
  <2> QED BY <2>2 DEF Calm, Described, Tombstones
<1>9. LocalsKept
  BY <1>4 DEF LocalsKept
<1>10. ObjectsMove
  <2>1. newest[n][k] # None => NewerNext(k, newest[n][k])
    <3>1. ASSUME newest[n][k] # None PROVE AtLeast(newest[n][k], newest[n][k])
      BY <1>0, <3>1, VersionTypes, Order DEF AtLeast
    <3> QED BY <1>1, <1>4, <3>1 DEF NewerNext
  <2> QED BY <1>4, <2>1 DEF ObjectsMove
<1>11. NewestLabels' /\ CopyLabels'
  BY <1>1, <1>2, <1>9, <1>10, LabelsForward
<1>12. OwnChanges' /\ Untouched'
  <2>1. ASSUME NEW p \in Nodes, NEW q \in Keys, NoChange(q)
        PROVE  \/ hold'[p][q] = "local" \/ obj'[p][q] = Stored
               \/ hold[p][q] # "local" /\ obj'[p][q] = obj[p][q]
    BY <1>4
  <2> QED BY <1>1, <1>2, <2>1, ChangesKept
<1> QED BY <1>3, <1>6, <1>7, <1>8, <1>11, <1>12 DEF DescribedInv, Described

\* A pruned tombstone takes no object with it.
LEMMA PruneTombstoneDescribed ==
  ASSUME Calm, NEW n \in Nodes, NEW k \in Keys, PruneTombstone(n, k)
  PROVE  DescribedInv'
<1>0. TypeOK /\ TypeOK' /\ Described /\ OwnChanges /\ Untouched
  BY CalmFacts DEF Calm
<1>1. /\ UNCHANGED <<obj, newest, events, heal, status, delivered, push, net, hold>>
      /\ ver' = [ver EXCEPT ![n][k] = None]
  BY DEF PruneTombstone
<1>2. EventsKept /\ NewestGrows
  BY <1>0, <1>1, GrowsUnchanged DEF EventsKept
<1>3. DoneWith'
  BY <1>1, <1>2, DoneSame
<1>k. \A i : Key(i)' = Key(i) /\ Version(i)' = Version(i)
  BY <1>1 DEF Key, Version
<1>4. \A p \in Nodes, q \in Keys : ver'[p][q] # None => ver'[p][q] = ver[p][q]
  <2>1. ver \in [Nodes -> [Keys -> KeyVersions \cup {None}]]
    BY <1>0 DEF TypeOK
  <2> QED BY <1>1, <2>1
<1>5. PushedContent' /\ HeldBySomeone'
  BY <1>0, <1>1, <1>k DEF Described, PushedContent, HeldBySomeone, Held
<1>6. Tombstones'
  BY <1>0, <1>1, <1>4, <1>k DEF Described, Tombstones
<1>7. NewestLabels' /\ CopyLabels'
  <2>1. LocalsKept /\ ObjectsMove
    BY <1>1 DEF LocalsKept, ObjectsMove
  <2> QED BY <1>1, <1>2, <2>1, LabelsForward
<1>8. OwnChanges' /\ Untouched'
  BY <1>0, <1>1, QuietChanges
<1> QED BY <1>3, <1>5, <1>6, <1>7, <1>8 DEF DescribedInv, Described

\* A change is numbered higher than all its node has recorded for the key.
LEMMA LocalIsNewer ==
  ASSUME TypeOK, Forward, NEW n \in Nodes, NEW k \in Keys, NEW t \in Times, t > floor[k],
         LocalVersion(n, k, t).at \in Times
  PROVE  /\ LocalVersion(n, k, t) \in Versions /\ LocalVersion(n, k, t).origin = n
         /\ Newer(n, k, LocalVersion(n, k, t))
<1> DEFINE v == LocalVersion(n, k, t)
<1>1. v.origin = n /\ v = [at |-> v.at, origin |-> n]
  BY DEF LocalVersion
<1>2. Times \subseteq Nat /\ v.at \in Nat /\ t \in Nat /\ floor[k] \in Nat
  BY DEF Times, TypeOK
<1>3. v \in Versions
  BY <1>1 DEF Versions
<1>4. ver[n][k] # None => ver[n][k].at \in Nat
  BY VersionTypes
<1>5. v.at >= t /\ (ver[n][k] # None => v.at > ver[n][k].at)
  BY <1>2, <1>4 DEF LocalVersion
<1> HIDE DEF v
<1>6. CASE ver[n][k] = None /\ newest[n][k] # None
  <2>1. newest[n][k].at \in Nat /\ newest[n][k].at <= floor[k]
    BY <1>6, VersionTypes DEF Forward, PrunedIsOld
  <2>2. Less(newest[n][k], v)
    BY <1>2, <1>5, <2>1 DEF Less
  <2> QED BY <1>1, <1>3, <2>2 DEF Newer, v
<1>7. CASE ver[n][k] # None
  <2>1. Less(ver[n][k], v)
    BY <1>2, <1>4, <1>5, <1>7 DEF Less
  <2>2. ~ UpToDate(n, k, v)
    BY <2>1 DEF UpToDate, AtLeast
  <2>3. Newer(n, k, v)
    BY <1>3, <1>7, <2>2, NewerThanHere DEF Forward
  <2> QED BY <1>1, <1>3, <2>3 DEF v
<1>8. CASE newest[n][k] = None
  BY <1>1, <1>3, <1>8 DEF Newer, v
<1> QED BY <1>6, <1>7, <1>8

\* hook.after: the change gets a version and an event of its own.
LEMMA LocalRecordDescribed ==
  ASSUME Calm, NEW n \in Nodes, NEW k \in Keys, NEW t \in Times, NEW i \in Ids, LocalRecord(n, k, t, i)
  PROVE  DescribedInv'
<1>0. TypeOK /\ TypeOK' /\ EventsMade /\ OneHolder /\ NewestKept /\ Forward
  BY CalmFacts
<1>1. /\ UNCHANGED <<obj, delivered, push, net, heal>>
      /\ hold[n][k] = "local" /\ events[i] = None /\ t > floor[k]
      /\ hold' = [hold EXCEPT ![n][k] = "free"]
      /\ LocalVersion(n, k, t).at \in Times
      /\ Store(n, k, LocalVersion(n, k, t), obj[n][k] = None)
      /\ events' = [events EXCEPT ![i] = [origin |-> n, key |-> k, etag |-> obj[n][k],
                                          at |-> LocalVersion(n, k, t).at]]
      /\ status' = [status EXCEPT ![i] = "pending"]
  BY DEF LocalRecord, Enqueue, IsNext, FreeIds
<1>2. PICK v \in Versions : v = LocalVersion(n, k, t) /\ v.origin = n /\ Newer(n, k, v)
  BY <1>0, <1>1, LocalIsNewer
<1>3. PICK d \in BOOLEAN : d = (obj[n][k] = None) /\ Store(n, k, v, d)
  BY <1>1, <1>2
<1>4. /\ v.at \in Nat /\ v.origin \in Nat /\ v = [at |-> v.at, origin |-> v.origin]
      /\ v # None
  BY InVersions, Distinct DEF Versions
<1>s. StoredAt(n, k, v, d)
  BY <1>0, <1>2, <1>3, StoreNewer
<1>5. /\ \A x \in Nodes, y \in Keys : ~ (x = n /\ y = k) =>
                ver'[x][y] = ver[x][y] /\ newest'[x][y] = newest[x][y]
      /\ newest'[n][k] = v /\ NewestGrows
  BY <1>s DEF StoredAt
<1>6. ver'[n][k].deleted = d
  BY <1>s DEF StoredAt
<1>7. /\ events'[i] # None /\ events'[i].key = k /\ EventVersion(events'[i]) = v
      /\ events'[i].etag = obj[n][k] /\ events'[i].origin = n
      /\ \A j \in Ids : j # i => events'[j] = events[j]
  <2>1. events \in [Ids -> Events \cup {None}] /\ obj[n][k] \in ContentOrNone
    BY <1>0 DEF TypeOK
  <2>2. PICK e : e = [origin |-> n, key |-> k, etag |-> obj[n][k], at |-> v.at]
    OBVIOUS
  <2>3. e \in Events /\ e.origin = n /\ e.key = k /\ e.etag = obj[n][k] /\ e.at = v.at
    BY <1>1, <1>2, <2>1, <2>2 DEF Events
  <2>4. events' = [events EXCEPT ![i] = e]
    BY <1>1, <1>2, <2>2
  <2>5. events'[i] = e /\ \A j \in Ids : j # i => events'[j] = events[j]
    BY <2>1, <2>4
  <2>6. e # None
    BY <2>3, Distinct
  <2> QED BY <1>2, <1>4, <2>3, <2>5, <2>6 DEF EventVersion
<1>8. EventsKept
  BY <1>1, <1>7 DEF EventsKept
<1>k. \A j \in Ids : events[j] # None => events'[j] # None /\ Key(j)' = Key(j) /\ Version(j)' = Version(j)
  BY <1>8 DEF EventsKept, Key, Version
<1>9. hold'[n][k] = "free" /\ \A p \in Nodes, q \in Keys : ~ (p = n /\ q = k) => hold'[p][q] = hold[p][q]
  <2>1. hold \in [Nodes -> [Keys -> {"free", "local", "remote", "restore"}]]
    BY <1>0 DEF TypeOK
  <2> QED BY <1>1, <2>1
<1>t. \A x \in net : /\ x.to \in Nodes /\ x.id \in Ids /\ events[x.id] # None
                     /\ Key(x.id)' = Key(x.id) /\ events'[x.id] = events[x.id]
                     /\ Held(x) => ~ (x.to = n /\ Key(x.id) = k)
  <2>1. \A x \in net : x.to \in Nodes /\ x.id \in Ids /\ events[x.id] # None
    BY <1>0, MessageTypes
  <2>2. \A x \in net : Held(x) => ~ (x.to = n /\ Key(x.id) = k)
    BY <1>0, <1>1 DEF OneHolder
  <2> QED BY <1>k, <1>8, <2>1, <2>2 DEF EventsKept
<1>10. PushedContent'
  BY <1>1, <1>t DEF Calm, Described, PushedContent
<1>11. HeldBySomeone'
  <2>2. ASSUME NEW p \in Nodes, NEW q \in Keys, hold'[p][q] = "remote"
        PROVE  \E x \in net' : Held(x) /\ x.to = p /\ events'[x.id].key = q
    <3>1. hold[p][q] = "remote"
      BY <1>9, <2>2
    <3>2. PICK x \in net : Held(x) /\ x.to = p /\ Key(x.id) = q
      BY <3>1, HoldersThere DEF Calm
    <3> QED BY <1>1, <1>t, <3>2 DEF Key
  <2>3. ASSUME NEW p \in Nodes, NEW q \in Keys, hold'[p][q] = "restore"
        PROVE  /\ heal'[p] # None /\ heal'[p].stage = "committed" /\ heal'[p].key = q
               /\ obj'[p][q] = heal'[p].content /\ newest'[p][q] = None
    <3>1. hold[p][q] = "restore" /\ newest'[p][q] = newest[p][q]
      BY <1>5, <1>9, <2>3
    <3> QED BY <1>1, <3>1, HoldersThere DEF Calm
  <2> QED BY <2>2, <2>3, HeldNext
<1>12. Tombstones'
  <2> SUFFICES ASSUME NEW p \in Nodes, NEW q \in Keys, ver'[p][q] # None,
                      hold'[p][q] = "free" \/ \E x \in net' : x.stage = "checked" /\ x.to = p /\ Key(x.id)' = q
               PROVE  ver'[p][q].deleted <=> obj'[p][q] = None
    BY DEF Tombstones
  <2>1. CASE p = n /\ q = k
    BY <1>1, <1>3, <1>6, <2>1
  <2>2. CASE ~ (p = n /\ q = k)
    <3>1. ver'[p][q] = ver[p][q] /\ hold'[p][q] = hold[p][q] /\ obj'[p][q] = obj[p][q]
      BY <1>1, <1>5, <1>9, <2>2
    <3>2. hold[p][q] = "free" \/ \E x \in net : x.stage = "checked" /\ x.to = p /\ Key(x.id) = q
      BY <1>1, <1>t, <3>1
    <3> QED BY <3>1, <3>2 DEF Calm, Described, Tombstones
  <2> QED BY <2>1, <2>2
<1>13. LocalsKept
  <2>1. Newer(n, k, EventVersion(events'[i]))
    BY <1>2, <1>7
  <2>2. ASSUME NEW q \in Nodes, NEW y \in Keys, hold[q][y] = "local"
        PROVE  \/ hold'[q][y] = "local"
               \/ \E j \in Ids : events'[j] # None /\ events'[j].key = y /\ Newer(q, y, EventVersion(events'[j]))
    <3>1. CASE q = n /\ y = k
      BY <1>7, <2>1, <3>1
    <3>2. CASE ~ (q = n /\ y = k)
      BY <1>9, <2>2, <3>2
    <3> QED BY <3>1, <3>2
  <2> QED BY <2>2 DEF LocalsKept
<1>14. NewestLabels' /\ CopyLabels'
  <2>1. ObjectsMove
    BY <1>1 DEF ObjectsMove
  <2>2. MadeNext(k, newest'[n][k]) /\ LabelsNext(k, newest'[n][k], obj'[n][k])
    BY <1>1, <1>5, <1>7 DEF MadeNext, LabelsNext
  <2> QED BY <1>1, <1>5, <1>8, <1>13, <2>1, <2>2, LabelsForward
<1>15. OwnChanges'
  <2>0. newest' \in [Nodes -> [Keys -> Versions \cup {None}]]
    BY <1>0 DEF TypeOK
  <2>1. ASSUME NEW j \in Ids, events'[j] # None
        PROVE  newest'[events'[j].origin][Key(j)'] # None /\ AtLeast(newest'[events'[j].origin][Key(j)'], Version(j)')
    <3>1. CASE j = i
      <4>1. Key(j)' = k /\ Version(j)' = v /\ events'[j].origin = n
        BY <1>7, <3>1 DEF Key, Version
      <4>2. AtLeast(v, v)
        BY <1>4, Order DEF AtLeast
      <4> QED BY <1>4, <1>5, <4>1, <4>2
    <3>2. CASE j # i
      <4>1. events'[j] = events[j] /\ events[j] # None
        BY <1>7, <2>1, <3>2
      <4>2. PICK x \in Nodes : x = events[j].origin /\ Recorded(x, j)
        BY <1>0, <4>1, EventTypes DEF Calm, OwnChanges
      <4>3. Recorded(x, j)'
        BY <1>0, <1>5, <1>8, <2>0, <4>1, <4>2, RecordedKept
      <4>4. newest'[x][Key(j)'] # None /\ AtLeast(newest'[x][Key(j)'], Version(j)')
        BY <4>3 DEF Recorded
      <4> QED BY <4>1, <4>2, <4>4
    <3> QED BY <3>1, <3>2
  <2>2. ASSUME NEW j \in Ids, events[j] # None, Key(j) = k PROVE Version(j) # v
    <3>1. CASE events[j].origin = n
      <4>1. newest[n][k] # None /\ ~ Less(newest[n][k], Version(j))
        BY <2>2, <3>1 DEF Calm, OwnChanges, Recorded, AtLeast
      <4>2. Less(newest[n][k], v)
        BY <1>2, <4>1 DEF Newer
      <4> QED BY <4>1, <4>2
    <3>2. CASE events[j].origin # n
      BY <1>0, <1>2, <2>2, <3>2, EventTypes
    <3> QED BY <3>1, <3>2
  <2>3. ASSUME NEW j \in Ids, NEW l \in Ids, events'[j] # None, events'[l] # None, Key(j)' = Key(l)',
               Version(j)' = Version(l)'
        PROVE  j = l
    <3>1. Key(i)' = k /\ Version(i)' = v
      BY <1>7 DEF Key, Version
    <3>2. \A x \in Ids : x # i /\ events'[x] # None => events[x] # None /\ Key(x)' = Key(x) /\ Version(x)' = Version(x)
      BY <1>7 DEF Key, Version
    <3>3. CASE j # i /\ l # i
      BY <2>3, <3>2, <3>3 DEF Calm, OwnChanges
    <3>4. CASE j = i /\ l # i
      BY <2>2, <2>3, <3>1, <3>2, <3>4
    <3>5. CASE j # i /\ l = i
      BY <2>2, <2>3, <3>1, <3>2, <3>5
    <3> QED BY <3>3, <3>4, <3>5
  <2> QED BY <2>1, <2>3 DEF OwnChanges, Recorded
<1>16. Untouched'
  <2>1. ASSUME NEW q \in Keys, NoChange(q)' PROVE NoChange(q) /\ q # k
    <3>1. \A j \in Ids : events'[j] # None => Key(j)' # q
      BY <2>1 DEF NoChange
    <3>2. q # k
      BY <1>7, <3>1 DEF Key
    <3> QED BY <1>k, <3>1, <3>2 DEF NoChange
  <2>2. ASSUME NEW q \in Keys, NoChange(q)', NEW p \in Nodes, hold'[p][q] # "local" PROVE obj'[p][q] = Stored
    BY <1>1, <1>9, <2>1, <2>2 DEF Calm, Untouched
  <2>3. ASSUME NEW q \in Keys, NoChange(q)', NEW p \in Nodes, heal'[p] # None, heal'[p].key = q
        PROVE  heal'[p].content = Stored
    BY <1>1, <2>1, <2>3 DEF Calm, Untouched
  <2> QED BY <2>2, <2>3 DEF Untouched
<1>17. DoneWith'
  <2>1. /\ status'[i] = "pending" /\ \A j \in Ids : j # i => status'[j] = status[j]
    <3>1. status \in [Ids -> Statuses \cup {None}]
      BY <1>0 DEF TypeOK
    <3> QED BY <1>1, <3>1
  <2>2. delivered'[i] = {} /\ push'[i] = None
    BY <1>0, <1>1 DEF EventsMade
  <2>3. \A j \in Ids : push'[j] # None => status'[j] = "pending"
    BY <1>1, <2>1 DEF Calm, DoneWith
  <2>4. ASSUME NEW j \in Ids, events'[j] # None
        PROVE  /\ delivered'[j] \subseteq Peers(events'[j].origin)
               /\ status'[j] \notin {"pending", "failed", "dead_letter"} =>
                      \/ Needed = 0 \/ Enough(j)'
                      \/ newest'[events'[j].origin][Key(j)'] # None
                         /\ Less(Version(j)', newest'[events'[j].origin][Key(j)'])
    <3>1. CASE j = i
      BY <2>1, <2>2, <3>1
    <3>2. CASE j # i
      <4>1. events[j] # None /\ delivered'[j] = delivered[j] /\ status'[j] = status[j]
        BY <1>1, <1>7, <2>1, <2>4, <3>2
      <4> QED BY <1>5, <1>8, <4>1, DoneKept
    <3> QED BY <3>1, <3>2
  <2> QED BY <2>3, <2>4 DEF DoneWith
<1> QED BY <1>10, <1>11, <1>12, <1>14, <1>15, <1>16, <1>17 DEF DescribedInv, Described

\* A node's recorded version is the newest one it had.
LEMMA VersionIsNewest ==
  ASSUME TypeOK, NewestKept, NeverGoesBack, NEW n \in Nodes, NEW k \in Keys, ver[n][k] # None
  PROVE  newest[n][k] # None /\ EventVersion(ver[n][k]) = newest[n][k]
<1>1. newest[n][k] # None /\ ~ Less(ver[n][k], newest[n][k]) /\ ~ Less(newest[n][k], ver[n][k])
  BY DEF NewestKept, NeverGoesBack, AtLeast
<1>2. /\ ver[n][k].at \in Nat /\ ver[n][k].origin \in Nat
      /\ newest[n][k].at \in Nat /\ newest[n][k].origin \in Nat /\ newest[n][k] \in Versions
  BY <1>1, VersionTypes
<1>3. ver[n][k].at = newest[n][k].at /\ ver[n][k].origin = newest[n][k].origin
  BY <1>1, <1>2 DEF Less
<1>4. newest[n][k] = [at |-> newest[n][k].at, origin |-> newest[n][k].origin]
  BY <1>2 DEF Versions
<1> QED BY <1>1, <1>3, <1>4 DEF EventVersion

\* Where a restore is under way, a key without a version never had one.
LEMMA RestoreUnpruned ==
  ASSUME Calm, "heal" \in Ops
  PROVE  \A n \in Nodes, k \in Keys : newest[n][k] # None => ver[n][k] # None
BY CalmFacts DEF Safe, Forward, PrunedIsOld

\* A restore's steps before it takes the lock: only what is known of its copy changes.
LEMMA HealQuiet ==
  ASSUME Calm, NEW n \in Nodes, NEW h, heal' = [heal EXCEPT ![n] = h], h # None => h.stage # "committed",
         heal[n] # None => heal[n].stage # "committed",
         UNCHANGED <<obj, ver, hold, newest, events, status, delivered, push, net>>,
         h # None => CopyNext(n),
         h # None /\ NoChange(h.key) =>
             \/ h.content = Stored
             \/ heal[n] # None /\ h.key = heal[n].key /\ h.content = heal[n].content
  PROVE  DescribedInv'
<1>0. TypeOK /\ TypeOK' /\ Described
  BY CalmFacts DEF Calm
<1>1. heal'[n] = h /\ \A p \in Nodes : p # n => heal'[p] = heal[p]
  <2>1. heal \in [Nodes -> Heals \cup {None}]
    BY <1>0 DEF TypeOK
  <2> QED BY <2>1
<1>2. EventsKept /\ NewestGrows
  BY <1>0, GrowsUnchanged DEF EventsKept
<1>3. DoneWith'
  BY <1>2, DoneSame
<1>k. \A i : Key(i)' = Key(i) /\ Version(i)' = Version(i)
  BY DEF Key, Version
<1>4. PushedContent' /\ Tombstones'
  BY <1>0, <1>k DEF Described, PushedContent, Tombstones
<1>5. HeldBySomeone'
  <2>1. ASSUME NEW p \in Nodes, NEW q \in Keys, hold[p][q] = "restore"
        PROVE  /\ heal'[p] # None /\ heal'[p].stage = "committed" /\ heal'[p].key = q
               /\ obj[p][q] = heal'[p].content /\ newest[p][q] = None
    <3>1. /\ heal[p] # None /\ heal[p].stage = "committed" /\ heal[p].key = q
          /\ obj[p][q] = heal[p].content /\ newest[p][q] = None
      BY <1>0, <2>1, HoldersThere
    <3> QED BY <1>1, <3>1
  <2>2. ASSUME NEW p \in Nodes, NEW q \in Keys, hold[p][q] = "remote"
        PROVE  \E x \in net : Held(x) /\ x.to = p /\ events[x.id].key = q
    <3>1. Described
      BY <1>0
    <3> QED BY <2>2, <3>1, HoldersThere DEF Key
  <2> QED BY <2>1, <2>2, HeldNext
<1>6. NewestLabels' /\ CopyLabels'
  <2>1. LocalsKept /\ ObjectsMove
    BY DEF LocalsKept, ObjectsMove
  <2>2. \A p \in Nodes : heal'[p] = None \/ heal'[p] = heal[p] \/ CopyNext(p)
    BY <1>1
  <2> QED BY <1>2, <2>1, <2>2, LabelsForward
<1>7. OwnChanges' /\ Untouched'
  <2>1. ASSUME NEW p \in Nodes, NEW q \in Keys, NoChange(q)
        PROVE  \/ hold'[p][q] = "local" \/ obj'[p][q] = Stored
               \/ hold[p][q] # "local" /\ obj'[p][q] = obj[p][q]
    OBVIOUS
  <2>2. ASSUME NEW p \in Nodes, heal'[p] # None, NoChange(heal'[p].key)
        PROVE  \/ heal'[p].content = Stored
               \/ heal[p] # None /\ heal'[p].key = heal[p].key /\ heal'[p].content = heal[p].content
    BY <1>1, <2>2
  <2> QED BY <1>2, <2>1, <2>2, ChangesKept
<1> QED BY <1>3, <1>4, <1>5, <1>6, <1>7 DEF DescribedInv, Described

\* The copy a peer opens has no version yet.
LEMMA HealOpenDescribed ==
  ASSUME Calm, NEW n \in Nodes, NEW p \in Nodes, NEW k \in Keys, HealOpen(n, p, k)
  PROVE  DescribedInv'
<1>0. TypeOK /\ heal \in [Nodes -> Heals \cup {None}]
  BY CalmFacts DEF TypeOK
<1> DEFINE h == [key |-> k, from |-> p, content |-> obj[p][k], version |-> None, stage |-> "opened"]
<1>1. /\ UNCHANGED <<obj, ver, hold, newest, events, status, delivered, push, net>>
      /\ heal' = [heal EXCEPT ![n] = h] /\ heal[n] = None /\ hold[p][k] = "free"
  BY DEF HealOpen
<1>2. heal'[n] = h
  BY <1>0, <1>1
<1>3. h.key = k /\ h.content = obj[p][k] /\ h.version = None /\ h.stage = "opened"
  OBVIOUS
<1> HIDE DEF h
<1>4. CopyNext(n)
  BY <1>2, <1>3 DEF CopyNext
<1>5. NoChange(k) => obj[p][k] = Stored
  BY <1>1 DEF Calm, Untouched
<1> QED BY <1>1, <1>3, <1>4, <1>5, HealQuiet

\* The version a peer reads labels the object it has.
LEMMA HealVersionDescribed ==
  ASSUME Calm, NEW n \in Nodes, HealVersion(n)
  PROVE  DescribedInv'
<1>0. /\ TypeOK /\ TypeOK' /\ NewestKept /\ Forward /\ heal[n] # None /\ heal[n].stage = "opened"
      /\ UNCHANGED <<obj, ver, hold, newest, events, status, delivered, push, net>>
  BY CalmFacts DEF HealVersion
<1>g. /\ heal \in [Nodes -> Heals \cup {None}] /\ heal[n] \in Heals
      /\ heal[n].key \in Keys /\ heal[n].from \in Nodes
  BY <1>0, HealTypes
<1> DEFINE p == heal[n].from
           k == heal[n].key
           v == IF ver[p][k] = None THEN None ELSE EventVersion(ver[p][k])
           h == [heal[n] EXCEPT !.stage = "versioned", !.version = v]
<1>1. heal' = [heal EXCEPT ![n] = h]
  BY <1>g DEF HealVersion
<1>2. heal'[n] = h
  BY <1>g, <1>1
<1>3. h.key = k /\ h.from = p /\ h.content = heal[n].content /\ h.version = v /\ h.stage = "versioned"
  BY <1>g DEF Heals
<1> HIDE DEF h
<1>4. CopyNext(n)
  <2>1. CASE v = None
    BY <1>2, <1>3, <2>1 DEF CopyNext
  <2>2. CASE v # None
    <3>1. newest[p][k] # None /\ v = newest[p][k]
      BY <1>0, <1>g, <2>2, VersionIsNewest DEF Forward
    <3>2. newest[p][k].at \in Nat /\ newest[p][k].origin \in Nat
      BY <1>0, <1>g, <3>1, VersionTypes
    <3>3. ~ Less(newest[p][k], newest[p][k])
      BY <3>2, Order
    <3>4. /\ \E i \in Ids : events[i] # None /\ Key(i) = k /\ Version(i) = newest[p][k]
          /\ Labels(k, newest[p][k], obj[p][k])
      BY <1>g, <3>1 DEF Calm, Described, NewestLabels
    <3>5. MadeNext(k, newest[p][k])
      BY <1>0, <3>4 DEF MadeNext, Key, Version
    <3>6. LabelsNext(k, newest[p][k], obj[p][k])
      BY <1>0, <3>4 DEF LabelsNext, Labels, NewerNext, NewerChange, Announced, Key, Version
    <3> HIDE DEF v
    <3> QED BY <1>0, <1>2, <1>3, <3>1, <3>3, <3>5, <3>6 DEF CopyNext, AtLeast
  <2> QED BY <2>1, <2>2
<1> QED BY <1>0, <1>1, <1>3, <1>4, HealQuiet

\* The version is sent only with the object it labels.
LEMMA HealRecheckDescribed ==
  ASSUME Calm, NEW n \in Nodes, HealRecheck(n)
  PROVE  DescribedInv'
<1>0. /\ TypeOK /\ TypeOK' /\ heal[n] # None /\ heal[n].stage = "versioned"
      /\ UNCHANGED <<obj, ver, hold, newest, events, status, delivered, push, net>>
  BY CalmFacts DEF HealRecheck
<1>g. /\ heal \in [Nodes -> Heals \cup {None}] /\ heal[n] \in Heals
      /\ heal[n].key \in Keys /\ heal[n].from \in Nodes
  BY <1>0, HealTypes
<1> DEFINE p == heal[n].from
           k == heal[n].key
           v == IF obj[p][k] = heal[n].content THEN heal[n].version ELSE None
           h == [heal[n] EXCEPT !.stage = "fetched", !.version = v]
<1>1. heal' = [heal EXCEPT ![n] = h]
  BY <1>g DEF HealRecheck
<1>2. heal'[n] = h
  BY <1>g, <1>1
<1>3. h.key = k /\ h.from = p /\ h.content = heal[n].content /\ h.version = v /\ h.stage = "fetched"
  BY <1>g DEF Heals
<1> HIDE DEF h
<1>4. CopyNext(n)
  <2>1. CASE v = None
    BY <1>2, <1>3, <2>1 DEF CopyNext
  <2>2. CASE v # None
    <3>1. v = heal[n].version /\ obj[p][k] = heal[n].content /\ heal[n].version # None
      BY <2>2
    <3>2. /\ \E i \in Ids : events[i] # None /\ Key(i) = k /\ Version(i) = heal[n].version
          /\ newest[p][k] # None /\ AtLeast(newest[p][k], heal[n].version)
          /\ Labels(k, heal[n].version, heal[n].content)
      BY <1>0, <3>1 DEF Calm, Described, CopyLabels, CopyAt
    <3>3. MadeNext(k, heal[n].version)
      BY <1>0, <3>2 DEF MadeNext, Key, Version
    <3>4. LabelsNext(k, heal[n].version, heal[n].content)
      BY <1>0, <3>2 DEF LabelsNext, Labels, NewerNext, NewerChange, Announced, Key, Version
    <3>5. newest'[p][k] # None /\ AtLeast(newest'[p][k], heal[n].version)
      BY <1>0, <3>2
    <3> HIDE DEF v
    <3> QED BY <1>2, <1>3, <3>1, <3>3, <3>4, <3>5 DEF CopyNext
  <2> QED BY <2>1, <2>2
<1> QED BY <1>0, <1>1, <1>3, <1>4, HealQuiet

\* A restore stores only where no change has been recorded.
LEMMA HealCommitDescribed ==
  ASSUME Calm, NEW n \in Nodes, HealCommit(n)
  PROVE  DescribedInv'
<1>0. /\ TypeOK /\ TypeOK' /\ EventsMade /\ OneHolder /\ Unused /\ Described
      /\ heal[n] # None /\ heal[n].stage = "fetched" /\ hold[n][heal[n].key] = "free"
      /\ UNCHANGED <<ver, newest, events, status, delivered, push, net>>
  BY CalmFacts DEF HealCommit, Free, Calm
<1>g. /\ heal \in [Nodes -> Heals \cup {None}] /\ heal[n] \in Heals
      /\ heal[n].key \in Keys /\ heal[n].from \in Nodes
  BY <1>0, HealTypes
<1>1. CASE heal' = [heal EXCEPT ![n] = None] /\ UNCHANGED <<obj, hold>>
  BY <1>0, <1>1, HealQuiet
<1>2. CASE /\ ~ (HasTombstone(n, heal[n].key) \/ obj[n][heal[n].key] # None)
           /\ obj' = [obj EXCEPT ![n][heal[n].key] = heal[n].content]
           /\ hold' = [hold EXCEPT ![n][heal[n].key] = "restore"]
           /\ heal' = [heal EXCEPT ![n].stage = "committed"]
  <2> DEFINE k == heal[n].key
             h == [heal[n] EXCEPT !.stage = "committed"]
  <2>1. /\ heal'[n] = h /\ \A p \in Nodes : p # n => heal'[p] = heal[p]
    BY <1>g, <1>2
  <2>2. h.key = k /\ h.from = heal[n].from /\ h.content = heal[n].content /\ h.version = heal[n].version
        /\ h.stage = "committed"
    BY <1>g DEF Heals
  <2>3. h # None
    <3>1. heal[n].content \in Contents /\ heal[n].version \in Versions \cup {None}
      BY <1>0, HealTypes
    <3>2. h \in Heals
      BY <1>g, <3>1 DEF Heals
    <3> QED BY <3>2, NoneAssumption
  <2> HIDE DEF h
  <2>4. newest[n][k] = None
    <3>1. "heal" \in Ops
      BY <1>0 DEF Unused
    <3>2. ver[n][k] # None => (ver[n][k].deleted <=> obj[n][k] = None)
      BY <1>0, <1>g DEF Described, Tombstones
    <3>3. ver[n][k] = None
      BY <1>2, <3>2 DEF HasTombstone
    <3> QED BY <1>g, <3>1, <3>3, RestoreUnpruned
  <2>5. /\ obj'[n][k] = heal[n].content /\ hold'[n][k] = "restore"
        /\ \A p \in Nodes, q \in Keys : ~ (p = n /\ q = k) => obj'[p][q] = obj[p][q] /\ hold'[p][q] = hold[p][q]
    <3>1. /\ obj \in [Nodes -> [Keys -> ContentOrNone]]
          /\ hold \in [Nodes -> [Keys -> {"free", "local", "remote", "restore"}]]
      BY <1>0 DEF TypeOK
    <3> QED BY <1>g, <1>2, <3>1
  <2>6. EventsKept /\ NewestGrows
    BY <1>0, GrowsUnchanged DEF EventsKept
  <2>7. DoneWith'
    BY <1>0, <2>6, DoneSame
  <2>k. \A i : Key(i)' = Key(i) /\ Version(i)' = Version(i)
    BY <1>0 DEF Key, Version
  <2>t. \A x \in net : /\ x.to \in Nodes /\ Key(x.id) \in Keys
                       /\ Held(x) => ~ (x.to = n /\ Key(x.id) = k)
    <3>1. \A x \in net : x.to \in Nodes /\ Key(x.id) \in Keys
      BY <1>0, MessageTypes
    <3>2. \A x \in net : Held(x) => ~ (x.to = n /\ Key(x.id) = k)
      BY <1>0 DEF OneHolder
    <3> QED BY <3>1, <3>2
  <2>8. PushedContent'
    <3>1. ASSUME NEW x \in net, x.stage = "committed" PROVE obj'[x.to][Key(x.id)] = obj[x.to][Key(x.id)]
      <4>1. x.to \in Nodes /\ Key(x.id) \in Keys /\ ~ (x.to = n /\ Key(x.id) = k)
        BY <2>t, <3>1 DEF Held
      <4> QED BY <2>5, <4>1
    <3> QED BY <1>0, <2>k, <3>1 DEF Described, PushedContent
  <2>9. HeldBySomeone'
    <3>1. ASSUME NEW p \in Nodes, NEW q \in Keys, hold'[p][q] = "remote"
          PROVE  \E x \in net : Held(x) /\ x.to = p /\ events[x.id].key = q
      <4>1. hold[p][q] = "remote"
        BY <2>5, <3>1
      <4>2. Described
        BY <1>0
      <4> QED BY <4>1, <4>2, HoldersThere DEF Key
    <3>2. ASSUME NEW p \in Nodes, NEW q \in Keys, hold'[p][q] = "restore"
          PROVE  /\ heal'[p] # None /\ heal'[p].stage = "committed" /\ heal'[p].key = q
                 /\ obj'[p][q] = heal'[p].content /\ newest[p][q] = None
      <4>1. CASE p = n /\ q = k
        BY <2>1, <2>2, <2>3, <2>4, <2>5, <4>1
      <4>2. CASE ~ (p = n /\ q = k)
        <5>1. hold[p][q] = "restore" /\ obj'[p][q] = obj[p][q]
          BY <2>5, <3>2, <4>2
        <5>2. /\ heal[p] # None /\ heal[p].stage = "committed" /\ heal[p].key = q
              /\ obj[p][q] = heal[p].content /\ newest[p][q] = None
          BY <1>0, <5>1, HoldersThere
        <5>3. p # n
          BY <1>0, <5>2
        <5> QED BY <2>1, <5>1, <5>2, <5>3
      <4> QED BY <4>1, <4>2
    <3> QED BY <1>0, <3>1, <3>2, HeldNext
  <2>10. Tombstones'
    <3> SUFFICES ASSUME NEW p \in Nodes, NEW q \in Keys, ver[p][q] # None,
                        hold'[p][q] = "free" \/ \E x \in net : x.stage = "checked" /\ x.to = p /\ Key(x.id) = q
                 PROVE  ver[p][q].deleted <=> obj'[p][q] = None
      BY <1>0, <2>k DEF Tombstones
    <3>1. ~ (p = n /\ q = k)
      BY <2>5, <2>t DEF Held
    <3>2. obj'[p][q] = obj[p][q] /\ hold'[p][q] = hold[p][q]
      BY <2>5, <3>1
    <3>3. hold[p][q] = "free" \/ \E x \in net : x.stage = "checked" /\ x.to = p /\ Key(x.id) = q
      BY <3>2
    <3>4. Tombstones
      BY <1>0 DEF Described
    <3>5. ver[p][q].deleted <=> obj[p][q] = None
      BY <3>3, <3>4 DEF Tombstones
    <3> QED BY <3>2, <3>5
  <2>11. LocalsKept
    <3>1. \A p \in Nodes, q \in Keys : hold[p][q] = "local" => hold'[p][q] = "local"
      BY <1>0, <2>5
    <3> QED BY <3>1 DEF LocalsKept
  <2>12. ObjectsMove
    BY <2>4, <2>5 DEF ObjectsMove
  <2>13. NewestLabels' /\ CopyLabels'
    <3>1. CopyNext(n)
      <4>1. CASE heal[n].version = None
        BY <2>1, <2>2, <4>1 DEF CopyNext
      <4>2. CASE heal[n].version # None
        <5> DEFINE p == heal[n].from
                   v == heal[n].version
        <5>1. /\ \E i \in Ids : events[i] # None /\ Key(i) = k /\ Version(i) = v
              /\ newest[p][k] # None /\ AtLeast(newest[p][k], v)
              /\ Labels(k, v, heal[n].content)
          BY <1>0, <4>2 DEF Described, CopyLabels, CopyAt
        <5>2. v.at \in Nat /\ v.origin \in Nat
          <6>1. v \in Versions
            BY <1>0, <4>2, HealTypes
          <6> QED BY <6>1, InVersions
        <5>3. MadeNext(k, v)
          BY <1>0, <5>1 DEF MadeNext, Key, Version
        <5>4. LabelsNext(k, v, heal[n].content)
          BY <1>0, <1>g, <2>6, <2>11, <5>1, <5>2, LabelsKept
        <5>5. newest'[p][k] # None /\ AtLeast(newest'[p][k], v)
          BY <1>0, <5>1
        <5> QED BY <2>1, <2>2, <5>3, <5>4, <5>5 DEF CopyNext
      <4> QED BY <4>1, <4>2
    <3>2. \A p \in Nodes : heal'[p] = None \/ heal'[p] = heal[p] \/ CopyNext(p)
      BY <2>1, <3>1
    <3> QED BY <1>0, <2>6, <2>11, <2>12, <3>2, LabelsForward
  <2>14. OwnChanges' /\ Untouched'
    <3>1. ASSUME NEW p \in Nodes, NEW q \in Keys, NoChange(q)
          PROVE  \/ hold'[p][q] = "local" \/ obj'[p][q] = Stored
                 \/ hold[p][q] # "local" /\ obj'[p][q] = obj[p][q]
      <4>1. CASE p = n /\ q = k
        BY <1>0, <2>5, <3>1, <4>1 DEF Calm, Untouched
      <4>2. CASE ~ (p = n /\ q = k)
        BY <2>5, <4>2
      <4> QED BY <4>1, <4>2
    <3>2. ASSUME NEW p \in Nodes, heal'[p] # None, NoChange(heal'[p].key)
          PROVE  \/ heal'[p].content = Stored
                 \/ heal[p] # None /\ heal'[p].key = heal[p].key /\ heal'[p].content = heal[p].content
      BY <1>0, <2>1, <2>2, <3>2
    <3> QED BY <1>0, <2>6, <3>1, <3>2, ChangesKept
  <2> QED BY <2>7, <2>8, <2>9, <2>10, <2>13, <2>14 DEF DescribedInv, Described
<1> QED BY <1>1, <1>2 DEF HealCommit

\* The restored copy is recorded under the version that labels it.
LEMMA HealRecordDescribed ==
  ASSUME Calm, NEW n \in Nodes, HealRecord(n)
  PROVE  DescribedInv'
<1>0. /\ TypeOK /\ TypeOK' /\ EventsMade /\ OneHolder /\ NewestKept /\ Described
      /\ heal[n] # None /\ heal[n].stage = "committed"
      /\ UNCHANGED <<obj, events, status, delivered, push, net>>
      /\ heal' = [heal EXCEPT ![n] = None]
      /\ hold' = [hold EXCEPT ![n][heal[n].key] = "free"]
  BY CalmFacts DEF HealRecord, Calm
<1>g. /\ heal \in [Nodes -> Heals \cup {None}] /\ heal[n] \in Heals
      /\ heal[n].key \in Keys /\ heal[n].from \in Nodes /\ heal[n].content \in Contents
      /\ heal[n].version \in Versions \cup {None}
  BY <1>0, HealTypes
<1>1. PICK k \in Keys : k = heal[n].key
  BY <1>g
<1>2. hold[n][k] = "restore"
  BY <1>0, <1>1 DEF OneHolder
<1>3. obj[n][k] = heal[n].content /\ newest[n][k] = None
  BY <1>0, <1>1, <1>2, HoldersThere
<1>4. obj[n][k] # None
  BY <1>g, <1>3, NoneAssumption
<1>5. /\ heal'[n] = None /\ \A p \in Nodes : p # n => heal'[p] = heal[p]
  BY <1>0, <1>g
<1>6. hold'[n][k] = "free" /\ \A p \in Nodes, q \in Keys : ~ (p = n /\ q = k) => hold'[p][q] = hold[p][q]
  <2>1. hold \in [Nodes -> [Keys -> {"free", "local", "remote", "restore"}]]
    BY <1>0 DEF TypeOK
  <2> QED BY <1>0, <1>1, <2>1
<1>7. \/ UNCHANGED <<ver, newest>> /\ ver[n][k] = None
      \/ /\ heal[n].version # None
         /\ ver'[n][k].deleted = FALSE /\ newest'[n][k] = heal[n].version
         /\ \A p \in Nodes, q \in Keys : ~ (p = n /\ q = k) =>
                ver'[p][q] = ver[p][q] /\ newest'[p][q] = newest[p][q]
  <2>1. ver[n][k] = None
    BY <1>0, <1>3 DEF NewestKept
  <2>2. CASE UNCHANGED <<ver, newest>>
    BY <2>1, <2>2
  <2>3. CASE heal[n].version # None /\ Store(n, k, heal[n].version, FALSE)
    <3>1. PICK v \in Versions : v = heal[n].version /\ Store(n, k, v, FALSE)
      BY <1>g, <2>3
    <3>2. PICK d \in BOOLEAN : d = FALSE /\ Store(n, k, v, d)
      BY <3>1
    <3>3. StoredAt(n, k, v, d)
      <4>1. Newer(n, k, v)
        BY <1>3 DEF Newer
      <4> QED BY <1>0, <3>2, <4>1, StoreNewer
    <3> QED BY <2>3, <3>1, <3>2, <3>3 DEF StoredAt
  <2> QED BY <1>1, <2>2, <2>3 DEF HealRecord
<1>8. EventsKept
  BY <1>0 DEF EventsKept
<1>9. NewestGrows
  <2> SUFFICES ASSUME NEW p \in Nodes, NEW q \in Keys, newest[p][q] # None
               PROVE  newest'[p][q] # None /\ AtLeast(newest'[p][q], newest[p][q])
    BY DEF NewestGrows
  <2>1. newest'[p][q] = newest[p][q]
    BY <1>3, <1>7
  <2>2. ~ Less(newest[p][q], newest[p][q])
    BY <1>0, VersionTypes, Order
  <2> QED BY <2>1, <2>2 DEF AtLeast
<1>10. DoneWith'
  BY <1>0, <1>8, <1>9, DoneSame
<1>k. \A i : Key(i)' = Key(i) /\ Version(i)' = Version(i)
  BY <1>0 DEF Key, Version
<1>11. PushedContent'
  BY <1>0, <1>k DEF Described, PushedContent
<1>12. HeldBySomeone'
  <2>1. ASSUME NEW p \in Nodes, NEW q \in Keys, hold'[p][q] = "remote"
        PROVE  \E x \in net : Held(x) /\ x.to = p /\ events[x.id].key = q
    <3>1. hold[p][q] = "remote"
      BY <1>6, <2>1
    <3>2. Described
      BY <1>0
    <3> QED BY <3>1, <3>2, HoldersThere DEF Key
  <2>2. ASSUME NEW p \in Nodes, NEW q \in Keys, hold'[p][q] = "restore"
        PROVE  /\ heal'[p] # None /\ heal'[p].stage = "committed" /\ heal'[p].key = q
               /\ obj[p][q] = heal'[p].content /\ newest'[p][q] = None
    <3>1. hold[p][q] = "restore" /\ ~ (p = n /\ q = k)
      BY <1>6, <2>2
    <3>2. /\ heal[p] # None /\ heal[p].stage = "committed" /\ heal[p].key = q
          /\ obj[p][q] = heal[p].content /\ newest[p][q] = None
      BY <1>0, <3>1, HoldersThere
    <3>3. p # n
      BY <1>1, <3>1, <3>2
    <3> QED BY <1>5, <1>7, <3>1, <3>2, <3>3
  <2> QED BY <1>0, <2>1, <2>2, HeldNext
<1>13. Tombstones'
  <2> SUFFICES ASSUME NEW p \in Nodes, NEW q \in Keys, ver'[p][q] # None,
                      hold'[p][q] = "free" \/ \E x \in net : x.stage = "checked" /\ x.to = p /\ Key(x.id) = q
               PROVE  ver'[p][q].deleted <=> obj[p][q] = None
    BY <1>0, <1>k DEF Tombstones
  <2>1. CASE p = n /\ q = k
    BY <1>4, <1>7, <2>1
  <2>2. CASE ~ (p = n /\ q = k)
    <3>1. ver'[p][q] = ver[p][q] /\ hold'[p][q] = hold[p][q]
      BY <1>6, <1>7, <2>2
    <3> QED BY <1>0, <3>1 DEF Described, Tombstones
  <2> QED BY <2>1, <2>2
<1>14. LocalsKept
  <2>1. \A p \in Nodes, q \in Keys : hold[p][q] = "local" => hold'[p][q] = "local"
    BY <1>2, <1>6
  <2> QED BY <2>1 DEF LocalsKept
<1>15. ObjectsMove
  BY <1>0 DEF ObjectsMove
<1>16. NewestLabels' /\ CopyLabels'
  <2>1. ASSUME heal[n].version # None
        PROVE  MadeNext(k, heal[n].version) /\ LabelsNext(k, heal[n].version, obj'[n][k])
    <3> DEFINE v == heal[n].version
    <3>1. /\ \E i \in Ids : events[i] # None /\ Key(i) = k /\ Version(i) = v
          /\ Labels(k, v, heal[n].content)
      BY <1>0, <1>1, <2>1 DEF Described, CopyLabels, CopyAt
    <3>2. v.at \in Nat /\ v.origin \in Nat
      BY <1>g, <2>1, InVersions
    <3>3. MadeNext(k, v)
      BY <1>0, <3>1 DEF MadeNext, Key, Version
    <3>4. LabelsNext(k, v, heal[n].content)
      BY <1>0, <1>8, <1>9, <1>14, <3>1, <3>2, LabelsKept
    <3> QED BY <1>0, <1>3, <3>3, <3>4
  <2>2. ASSUME NEW p \in Nodes, NEW q \in Keys
        PROVE  \/ newest'[p][q] = newest[p][q]
               \/ MadeNext(q, newest'[p][q]) /\ LabelsNext(q, newest'[p][q], obj'[p][q])
    BY <1>7, <2>1
  <2>3. \A p \in Nodes : heal'[p] = None \/ heal'[p] = heal[p]
    BY <1>5
  <2> QED BY <1>8, <1>9, <1>14, <1>15, <2>2, <2>3, LabelsForward
<1>17. OwnChanges' /\ Untouched'
  <2>1. ASSUME NEW p \in Nodes, NEW q \in Keys, NoChange(q)
        PROVE  \/ hold'[p][q] = "local" \/ obj'[p][q] = Stored
               \/ hold[p][q] # "local" /\ obj'[p][q] = obj[p][q]
    BY <1>0, <1>2, <1>6
  <2>2. ASSUME NEW p \in Nodes, heal'[p] # None
        PROVE  heal[p] # None /\ heal'[p].key = heal[p].key /\ heal'[p].content = heal[p].content
    BY <1>5, <2>2
  <2> QED BY <1>0, <1>9, <2>1, <2>2, ChangesKept
<1> QED BY <1>10, <1>11, <1>12, <1>13, <1>16, <1>17 DEF DescribedInv, Described

\* Before any change there is nothing to describe.
LEMMA InitDescribed ==
  ASSUME Init
  PROVE  DescribedInv
<1>1. PushedContent /\ HeldBySomeone /\ Tombstones
  BY DEF Init, PushedContent, HeldBySomeone, Tombstones
<1>2. NewestLabels /\ CopyLabels
  BY DEF Init, NewestLabels, CopyLabels
<1>3. OwnChanges /\ DoneWith
  BY DEF Init, OwnChanges, DoneWith
<1>4. Untouched
  BY DEF Init, Untouched
<1> QED BY <1>1, <1>2, <1>3, <1>4 DEF DescribedInv, Described

\* A step that changes nothing keeps it so.
LEMMA StutterDescribed ==
  ASSUME Calm, UNCHANGED vars
  PROVE  DescribedInv'
<1>1. UNCHANGED <<obj, ver, hold, newest, events, status, delivered, push, net, heal>>
  BY DEF vars
<1>2. EventsKept /\ NewestGrows /\ Described /\ OwnChanges /\ Untouched
  BY <1>1, CalmFacts, GrowsUnchanged DEF EventsKept, Calm
<1>3. NetQuiet
  BY <1>1 DEF NetQuiet
<1>4. DoneWith'
  BY <1>1, <1>2, DoneSame
<1> QED BY <1>1, <1>2, <1>3, <1>4, QuietDescribed, QuietChanges DEF DescribedInv

\* Every step of the cluster keeps what versions say of objects.
LEMMA NextDescribed ==
  ASSUME ReplInv, DescribedInv, [Next]_vars
  PROVE  DescribedInv'
<1> SUFFICES ASSUME CommitsRecorded PROVE DescribedInv'
  BY DEF DescribedInv
<1>0. Calm
  BY NextInv DEF Calm, DescribedInv
<1>c. "record" \notin Faults /\ MaxCrashes = 0 /\ "backfill" \notin Ops /\ TypeOK /\ Unused
  BY <1>0, CalmFacts
<1>1. CASE Change
  <2>1. ASSUME NEW n \in Nodes, NEW k \in Keys, LocalRecordFail(n, k) PROVE FALSE
    BY <1>c, <2>1 DEF LocalRecordFail
  <2> QED BY <1>0, <1>1, <2>1, LocalCommitDescribed, LocalRecordDescribed DEF Change
<1>2. CASE Deliver
  BY <1>0, <1>2, DeliverDescribed DEF Deliver
<1>3. CASE Apply
  BY <1>0, <1>3, PushDescribed, ApplyCheckDescribed, ApplyCommitDescribed, ApplyRecordDescribed,
     ApplyFailDescribed DEF Apply
<1>4. CASE Repair
  <2>1. ASSUME NEW n \in Nodes, NEW k \in Keys, NEW t \in Times, BackfillRead(n, k, t) PROVE FALSE
    BY <1>c, <2>1 DEF BackfillRead
  <2>2. ASSUME NEW n \in Nodes, NEW i \in Ids, BackfillEnqueue(n, i) PROVE FALSE
    BY <1>c, <2>2 DEF BackfillEnqueue, Unused
  <2> QED BY <1>0, <1>4, <2>1, <2>2, HealOpenDescribed, HealVersionDescribed, HealRecheckDescribed,
             HealCommitDescribed, HealRecordDescribed DEF Repair
<1>5. CASE Prune
  BY <1>0, <1>5, PruneEventDescribed, PruneTombstoneDescribed DEF Prune
<1>6. CASE \E n \in Nodes : Crash(n)
  <2>1. crashes \in Nat
    BY <1>c DEF TypeOK
  <2> QED BY <1>c, <1>6, <2>1 DEF Crash
<1>7. CASE UNCHANGED vars
  BY <1>0, <1>7, StutterDescribed
<1> QED BY <1>1, <1>2, <1>3, <1>4, <1>5, <1>6, <1>7 DEF Next

\* ReplInv and DescribedInv hold in every reachable state.
THEOREM DescribedInductive == Spec => [](ReplInv /\ DescribedInv)
<1>1. Init => ReplInv /\ DescribedInv
  BY InitInv, InitDescribed
<1>2. (ReplInv /\ DescribedInv) /\ [Next]_vars => (ReplInv /\ DescribedInv)'
  BY NextInv, NextDescribed
<1> QED BY <1>1, <1>2, PTL DEF Spec

\* Where every committed change is recorded (no crash and no failure between the
\* commit and hook.after), a free key's version is a tombstone exactly when there is
\* no object, and otherwise the version of that content or of one about to go.
THEOREM VersionsDescribe == ASSUME CommitsRecorded PROVE Spec => []VersionDescribesObject
<1>1. ReplInv /\ DescribedInv => VersionDescribesObject
  <2> SUFFICES ASSUME ReplInv, DescribedInv, NEW n \in Nodes, NEW k \in Keys,
                      hold[n][k] = "free", ver[n][k] # None
               PROVE  /\ ver[n][k].deleted <=> obj[n][k] = None
                      /\ \/ Announced(k, EventVersion(ver[n][k]), obj[n][k])
                         \/ NewerChange(k, ver[n][k])
    BY DEF VersionDescribesObject
  <2>0. TypeOK /\ NewestKept /\ NeverGoesBack /\ Described
    BY DEF ReplInv, Durable, DescribedInv, Forward, CommitsRecorded
  <2>1. ver[n][k].deleted <=> obj[n][k] = None
    BY <2>0 DEF Described, Tombstones
  <2>2. newest[n][k] # None /\ EventVersion(ver[n][k]) = newest[n][k]
    BY <2>0, VersionIsNewest
  <2>3. Labels(k, EventVersion(ver[n][k]), obj[n][k])
    BY <2>0, <2>2 DEF Described, NewestLabels
  <2>4. EventVersion(ver[n][k]).at = ver[n][k].at /\ EventVersion(ver[n][k]).origin = ver[n][k].origin
    BY DEF EventVersion
  <2>5. NewerChange(k, EventVersion(ver[n][k])) => NewerChange(k, ver[n][k])
    BY <2>4 DEF NewerChange, Less, AtLeast
  <2> QED BY <2>1, <2>3, <2>5 DEF Labels
<1> QED BY <1>1, DescribedInductive, PTL

\* A set of numbers has a least one.
LEMMA LeastNat ==
  ASSUME NEW T, T \subseteq Nat, T # {}
  PROVE  \E x \in T : \A y \in T : x <= y
<1> DEFINE R == OpToRel(<, Nat)
<1>1. IsWellFoundedOn(R, Nat)
  BY NatLessThanWellFounded
<1>2. \A a, b \in Nat : a < b => <<a, b>> \in R
  BY DEF OpToRel
<1> HIDE DEF R
<1>3. PICK x \in T : \A y \in T : ~ (<<y, x>> \in R)
  BY <1>1, WFMin
<1>4. \A y \in T : ~ (y < x)
  BY <1>2, <1>3
<1> QED BY <1>4

\* Among finitely many nodes that have recorded a version, one has the newest.
LEMMA NewestNode ==
  ASSUME TypeOK, IsFiniteSet(Nodes), NEW k \in Keys, NEW a \in Nodes, newest[a][k] # None
  PROVE  \E n \in Nodes : /\ newest[n][k] # None
                          /\ \A m \in Nodes : newest[m][k] # None => ~ Less(newest[n][k], newest[m][k])
<1> DEFINE S == {n \in Nodes : newest[n][k] # None}
           Above(n) == {m \in S : Less(newest[n][k], newest[m][k])}
           T == {Cardinality(Above(n)) : n \in S}
<1>1. \A n \in S : /\ IsFiniteSet(Above(n)) /\ Cardinality(Above(n)) \in Nat
                   /\ newest[n][k].at \in Nat /\ newest[n][k].origin \in Nat
  <2> SUFFICES ASSUME NEW n \in S
               PROVE  /\ IsFiniteSet(Above(n)) /\ Cardinality(Above(n)) \in Nat
                      /\ newest[n][k].at \in Nat /\ newest[n][k].origin \in Nat
    OBVIOUS
  <2>1. Above(n) \in SUBSET Nodes
    OBVIOUS
  <2>2. IsFiniteSet(Above(n))
    BY <2>1, FS_Subset
  <2>3. Cardinality(Above(n)) \in Nat
    BY <2>2, FS_CardinalityType
  <2>4. newest[n][k].at \in Nat /\ newest[n][k].origin \in Nat
    BY VersionTypes
  <2> QED BY <2>2, <2>3, <2>4
<1>2. T \subseteq Nat /\ T # {}
  BY <1>1, ZenonT(30)
<1>3. PICK x \in T : \A y \in T : x <= y
  <2> HIDE DEF T
  <2> QED BY <1>2, LeastNat
<1>4. PICK n \in S : x = Cardinality(Above(n))
  BY <1>3
<1>5. ASSUME NEW m \in S, Less(newest[n][k], newest[m][k]) PROVE FALSE
  <2>1. Above(m) \subseteq Above(n)
    <3>1. ASSUME NEW p \in S, Less(newest[m][k], newest[p][k]) PROVE Less(newest[n][k], newest[p][k])
      BY <1>1, <1>5, <3>1, Order
    <3> QED BY <3>1
  <2>2. m \in Above(n) /\ m \notin Above(m)
    BY <1>1, <1>5, Order
  <2>3. Cardinality(Above(m)) <= Cardinality(Above(n)) /\ Cardinality(Above(m)) # Cardinality(Above(n))
    <3>1. Above(m) # Above(n)
      BY <2>2
    <3>2. IsFiniteSet(Above(n)) /\ Above(m) \in SUBSET Above(n)
      BY <1>1, <2>1
    <3> HIDE DEF Above
    <3> QED BY <3>1, <3>2, FS_Subset
  <2>4. Cardinality(Above(n)) <= Cardinality(Above(m))
    <3>1. Cardinality(Above(m)) \in T
      OBVIOUS
    <3> HIDE DEF T, Above
    <3> QED BY <1>3, <1>4, <3>1
  <2>5. Cardinality(Above(n)) \in Nat /\ Cardinality(Above(m)) \in Nat
    BY <1>1
  <2> HIDE DEF Above
  <2> QED BY <2>3, <2>4, <2>5
<1> QED BY <1>5

\* With a copy on every node, an event that has enough peers has all of them.
LEMMA EnoughIsAll ==
  ASSUME IsFiniteSet(Nodes), Cardinality(Nodes) <= Factor, Needed # 0, NEW i \in Ids, NEW o \in Nodes,
         delivered[i] \subseteq Peers(o), Enough(i)
  PROVE  delivered[i] = Peers(o)
<1>1. IsFiniteSet(Peers(o)) /\ Cardinality(Peers(o)) = Cardinality(Nodes) - 1
  BY FS_RemoveElement DEF Peers
<1>2. Cardinality(Nodes) \in Nat
  BY FS_CardinalityType
<1>3. IsFiniteSet(delivered[i]) /\ Cardinality(delivered[i]) <= Cardinality(Peers(o))
  BY <1>1, FS_Subset
<1>4. Cardinality(delivered[i]) \in Nat
  BY <1>3, FS_CardinalityType
<1>5. Cardinality(delivered[i]) = Cardinality(Peers(o))
  BY <1>1, <1>2, <1>3, <1>4 DEF Enough, Needed
<1> QED BY <1>1, <1>5, FS_Subset

\* One node, or none, agrees with itself.
LEMMA NoPeers ==
  ASSUME IsFiniteSet(Nodes), Cardinality(Nodes) <= Factor, Needed = 0
  PROVE  \A n, m \in Nodes : n = m
<1>1. Cardinality(Nodes) \in Nat /\ Cardinality(Nodes) <= 1
  BY FS_CardinalityType DEF Needed
<1> SUFFICES ASSUME NEW n \in Nodes, NEW m \in Nodes, n # m PROVE FALSE
  OBVIOUS
<1>2. IsFiniteSet(Nodes \ {n}) /\ Cardinality(Nodes \ {n}) = Cardinality(Nodes) - 1
  BY FS_RemoveElement
<1>3. IsFiniteSet((Nodes \ {n}) \ {m}) /\ Cardinality((Nodes \ {n}) \ {m}) = Cardinality(Nodes \ {n}) - 1
  BY <1>2, FS_RemoveElement
<1>4. Cardinality((Nodes \ {n}) \ {m}) \in Nat
  BY <1>3, FS_CardinalityType
<1> QED BY <1>1, <1>2, <1>3, <1>4

\* Once nothing is on its way, the node with the newest version of a key has
\* spread it to all: every node holds what the event of that version announced.
LEMMA SettledAgrees ==
  ASSUME ReplInv, DescribedInv, CommitsRecorded, IsFiniteSet(Nodes), Cardinality(Nodes) <= Factor, Settled,
         NEW k \in Keys, NEW a \in Nodes, NEW b \in Nodes
  PROVE  obj[a][k] = obj[b][k]
<1>0. TypeOK /\ EventsMade /\ DeliveredIsDurable /\ Described /\ OwnChanges /\ DoneWith /\ Untouched
  BY DEF ReplInv, Durable, DescribedInv
<1>1. CASE NoChange(k)
  BY <1>0, <1>1 DEF Untouched, Settled
<1>2. CASE Needed = 0
  BY <1>2, NoPeers
<1>3. ASSUME NEW i \in Ids, events[i] # None, Key(i) = k, Needed # 0
      PROVE  obj[a][k] = obj[b][k]
  <2>1. events[i].origin \in Nodes /\ newest[events[i].origin][k] # None
    BY <1>0, <1>3, EventTypes DEF OwnChanges, Recorded
  <2>2. PICK n \in Nodes : /\ newest[n][k] # None
                           /\ \A m \in Nodes : newest[m][k] # None => ~ Less(newest[n][k], newest[m][k])
    BY <1>0, <2>1, NewestNode
  <2>3. PICK v : v = newest[n][k]
    OBVIOUS
  <2>4. v.at \in Nat /\ v.origin \in Nat /\ v \in Versions
    BY <1>0, <2>2, <2>3, VersionTypes
  <2>5. PICK j \in Ids : events[j] # None /\ Key(j) = k /\ Version(j) = v
    BY <1>0, <2>2, <2>3 DEF Described, NewestLabels
  <2>6. PICK o \in Nodes : o = events[j].origin
    BY <1>0, <2>5, EventTypes
  <2>7. newest[o][k] # None /\ ~ Less(newest[o][k], v)
    BY <1>0, <2>5, <2>6 DEF OwnChanges, Recorded, AtLeast
  <2>8. ~ Less(v, newest[o][k])
    BY <2>2, <2>3, <2>7
  <2>9. Enough(j)
    <3>1. status[j] \notin {"pending", "failed", "dead_letter"}
      BY DEF Settled, InFlight
    <3> QED BY <1>0, <1>3, <2>5, <2>6, <2>8, <3>1 DEF DoneWith
  <2>10. delivered[j] = Peers(o)
    <3>1. delivered[j] \subseteq Peers(o)
      BY <1>0, <2>5, <2>6 DEF DoneWith
    <3> QED BY <1>3, <2>9, <3>1, EnoughIsAll
  <2>11. ASSUME NEW p \in Nodes PROVE newest[p][k] # None /\ ~ Less(newest[p][k], v)
    <3>1. CASE p = o
      BY <2>7, <3>1
    <3>2. CASE p # o
      <4>1. p \in delivered[j]
        BY <2>10, <3>2 DEF Peers
      <4> QED BY <1>0, <2>5, <4>1 DEF DeliveredIsDurable, AtLeast
    <3> QED BY <3>1, <3>2
  <2>12. ASSUME NEW p \in Nodes PROVE newest[p][k] = v
    <3>1. newest[p][k] # None /\ ~ Less(newest[p][k], v) /\ ~ Less(v, newest[p][k])
      BY <2>2, <2>3, <2>11
    <3>2. newest[p][k].at \in Nat /\ newest[p][k].origin \in Nat /\ newest[p][k] \in Versions
      BY <1>0, <3>1, VersionTypes
    <3>3. newest[p][k].at = v.at /\ newest[p][k].origin = v.origin
      BY <2>4, <3>1, <3>2 DEF Less
    <3>4. newest[p][k] = [at |-> newest[p][k].at, origin |-> newest[p][k].origin]
          /\ v = [at |-> v.at, origin |-> v.origin]
      BY <2>4, <3>2 DEF Versions
    <3> QED BY <3>3, <3>4
  <2>13. ~ NewerChange(k, v)
    <3>1. ASSUME NEW x \in Ids, events[x] # None, Key(x) = k, Less(v, Version(x)) PROVE FALSE
      <4>1. PICK p \in Nodes : p = events[x].origin /\ Recorded(p, x)
        BY <1>0, <3>1, EventTypes DEF OwnChanges
      <4>2. ~ Less(v, Version(x))
        BY <2>12, <3>1, <4>1 DEF Recorded, AtLeast
      <4> QED BY <3>1, <4>2
    <3>2. \A q \in Nodes : hold[q][k] # "local"
      BY DEF Settled
    <3> QED BY <3>1, <3>2 DEF NewerChange
  <2>14. ASSUME NEW p \in Nodes PROVE obj[p][k] = events[j].etag
    <3>1. Labels(k, v, obj[p][k])
      <4>1. newest[p][k] = v /\ newest[p][k] # None
        BY <2>11, <2>12
      <4> QED BY <1>0, <4>1 DEF Described, NewestLabels
    <3>2. PICK x \in Ids : events[x] # None /\ Key(x) = k /\ Version(x) = v /\ events[x].etag = obj[p][k]
      BY <2>13, <3>1 DEF Labels, Announced
    <3>3. x = j
      BY <1>0, <2>5, <3>2 DEF OwnChanges
    <3> QED BY <3>2, <3>3
  <2> QED BY <2>14
<1> QED BY <1>1, <1>2, <1>3 DEF NoChange

\* With a replication factor of at least the number of nodes, and every committed
\* change recorded, nodes that write the same keys hold the same objects whenever
\* every queued change has been delivered or superseded, whatever pushes were lost,
\* delayed or repeated, restores made and tombstones pruned on the way.
THEOREM NodesConverge ==
  ASSUME CommitsRecorded, IsFiniteSet(Nodes), Cardinality(Nodes) <= Factor
  PROVE  Spec => []Convergence
<1>1. ReplInv /\ DescribedInv => Convergence
  BY SettledAgrees DEF Convergence, Agree
<1> QED BY <1>1, DescribedInductive, PTL

=============================================================================
