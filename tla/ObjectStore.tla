---------------------------- MODULE ObjectStore ----------------------------
(***************************************************************************)
(* The object write path of the storage engine: what a PUT, COPY, DELETE or *)
(* GET does to an object's metadata row, its blob files and the overwrite   *)
(* journal, step by step, with the background jobs that remove rows and     *)
(* blobs (purge of soft-deleted objects, orphan GC, reconcile, purge of     *)
(* stale scratch files), process crashes, and the recovery at engine start. *)
(*                                                                          *)
(* One variable per thing that survives a crash: `meta` is the metadata     *)
(* table, `final` and `legacy` are the blob files under the current and the *)
(* legacy path of a key, `prev` and `swap` are the `.tmp/{id}.prev` backups *)
(* and `.tmp/{id}.swap` intents.  A blob's content and the etag of the      *)
(* upload it came from are the same value: the etag is its digest.          *)
(***************************************************************************)
EXTENDS Naturals, FiniteSets

CONSTANTS
    Procs,        \* request handlers and background jobs running concurrently
    Keys,         \* (bucket, key) pairs
    Stripe,       \* the lock stripe of a key: a function from Keys to Nat
    Etags,        \* contents, identified by their digest
    SwapIds,      \* the uuids that name a swap's `.prev` and `.swap` files
    LegacyKeys,   \* keys whose object was written by an older on-disk layout
    Ops,          \* the kinds of operation a run exercises
    Conds,        \* the preconditions its requests carry
    SoftDelete,   \* soft_delete_ttl_secs > 0
    DropBlob,     \* soft_delete_drop_blob
    Faults,       \* the kinds of I/O failure that may happen
    MaxFaults,    \* bound: how many I/O failures happen
    MaxCrashes,   \* bound: how many times the process dies
    None          \* no row, no file, no value

ClientOps == {"put", "copy", "delete", "get"}
JobOps == {"purge", "orphan", "stale"}
FaultKinds == {"backup", "intent", "rename", "upsert", "restore", "unlink", "release",
               "reread"}
Stripes == {Stripe[k] : k \in Keys}
EtagOrNone == Etags \cup {None}
\* A row of the metadata table; `deleted` stands for deleted_at: not set, set,
\* or set longer ago than the soft-delete TTL.
Rows == [etag : Etags, deleted : {"no", "soft", "expired"}]
Torn == [key |-> None, new |-> None, old |-> None]
Intents == [key : Keys, new : Etags, old : EtagOrNone] \cup {Torn}
\* What a request may demand of the current version (None: no such object):
\* If-None-Match: *, If-Match: *, If-Match: <etag>, or nothing.
Conditions == {EtagOrNone, {None}, Etags} \cup {{e} : e \in Etags}
Requests ==
    [op : Ops, key : Keys, src : Keys, etag : EtagOrNone, cond : Conds \cup {EtagOrNone}]

ASSUME ConstantsAssumption ==
    /\ Stripe \in [Keys -> Nat]
    /\ LegacyKeys \subseteq Keys
    /\ Ops \subseteq ClientOps \cup JobOps
    /\ Conds \subseteq Conditions
    /\ Faults \subseteq FaultKinds
    /\ SoftDelete \in BOOLEAN
    /\ DropBlob \in BOOLEAN
    /\ MaxFaults \in Nat
    /\ MaxCrashes \in Nat

ASSUME NoneAssumption ==
    None \notin Etags \cup Procs \cup SwapIds \cup Keys \cup Rows \cup Intents \cup Requests

VARIABLES
    meta,      \* Keys -> a row, or None
    final,     \* Keys -> content of the file at the current blob path
    legacy,    \* Keys -> content of the file at a fallback path
    prev,      \* SwapIds -> content of `.tmp/{id}.prev`
    swap,      \* SwapIds -> the intent in `.tmp/{id}.swap`
    writer,    \* Stripes -> the holder of the stripe's write lock
    readers,   \* Stripes -> the holders of its read lock
    phase,     \* "recovering" while the engine starts, then "up"
    entry,     \* the journal entry recovery is working on, or None
    step,      \* and what it does next with it
    pc,        \* Procs -> where the handler is
    req,       \* Procs -> what it was asked for
    need,      \* Procs -> the stripes lock_many has still to take
    row,       \* Procs -> the etag read from the active row under the lock
    tag,       \* Procs -> the etag its metadata commit will write
    bytes,     \* Procs -> content of its staged file; of the file a GET opened
    sid,       \* Procs -> the id of its backup and intent, None without a backup
    res,       \* Procs -> its outcome so far
    faults,    \* I/O failures so far
    crashes    \* crashes so far

disk == <<meta, final, legacy, prev, swap>>
journal == <<prev, swap>>
locks == <<writer, readers, need>>
startup == <<phase, entry, step>>
request == <<req, row, tag, bytes, sid>>
counters == <<faults, crashes>>
vars == <<disk, locks, startup, pc, request, res, counters>>

Live(k) == meta[k] # None /\ meta[k].deleted = "no"
\* The etag of the active row, as try_fetch_active_metadata returns it.
Active(k) == IF Live(k) THEN meta[k].etag ELSE None
\* The file a reader opens: the current path first, then the fallback.
Resolve(k) == IF final[k] # None THEN final[k] ELSE legacy[k]

Fault(kind) == kind \in Faults /\ faults < MaxFaults /\ faults' = faults + 1
NoFault == UNCHANGED faults

-----------------------------------------------------------------------------
(* Requests and jobs arrive.                                                *)

\* Mutant of Begin: a COPY locks its destination only.
BeginOneLock(p, r, at) ==
    /\ phase = "up"
    /\ pc[p] = "idle"
    /\ r \in Requests
    /\ req' = [req EXCEPT ![p] = r]
    /\ pc' = [pc EXCEPT ![p] = at]
    /\ need' = [need EXCEPT ![p] = {Stripe[r.key]}]
    /\ UNCHANGED <<disk, writer, readers, startup, sid, row, res, counters>>

Begin(p, r, at) ==
    /\ phase = "up"
    /\ pc[p] = "idle"
    /\ r \in Requests
    /\ req' = [req EXCEPT ![p] = r]
    /\ pc' = [pc EXCEPT ![p] = at]
    /\ need' = [need EXCEPT ![p] = {Stripe[r.key], Stripe[r.src]}]
    /\ UNCHANGED <<disk, writer, readers, startup, sid, row, res, counters>>

\* The body is received and encoded into a staging file before any lock.
PutBegin(p) ==
    \E k \in Keys, e \in Etags, c \in Conds :
        /\ Begin(p, [op |-> "put", key |-> k, src |-> k, etag |-> e, cond |-> c], "lock")
        /\ tag' = [tag EXCEPT ![p] = e]
        /\ bytes' = [bytes EXCEPT ![p] = e]

CopyBegin(p) ==
    \E k, s \in Keys, c \in Conds :
        /\ Begin(p, [op |-> "copy", key |-> k, src |-> s, etag |-> None, cond |-> c], "lock")
        /\ UNCHANGED <<tag, bytes>>

DeleteBegin(p) ==
    \E k \in Keys, c \in Conds \ {{None}} :
        /\ Begin(p, [op |-> "delete", key |-> k, src |-> k, etag |-> None, cond |-> c], "lock")
        /\ UNCHANGED <<tag, bytes>>

GetBegin(p) ==
    \E k \in Keys :
        /\ Begin(p, [op |-> "get", key |-> k, src |-> k, etag |-> None, cond |-> EtagOrNone], "rlock")
        /\ UNCHANGED <<tag, bytes>>

JobRequest(op, k) == [op |-> op, key |-> k, src |-> k, etag |-> None, cond |-> EtagOrNone]

\* list_soft_deleted_before returned the key.
PurgeBegin(p) ==
    \E k \in Keys :
        /\ SoftDelete
        /\ meta[k] # None /\ meta[k].deleted = "expired"
        /\ Begin(p, JobRequest("purge", k), "lock")
        /\ UNCHANGED <<tag, bytes>>

\* The key is not among the active rows the scan snapshotted.
OrphanBegin(p) ==
    \E k \in Keys :
        /\ ~Live(k)
        /\ Begin(p, JobRequest("orphan", k), "lock")
        /\ UNCHANGED <<tag, bytes>>

\* The key is among them: reconcile looks for its blob, without a lock.
StaleBegin(p) ==
    \E k \in Keys :
        /\ Live(k)
        /\ Begin(p, JobRequest("stale", k), "scan")
        /\ UNCHANGED <<tag, bytes>>

\* A handler ends: its local state is gone.
Idle(p) ==
    /\ pc' = [pc EXCEPT ![p] = "idle"]
    /\ req' = [req EXCEPT ![p] = None]
    /\ need' = [need EXCEPT ![p] = {}]
    /\ row' = [row EXCEPT ![p] = None]
    /\ tag' = [tag EXCEPT ![p] = None]
    /\ bytes' = [bytes EXCEPT ![p] = None]
    /\ sid' = [sid EXCEPT ![p] = None]
    /\ res' = [res EXCEPT ![p] = "none"]

StaleScan(p) ==
    /\ pc[p] = "scan"
    /\ IF Resolve(req[p].key) = None
       THEN pc' = [pc EXCEPT ![p] = "lock"] /\ UNCHANGED <<request, need, res>>
       ELSE Idle(p)
    /\ UNCHANGED <<disk, writer, readers, startup, counters>>

-----------------------------------------------------------------------------
(* Key locks: striped, several stripes in ascending order, released on drop. *)

\* Mutant of LockNext: the stripes are taken in any order.
LockAnyOrder(p) ==
    \E s \in need[p] :
        /\ pc[p] = "lock"
        /\ writer[s] = None /\ readers[s] = {}
        /\ writer' = [writer EXCEPT ![s] = p]
        /\ need' = [need EXCEPT ![p] = @ \ {s}]
        /\ pc' = [pc EXCEPT ![p] = IF need[p] = {s} THEN req[p].op ELSE "lock"]
        /\ UNCHANGED <<disk, readers, startup, request, res, counters>>

LockNext(p) ==
    \E s \in need[p] :
        /\ pc[p] = "lock"
        /\ \A t \in need[p] : s <= t
        /\ writer[s] = None /\ readers[s] = {}
        /\ writer' = [writer EXCEPT ![s] = p]
        /\ need' = [need EXCEPT ![p] = @ \ {s}]
        /\ pc' = [pc EXCEPT ![p] = IF need[p] = {s} THEN req[p].op ELSE "lock"]
        /\ UNCHANGED <<disk, readers, startup, request, res, counters>>

\* Mutant of ReadLock: a GET goes ahead without the lock.
ReadUnlocked(p) ==
    /\ pc[p] = "rlock"
    /\ need' = [need EXCEPT ![p] = {}]
    /\ pc' = [pc EXCEPT ![p] = "get"]
    /\ UNCHANGED <<disk, writer, readers, startup, request, res, counters>>

ReadLock(p) ==
    LET s == Stripe[req[p].key]
    IN  /\ pc[p] = "rlock"
        /\ writer[s] = None
        /\ readers' = [readers EXCEPT ![s] = @ \cup {p}]
        /\ need' = [need EXCEPT ![p] = {}]
        /\ pc' = [pc EXCEPT ![p] = "get"]
        /\ UNCHANGED <<disk, writer, startup, request, res, counters>>

\* The guards are dropped and the response goes out.
Return(p) ==
    /\ pc[p] = "done"
    /\ Idle(p)
    /\ writer' = [s \in Stripes |-> IF writer[s] = p THEN None ELSE writer[s]]
    /\ readers' = [s \in Stripes |-> readers[s] \ {p}]
    /\ UNCHANGED <<disk, startup, counters>>

Finish(p, outcome) ==
    /\ pc' = [pc EXCEPT ![p] = "done"]
    /\ res' = [res EXCEPT ![p] = outcome]

Goto(p, label) == pc' = [pc EXCEPT ![p] = label] /\ UNCHANGED res

-----------------------------------------------------------------------------
(* PUT and COPY: swap_in_staged, under the key lock.                        *)

\* COPY reads the source's row, and stages a hard link to its blob.
CopyRow(p) ==
    LET s == req[p].src
    IN  /\ pc[p] = "copy"
        /\ tag' = [tag EXCEPT ![p] = Active(s)]
        /\ IF Live(s) THEN Goto(p, "link") ELSE Finish(p, "err")
        /\ UNCHANGED <<disk, locks, startup, req, row, bytes, sid, counters>>

CopyLink(p) ==
    LET s == req[p].src
    IN  /\ pc[p] = "link"
        /\ bytes' = [bytes EXCEPT ![p] = Resolve(s)]
        /\ IF Resolve(s) # None THEN Goto(p, "put") ELSE Finish(p, "err")
        /\ UNCHANGED <<disk, locks, startup, req, row, tag, sid, counters>>

\* Mutant of SwapCheck: preconditions are not evaluated again under the lock.
SwapUnchecked(p) ==
    /\ pc[p] = "put"
    /\ row' = [row EXCEPT ![p] = Active(req[p].key)]
    /\ Goto(p, "backup")
    /\ UNCHANGED <<disk, locks, startup, req, tag, bytes, sid, counters>>

\* The preconditions see the version the swap will replace.  The write may also
\* be refused there by the commit hook or for lack of capacity.
SwapCheck(p) ==
    LET existing == Active(req[p].key)
    IN  /\ pc[p] = "put"
        /\ row' = [row EXCEPT ![p] = existing]
        /\ \/ existing \in req[p].cond /\ Goto(p, "backup")
           \/ Finish(p, "err")
        /\ UNCHANGED <<disk, locks, startup, req, tag, bytes, sid, counters>>

\* Mutant of Backup: an overwrite is neither backed up nor journaled.
NoBackup(p) ==
    /\ pc[p] = "backup"
    /\ Goto(p, "rename")
    /\ UNCHANGED <<disk, locks, startup, request, counters>>

\* A file at the current path is linked to `.tmp/{id}.prev` under a fresh id.
Backup(p) ==
    LET k == req[p].key
    IN  /\ pc[p] = "backup"
        /\ \/ /\ final[k] = None
              /\ Goto(p, "rename")
              /\ NoFault
              /\ UNCHANGED <<prev, sid>>
           \/ /\ final[k] # None
              /\ Fault("backup")
              /\ Finish(p, "err")
              /\ UNCHANGED <<prev, sid>>
           \/ /\ final[k] # None
              /\ \E i \in SwapIds :
                    /\ prev[i] = None /\ swap[i] = None
                    /\ \A q \in Procs : sid[q] # i
                    /\ prev' = [prev EXCEPT ![i] = final[k]]
                    /\ sid' = [sid EXCEPT ![p] = i]
              /\ Goto(p, "intent")
              /\ NoFault
        /\ UNCHANGED <<meta, final, legacy, swap, locks, startup, req, row, tag, bytes, crashes>>

\* The intent is first a torn file, then a whole one.
IntentOpen(p) ==
    /\ pc[p] = "intent"
    /\ swap' = [swap EXCEPT ![sid[p]] = Torn]
    /\ Goto(p, "journal")
    /\ UNCHANGED <<meta, final, legacy, prev, locks, startup, request, counters>>

\* Mutant of IntentWrite: the two etags are swapped.
IntentSwapped(p) ==
    /\ pc[p] = "journal"
    /\ swap' = [swap EXCEPT ![sid[p]] = [key |-> req[p].key, new |-> row[p], old |-> tag[p]]]
    /\ Goto(p, "rename")
    /\ UNCHANGED <<meta, final, legacy, prev, locks, startup, request, counters>>

IntentWrite(p) ==
    /\ pc[p] = "journal"
    /\ \/ /\ swap' = [swap EXCEPT ![sid[p]] =
                        [key |-> req[p].key, new |-> tag[p], old |-> row[p]]]
          /\ Goto(p, "rename")
          /\ NoFault
          /\ UNCHANGED prev
       \/ /\ Fault("intent")
          /\ swap' = [swap EXCEPT ![sid[p]] = None]
          /\ prev' = [prev EXCEPT ![sid[p]] = None]
          /\ Finish(p, "err")
    /\ UNCHANGED <<meta, final, legacy, locks, startup, request, crashes>>

\* The staged file becomes the blob.
Rename(p) ==
    LET k == req[p].key
    IN  /\ pc[p] = "rename"
        /\ \/ /\ final' = [final EXCEPT ![k] = bytes[p]]
              /\ Goto(p, "commit")
              /\ NoFault
           \/ /\ Fault("rename")
              /\ res' = [res EXCEPT ![p] = "err"]
              /\ pc' = [pc EXCEPT ![p] = IF sid[p] = None THEN "done" ELSE "dropprev"]
              /\ UNCHANGED final
        /\ UNCHANGED <<meta, legacy, journal, locks, startup, request, crashes>>

\* upsert_object: one statement, so the row is the old one or the new one.
Commit(p) ==
    LET k == req[p].key
    IN  /\ pc[p] = "commit"
        /\ \/ /\ meta' = [meta EXCEPT ![k] = [etag |-> tag[p], deleted |-> "no"]]
              /\ pc' = [pc EXCEPT ![p] = "dropold"]
              /\ res' = [res EXCEPT ![p] = "ok"]
              /\ NoFault
           \/ /\ Fault("upsert")
              /\ pc' = [pc EXCEPT ![p] = "restore"]
              /\ res' = [res EXCEPT ![p] = "err"]
              /\ UNCHANGED meta
        /\ UNCHANGED <<final, legacy, journal, locks, startup, request, crashes>>

\* A removal whose result is ignored.
Unlink(file, x) == \/ file' = [file EXCEPT ![x] = None] /\ NoFault
                   \/ file[x] # None /\ Fault("unlink") /\ UNCHANGED file

\* Committed: the fallback path of the previous version goes, then the backup.
DropOld(p) ==
    /\ pc[p] = "dropold"
    /\ Unlink(legacy, req[p].key)
    /\ Goto(p, IF sid[p] = None THEN "done" ELSE "dropprev")
    /\ UNCHANGED <<meta, final, journal, locks, startup, request, crashes>>

DropPrev(p) ==
    /\ pc[p] = "dropprev"
    /\ Unlink(prev, sid[p])
    /\ Goto(p, "dropswap")
    /\ UNCHANGED <<meta, final, legacy, swap, locks, startup, request, crashes>>

DropSwap(p) ==
    /\ pc[p] = "dropswap"
    /\ Unlink(swap, sid[p])
    /\ Goto(p, "done")
    /\ UNCHANGED <<meta, final, legacy, prev, locks, startup, request, crashes>>

\* Not committed: the backup goes back, or without one the new file goes away.
\* If that fails the journal stays for the next start.
Restore(p) ==
    LET k == req[p].key
    IN  /\ pc[p] = "restore"
        /\ \/ /\ final' = [final EXCEPT ![k] = IF sid[p] = None THEN None ELSE prev[sid[p]]]
              /\ prev' = IF sid[p] = None THEN prev ELSE [prev EXCEPT ![sid[p]] = None]
              /\ Goto(p, IF sid[p] = None THEN "done" ELSE "dropswap")
              /\ NoFault
           \/ /\ Fault("restore")
              /\ Goto(p, "done")
              /\ UNCHANGED <<final, prev>>
        /\ UNCHANGED <<meta, legacy, swap, locks, startup, request, crashes>>

-----------------------------------------------------------------------------
(* DELETE, and the jobs that remove rows and blobs, under the key lock.     *)

\* Deleting a missing object succeeds and changes nothing.
DeleteCheck(p) ==
    LET k == req[p].key
    IN  /\ pc[p] = "delete"
        /\ \/ Active(k) \in req[p].cond /\ Live(k) /\ Goto(p, "delrow")
           \/ Active(k) \in req[p].cond /\ ~Live(k) /\ Finish(p, "ok")
           \/ Finish(p, "err")
        /\ UNCHANGED <<disk, locks, startup, request, counters>>

\* The row goes first: hard delete, or soft delete with its blob kept or dropped.
DeleteRow(p) ==
    LET k == req[p].key
    IN  /\ pc[p] = "delrow"
        /\ \/ /\ meta' = [meta EXCEPT ![k] =
                            IF SoftDelete THEN [@ EXCEPT !.deleted = "soft"] ELSE None]
              /\ pc' = [pc EXCEPT ![p] = IF SoftDelete /\ ~DropBlob THEN "done" ELSE "dropfinal"]
              /\ res' = [res EXCEPT ![p] = "ok"]
              /\ NoFault
           \/ /\ Fault("upsert")
              /\ Finish(p, "err")
              /\ UNCHANGED meta
        /\ UNCHANGED <<final, legacy, journal, locks, startup, request, crashes>>

\* Every path that holds a blob of the key is removed; when its dedup refs cannot
\* be released, that file and the ones after it stay.
DropFinal(p) ==
    /\ pc[p] = "dropfinal"
    /\ \/ Unlink(final, req[p].key) /\ Goto(p, "droplegacy")
       \/ final[req[p].key] # None /\ Fault("release") /\ UNCHANGED final /\ Goto(p, "done")
    /\ UNCHANGED <<meta, legacy, journal, locks, startup, request, crashes>>

DropLegacy(p) ==
    /\ pc[p] = "droplegacy"
    /\ Unlink(legacy, req[p].key)
    /\ Goto(p, "done")
    /\ UNCHANGED <<meta, final, journal, locks, startup, request, crashes>>

\* purge_soft_deleted_row re-checks: the key may have been written again.
PurgeRow(p) ==
    LET k == req[p].key
    IN  /\ pc[p] = "purge"
        /\ IF meta[k] # None /\ meta[k].deleted = "expired"
           THEN /\ meta' = [meta EXCEPT ![k] = None]
                /\ Goto(p, IF DropBlob THEN "done" ELSE "dropfinal")
           ELSE Goto(p, "done") /\ UNCHANGED meta
        /\ UNCHANGED <<final, legacy, journal, locks, startup, request, counters>>

\* So does the orphan GC: an upload may have committed since the snapshot.
OrphanCheck(p) ==
    /\ pc[p] = "orphan"
    /\ Goto(p, IF Live(req[p].key) THEN "done" ELSE "dropfinal")
    /\ UNCHANGED <<disk, locks, startup, request, counters>>

\* Mutant of StaleRow: the blob is not looked for again under the lock.
StaleUnchecked(p) ==
    LET k == req[p].key
    IN  /\ pc[p] = "stale"
        /\ Goto(p, "done")
        /\ meta' = IF Live(k) THEN [meta EXCEPT ![k] = None] ELSE meta
        /\ UNCHANGED <<final, legacy, journal, locks, startup, request, counters>>

\* And reconcile, before it deletes a row whose blob is missing.
StaleRow(p) ==
    LET k == req[p].key
    IN  /\ pc[p] = "stale"
        /\ Goto(p, "done")
        /\ meta' = IF Resolve(k) = None /\ Live(k) THEN [meta EXCEPT ![k] = None] ELSE meta
        /\ UNCHANGED <<final, legacy, journal, locks, startup, request, counters>>

\* purge_stale_tmp_files: a backup no intent names, older than any request.
PurgeTmp ==
    \E i \in SwapIds :
        /\ phase = "up"
        /\ prev[i] # None /\ swap[i] = None
        /\ \A p \in Procs : sid[p] # i
        /\ prev' = [prev EXCEPT ![i] = None]
        /\ UNCHANGED <<meta, final, legacy, swap, locks, startup, pc, request, res, counters>>

\* Time passes: a soft-deleted row outlives its TTL.
Expire ==
    \E k \in Keys :
        /\ phase = "up"
        /\ meta[k] # None /\ meta[k].deleted = "soft"
        /\ meta' = [meta EXCEPT ![k].deleted = "expired"]
        /\ UNCHANGED <<final, legacy, journal, locks, startup, pc, request, res, counters>>

-----------------------------------------------------------------------------
(* GET: the row, then the file, both under the read lock.                   *)

\* A conditional request, or a range the row's size rules out, ends at the row.
GetRow(p) ==
    LET k == req[p].key
    IN  /\ pc[p] = "get"
        /\ row' = [row EXCEPT ![p] = Active(k)]
        /\ \/ Live(k) /\ Goto(p, "open")
           \/ Live(k) /\ Finish(p, "rowonly")
           \/ ~Live(k) /\ Finish(p, "missing")
        /\ UNCHANGED <<disk, locks, startup, req, tag, bytes, sid, counters>>

GetOpen(p) ==
    LET k == req[p].key
    IN  /\ pc[p] = "open"
        /\ bytes' = [bytes EXCEPT ![p] = Resolve(k)]
        /\ Finish(p, IF Resolve(k) = None THEN "missing" ELSE "ok")
        /\ UNCHANGED <<disk, locks, startup, req, row, tag, sid, counters>>

-----------------------------------------------------------------------------
(* The process dies at any point, and recovers when it starts again:        *)
(* with_full_options runs recover_interrupted_swaps before any request.     *)

Crash ==
    /\ crashes < MaxCrashes
    /\ crashes' = crashes + 1
    /\ phase' = "recovering" /\ entry' = None /\ step' = "scan"
    /\ pc' = [p \in Procs |-> "idle"]
    /\ req' = [p \in Procs |-> None]
    /\ need' = [p \in Procs |-> {}]
    /\ row' = [p \in Procs |-> None]
    /\ tag' = [p \in Procs |-> None]
    /\ bytes' = [p \in Procs |-> None]
    /\ sid' = [p \in Procs |-> None]
    /\ res' = [p \in Procs |-> "none"]
    /\ writer' = [s \in Stripes |-> None]
    /\ readers' = [s \in Stripes |-> {}]
    /\ UNCHANGED <<disk, faults>>

\* Mutant of MustRestore: a swap that did commit is undone as well.
RestoreCommitted(i) == swap[i] # Torn /\ swap[i].old # None /\ prev[i] # None

\* The metadata still names the version the backup holds.
MustRestore(i) ==
    /\ swap[i] # Torn
    /\ swap[i].old # None
    /\ Active(swap[i].key) # swap[i].new
    /\ Active(swap[i].key) = swap[i].old
    /\ prev[i] # None

\* One journal entry after the other, in directory order.  An intent that cannot
\* be read counts as torn.
RecoverEntry ==
    \E i \in SwapIds :
        /\ phase = "recovering" /\ step = "scan"
        /\ swap[i] # None
        /\ entry' = i
        /\ step' = "dropprev"
        /\ \/ /\ MustRestore(i)
              /\ final' = [final EXCEPT ![swap[i].key] = prev[i]]
              /\ prev' = [prev EXCEPT ![i] = None]
              /\ NoFault
           \/ ~MustRestore(i) /\ UNCHANGED <<final, prev>> /\ NoFault
           \/ Fault("reread") /\ UNCHANGED <<final, prev>>
        /\ UNCHANGED <<meta, legacy, swap, locks, phase, pc, request, res, crashes>>

RecoverDropPrev ==
    /\ phase = "recovering" /\ step = "dropprev"
    /\ Unlink(prev, entry)
    /\ step' = "dropswap"
    /\ UNCHANGED <<meta, final, legacy, swap, locks, phase, entry, pc, request, res, crashes>>

\* Mutant of RecoverDropSwap: the entry stays and is found again.
RecoverKeepsSwap ==
    /\ phase = "recovering" /\ step = "dropswap"
    /\ step' = "scan"
    /\ entry' = None
    /\ UNCHANGED <<disk, locks, phase, pc, request, res, counters>>

RecoverDropSwap ==
    /\ phase = "recovering" /\ step = "dropswap"
    /\ swap' = [swap EXCEPT ![entry] = None]
    /\ step' = "scan"
    /\ entry' = None
    /\ UNCHANGED <<meta, final, legacy, prev, locks, phase, pc, request, res, counters>>

RecoverDone ==
    /\ phase = "recovering" /\ step = "scan"
    /\ \A i \in SwapIds : swap[i] = None
    /\ phase' = "up"
    /\ UNCHANGED <<disk, locks, entry, step, pc, request, res, counters>>

-----------------------------------------------------------------------------
Init ==
    /\ \E e \in Etags :
        /\ meta = [k \in Keys |->
                     IF k \in LegacyKeys THEN [etag |-> e, deleted |-> "no"] ELSE None]
        /\ legacy = [k \in Keys |-> IF k \in LegacyKeys THEN e ELSE None]
    /\ final = [k \in Keys |-> None]
    /\ prev = [i \in SwapIds |-> None]
    /\ swap = [i \in SwapIds |-> None]
    /\ writer = [s \in Stripes |-> None]
    /\ readers = [s \in Stripes |-> {}]
    /\ phase = "up" /\ entry = None /\ step = "scan"
    /\ pc = [p \in Procs |-> "idle"]
    /\ req = [p \in Procs |-> None]
    /\ need = [p \in Procs |-> {}]
    /\ row = [p \in Procs |-> None]
    /\ tag = [p \in Procs |-> None]
    /\ bytes = [p \in Procs |-> None]
    /\ sid = [p \in Procs |-> None]
    /\ res = [p \in Procs |-> "none"]
    /\ faults = 0
    /\ crashes = 0

\* A step of a handler that is running.
Handle(p) ==
    \/ StaleScan(p)
    \/ CopyRow(p) \/ CopyLink(p)
    \/ SwapCheck(p) \/ Backup(p) \/ IntentOpen(p) \/ IntentWrite(p)
    \/ Rename(p) \/ Commit(p) \/ DropOld(p) \/ DropPrev(p) \/ DropSwap(p) \/ Restore(p)
    \/ DeleteCheck(p) \/ DeleteRow(p) \/ DropFinal(p) \/ DropLegacy(p)
    \/ PurgeRow(p) \/ OrphanCheck(p) \/ StaleRow(p)
    \/ GetRow(p) \/ GetOpen(p) \/ Return(p)

Arrive(p) ==
    \/ PutBegin(p) \/ CopyBegin(p) \/ DeleteBegin(p) \/ GetBegin(p)
    \/ PurgeBegin(p) \/ OrphanBegin(p) \/ StaleBegin(p)

Recover == RecoverEntry \/ RecoverDropPrev \/ RecoverDropSwap \/ RecoverDone

Next ==
    \/ \E p \in Procs : Arrive(p) \/ LockNext(p) \/ ReadLock(p) \/ Handle(p)
    \/ PurgeTmp \/ Expire
    \/ Crash \/ Recover

Spec == Init /\ [][Next]_vars

-----------------------------------------------------------------------------
(* Properties.                                                              *)

PcLabels ==
    {"idle", "scan", "lock", "rlock", "put", "copy", "link", "delete", "get", "purge", "orphan",
     "stale", "backup", "intent", "journal", "rename", "commit", "dropold", "dropprev",
     "dropswap", "restore", "delrow", "dropfinal", "droplegacy", "open", "done"}

\* Every variable holds a value of its type.
TypeOK ==
    /\ meta \in [Keys -> Rows \cup {None}]
    /\ final \in [Keys -> EtagOrNone]
    /\ legacy \in [Keys -> EtagOrNone]
    /\ prev \in [SwapIds -> EtagOrNone]
    /\ swap \in [SwapIds -> Intents \cup {None}]
    /\ writer \in [Stripes -> Procs \cup {None}]
    /\ readers \in [Stripes -> SUBSET Procs]
    /\ phase \in {"recovering", "up"}
    /\ entry \in SwapIds \cup {None}
    /\ step \in {"scan", "dropprev", "dropswap"}
    /\ pc \in [Procs -> PcLabels]
    /\ req \in [Procs -> Requests \cup {None}]
    /\ need \in [Procs -> SUBSET Stripes]
    /\ row \in [Procs -> EtagOrNone]
    /\ tag \in [Procs -> EtagOrNone]
    /\ bytes \in [Procs -> EtagOrNone]
    /\ sid \in [Procs -> SwapIds \cup {None}]
    /\ res \in [Procs -> {"none", "ok", "err", "missing", "rowonly"}]
    /\ faults \in Nat
    /\ crashes \in Nat

\* Whenever no writer holds a live object's lock, the file a reader would open is
\* the one its metadata row names: swap_in_staged, its rollback, the deletes, the
\* background jobs and the recovery after a crash never leave one version's
\* metadata with another version's bytes, or with none.
BytesMatchMetadata ==
    phase = "up" =>
        \A k \in Keys : Live(k) /\ writer[Stripe[k]] = None => Resolve(k) = meta[k].etag

\* A GET answers with the row and the bytes of one version: it never pairs the
\* metadata of one with the next one's bytes, and never finds a listed object
\* without bytes (unless the row alone is the answer).
ReadsOneVersion ==
    \A p \in Procs :
        pc[p] = "done" /\ req[p].op = "get" /\ row[p] # None =>
            (res[p] = "ok" /\ bytes[p] = row[p]) \/ res[p] = "rowonly"

\* When recover_interrupted_swaps has worked through the journal, the bytes and
\* the metadata of every object agree again.
RecoveryRestores ==
    phase = "recovering" /\ step = "scan" /\ (\A i \in SwapIds : swap[i] = None) =>
        \A k \in Keys : Live(k) => Resolve(k) = meta[k].etag

\* The engine as its clients see it implements atomic registers (AtomicObjects):
\* an object changes when its metadata commits, and a call's outcome is fixed by
\* the step that decides it.
Objects == [k \in Keys |-> Active(k)]
CallRecords ==
    [req : Requests, res : {"none", "ok", "err", "missing", "rowonly"},
     etag : EtagOrNone, bytes : EtagOrNone]
ASSUME CallAssumption == None \notin CallRecords
Calls ==
    [p \in Procs |->
        IF req[p] = None \/ (req[p] # None /\ req[p].op \in JobOps)
        THEN None
        ELSE [req |-> req[p], res |-> res[p],
              etag |-> IF req[p].op = "get" /\ res[p] # "none" THEN row[p] ELSE None,
              bytes |-> IF req[p].op = "get" /\ res[p] # "none" THEN bytes[p] ELSE None]]
Atomic == INSTANCE AtomicObjects WITH obj <- Objects, call <- Calls
Linearizable == Atomic!Spec

(* The runtime runs every task that can run; a stripe's lock is a fair queue,  *)
(* so a handler that waits for it gets it.                                    *)
Fairness ==
    /\ \A p \in Procs : WF_vars(Handle(p)) /\ SF_vars(LockNext(p)) /\ SF_vars(ReadLock(p))
    /\ WF_vars(Recover)
FairSpec == Spec /\ Fairness

\* Every request and every job ends: no order of lock_many, no error path that
\* keeps a lock, no pair of copies in opposite directions blocks a handler.
RequestsEnd == \A p \in Procs : pc[p] # "idle" ~> pc[p] = "idle"

\* The engine always gets through its recovery and serves requests again.
RecoveryEnds == phase = "recovering" ~> phase = "up"

=============================================================================
