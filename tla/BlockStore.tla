----------------------------- MODULE BlockStore -----------------------------
(***************************************************************************)
(* Deduplicated blocks: the files under `.blocks/`, their reference counts *)
(* in the table dedup_blocks, and everything that counts or releases a     *)
(* reference (PUT, COPY, DELETE, purge, orphan GC, recompression), with    *)
(* the garbage collector of released blocks, I/O failures and crashes.     *)
(*                                                                         *)
(* A blob is the sequence of its chunks, each either kept in the blob or   *)
(* shared through the block store.  Times are relative to the GC's grace   *)
(* period: an mtime or a released_at is within it or older.                *)
(***************************************************************************)
EXTENDS Naturals, Sequences, FiniteSets, Sums

CONSTANTS
    Reqs,        \* request handlers and maintenance jobs
    Keys,        \* (bucket, key) pairs
    Chunks,      \* block-sized pieces of content
    HashOf,      \* content hash of a chunk; two chunks may collide
    Bodies,      \* the uploads a run makes: sequences of chunks
    Ops,         \* the operations a run exercises
    Faults,      \* the failures that may happen
    MaxOps,      \* bound: operations started
    MaxFaults,   \* bound: failures
    MaxCrashes,  \* bound: crashes
    None         \* no file, no holder

FaultKinds == {"store", "count", "commit", "release", "gc", "drop", "halfdrop", "crashdrop"}
OpKinds == {"put", "copy", "delete", "orphan", "recompress"}
Hashes == {HashOf[c] : c \in Chunks}
Blobs == Seq([chunk : Chunks, shared : BOOLEAN])

ASSUME BlockConstants ==
    /\ HashOf \in [Chunks -> Hashes]
    /\ Bodies \subseteq Seq(Chunks)
    /\ Ops \subseteq OpKinds
    /\ Faults \subseteq FaultKinds
    /\ {MaxOps, MaxFaults, MaxCrashes} \subseteq Nat
    /\ IsFiniteSet(Reqs) /\ IsFiniteSet(Keys)
    /\ None \notin Chunks \cup Reqs \cup Keys \cup Hashes \cup Blobs

VARIABLES
    file,      \* Hashes -> the chunk stored under the hash, or None
    fresh,     \* hashes whose block file has an mtime within the grace period
    refcount,  \* Hashes -> refcount of its row, 0 without a row
    released,  \* Hashes -> released_at: "norow", "null", "new" or "old"
    blob,      \* Keys -> the blob file of the object, or None
    live,      \* keys with an active metadata row
    lock,      \* Keys -> the request that holds the key's write lock
    stamped,   \* Keys -> requests whose FileStamp of the blob still matches
    req,       \* Reqs -> the request's state
    gc,        \* the block GC's run: hashes to visit, not shared since its cutoff, row to delete
    ops, faults, crashes

blocks == <<file, fresh, refcount, released>>
objects == <<blob, live, lock, stamped>>
counters == <<ops, faults, crashes>>
vars == <<blocks, objects, req, gc, counters>>

Idle == [pc |-> "idle", op |-> None, key |-> None, src |-> None,
         body |-> <<>>, staged |-> <<>>, todo |-> {}, backup |-> None]
NoRun == [todo |-> {}, cold |-> {}, row |-> None]

\* What a blob refers to, one entry per shared chunk (manifest_entries).
Refs(b) ==
    IF b = None THEN {}
    ELSE {[at |-> i, hash |-> HashOf[b[i].chunk]] : i \in {j \in DOMAIN b : b[j].shared}}
\* Entries are counted and released one statement each, in their order.
First(e, entries) == \A f \in entries : e.at <= f.at
Content(b) == [i \in DOMAIN b |-> b[i].chunk]
\* read_logical_block: the stored bytes, checked against what is expected.
ReadLogicalBlock(h, c) == file[h] = c
Readable(b) ==
    \A i \in DOMAIN b : b[i].shared => ReadLogicalBlock(HashOf[b[i].chunk], b[i].chunk)

Init ==
    /\ file = [h \in Hashes |-> None]
    /\ fresh = {}
    /\ refcount = [h \in Hashes |-> 0]
    /\ released = [h \in Hashes |-> "norow"]
    /\ blob = [k \in Keys |-> None]
    /\ live = {}
    /\ lock = [k \in Keys |-> None]
    /\ stamped = [k \in Keys |-> {}]
    /\ req = [r \in Reqs |-> Idle]
    /\ gc = NoRun
    /\ ops = 0
    /\ faults = 0
    /\ crashes = 0

Fault(kind) ==
    /\ kind \in Faults
    /\ faults < MaxFaults
    /\ faults' = faults + 1
    /\ UNCHANGED <<ops, crashes>>
Goto(r, pc) == req' = [req EXCEPT ![r].pc = pc]
\* The handler returns: its guard drops the key locks.
End(r) ==
    /\ req' = [req EXCEPT ![r] = Idle]
    /\ lock' = [k \in Keys |-> IF lock[k] = r THEN None ELSE lock[k]]

-----------------------------------------------------------------------------
(* The table dedup_blocks.                                                  *)

IncRef(h) ==
    /\ refcount' = [refcount EXCEPT ![h] = @ + 1]
    /\ released' = [released EXCEPT ![h] = "null"]

\* Mutant of DecRef: released_at is left as it was.
DecRefUndated(h) ==
    /\ refcount' = [refcount EXCEPT ![h] = IF @ > 0 THEN @ - 1 ELSE @]
    /\ UNCHANGED released

DecRef(h) ==
    /\ refcount' = [refcount EXCEPT ![h] = IF @ > 0 THEN @ - 1 ELSE @]
    /\ released' = [released EXCEPT ![h] = IF refcount[h] = 1 THEN "new" ELSE @]

-----------------------------------------------------------------------------
(* Requests and jobs begin.                                                 *)

Begin(r, new) ==
    /\ req[r].pc = "idle"
    /\ new.op \in Ops
    /\ ops < MaxOps
    /\ ops' = ops + 1
    /\ req' = [req EXCEPT ![r] = new]
    /\ UNCHANGED <<blocks, blob, live, lock, gc, faults, crashes>>

PutBegin(r) ==
    \E k \in Keys, b \in Bodies :
        /\ Begin(r, [Idle EXCEPT !.pc = "encode", !.op = "put", !.key = k, !.src = k,
                                 !.body = b])
        /\ UNCHANGED stamped

CopyBegin(r) ==
    \E k, s \in Keys :
        /\ Begin(r, [Idle EXCEPT !.pc = "lock", !.op = "copy", !.key = k, !.src = s])
        /\ UNCHANGED stamped

DeleteBegin(r) ==
    \E k \in Keys, op \in {"delete", "orphan"} :
        /\ Begin(r, [Idle EXCEPT !.pc = "lock", !.op = op, !.key = k, !.src = k])
        /\ UNCHANGED stamped

\* A listed object is stamped, decoded from its blob and encoded again.
RecompressBegin(r) ==
    \E k \in live :
        /\ blob[k] # None
        /\ Readable(blob[k])
        /\ Begin(r, [Idle EXCEPT !.pc = "encode", !.op = "recompress", !.key = k, !.src = k,
                                 !.body = Content(blob[k])])
        /\ stamped' = [stamped EXCEPT ![k] = @ \cup {r}]

-----------------------------------------------------------------------------
(* Encoding, before any key lock: each chunk goes to the block store.       *)

\* Mutant of StoreBlock: a stored block is shared without refreshing its mtime.
StoreBlockUntouched(r) ==
    LET c == Head(req[r].body)
        h == HashOf[c]
        shared == file[h] \in {None, c}
    IN  /\ req[r].pc = "encode" /\ req[r].body # <<>>
        /\ file' = [file EXCEPT ![h] = IF @ = None THEN c ELSE @]
        /\ fresh' = IF file[h] = None THEN fresh \cup {h} ELSE fresh
        /\ gc' = IF file[h] = None THEN [gc EXCEPT !.cold = @ \ {h}] ELSE gc
        /\ req' = [req EXCEPT ![r].body = Tail(@),
                              ![r].staged = Append(@, [chunk |-> c, shared |-> shared])]
        /\ UNCHANGED <<refcount, released, objects, counters>>

\* Under the hash's file lock: a stored copy is shared only if it holds the same
\* bytes (its mtime is refreshed), another block under the hash leaves the chunk
\* in the object, and without a file one is written and renamed into place.
StoreBlock(r) ==
    LET c == Head(req[r].body)
        h == HashOf[c]
        shared == file[h] = None \/ ReadLogicalBlock(h, c)
    IN  /\ req[r].pc = "encode" /\ req[r].body # <<>>
        /\ file' = [file EXCEPT ![h] = IF @ = None THEN c ELSE @]
        /\ fresh' = IF shared THEN fresh \cup {h} ELSE fresh
        /\ gc' = IF shared THEN [gc EXCEPT !.cold = @ \ {h}] ELSE gc
        /\ req' = [req EXCEPT ![r].body = Tail(@),
                              ![r].staged = Append(@, [chunk |-> c, shared |-> shared])]
        /\ UNCHANGED <<refcount, released, objects, counters>>

StoreFail(r) ==
    /\ req[r].pc = "encode"
    /\ Fault("store")
    /\ End(r)
    /\ UNCHANGED <<blocks, blob, live, stamped, gc>>

\* An upload counts its references at once, recompression under the key lock.
Encoded(r) ==
    /\ req[r].pc = "encode" /\ req[r].body = <<>>
    /\ req' = [req EXCEPT ![r].pc = IF req[r].op = "put" THEN "count" ELSE "lock",
                          ![r].todo = Refs(req[r].staged)]
    /\ UNCHANGED <<blocks, objects, gc, counters>>

\* inc_refs: one statement per entry.
Count(r) ==
    /\ req[r].pc = "count"
    /\ \E e \in req[r].todo :
        /\ First(e, req[r].todo)
        /\ IncRef(e.hash)
        /\ req' = [req EXCEPT ![r].todo = @ \ {e}]
    /\ UNCHANGED <<file, fresh, objects, gc, counters>>

Counted(r) ==
    /\ req[r].pc = "count" /\ req[r].todo = {}
    /\ Goto(r, IF req[r].op = "put" THEN "lock" ELSE "swap")
    /\ UNCHANGED <<blocks, objects, gc, counters>>

\* A failed statement ends the request; what it counted stays counted.
CountFail(r) ==
    /\ req[r].pc = "count" /\ req[r].todo # {}
    /\ Fault("count")
    /\ End(r)
    /\ UNCHANGED <<blocks, blob, live, stamped, gc>>

-----------------------------------------------------------------------------
(* Under the key lock.                                                      *)

\* The request has its locks; `new` is what it does next, or the end of it.
Locked(r, new) ==
    /\ req[r].pc = "lock"
    /\ \A k \in {req[r].key, req[r].src} : lock[k] = None
    /\ req' = [req EXCEPT ![r] = new]
    /\ lock' = [k \in Keys |->
                   IF new # Idle /\ k \in {req[r].key, req[r].src} THEN r ELSE lock[k]]
    /\ UNCHANGED <<blocks, blob, stamped, gc, counters>>

PutLocked(r) ==
    /\ req[r].op = "put"
    /\ Locked(r, [req[r] EXCEPT !.pc = "swap"])
    /\ UNCHANGED live

\* The source's blob is linked and its references counted for the new owner.
CopyLocked(r) ==
    LET q == req[r]
    IN  /\ q.op = "copy"
        /\ Locked(r, IF q.src \in live /\ blob[q.src] # None
                       THEN [q EXCEPT !.pc = "count", !.staged = blob[q.src],
                                      !.todo = Refs(blob[q.src])]
                       ELSE Idle)
        /\ UNCHANGED live

\* Only an object that is still the file that was read is replaced.
RecompressLocked(r) ==
    LET q == req[r]
    IN  /\ q.op = "recompress"
        /\ Locked(r, IF r \in stamped[q.key] THEN [q EXCEPT !.pc = "count"] ELSE Idle)
        /\ UNCHANGED live

Dropping(q) ==
    IF blob[q.key] = None THEN Idle
    ELSE [q EXCEPT !.pc = "drop", !.todo = Refs(blob[q.key])]

\* The row goes first, then the blob (also the purge of a soft-deleted row).
DeleteLocked(r) ==
    LET q == req[r]
    IN  /\ q.op = "delete"
        /\ Locked(r, IF q.key \in live THEN Dropping(q) ELSE Idle)
        /\ live' = live \ {q.key}

OrphanLocked(r) ==
    LET q == req[r]
    IN  /\ q.op = "orphan"
        /\ Locked(r, IF q.key \in live THEN Idle ELSE Dropping(q))
        /\ UNCHANGED live

\* A new file is at the key's path: earlier stamps no longer match.
Replace(r, b) ==
    /\ blob' = [blob EXCEPT ![req[r].key] = b]
    /\ stamped' = [stamped EXCEPT ![req[r].key] = {}]

\* An overwrite keeps the previous blob until its metadata is committed.
Rename(r) ==
    /\ req[r].pc = "swap" /\ req[r].op # "recompress"
    /\ Replace(r, req[r].staged)
    /\ req' = [req EXCEPT ![r].pc = "commit", ![r].backup = blob[req[r].key]]
    /\ UNCHANGED <<blocks, live, lock, gc, counters>>

RenameRecompressed(r) ==
    /\ req[r].pc = "swap" /\ req[r].op = "recompress"
    /\ Replace(r, req[r].staged)
    /\ req' = [req EXCEPT ![r].pc = "release", ![r].todo = Refs(blob[req[r].key])]
    /\ UNCHANGED <<blocks, live, lock, gc, counters>>

\* A precondition, the capacity check, the hook or the rename refuses the swap.
SwapRefused(r) ==
    /\ req[r].pc = "swap"
    /\ req' = [req EXCEPT ![r].pc = "undo", ![r].todo = Refs(req[r].staged)]
    /\ UNCHANGED <<blocks, objects, gc, counters>>

Commit(r) ==
    /\ req[r].pc = "commit"
    /\ live' = live \cup {req[r].key}
    /\ req' = [req EXCEPT ![r].pc = "release", ![r].todo = Refs(req[r].backup)]
    /\ UNCHANGED <<blocks, blob, lock, stamped, gc, counters>>

\* Mutant of CommitFail: the references of the restored blob are released.
CommitFailReleasesOld(r) ==
    /\ req[r].pc = "commit"
    /\ Fault("commit")
    /\ Replace(r, req[r].backup)
    /\ req' = [req EXCEPT ![r].pc = "undo", ![r].todo = Refs(req[r].backup)]
    /\ UNCHANGED <<blocks, live, lock, gc>>

\* The previous blob is put back and the new references are released.
CommitFail(r) ==
    /\ req[r].pc = "commit"
    /\ Fault("commit")
    /\ Replace(r, req[r].backup)
    /\ req' = [req EXCEPT ![r].pc = "undo", ![r].todo = Refs(req[r].staged)]
    /\ UNCHANGED <<blocks, live, lock, gc>>

\* dec_refs: one statement per entry; a failure only leaks the rest.
Release(r) ==
    /\ req[r].pc \in {"release", "undo"}
    /\ \E e \in req[r].todo :
        /\ First(e, req[r].todo)
        /\ DecRef(e.hash)
        /\ req' = [req EXCEPT ![r].todo = @ \ {e}]
    /\ UNCHANGED <<file, fresh, objects, gc, counters>>

Released(r) ==
    /\ req[r].pc \in {"release", "undo"}
    /\ IF req[r].todo = {} THEN UNCHANGED counters ELSE Fault("release")
    /\ End(r)
    /\ UNCHANGED <<blocks, blob, live, stamped, gc>>

\* release_blob of a blob that is going away.
Drop(r) ==
    /\ req[r].pc = "drop"
    /\ \E e \in req[r].todo :
        /\ First(e, req[r].todo)
        /\ DecRef(e.hash)
        /\ req' = [req EXCEPT ![r].todo = @ \ {e}]
    /\ UNCHANGED <<file, fresh, objects, gc, counters>>

Remove(r) ==
    /\ req[r].pc = "drop" /\ req[r].todo = {}
    /\ Replace(r, None)
    /\ End(r)
    /\ UNCHANGED <<blocks, live, gc, counters>>

\* A failed statement or unlink leaves the blob file behind: with all of its
\* references ("drop"), or after some of them were released ("halfdrop").
DropFail(r) ==
    /\ req[r].pc = "drop"
    /\ Fault(IF req[r].todo = Refs(blob[req[r].key]) THEN "drop" ELSE "halfdrop")
    /\ End(r)
    /\ UNCHANGED <<blocks, blob, live, stamped, gc>>

-----------------------------------------------------------------------------
(* The GC of released blocks, time and crashes.                             *)

\* The rows that have been at zero for the grace period; the cutoff is fixed here.
GCSelect ==
    /\ gc = NoRun
    /\ LET sel == {h \in Hashes : refcount[h] = 0 /\ released[h] = "old"}
       IN  /\ sel # {}
           /\ gc' = [todo |-> sel, cold |-> Hashes \ fresh, row |-> None]
    /\ UNCHANGED <<blocks, objects, req, counters>>

\* Under the hash's file lock: a block shared since the cutoff is kept.
GCVisit ==
    /\ gc.row = None
    /\ \E h \in gc.todo :
        /\ file' = [file EXCEPT ![h] = IF h \in gc.cold THEN None ELSE @]
        /\ fresh' = fresh \ (gc.cold \cap {h})
        /\ gc' = IF h \in gc.cold THEN [gc EXCEPT !.todo = @ \ {h}, !.row = h]
                 ELSE IF gc.todo = {h} THEN NoRun ELSE [gc EXCEPT !.todo = @ \ {h}]
    /\ UNCHANGED <<refcount, released, objects, req, counters>>

GCVisitFail ==
    /\ gc.row = None
    /\ \E h \in gc.todo : gc' = IF gc.todo = {h} THEN NoRun ELSE [gc EXCEPT !.todo = @ \ {h}]
    /\ Fault("gc")
    /\ UNCHANGED <<blocks, objects, req>>

\* DELETE ... WHERE refcount <= 0
GCDeleteRow ==
    /\ gc.row # None
    /\ released' = [released EXCEPT ![gc.row] = IF refcount[gc.row] = 0 THEN "norow" ELSE @]
    /\ gc' = IF gc.todo = {} THEN NoRun ELSE [gc EXCEPT !.row = None]
    /\ UNCHANGED <<file, fresh, refcount, objects, req, counters>>

\* Blocks an encoder stored and has not counted yet.
Uncounted(q) ==
    \/ q.pc \in {"encode", "count"} /\ q.op # "copy"
    \/ q.pc = "lock" /\ q.op = "recompress"

\* The grace period passes.  RELEASED_BLOCK_GRACE (one hour) is longer than the
\* time between storing a block and counting it.
Age ==
    /\ \A r \in Reqs : ~Uncounted(req[r])
    /\ fresh # {} \/ \E h \in Hashes : released[h] = "new"
    /\ fresh' = {}
    /\ released' = [h \in Hashes |-> IF released[h] = "new" THEN "old" ELSE released[h]]
    /\ UNCHANGED <<file, refcount, objects, req, gc, counters>>

\* A blob whose references are partly or all released is still on disk.
MidDrop == \E r \in Reqs : req[r].pc = "drop" /\ req[r].todo # Refs(blob[req[r].key])

\* The process dies; at the next start the journal puts back the previous blob
\* of an overwrite whose metadata was not committed.
Crash ==
    /\ crashes < MaxCrashes
    /\ MidDrop => "crashdrop" \in Faults
    /\ crashes' = crashes + 1
    /\ blob' = [k \in Keys |->
                  IF \E r \in Reqs : req[r].pc = "commit" /\ req[r].key = k /\ req[r].backup # None
                  THEN LET r == CHOOSE r \in Reqs : req[r].pc = "commit" /\ req[r].key = k
                       IN  req[r].backup
                  ELSE blob[k]]
    /\ req' = [r \in Reqs |-> Idle]
    /\ lock' = [k \in Keys |-> None]
    /\ stamped' = [k \in Keys |-> {}]
    /\ gc' = NoRun
    /\ UNCHANGED <<blocks, live, ops, faults>>

Proceed(r) ==
    \/ StoreBlock(r) \/ Encoded(r) \/ Count(r) \/ Counted(r)
    \/ PutLocked(r) \/ CopyLocked(r) \/ RecompressLocked(r) \/ DeleteLocked(r) \/ OrphanLocked(r)
    \/ Rename(r) \/ RenameRecompressed(r) \/ SwapRefused(r) \/ Commit(r)
    \/ Release(r) \/ Released(r) \/ Drop(r) \/ Remove(r)
Fail(r) == StoreFail(r) \/ CountFail(r) \/ CommitFail(r) \/ DropFail(r)
Arrive(r) == PutBegin(r) \/ CopyBegin(r) \/ DeleteBegin(r) \/ RecompressBegin(r)
CollectBlocks == GCSelect \/ GCVisit \/ GCDeleteRow

Next ==
    \/ \E r \in Reqs : Arrive(r) \/ Proceed(r) \/ Fail(r)
    \/ CollectBlocks \/ GCVisitFail \/ Age \/ Crash

Spec == Init /\ [][Next]_vars

\* Handlers make progress, the GC runs on its schedule and time passes.
FairSpec ==
    /\ Spec
    /\ \A r \in Reqs : WF_vars(Proceed(r))
    /\ WF_vars(CollectBlocks)
    /\ WF_vars(Age)

-----------------------------------------------------------------------------
(* What must hold.                                                          *)

Occurrences(entries, h) == Cardinality({e \in entries : e.hash = h})

\* Entries the blob file of k owns, unless a handler is dropping it.
Owned(k) == IF \E r \in Reqs : req[r].pc = "drop" /\ req[r].key = k THEN {} ELSE Refs(blob[k])

\* Entries counted for a handler: not yet owned by a blob file, or yet to be released.
Held(q) ==
    CASE q.pc = "count" -> Refs(q.staged) \ q.todo
      [] q.pc = "swap" \/ (q.pc = "lock" /\ q.op = "put") -> Refs(q.staged)
      [] q.pc = "commit" -> Refs(q.backup)
      [] q.pc \in {"release", "undo", "drop"} -> q.todo
      [] OTHER -> {}

OwnedRefs(h) == [k \in Keys |-> Occurrences(Owned(k), h)]
HeldRefs(h) == [r \in Reqs |-> Occurrences(Held(req[r]), h)]

\* A block is never counted below the references that blobs, uploads on their way
\* in and versions on their way out hold to it: inc_refs runs before a blob can be
\* reached and dec_refs after it no longer can, whatever fails in between.
NeverUndercounted ==
    \A h \in Hashes : refcount[h] >= SumOver(OwnedRefs(h), Keys) + SumOver(HeldRefs(h), Reqs)

\* The bytes of every listed object and of every upload about to be committed are
\* there: no shared block is collected or replaced while something refers to it.
BlocksReadable ==
    /\ \A k \in live : blob[k] # None /\ Readable(blob[k])
    /\ \A r \in Reqs : req[r].pc \in {"encode", "count", "lock", "swap"} => Readable(req[r].staged)

\* A released block is collected in the end, unless it is referred to again: its
\* row goes after its file.  (A file that an upload stored again and never counted
\* has no row; nothing collects it.)
ReleasedReclaimed ==
    \A h \in Hashes :
        (refcount[h] = 0 /\ released[h] # "norow")
            ~> (refcount[h] > 0 \/ released[h] = "norow")
=============================================================================
