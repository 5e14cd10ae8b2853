---------------------------- MODULE Maintenance ----------------------------
(***************************************************************************)
(* Background walks over the stored objects: the integrity scrub           *)
(* (storage/maintenance.rs scrub_objects, storage/scrub.rs), recompression *)
(* and format migration (recompress_blobs, migrate_blobs), the key pages   *)
(* they read (ObjectMetaStore::list_key_page), and the zstd dictionaries   *)
(* blobs are compressed with (storage/dict_store.rs), next to clients that *)
(* overwrite and delete.                                                   *)
(*                                                                         *)
(* An object is <<key, bucket>>.  A blob is the version of its content and *)
(* how it is encoded; two blobs of one object that differ in neither are   *)
(* the same file, so comparing blobs is comparing FileStamps.  A PUT and a *)
(* DELETE hold the key lock across their two steps (blob and row); a crash *)
(* between those is ObjectStore's subject.                                 *)
(***************************************************************************)
EXTENDS Integers, FiniteSets, FiniteSetsExt

CONSTANTS
    Stored,       \* object -> blob at the start; its domain is the objects
    Limit,        \* objects per page
    SampleDenom,  \* NOS_SCRUB_SAMPLE_DENOM
    HashOf,       \* object -> hash that picks its sample slice
    Compressible, \* objects the encoder makes smaller
    Modes,        \* sets of walks that run side by side; one is chosen
    MaxOps,       \* bound: objects overwritten or deleted
    MaxDicts,     \* bound: dictionaries trained
    MaxRestarts   \* bound: restarts

VARIABLES
    row,      \* object -> version its metadata row names, 0 when not active
    blob,     \* object -> blob file, NoBlob when there is none
    lock,     \* object -> who holds its key lock
    cursor,   \* maintenance_state: walk -> key it continues after
    epoch,    \* maintenance_state: SCRUB_EPOCH modulo the denominator
    walk,     \* walk -> the batch in progress
    alarms,   \* scrub reports, as [obj, broken]
    dicts,    \* dictionary ids stored in .dict/
    loaded,   \* ids registered by this process
    trainer,  \* id the training in progress will save, 0 when none
    harm,     \* bit rot happened
    restarts,
    ops,      \* client operations so far
    on        \* the walks that run

vars == <<row, blob, lock, cursor, epoch, walk, alarms, dicts, loaded, trainer, harm, restarts, ops, on>>

Objects == DOMAIN Stored
NoBlob == [ver |-> 0]
Walks == {"scrub", "recompress", "migrate"}
Idle == [pc |-> "idle"]

\* New writes use the dictionary with the highest id.
CurrentDict == Max({0} \cup loaded)

-----------------------------------------------------------------------------
(* Pages: active objects in key order, never cut inside a run of equal     *)
(* keys, because the cursor is only the key.                               *)

ActiveAfter(after) == {o \in Objects : row[o] # 0 /\ o[1] > after}
KeysOf(rows) == {o[1] : o \in rows}

EndingAtLastRow(rows, truncated) ==
    [rows |-> rows, truncated |-> truncated, last |-> Max({0} \cup KeysOf(rows))]

\* Mutant of ListKeyPage: the page is the first Limit rows.
ListKeyPageSplit(after) ==
    LET all == ActiveAfter(after)
        first == CHOOSE p \in SUBSET all :
                    /\ Cardinality(p) = Min({Limit, Cardinality(all)})
                    /\ \A x \in p, y \in all \ p : x[1] <= y[1]
    IN  EndingAtLastRow(first, first # all)

\* The runs of equal keys that end within the first Limit rows; if there is
\* none, all rows of the first key.
ListKeyPage(after) ==
    LET all == ActiveAfter(after)
        rows == {o \in all : Cardinality({p \in all : p[1] <= o[1]}) <= Limit}
        equal == {o \in all : \A p \in all : o[1] <= p[1]}
    IN  IF Cardinality(all) <= Limit THEN EndingAtLastRow(all, FALSE)
        ELSE IF rows # {} THEN EndingAtLastRow(rows, TRUE)
        ELSE EndingAtLastRow(equal, equal # all)

-----------------------------------------------------------------------------
(* Clients.                                                                *)

\* What an upload stores: the upload level, the current dictionary.
Uploaded(o, v) ==
    [ver |-> v, format |-> IF o \in Compressible THEN "indexed" ELSE "raw",
     level |-> 0, dict |-> IF o \in Compressible THEN CurrentDict ELSE 0,
     nested |-> FALSE, damaged |-> FALSE]

PutSwap(o) ==
    /\ lock[o] = "free" /\ ops < MaxOps /\ ops' = ops + 1
    /\ lock' = [lock EXCEPT ![o] = "put"]
    /\ blob' = [blob EXCEPT ![o] = Uploaded(o, Max({row[o], blob[o].ver}) + 1)]
    /\ UNCHANGED <<row, cursor, epoch, walk, alarms, dicts, loaded, trainer, harm, restarts, on>>

PutCommit(o) ==
    /\ lock[o] = "put"
    /\ row' = [row EXCEPT ![o] = blob[o].ver]
    /\ lock' = [lock EXCEPT ![o] = "free"]
    /\ UNCHANGED <<blob, cursor, epoch, walk, alarms, dicts, loaded, trainer, harm, restarts, ops, on>>

DeleteRow(o) ==
    /\ lock[o] = "free" /\ row[o] # 0 /\ ops < MaxOps /\ ops' = ops + 1
    /\ row' = [row EXCEPT ![o] = 0]
    /\ lock' = [lock EXCEPT ![o] = "delete"]
    /\ UNCHANGED <<blob, cursor, epoch, walk, alarms, dicts, loaded, trainer, harm, restarts, on>>

DropBlob(o) ==
    /\ lock[o] = "delete"
    /\ blob' = [blob EXCEPT ![o] = NoBlob]
    /\ lock' = [lock EXCEPT ![o] = "free"]
    /\ UNCHANGED <<row, cursor, epoch, walk, alarms, dicts, loaded, trainer, harm, restarts, ops, on>>

\* Outside the program: a stored file rots, or is removed.
Harm(o) ==
    /\ ~harm /\ harm' = TRUE
    /\ row[o] # 0 /\ lock[o] = "free" /\ blob[o] # NoBlob
    /\ \/ blob' = [blob EXCEPT ![o].damaged = TRUE]
       \/ blob' = [blob EXCEPT ![o] = NoBlob]
    /\ UNCHANGED <<row, lock, cursor, epoch, walk, alarms, dicts, loaded, trainer, restarts, ops, on>>

-----------------------------------------------------------------------------
(* A batch of a walk: a page after the walk's cursor, then its rows one by *)
(* one, then the cursor is saved.                                          *)

Batch(page) ==
    [pc |-> "next", todo |-> page.rows, truncated |-> page.truncated, last |-> page.last,
     dict |-> CurrentDict, obj |-> <<0, 0>>, saw |-> NoBlob, ver |-> 0]

StartBatch(w) ==
    /\ w \in on /\ walk[w] = Idle
    /\ \E page \in {ListKeyPage(cursor[w])} : walk' = [walk EXCEPT ![w] = Batch(page)]
    /\ UNCHANGED <<row, blob, lock, cursor, epoch, alarms, dicts, loaded, trainer, harm, restarts, ops, on>>

\* After the last page the walk starts over.
NextCursor(b) == IF b.truncated THEN b.last ELSE 0

\* After a full pass a sampled scrub moves on to the next slice.
NextEpoch(b) == IF b.truncated THEN epoch ELSE (epoch + 1) % SampleDenom

SaveCursor(w) ==
    LET b == walk[w]
    IN  /\ w \in {"recompress", "migrate"}
        /\ b.pc = "next" /\ b.todo = {}
        /\ cursor' = [cursor EXCEPT ![w] = NextCursor(b)]
        /\ walk' = [walk EXCEPT ![w] = Idle]
        /\ UNCHANGED <<row, blob, lock, epoch, alarms, dicts, loaded, trainer, harm, restarts, ops, on>>

\* Two statements: the new epoch is stored before the cursor is reset.
SaveScrubEpoch ==
    LET b == walk["scrub"]
    IN  /\ b.pc = "next" /\ b.todo = {}
        /\ epoch' = NextEpoch(b)
        /\ walk' = [walk EXCEPT !["scrub"].pc = "saving"]
        /\ UNCHANGED <<row, blob, lock, cursor, alarms, dicts, loaded, trainer, harm, restarts, ops, on>>

SaveScrubCursor ==
    LET b == walk["scrub"]
    IN  /\ b.pc = "saving"
        /\ cursor' = [cursor EXCEPT !["scrub"] = NextCursor(b)]
        /\ walk' = [walk EXCEPT !["scrub"] = Idle]
        /\ UNCHANGED <<row, blob, lock, epoch, alarms, dicts, loaded, trainer, harm, restarts, ops, on>>

-----------------------------------------------------------------------------
(* Scrub.                                                                  *)

SampleSelected(o) == (HashOf[o] + epoch) % SampleDenom = 0

\* A frame names the dictionary it needs.
DictionaryForFrame(f) == f.dict \in loaded \cup {0}

\* scrub_blob_file (deep) on what it read: the blob decodes, with a dictionary
\* this process has, to the content the row it read earlier names.
ScrubHealthy(ver, f) == f.ver = ver /\ ~f.damaged /\ DictionaryForFrame(f)

\* The row is read first ...
ScrubRow(o) ==
    LET b == walk["scrub"]
    IN  /\ b.pc = "next" /\ o \in b.todo
        /\ walk' = [walk EXCEPT !["scrub"] =
             IF SampleSelected(o) /\ row[o] # 0
             THEN [b EXCEPT !.pc = "blob", !.obj = o, !.ver = row[o], !.todo = @ \ {o}]
             ELSE [b EXCEPT !.todo = @ \ {o}]]
        /\ UNCHANGED <<row, blob, lock, cursor, epoch, alarms, dicts, loaded, trainer, harm, restarts, ops, on>>

ScrubOver(b) == [b EXCEPT !.pc = "next", !.obj = <<0, 0>>, !.ver = 0, !.saw = NoBlob]

\* Mutant of Suspect: the first verdict is reported.
SuspectReported(o) ==
    /\ alarms' = alarms \cup {[obj |-> o, broken |-> blob[o] = NoBlob \/ blob[o].damaged]}
    /\ walk' = [walk EXCEPT !["scrub"] = ScrubOver(@)]

Suspect(o) ==
    /\ walk' = [walk EXCEPT !["scrub"].pc = "recheck"]
    /\ UNCHANGED alarms

\* ... then the blob; what looks broken is looked at again.
ScrubBlob ==
    LET b == walk["scrub"]
        f == blob[b.obj]
    IN  /\ b.pc = "blob"
        /\ IF f # NoBlob /\ ScrubHealthy(b.ver, f)
           THEN walk' = [walk EXCEPT !["scrub"] = ScrubOver(b)] /\ UNCHANGED alarms
           ELSE Suspect(b.obj)
        /\ UNCHANGED <<row, blob, lock, cursor, epoch, dicts, loaded, trainer, harm, restarts, ops, on>>

\* Row and blob again, with writers of the key excluded.
ScrubRecheck ==
    LET b == walk["scrub"]
        o == b.obj
        f == blob[o]
        bad == row[o] # 0 /\ (f = NoBlob \/ ~ScrubHealthy(row[o], f))
    IN  /\ b.pc = "recheck" /\ lock[o] = "free"
        /\ alarms' = IF bad THEN alarms \cup {[obj |-> o, broken |-> f = NoBlob \/ f.damaged]}
                     ELSE alarms
        /\ walk' = [walk EXCEPT !["scrub"] = ScrubOver(b)]
        /\ UNCHANGED <<row, blob, lock, cursor, epoch, dicts, loaded, trainer, harm, restarts, ops, on>>

-----------------------------------------------------------------------------
(* Recompression and migration.                                            *)

\* indexed_needs_upgrade: below the background level, or an older dictionary.
IndexedNeedsUpgrade(f, dict) ==
    f.format = "indexed" /\ (f.level = 0 \/ f.dict < dict)
Legacy(f) == f.format = "legacy"

\* Whether the walk re-encodes, or (migration of a nested path) only moves.
NeedsReencode(w, f, dict) ==
    \/ Legacy(f) \/ IndexedNeedsUpgrade(f, dict)
    \/ f.format = "raw" /\ (w = "recompress" \/ f.nested)

NeedsWork(w, f, dict) == NeedsReencode(w, f, dict) \/ (w = "migrate" /\ f.nested)

\* reencode_to_staging, and what the walk makes of it: a compressible blob
\* becomes indexed; what stays raw is only swapped in by the migration, and
\* only for a legacy container (decoded) or a nested path (relocated).
Reencoded(w, o, f, dict) ==
    LET g == [f EXCEPT !.nested = @ /\ w # "migrate"]
    IN  IF NeedsReencode(w, f, dict) /\ o \in Compressible
        THEN [g EXCEPT !.format = "indexed", !.level = 1, !.dict = dict]
        ELSE IF w = "migrate" /\ Legacy(f) THEN [g EXCEPT !.format = "raw", !.dict = 0]
        ELSE g

\* The blob is stamped and read without the lock; undecodable ones are left
\* (damage to a raw blob is not noticed: it has no checksum).
ReadForRewrite(w, o) ==
    LET b == walk[w]
        f == blob[o]
        usable == /\ f # NoBlob /\ NeedsWork(w, f, b.dict)
                  /\ f.damaged => f.format = "raw" \/ ~NeedsReencode(w, f, b.dict)
                  /\ Reencoded(w, o, f, b.dict) # f
    IN  /\ w \in {"recompress", "migrate"}
        /\ b.pc = "next" /\ o \in b.todo
        /\ walk' = [walk EXCEPT ![w] =
             IF usable THEN [b EXCEPT !.pc = "staged", !.obj = o, !.saw = f, !.todo = @ \ {o}]
             ELSE [b EXCEPT !.todo = @ \ {o}]]
        /\ UNCHANGED <<row, blob, lock, cursor, epoch, alarms, dicts, loaded, trainer, harm, restarts, ops, on>>

\* Mutant of Unchanged: the staged file replaces whatever is there.
UnchangedNotAsked(o, f) == TRUE

\* The file stamp; rot changes bytes but neither size nor mtime nor inode.
Unchanged(o, f) == [f EXCEPT !.damaged = FALSE] =
    IF blob[o] = NoBlob THEN NoBlob ELSE [blob[o] EXCEPT !.damaged = FALSE]

\* replace_blob_if_unchanged: a PUT, copy or delete since then wins.
ReplaceBlob(w) ==
    LET b == walk[w]
        o == b.obj
    IN  /\ w \in {"recompress", "migrate"}
        /\ b.pc = "staged" /\ lock[o] = "free"
        /\ blob' = IF Unchanged(o, b.saw)
                   THEN [blob EXCEPT ![o] = Reencoded(w, o, b.saw, b.dict)] ELSE blob
        /\ walk' = [walk EXCEPT ![w] = ScrubOver(b)]
        /\ UNCHANGED <<row, lock, cursor, epoch, alarms, dicts, loaded, trainer, harm, restarts, ops, on>>

-----------------------------------------------------------------------------
(* Dictionaries.                                                           *)

\* Under the training mutex: the next free id is chosen, then saved.
TrainNext ==
    /\ trainer = 0 /\ Cardinality(dicts) < MaxDicts
    /\ trainer' = Max({0} \cup dicts) + 1
    /\ UNCHANGED <<row, blob, lock, cursor, epoch, walk, alarms, dicts, loaded, harm, restarts, ops, on>>

SaveDict ==
    /\ trainer # 0
    /\ dicts' = dicts \cup {trainer}
    /\ loaded' = loaded \cup {trainer}
    /\ trainer' = 0
    /\ UNCHANGED <<row, blob, lock, cursor, epoch, walk, alarms, harm, restarts, ops, on>>

\* Too little sample data, or the trainer failed.
TrainingFails ==
    /\ trainer # 0 /\ trainer' = 0
    /\ UNCHANGED <<row, blob, lock, cursor, epoch, walk, alarms, dicts, loaded, harm, restarts, ops, on>>

\* Every dictionary on disk is registered, whichever one is current.
LoadAll == dicts

\* A restart loses batches, mutex and registrations; cursors are stored.
Restart ==
    /\ restarts < MaxRestarts /\ restarts' = restarts + 1
    /\ \A o \in Objects : lock[o] = "free"
    /\ walk' = [w \in Walks |-> Idle]
    /\ trainer' = 0
    /\ loaded' = LoadAll
    /\ UNCHANGED <<row, blob, lock, cursor, epoch, alarms, dicts, harm, ops, on>>

-----------------------------------------------------------------------------
Init ==
    /\ blob = Stored /\ row = [o \in Objects |-> Stored[o].ver]
    /\ lock = [o \in Objects |-> "free"]
    /\ cursor = [w \in Walks |-> 0] /\ epoch = 0
    /\ walk = [w \in Walks |-> Idle]
    /\ alarms = {} /\ dicts = {} /\ loaded = {} /\ trainer = 0
    /\ harm = FALSE /\ restarts = 0 /\ ops = 0
    /\ on \in Modes

ScrubStep == \/ StartBatch("scrub") \/ SaveScrubEpoch \/ SaveScrubCursor
             \/ ScrubBlob \/ ScrubRecheck
             \/ \E o \in Objects : ScrubRow(o)
RewriteStep(w) == \/ StartBatch(w) \/ SaveCursor(w) \/ ReplaceBlob(w)
                  \/ \E o \in Objects : ReadForRewrite(w, o)
Finish == SaveDict \/ \E o \in Objects : PutCommit(o) \/ DropBlob(o)

Next ==
    \/ ScrubStep \/ Finish \/ TrainNext \/ TrainingFails \/ Restart
    \/ \E w \in Walks \ {"scrub"} : RewriteStep(w)
    \/ \E o \in Objects : PutSwap(o) \/ DeleteRow(o) \/ Harm(o)

Spec == Init /\ [][Next]_vars

\* The periodic jobs keep running and a write that began finishes; the
\* migration and trainings are started by an admin, who need not.
FairSpec == Spec /\ WF_vars(ScrubStep) /\ WF_vars(RewriteStep("recompress")) /\ WF_vars(Finish)

-----------------------------------------------------------------------------
(* Properties.                                                             *)

(* The scrub reports only objects whose blob really is damaged or gone,    *)
(* never one a PUT, a delete or a maintenance swap was replacing while it  *)
(* looked (a report makes peers "heal" the object with their copy), nor    *)
(* one whose dictionary is merely not loaded.                              *)
NoFalseAlarm == \A a \in alarms : a.broken

(* A damaged or missing blob of a live object is eventually reported (or   *)
(* the object is overwritten or deleted), whatever the page size, equal    *)
(* keys in several buckets, sampling and restarts between batches.         *)
Unreported == "scrub" \in on /\ \E o \in Objects :
    /\ row[o] # 0 /\ lock[o] = "free" /\ (blob[o] = NoBlob \/ blob[o].damaged)
    /\ [obj |-> o, broken |-> TRUE] \notin alarms
DamageReported == Unreported ~> ~Unreported

(* Whatever maintenance swapped in meanwhile, an object nobody is writing  *)
(* has the content its row names: a staged rewrite of older bytes never    *)
(* replaces a newer upload nor revives a deleted one.                      *)
SwapKeepsObject == \A o \in Objects :
    lock[o] = "free" /\ blob[o] # NoBlob => blob[o].ver = row[o]

(* Recompression ends: every healthy compressible object in an outdated    *)
(* encoding is eventually in the current one.                              *)
Outdated == "recompress" \in on /\ \E o \in Compressible :
    /\ row[o] # 0 /\ blob[o] # NoBlob /\ ~blob[o].damaged
    /\ NeedsWork("recompress", blob[o], CurrentDict)
UpgradesEnd == Outdated ~> ~Outdated

(* Both periodic walks get to every object that needs them.                *)
WalksComplete == DamageReported /\ UpgradesEnd
=============================================================================
