--------------------------- MODULE ObjectStoreInv ---------------------------
(***************************************************************************)
(* The inductive invariant of ObjectStore: why BytesMatchMetadata and       *)
(* ReadsOneVersion hold.  An object's bytes and row disagree only between   *)
(* the rename and the metadata commit (or the rollback) of a writer that    *)
(* holds the key lock and has journaled the version it replaces; a backup   *)
(* always holds the version its intent calls old; so a crash in between     *)
(* leaves a journal entry that recovery must restore.                       *)
(***************************************************************************)
EXTENDS ObjectStore

Consistent(k) == Live(k) => Resolve(k) = meta[k].etag

\* The labels at which a handler holds the write locks of its request.
Writing ==
    {"put", "copy", "link", "delete", "purge", "orphan", "stale", "backup", "intent",
     "journal", "rename", "commit", "dropold", "dropprev", "dropswap", "restore", "delrow",
     "dropfinal", "droplegacy"}
Waiting == {"idle", "scan", "lock", "rlock"}
Reading(p) == pc[p] \in {"get", "open"} \/ (pc[p] = "done" /\ req[p].op = "get")

\* A running handler has a request, an idle one has none.
RequestInv ==
    \A p \in Procs :
        /\ pc[p] = "idle" <=> req[p] = None
        /\ pc[p] = "idle" => need[p] = {}
        /\ pc[p] \in {"rlock", "get", "open"} => req[p].op = "get"
        /\ pc[p] \in Writing => req[p].op # "get"
        /\ pc[p] = "lock" => req[p].op # "get"
        /\ pc[p] = "scan" => req[p].op = "stale"

\* Locks exclude, and a handler that acts under a lock holds it.
LockInv ==
    /\ \A s \in Stripes : readers[s] # {} => writer[s] = None
    /\ \A p \in Procs :
        /\ pc[p] = "lock" => \A k \in {req[p].key, req[p].src} :
                                Stripe[k] \in need[p] \/ writer[Stripe[k]] = p
        /\ pc[p] = "scan" => need[p] = {Stripe[req[p].key], Stripe[req[p].src]}
        /\ pc[p] \in Writing =>
                writer[Stripe[req[p].key]] = p /\ writer[Stripe[req[p].src]] = p
        /\ Reading(p) => p \in readers[Stripe[req[p].key]]

\* Where the files and the row of a swap stand at each of its steps.
SwapAt(p) ==
    LET k == req[p].key
        i == sid[p]
    IN  /\ pc[p] = "lock" /\ req[p].op = "put" => tag[p] \in Etags /\ tag[p] = bytes[p]
        /\ pc[p] = "link" => tag[p] \in Etags /\ tag[p] = Active(req[p].src)
        /\ pc[p] \in {"put", "backup", "intent", "journal", "rename", "commit"} =>
                tag[p] \in Etags /\ tag[p] = bytes[p]
        /\ pc[p] \in {"backup", "intent", "journal", "rename", "commit", "restore"} =>
                row[p] = Active(k)
        /\ pc[p] \in {"intent", "journal", "dropprev", "dropswap"} => i # None
        /\ pc[p] \in {"intent", "journal", "rename"} /\ i # None =>
                final[k] # None /\ prev[i] = final[k]
        /\ pc[p] = "rename" /\ i = None => final[k] = None
        /\ pc[p] \in {"rename", "commit", "restore"} /\ i # None =>
                swap[i] = [key |-> k, new |-> tag[p], old |-> row[p]]
        /\ pc[p] \in {"commit", "restore"} =>
                /\ final[k] = tag[p] /\ tag[p] \in Etags
                /\ i # None => prev[i] # None
                /\ i = None => row[p] = None
        /\ pc[p] \in {"put", "copy", "link", "backup"} \cup Waiting => i = None
        /\ pc[p] = "dropold" => final[k] # None
        /\ pc[p] = "delrow" => Live(k)
        /\ pc[p] \in {"dropfinal", "droplegacy"} => ~Live(k)

SwapInv == \A p \in Procs : SwapAt(p)

SidInv == \A p, q \in Procs : sid[p] # None /\ sid[p] = sid[q] => p = q

\* A backup beside a whole intent holds the version the intent calls old.
BackupInv ==
    \A i \in SwapIds :
        /\ swap[i] \notin {None, Torn} /\ swap[i].old # None /\ prev[i] # None =>
                prev[i] = swap[i].old

\* No object lives under a fallback path.
LayoutInv == \A k \in Keys : legacy[k] = None

\* While the engine serves: only a writer past its rename may leave bytes and row apart.
UpInv ==
    phase = "up" =>
        \A k \in Keys :
            Consistent(k) \/ \E p \in Procs : pc[p] \in {"commit", "restore"} /\ req[p].key = k

\* While it starts: what is apart is what the journal restores.
RecoverInv ==
    phase = "recovering" =>
        /\ \A p \in Procs : pc[p] = "idle"
        /\ step # "scan" => entry # None /\ swap[entry] # None /\ ~MustRestore(entry)
        /\ \A k \in Keys :
              Consistent(k) \/ \E i \in SwapIds : swap[i] # None /\ MustRestore(i) /\ swap[i].key = k

\* What a GET has read is one version, still the current one while it holds the lock.
ReadAt(p) ==
    /\ pc[p] = "open" => row[p] # None /\ row[p] = Active(req[p].key)
    /\ pc[p] = "done" /\ req[p].op = "get" /\ row[p] # None =>
            (res[p] = "ok" /\ bytes[p] = row[p]) \/ res[p] = "rowonly"

ReadInv == \A p \in Procs : ReadAt(p)

\* The labels before the outcome of a request is decided, and of those the ones
\* between the check of a swap and its metadata commit.
Deciding ==
    {"idle", "scan", "lock", "rlock", "put", "copy", "link", "delete", "get", "purge", "orphan",
     "stale", "backup", "intent", "journal", "rename", "commit", "delrow", "open"}
Swapping == {"backup", "intent", "journal", "rename", "commit"}

\* A handler is where its request takes it; it is undecided exactly before the step
\* that decides it; and what it checked or read under its locks is still so.
CallAt(p) ==
    LET q == req[p]
    IN  /\ pc[p] \in {"copy", "link"} => q.op = "copy"
        /\ pc[p] \in {"delete", "delrow"} => q.op = "delete"
        /\ pc[p] \in {"put"} \cup Swapping => q.op \in {"put", "copy"}
        /\ pc[p] \in {"scan", "purge", "orphan", "stale"} => q.op \in JobOps
        /\ pc[p] \in Deciding => res[p] = "none"
        /\ pc[p] \notin Deciding /\ q.op \in ClientOps => res[p] # "none"
        /\ pc[p] \in {"idle", "rlock", "get", "open"} => bytes[p] = None
        /\ pc[p] \in {"lock", "put"} \cup Swapping /\ q.op = "put" => tag[p] = q.etag
        /\ pc[p] \in {"put"} \cup Swapping /\ q.op = "copy" => tag[p] = Active(q.src)
        /\ pc[p] \in {"delrow"} \cup Swapping => Active(q.key) \in q.cond

CallInv == \A p \in Procs : CallAt(p)

\* What the proofs assume of the deployment: no blob under a fallback path, whose
\* overwrite is not journaled, no rollback that fails, and no intent that a start
\* fails to read.
Sound == LegacyKeys = {} /\ Faults \cap {"restore", "reread"} = {}

IInv ==
    /\ TypeOK
    /\ RequestInv
    /\ LockInv
    /\ SwapInv
    /\ SidInv
    /\ BackupInv
    /\ LayoutInv
    /\ UpInv
    /\ RecoverInv
    /\ ReadInv
=============================================================================
