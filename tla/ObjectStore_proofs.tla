--------------------------- MODULE ObjectStore_proofs ---------------------------
(***************************************************************************)
(* Proofs about ObjectStore: its type invariant, BytesMatchMetadata and     *)
(* ReadsOneVersion hold in every behaviour, for any number of handlers,     *)
(* keys, stripes, contents, faults and crashes, through the inductive       *)
(* invariant IInv of ObjectStoreInv; and with CallInv the engine implements *)
(* the atomic registers of AtomicObjects.                                   *)
(***************************************************************************)
EXTENDS ObjectStoreInv, TLAPS

USE ConstantsAssumption, NoneAssumption
USE DEF disk, journal, locks, startup, request, counters, Goto, Finish, Fault, NoFault

-----------------------------------------------------------------------------
(* Facts every step uses.                                                   *)

\* What rows and files name is an etag or None.
LEMMA FileTypes ==
  ASSUME TypeOK, NEW k \in Keys
  PROVE  /\ Active(k) \in EtagOrNone /\ Resolve(k) \in EtagOrNone
         /\ Live(k) => meta[k] \in Rows /\ Active(k) = meta[k].etag /\ Active(k) \in Etags
         /\ ~Live(k) => Active(k) = None
  <1>1. Live(k) => meta[k] \in Rows
    BY DEF TypeOK, Live
  <1>2. Live(k) => meta[k].etag \in Etags
    BY <1>1 DEF Rows
  <1>3. Resolve(k) \in EtagOrNone
    BY DEF TypeOK, Resolve
  <1> QED BY <1>1, <1>2, <1>3 DEF Active, EtagOrNone

\* A handler runs only while the engine serves, and it has a request.
LEMMA Serving ==
  ASSUME IInv, NEW p \in Procs, pc[p] # "idle"
  PROVE  /\ phase = "up"
         /\ req[p] \in Requests
         /\ req[p].key \in Keys /\ req[p].src \in Keys
         /\ Stripe[req[p].key] \in Stripes /\ Stripe[req[p].src] \in Stripes
  <1>1. phase = "up" /\ req[p] \in Requests
    BY DEF IInv, TypeOK, RecoverInv, RequestInv
  <1>2. req[p].key \in Keys /\ req[p].src \in Keys
    BY <1>1 DEF Requests
  <1> QED BY <1>1, <1>2 DEF Stripes

\* The key of a handler that writes is no other handler's, to write or to read.
LEMMA Exclusive ==
  ASSUME IInv, NEW p \in Procs, NEW q \in Procs, p # q, pc[p] \in Writing
  PROVE  /\ pc[q] \in Writing => req[p].key \notin {req[q].key, req[q].src}
         /\ Reading(q) => req[p].key # req[q].key
  <1>1. pc[q] \in Writing => req[p].key \notin {req[q].key, req[q].src}
    BY DEF IInv, LockInv
  <1>2. ASSUME Reading(q) PROVE req[p].key # req[q].key
    <2>1. Stripe[req[q].key] \in Stripes
      BY <1>2, Serving DEF Reading
    <2> QED BY <1>2, <2>1 DEF IInv, LockInv
  <1> QED BY <1>1, <1>2

\* A key whose writer is not past its rename, or that is being read, is consistent.
LEMMA Settled ==
  ASSUME IInv, NEW p \in Procs, NEW k \in Keys,
         \/ pc[p] \in Writing \ {"commit", "restore"} /\ k \in {req[p].key, req[p].src}
         \/ pc[p] \in {"get", "open"} /\ k = req[p].key
  PROVE  Consistent(k)
  <1>1. phase = "up" /\ Stripe[k] \in Stripes
    BY Serving DEF Writing
  <1>2. ASSUME NEW q \in Procs, pc[q] \in {"commit", "restore"}, req[q].key = k PROVE FALSE
    <2>1. writer[Stripe[k]] = q
      BY <1>2 DEF IInv, LockInv, Writing
    <2>2. CASE pc[p] \in Writing \ {"commit", "restore"} /\ k \in {req[p].key, req[p].src}
      BY <2>1, <2>2, <1>2 DEF IInv, LockInv
    <2>3. CASE pc[p] \in {"get", "open"} /\ k = req[p].key
      BY <2>1, <2>3, <1>1 DEF IInv, LockInv, Reading
    <2> QED BY <2>2, <2>3
  <1> QED BY <1>1, <1>2 DEF IInv, UpInv

\* Another handler's swap stands where it stood when its files and row do.
LEMMA OtherSwap ==
  ASSUME IInv, NEW q \in Procs,
         pc'[q] = pc[q], req'[q] = req[q], sid'[q] = sid[q],
         tag'[q] = tag[q], bytes'[q] = bytes[q], row'[q] = row[q],
         pc[q] \in Writing =>
            /\ \A k \in {req[q].key, req[q].src} : meta'[k] = meta[k]
            /\ final'[req[q].key] = final[req[q].key],
         sid[q] # None => prev'[sid[q]] = prev[sid[q]] /\ swap'[sid[q]] = swap[sid[q]]
  PROVE  SwapAt(q)'
  <1>1. SwapAt(q)
    BY DEF IInv, SwapInv
  <1>2. pc[q] \in Writing => /\ Active(req[q].key)' = Active(req[q].key)
                             /\ Active(req[q].src)' = Active(req[q].src)
    BY DEF Active, Live
  <1>3. pc[q] \in Writing => Live(req[q].key)' = Live(req[q].key)
    BY DEF Live
  <1> QED BY <1>1, <1>2, <1>3 DEF SwapAt, Writing, Waiting

\* And another handler's read, when the row does.
LEMMA OtherRead ==
  ASSUME IInv, NEW q \in Procs,
         pc'[q] = pc[q], req'[q] = req[q], bytes'[q] = bytes[q], row'[q] = row[q],
         res'[q] = res[q],
         Reading(q) => meta'[req[q].key] = meta[req[q].key]
  PROVE  ReadAt(q)'
  <1>1. ReadAt(q)
    BY DEF IInv, ReadInv
  <1>2. Reading(q) => Active(req[q].key)' = Active(req[q].key)
    BY DEF Active, Live
  <1> QED BY <1>1, <1>2 DEF ReadAt, Reading

\* So a step that changes only its own key leaves the other handlers where they were.
LEMMA Others ==
  ASSUME IInv, NEW p \in Procs, NEW q \in Procs, q # p, pc[p] \in Writing,
         \A k \in Keys \ {req[p].key} : meta'[k] = meta[k] /\ final'[k] = final[k],
         pc'[q] = pc[q], req'[q] = req[q], sid'[q] = sid[q], res'[q] = res[q],
         tag'[q] = tag[q], bytes'[q] = bytes[q], row'[q] = row[q],
         sid[q] # None => prev'[sid[q]] = prev[sid[q]] /\ swap'[sid[q]] = swap[sid[q]]
  PROVE  SwapAt(q)' /\ ReadAt(q)'
  <1>1. ASSUME pc[q] \in Writing \/ Reading(q)
        PROVE  /\ req[q].key \in Keys \ {req[p].key}
               /\ pc[q] \in Writing => req[q].src \in Keys \ {req[p].key}
    <2>1. pc[q] # "idle"
      BY <1>1 DEF Writing, Reading
    <2> QED BY <1>1, <2>1, Serving, Exclusive
  <1>2. SwapAt(q)'
    BY <1>1, OtherSwap
  <1>3. ReadAt(q)'
    BY <1>1, OtherRead
  <1> QED BY <1>2, <1>3

\* Keys other than the one a handler writes keep what holds of them.
LEMMA OtherKeys ==
  ASSUME IInv, NEW p \in Procs, phase = "up",
         \A k \in Keys \ {req[p].key} :
            meta'[k] = meta[k] /\ final'[k] = final[k] /\ legacy'[k] = legacy[k],
         \A q \in Procs \ {p} : pc'[q] = pc[q] /\ req'[q] = req[q],
         req'[p] = req[p],
         Consistent(req[p].key)' \/ pc'[p] \in {"commit", "restore"}
  PROVE  UpInv'
  <1>1. ASSUME NEW k \in Keys, k # req[p].key
        PROVE  Consistent(k)' \/ \E q \in Procs : pc'[q] \in {"commit", "restore"} /\ req'[q].key = k
    <2>1. Consistent(k) => Consistent(k)'
      BY <1>1 DEF Consistent, Live, Resolve
    <2>2. ASSUME NEW q \in Procs, pc[q] \in {"commit", "restore"}, req[q].key = k
          PROVE  pc'[q] \in {"commit", "restore"} /\ req'[q].key = k
      BY <1>1, <2>2
    <2> QED BY <2>1, <2>2 DEF IInv, UpInv
  <1> QED BY <1>1 DEF UpInv

-----------------------------------------------------------------------------
(* The invariant is kept by every step of a handler.                        *)

\* reconcile found the blob, or goes on to check again under the lock.
LEMMA StaleScanStep ==
  ASSUME IInv, NEW p \in Procs, StaleScan(p)
  PROVE  IInv'
<1>0. /\ pc[p] # "idle" /\ phase = "up" /\ phase' = "up" /\ req[p] \in Requests
      /\ req[p].key \in Keys /\ req[p].src \in Keys
      /\ Stripe[req[p].key] \in Stripes /\ Stripe[req[p].src] \in Stripes
  BY Serving DEF StaleScan, Idle
<1>1. TypeOK'
  <2>1. CASE UNCHANGED <<request, need, res>>
    BY <1>0, <2>1 DEF IInv, TypeOK, PcLabels, StaleScan, Idle
  <2>2. CASE Idle(p)
    BY <1>0, <2>2 DEF IInv, TypeOK, PcLabels, EtagOrNone, StaleScan, Idle
  <2> QED BY <2>1, <2>2 DEF StaleScan
<1>2. RequestInv'
  BY <1>0 DEF IInv, TypeOK, RequestInv, Writing, Requests, ClientOps, JobOps, StaleScan, Idle
<1>3. LockInv'
  BY <1>0 DEF IInv, TypeOK, RequestInv, LockInv, Reading, Writing, StaleScan, Idle
<1>4. ASSUME NEW q \in Procs, q # p PROVE SwapAt(q)' /\ ReadAt(q)'
  BY <1>0, <1>4, OtherSwap, OtherRead DEF IInv, TypeOK, SidInv, StaleScan, Idle
<1>5. SwapAt(p)'
  <2>1. SwapAt(p) /\ req[p].op = "stale"
    BY DEF IInv, SwapInv, RequestInv, StaleScan
  <2>2. CASE pc' = [pc EXCEPT ![p] = "lock"] /\ UNCHANGED <<request, need, res>>
    BY <1>0, <2>1, <2>2 DEF IInv, TypeOK, SwapAt, Waiting, StaleScan
  <2>3. CASE Idle(p)
    BY <1>0, <2>3 DEF IInv, TypeOK, SwapAt, Waiting, Idle
  <2> QED BY <2>2, <2>3 DEF StaleScan
<1>6. ReadAt(p)'
  BY <1>0 DEF IInv, TypeOK, RequestInv, ReadInv, ReadAt, Writing, StaleScan, Idle
<1>7. SidInv' /\ LayoutInv'
  BY <1>0 DEF IInv, TypeOK, SidInv, LayoutInv, StaleScan, Idle
<1>8. BackupInv'
  BY <1>0 DEF IInv, TypeOK, BackupInv, SwapInv, SwapAt, Torn, StaleScan, Idle
<1>9. UpInv'
  BY <1>0 DEF IInv, TypeOK, UpInv, Consistent, Live, Resolve, StaleScan, Idle
<1> QED BY <1>0, <1>1, <1>2, <1>3, <1>4, <1>5, <1>6, <1>7, <1>8, <1>9
       DEF IInv, SwapInv, ReadInv, RecoverInv

\* lock_many takes the next stripe, in ascending order.
LEMMA LockNextStep ==
  ASSUME IInv, NEW p \in Procs, LockNext(p)
  PROVE  IInv'
<1>0. /\ pc[p] # "idle" /\ phase = "up" /\ phase' = "up" /\ req[p] \in Requests
      /\ req[p].key \in Keys /\ req[p].src \in Keys
      /\ Stripe[req[p].key] \in Stripes /\ Stripe[req[p].src] \in Stripes
  BY Serving DEF LockNext
<1>o. req[p].op \in {"put", "copy", "delete", "purge", "orphan", "stale"}
  BY <1>0 DEF IInv, RequestInv, Requests, ClientOps, JobOps, LockNext
<1>1. TypeOK'
  <2>1. pc' \in [Procs -> PcLabels] /\ need' \in [Procs -> SUBSET Stripes]
    BY <1>0, <1>o DEF IInv, TypeOK, PcLabels, LockNext
  <2>2. writer' \in [Stripes -> Procs \cup {None}]
    BY <1>0 DEF IInv, TypeOK, LockNext
  <2> QED BY <2>1, <2>2 DEF IInv, TypeOK, LockNext
<1>2. RequestInv'
  BY <1>0, <1>o DEF IInv, TypeOK, RequestInv, Writing, Requests, ClientOps, JobOps, LockNext
<1>3. LockInv'
  <2> PICK s \in need[p] :
        /\ writer[s] = None /\ readers[s] = {}
        /\ writer' = [writer EXCEPT ![s] = p]
        /\ need' = [need EXCEPT ![p] = @ \ {s}]
        /\ pc' = [pc EXCEPT ![p] = IF need[p] = {s} THEN req[p].op ELSE "lock"]
        /\ UNCHANGED <<readers, req>>
    BY DEF LockNext
  <2>1. s \in Stripes /\ writer'[s] = p /\ \A t \in Stripes \ {s} : writer'[t] = writer[t]
    BY DEF IInv, TypeOK
  <2>2. \A t \in Stripes : readers'[t] # {} => writer'[t] = None
    BY <2>1 DEF IInv, LockInv, TypeOK
  <2>3. ASSUME NEW k \in {req[p].key, req[p].src}
        PROVE  Stripe[k] \in need'[p] \/ writer'[Stripe[k]] = p
    BY <1>0, <2>1, <2>3 DEF IInv, LockInv, TypeOK, LockNext
  <2>4. pc'[p] = "lock" \/ (pc'[p] = req[p].op /\ need'[p] = {})
    BY DEF IInv, TypeOK
  <2>5. ASSUME NEW q \in Procs, q # p
        PROVE  pc'[q] = pc[q] /\ need'[q] = need[q] /\ \A t \in Stripes : writer[t] = q => writer'[t] = q
    BY <2>1, <2>5 DEF IInv, TypeOK
  <2>6. ASSUME NEW q \in Procs, q # p
        PROVE  /\ pc'[q] = "lock" => \A k \in {req[q].key, req[q].src} :
                                        Stripe[k] \in need'[q] \/ writer'[Stripe[k]] = q
               /\ pc'[q] = "scan" => need'[q] = {Stripe[req[q].key], Stripe[req[q].src]}
               /\ pc'[q] \in Writing =>
                    writer'[Stripe[req[q].key]] = q /\ writer'[Stripe[req[q].src]] = q
               /\ Reading(q)' => q \in readers'[Stripe[req[q].key]]
    BY <2>5, <2>6, Serving DEF IInv, LockInv, Reading, Writing
  <2>7. pc'[p] # "scan" /\ ~ Reading(p)'
    BY <1>o, <2>4 DEF Reading
  <2>8. pc'[p] \in Writing =>
          writer'[Stripe[req'[p].key]] = p /\ writer'[Stripe[req'[p].src]] = p
    <3>1. "lock" \notin Writing
      BY DEF Writing
    <3> QED BY <2>3, <2>4, <3>1
  <2>9. pc'[p] = "lock" => \A k \in {req'[p].key, req'[p].src} : Stripe[k] \in need'[p] \/ writer'[Stripe[k]] = p
    BY <2>3
  <2> QED BY <2>2, <2>6, <2>7, <2>8, <2>9 DEF LockInv
<1>4. ASSUME NEW q \in Procs, q # p PROVE SwapAt(q)' /\ ReadAt(q)'
  BY <1>0, <1>o, <1>4, OtherSwap, OtherRead DEF IInv, TypeOK, SidInv, LockNext
<1>5. SwapAt(p)'
  BY <1>0, <1>o DEF IInv, TypeOK, SwapInv, SwapAt, Waiting, LockNext
<1>6. ReadAt(p)'
  BY <1>0, <1>o DEF IInv, TypeOK, ReadAt, LockNext
<1>7. SidInv' /\ LayoutInv'
  BY <1>0, <1>o DEF IInv, TypeOK, SidInv, LayoutInv, LockNext
<1>8. BackupInv'
  BY <1>0, <1>o DEF IInv, TypeOK, BackupInv, SwapInv, SwapAt, Torn, LockNext
<1>9. UpInv'
  BY <1>0, <1>o DEF IInv, TypeOK, UpInv, Consistent, Live, Resolve, LockNext
<1> QED BY <1>0, <1>1, <1>2, <1>3, <1>4, <1>5, <1>6, <1>7, <1>8, <1>9
       DEF IInv, SwapInv, ReadInv, RecoverInv

\* A GET shares its stripe with other readers only.
LEMMA ReadLockStep ==
  ASSUME IInv, NEW p \in Procs, ReadLock(p)
  PROVE  IInv'
<1>0. /\ pc[p] # "idle" /\ phase = "up" /\ phase' = "up" /\ req[p] \in Requests
      /\ req[p].key \in Keys /\ req[p].src \in Keys
      /\ Stripe[req[p].key] \in Stripes /\ Stripe[req[p].src] \in Stripes
  BY Serving DEF ReadLock
<1>1. TypeOK'
  BY <1>0 DEF IInv, TypeOK, PcLabels, EtagOrNone, ReadLock
<1>2. RequestInv'
  BY <1>0 DEF IInv, TypeOK, RequestInv, Writing, Requests, ClientOps, JobOps, ReadLock
<1>3. LockInv'
  BY <1>0 DEF IInv, TypeOK, RequestInv, LockInv, Reading, Writing, ReadLock
<1>4. ASSUME NEW q \in Procs, q # p PROVE SwapAt(q)' /\ ReadAt(q)'
  BY <1>0, <1>4, OtherSwap, OtherRead DEF IInv, TypeOK, SidInv, ReadLock
<1>5. SwapAt(p)'
  BY <1>0 DEF IInv, TypeOK, SwapInv, SwapAt, Waiting, Active, Live, ReadLock
<1>6. ReadAt(p)'
  BY <1>0 DEF IInv, TypeOK, RequestInv, ReadInv, ReadAt, Writing, ReadLock
<1>7. SidInv' /\ LayoutInv'
  BY <1>0 DEF IInv, TypeOK, SidInv, LayoutInv, ReadLock
<1>8. BackupInv'
  BY <1>0 DEF IInv, TypeOK, BackupInv, SwapInv, SwapAt, Torn, ReadLock
<1>9. UpInv'
  BY <1>0 DEF IInv, TypeOK, UpInv, Consistent, Live, Resolve, ReadLock
<1> QED BY <1>0, <1>1, <1>2, <1>3, <1>4, <1>5, <1>6, <1>7, <1>8, <1>9
       DEF IInv, SwapInv, ReadInv, RecoverInv

\* A COPY reads the row of its source.
LEMMA CopyRowStep ==
  ASSUME IInv, NEW p \in Procs, CopyRow(p)
  PROVE  IInv'
<1>0. /\ pc[p] # "idle" /\ phase = "up" /\ phase' = "up" /\ req[p] \in Requests
      /\ req[p].key \in Keys /\ req[p].src \in Keys
      /\ Stripe[req[p].key] \in Stripes /\ Stripe[req[p].src] \in Stripes
  BY Serving DEF CopyRow
<1>t. /\ Active(req[p].src) \in EtagOrNone /\ Resolve(req[p].src) \in EtagOrNone
      /\ Live(req[p].src) => Active(req[p].src) = meta[req[p].src].etag /\ Active(req[p].src) \in Etags
      /\ ~Live(req[p].src) => Active(req[p].src) = None
  BY <1>0, FileTypes DEF IInv
<1>u. Active(req[p].src)' = Active(req[p].src)
  BY DEF Active, Live, CopyRow
<1>s. SwapAt(p)
  BY DEF IInv, SwapInv
<1>1. TypeOK'
  BY <1>0, <1>t, <1>u, <1>s DEF IInv, TypeOK, PcLabels, EtagOrNone, CopyRow
<1>2. RequestInv'
  BY <1>0, <1>t, <1>u, <1>s DEF IInv, TypeOK, RequestInv, Writing, Requests, ClientOps, JobOps, CopyRow
<1>3. LockInv'
  BY <1>0, <1>t, <1>u, <1>s DEF IInv, TypeOK, RequestInv, LockInv, Reading, Writing, CopyRow
<1>4. ASSUME NEW q \in Procs, q # p PROVE SwapAt(q)' /\ ReadAt(q)'
  BY <1>0, <1>t, <1>u, <1>s, <1>4, OtherSwap, OtherRead DEF IInv, TypeOK, SidInv, CopyRow
<1>5. SwapAt(p)'
  <2>1. sid'[p] = None /\ tag'[p] = Active(req[p].src)' /\ req'[p] = req[p]
    BY <1>0, <1>s, <1>u DEF IInv, TypeOK, SwapAt, CopyRow
  <2>2. pc'[p] = "done" \/ (pc'[p] = "link" /\ tag'[p] \in Etags)
    BY <1>0, <1>t DEF IInv, TypeOK, CopyRow
  <2> QED BY <2>1, <2>2 DEF SwapAt, Waiting
<1>6. ReadAt(p)'
  BY <1>0, <1>t, <1>u, <1>s DEF IInv, TypeOK, RequestInv, ReadInv, ReadAt, Writing, CopyRow
<1>7. SidInv' /\ LayoutInv'
  BY <1>0, <1>t, <1>u, <1>s DEF IInv, TypeOK, SidInv, LayoutInv, CopyRow
<1>8. BackupInv'
  BY <1>0, <1>t, <1>u, <1>s DEF IInv, TypeOK, BackupInv, SwapInv, SwapAt, Torn, CopyRow
<1>9. UpInv'
  BY <1>0, <1>t, <1>u, <1>s DEF IInv, TypeOK, UpInv, Consistent, Live, Resolve, CopyRow
<1> QED BY <1>0, <1>1, <1>2, <1>3, <1>4, <1>5, <1>6, <1>7, <1>8, <1>9
       DEF IInv, SwapInv, ReadInv, RecoverInv

\* What it stages is that version of the source: it holds the source lock too.
LEMMA CopyLinkStep ==
  ASSUME IInv, NEW p \in Procs, CopyLink(p)
  PROVE  IInv'
<1>0. /\ pc[p] # "idle" /\ phase = "up" /\ phase' = "up" /\ req[p] \in Requests
      /\ req[p].key \in Keys /\ req[p].src \in Keys
      /\ Stripe[req[p].key] \in Stripes /\ Stripe[req[p].src] \in Stripes
  BY Serving DEF CopyLink
<1>t. /\ Active(req[p].src) \in EtagOrNone /\ Resolve(req[p].src) \in EtagOrNone
      /\ Live(req[p].src) => Active(req[p].src) = meta[req[p].src].etag /\ Active(req[p].src) \in Etags
      /\ ~Live(req[p].src) => Active(req[p].src) = None
  BY <1>0, FileTypes DEF IInv
<1>c. Consistent(req[p].src)
  BY <1>0, Settled DEF Writing, CopyLink
<1>s. SwapAt(p)
  BY DEF IInv, SwapInv
<1>1. TypeOK'
  BY <1>0, <1>t, <1>c, <1>s DEF IInv, TypeOK, PcLabels, EtagOrNone, CopyLink
<1>2. RequestInv'
  BY <1>0, <1>t, <1>c, <1>s DEF IInv, TypeOK, RequestInv, Writing, Requests, ClientOps, JobOps, CopyLink
<1>3. LockInv'
  BY <1>0, <1>t, <1>c, <1>s DEF IInv, TypeOK, RequestInv, LockInv, Reading, Writing, CopyLink
<1>4. ASSUME NEW q \in Procs, q # p PROVE SwapAt(q)' /\ ReadAt(q)'
  BY <1>0, <1>t, <1>c, <1>s, <1>4, OtherSwap, OtherRead DEF IInv, TypeOK, SidInv, CopyLink
<1>5. SwapAt(p)'
  <2>1. sid'[p] = None /\ tag'[p] = tag[p] /\ bytes'[p] = Resolve(req[p].src)
    BY <1>0, <1>s DEF IInv, TypeOK, SwapAt, CopyLink
  <2>2. tag[p] \in Etags /\ tag[p] = Resolve(req[p].src)
    BY <1>s, <1>t, <1>c DEF SwapAt, Consistent, CopyLink
  <2>3. pc'[p] \in {"put", "done"}
    BY <1>0 DEF IInv, TypeOK, CopyLink
  <2> QED BY <2>1, <2>2, <2>3 DEF SwapAt, Waiting
<1>6. ReadAt(p)'
  BY <1>0, <1>t, <1>c, <1>s DEF IInv, TypeOK, RequestInv, ReadInv, ReadAt, Writing, CopyLink
<1>7. SidInv' /\ LayoutInv'
  BY <1>0, <1>t, <1>c, <1>s DEF IInv, TypeOK, SidInv, LayoutInv, CopyLink
<1>8. BackupInv'
  BY <1>0, <1>t, <1>c, <1>s DEF IInv, TypeOK, BackupInv, SwapInv, SwapAt, Torn, CopyLink
<1>9. UpInv'
  BY <1>0, <1>t, <1>c, <1>s DEF IInv, TypeOK, UpInv, Consistent, Live, Resolve, CopyLink
<1> QED BY <1>0, <1>1, <1>2, <1>3, <1>4, <1>5, <1>6, <1>7, <1>8, <1>9
       DEF IInv, SwapInv, ReadInv, RecoverInv

\* swap_in_staged reads the version it will replace.
LEMMA SwapCheckStep ==
  ASSUME IInv, NEW p \in Procs, SwapCheck(p)
  PROVE  IInv'
<1>0. /\ pc[p] # "idle" /\ phase = "up" /\ phase' = "up" /\ req[p] \in Requests
      /\ req[p].key \in Keys /\ req[p].src \in Keys
      /\ Stripe[req[p].key] \in Stripes /\ Stripe[req[p].src] \in Stripes
  BY Serving DEF SwapCheck
<1>t. /\ Active(req[p].key) \in EtagOrNone /\ Resolve(req[p].key) \in EtagOrNone
      /\ Live(req[p].key) => Active(req[p].key) = meta[req[p].key].etag /\ Active(req[p].key) \in Etags
      /\ ~Live(req[p].key) => Active(req[p].key) = None
  BY <1>0, FileTypes DEF IInv
<1>u. Active(req[p].key)' = Active(req[p].key)
  BY DEF Active, Live, SwapCheck
<1>s. SwapAt(p)
  BY DEF IInv, SwapInv
<1>1. TypeOK'
  BY <1>0, <1>t, <1>u, <1>s DEF IInv, TypeOK, PcLabels, EtagOrNone, SwapCheck
<1>2. RequestInv'
  BY <1>0, <1>t, <1>u, <1>s DEF IInv, TypeOK, RequestInv, Writing, Requests, ClientOps, JobOps, SwapCheck
<1>3. LockInv'
  BY <1>0, <1>t, <1>u, <1>s DEF IInv, TypeOK, RequestInv, LockInv, Reading, Writing, SwapCheck
<1>4. ASSUME NEW q \in Procs, q # p PROVE SwapAt(q)' /\ ReadAt(q)'
  BY <1>0, <1>t, <1>u, <1>s, <1>4, OtherSwap, OtherRead DEF IInv, TypeOK, SidInv, SwapCheck
<1>5. SwapAt(p)'
  <2>1. sid'[p] = None /\ tag'[p] = tag[p] /\ bytes'[p] = bytes[p] /\ req'[p] = req[p]
    BY <1>s DEF SwapAt, SwapCheck
  <2>2. row'[p] = Active(req[p].key)'
    BY <1>0, <1>u DEF IInv, TypeOK, SwapCheck
  <2>3. pc'[p] \in {"backup", "done"} /\ pc[p] = "put"
    BY <1>0 DEF IInv, TypeOK, SwapCheck
  <2> QED BY <1>s, <2>1, <2>2, <2>3 DEF SwapAt, Waiting
<1>6. ReadAt(p)'
  BY <1>0, <1>t, <1>u, <1>s DEF IInv, TypeOK, RequestInv, ReadInv, ReadAt, Writing, SwapCheck
<1>7. SidInv' /\ LayoutInv'
  BY <1>0, <1>t, <1>u, <1>s DEF IInv, TypeOK, SidInv, LayoutInv, SwapCheck
<1>8. BackupInv'
  BY <1>0, <1>t, <1>u, <1>s DEF IInv, TypeOK, BackupInv, SwapInv, SwapAt, Torn, SwapCheck
<1>9. UpInv'
  BY <1>0, <1>t, <1>u, <1>s DEF IInv, TypeOK, UpInv, Consistent, Live, Resolve, SwapCheck
<1> QED BY <1>0, <1>1, <1>2, <1>3, <1>4, <1>5, <1>6, <1>7, <1>8, <1>9
       DEF IInv, SwapInv, ReadInv, RecoverInv

\* The backup holds the bytes of the version being replaced.
LEMMA BackupStep ==
  ASSUME IInv, NEW p \in Procs, Backup(p)
  PROVE  IInv'
<1>0. /\ pc[p] # "idle" /\ phase = "up" /\ phase' = "up" /\ req[p] \in Requests
      /\ req[p].key \in Keys /\ req[p].src \in Keys
      /\ Stripe[req[p].key] \in Stripes /\ Stripe[req[p].src] \in Stripes
  BY Serving DEF Backup
<1>1. TypeOK'
  BY <1>0 DEF IInv, TypeOK, PcLabels, EtagOrNone, Backup
<1>2. RequestInv'
  BY <1>0 DEF IInv, TypeOK, RequestInv, Writing, Requests, ClientOps, JobOps, Backup
<1>3. LockInv'
  BY <1>0 DEF IInv, TypeOK, RequestInv, LockInv, Reading, Writing, Backup
<1>4. ASSUME NEW q \in Procs, q # p PROVE SwapAt(q)' /\ ReadAt(q)'
  BY <1>0, <1>4, OtherSwap, OtherRead DEF IInv, TypeOK, SidInv, Backup
<1>5. SwapAt(p)'
  BY <1>0 DEF IInv, TypeOK, SwapInv, SwapAt, Waiting, Active, Live, Backup
<1>6. ReadAt(p)'
  BY <1>0 DEF IInv, TypeOK, RequestInv, ReadInv, ReadAt, Writing, Backup
<1>7. SidInv' /\ LayoutInv'
  BY <1>0 DEF IInv, TypeOK, SidInv, LayoutInv, Backup
<1>8. BackupInv'
  BY <1>0 DEF IInv, TypeOK, BackupInv, SwapInv, SwapAt, Torn, Backup
<1>9. UpInv'
  BY <1>0 DEF IInv, TypeOK, UpInv, Consistent, Live, Resolve, Backup
<1> QED BY <1>0, <1>1, <1>2, <1>3, <1>4, <1>5, <1>6, <1>7, <1>8, <1>9
       DEF IInv, SwapInv, ReadInv, RecoverInv

\* A torn intent restores nothing.
LEMMA IntentOpenStep ==
  ASSUME IInv, NEW p \in Procs, IntentOpen(p)
  PROVE  IInv'
<1>0. /\ pc[p] # "idle" /\ phase = "up" /\ phase' = "up" /\ req[p] \in Requests
      /\ req[p].key \in Keys /\ req[p].src \in Keys
      /\ Stripe[req[p].key] \in Stripes /\ Stripe[req[p].src] \in Stripes
  BY Serving DEF IntentOpen
<1>i. Torn \in Intents
  BY DEF Intents
<1>1. TypeOK'
  BY <1>0, <1>i DEF IInv, TypeOK, PcLabels, EtagOrNone, IntentOpen
<1>2. RequestInv'
  BY <1>0, <1>i DEF IInv, TypeOK, RequestInv, Writing, Requests, ClientOps, JobOps, IntentOpen
<1>3. LockInv'
  BY <1>0, <1>i DEF IInv, TypeOK, RequestInv, LockInv, Reading, Writing, IntentOpen
<1>4. ASSUME NEW q \in Procs, q # p PROVE SwapAt(q)' /\ ReadAt(q)'
  BY <1>0, <1>i, <1>4, OtherSwap, OtherRead DEF IInv, TypeOK, SidInv, IntentOpen
<1>5. SwapAt(p)'
  BY <1>0, <1>i, ZenonT(30) DEF IInv, TypeOK, SwapInv, SwapAt, Waiting, Active, Live, IntentOpen
<1>6. ReadAt(p)'
  BY <1>0, <1>i DEF IInv, TypeOK, RequestInv, ReadInv, ReadAt, Writing, IntentOpen
<1>7. SidInv' /\ LayoutInv'
  BY <1>0, <1>i DEF IInv, TypeOK, SidInv, LayoutInv, IntentOpen
<1>8. BackupInv'
  BY <1>0, <1>i DEF IInv, TypeOK, BackupInv, SwapInv, SwapAt, Torn, IntentOpen
<1>9. UpInv'
  BY <1>0, <1>i DEF IInv, TypeOK, UpInv, Consistent, Live, Resolve, IntentOpen
<1> QED BY <1>0, <1>1, <1>2, <1>3, <1>4, <1>5, <1>6, <1>7, <1>8, <1>9
       DEF IInv, SwapInv, ReadInv, RecoverInv

\* The whole intent names the version its backup holds.
LEMMA IntentWriteStep ==
  ASSUME IInv, NEW p \in Procs, IntentWrite(p)
  PROVE  IInv'
<1>0. /\ pc[p] # "idle" /\ phase = "up" /\ phase' = "up" /\ req[p] \in Requests
      /\ req[p].key \in Keys /\ req[p].src \in Keys
      /\ Stripe[req[p].key] \in Stripes /\ Stripe[req[p].src] \in Stripes
  BY Serving DEF IntentWrite
<1>s. SwapAt(p)
  BY DEF IInv, SwapInv
<1>i. /\ sid[p] \in SwapIds
      /\ [key |-> req[p].key, new |-> tag[p], old |-> row[p]] \in Intents
  BY <1>0, <1>s DEF IInv, TypeOK, SwapAt, Intents, IntentWrite
<1>1. TypeOK'
  <2>1. /\ swap' \in [SwapIds -> Intents \cup {None}] /\ prev' \in [SwapIds -> EtagOrNone]
    BY <1>i DEF IInv, TypeOK, EtagOrNone, IntentWrite
  <2>2. /\ pc' \in [Procs -> PcLabels] /\ res' \in [Procs -> {"none", "ok", "err", "missing", "rowonly"}]
        /\ faults' \in Nat
    BY DEF IInv, TypeOK, PcLabels, IntentWrite
  <2>3. /\ meta' = meta /\ final' = final /\ legacy' = legacy /\ writer' = writer /\ readers' = readers
        /\ phase' = phase /\ entry' = entry /\ step' = step /\ req' = req /\ need' = need
        /\ row' = row /\ tag' = tag /\ bytes' = bytes /\ sid' = sid /\ crashes' = crashes
    BY DEF IntentWrite
  <2> QED BY <2>1, <2>2, <2>3 DEF IInv, TypeOK
<1>2. RequestInv'
  BY <1>0, <1>s, <1>i DEF IInv, TypeOK, RequestInv, Writing, Requests, ClientOps, JobOps, IntentWrite
<1>3. LockInv'
  BY <1>0, <1>s, <1>i DEF IInv, TypeOK, RequestInv, LockInv, Reading, Writing, IntentWrite
<1>4. ASSUME NEW q \in Procs, q # p PROVE SwapAt(q)' /\ ReadAt(q)'
  BY <1>0, <1>s, <1>i, <1>4, OtherSwap, OtherRead, ZenonT(30) DEF IInv, TypeOK, SidInv, IntentWrite
<1>5. SwapAt(p)'
  BY <1>0, <1>s, <1>i DEF IInv, TypeOK, SwapInv, SwapAt, Waiting, Active, Live, IntentWrite
<1>6. ReadAt(p)'
  BY <1>0, <1>s, <1>i DEF IInv, TypeOK, RequestInv, ReadInv, ReadAt, Writing, IntentWrite
<1>7. SidInv' /\ LayoutInv'
  BY <1>0, <1>s, <1>i DEF IInv, TypeOK, SidInv, LayoutInv, IntentWrite
<1>8. BackupInv'
  <2>1. final[req[p].key] # None /\ prev[sid[p]] = final[req[p].key] /\ row[p] = Active(req[p].key)
    BY <1>s, <1>i DEF SwapAt, IntentWrite
  <2>2. row[p] # None => prev[sid[p]] = row[p]
    <3>1. Consistent(req[p].key)
      BY <1>0, Settled DEF Writing, IntentWrite
    <3> QED BY <2>1, <3>1 DEF Consistent, Resolve, Active
  <2> QED BY <1>0, <1>i, <2>2 DEF IInv, TypeOK, BackupInv, Torn, IntentWrite
<1>9. UpInv'
  BY <1>0, <1>s, <1>i DEF IInv, TypeOK, UpInv, Consistent, Live, Resolve, IntentWrite
<1> QED BY <1>0, <1>1, <1>2, <1>3, <1>4, <1>5, <1>6, <1>7, <1>8, <1>9
       DEF IInv, SwapInv, ReadInv, RecoverInv

\* From the rename on, the key may be apart, and the journal says how to undo it.
LEMMA RenameStep ==
  ASSUME IInv, NEW p \in Procs, Rename(p)
  PROVE  IInv'
<1>0. /\ pc[p] # "idle" /\ phase = "up" /\ phase' = "up" /\ req[p] \in Requests
      /\ req[p].key \in Keys /\ req[p].src \in Keys
      /\ Stripe[req[p].key] \in Stripes /\ Stripe[req[p].src] \in Stripes
  BY Serving DEF Rename
<1>s. SwapAt(p)
  BY DEF IInv, SwapInv
<1>c. Consistent(req[p].key)
  BY <1>0, Settled DEF Writing, Rename
<1>f. /\ pc[p] \in Writing
      /\ \A k \in Keys \ {req[p].key} :
            meta'[k] = meta[k] /\ final'[k] = final[k] /\ legacy'[k] = legacy[k]
  BY DEF IInv, TypeOK, Writing, Rename
<1>1. TypeOK'
  BY <1>0, <1>s, <1>c, <1>f DEF IInv, TypeOK, PcLabels, EtagOrNone, Rename
<1>2. RequestInv'
  BY <1>0, <1>s, <1>c, <1>f DEF IInv, TypeOK, RequestInv, Writing, Requests, ClientOps, JobOps, Rename
<1>3. LockInv'
  BY <1>0, <1>s, <1>c, <1>f DEF IInv, TypeOK, RequestInv, LockInv, Reading, Writing, Rename
<1>4. ASSUME NEW q \in Procs, q # p PROVE SwapAt(q)' /\ ReadAt(q)'
  BY <1>0, <1>s, <1>c, <1>f, <1>4, Others DEF IInv, TypeOK, SidInv, Writing, Rename
<1>5. SwapAt(p)'
  <2>1. Active(req[p].key)' = Active(req[p].key)
    BY DEF Active, Live, Rename
  <2>2. CASE pc'[p] = "commit"
    <3>1. final'[req[p].key] = tag[p] /\ tag[p] \in Etags
      BY <1>0, <1>s, <2>2 DEF IInv, TypeOK, SwapAt, Rename
    <3>2. sid[p] = None => row[p] = None
      BY <1>0, <1>s, <1>c DEF IInv, TypeOK, LayoutInv, SwapAt, Consistent, Resolve, Active, Rows, Rename
    <3>3. sid[p] # None => prev[sid[p]] # None
      BY <1>s DEF SwapAt, Rename
    <3> QED BY <1>s, <2>1, <2>2, <3>1, <3>2, <3>3 DEF SwapAt, Waiting, Rename
  <2>3. CASE pc'[p] # "commit"
    BY <1>0, <1>s, <2>1, <2>3 DEF IInv, TypeOK, SwapAt, Waiting, Rename
  <2> QED BY <2>2, <2>3
<1>6. ReadAt(p)'
  BY <1>0, <1>s, <1>c, <1>f DEF IInv, TypeOK, RequestInv, ReadInv, ReadAt, Writing, Rename
<1>7. SidInv' /\ LayoutInv'
  BY <1>0, <1>s, <1>c, <1>f DEF IInv, TypeOK, SidInv, LayoutInv, Rename
<1>8. BackupInv'
  BY <1>0, <1>s, <1>c, <1>f DEF IInv, TypeOK, BackupInv, SwapInv, SwapAt, Torn, Rename
<1>9. UpInv'
  <2>1. Consistent(req[p].key)' \/ pc'[p] = "commit"
    BY <1>0, <1>s, <1>c, <1>f DEF IInv, TypeOK, Consistent, Resolve, Live, Rename
  <2> QED BY <1>0, <1>s, <1>c, <1>f, <2>1, OtherKeys DEF IInv, TypeOK, Rename
<1> QED BY <1>0, <1>1, <1>2, <1>3, <1>4, <1>5, <1>6, <1>7, <1>8, <1>9
       DEF IInv, SwapInv, ReadInv, RecoverInv

\* The metadata commit brings the row to the bytes in place.
LEMMA CommitStep ==
  ASSUME IInv, NEW p \in Procs, Commit(p)
  PROVE  IInv'
<1>0. /\ pc[p] # "idle" /\ phase = "up" /\ phase' = "up" /\ req[p] \in Requests
      /\ req[p].key \in Keys /\ req[p].src \in Keys
      /\ Stripe[req[p].key] \in Stripes /\ Stripe[req[p].src] \in Stripes
  BY Serving DEF Commit
<1>s. SwapAt(p)
  BY DEF IInv, SwapInv
<1>r. tag[p] \in Etags /\ final[req[p].key] = tag[p]
  BY <1>s DEF SwapAt, Commit
<1>m. [etag |-> tag[p], deleted |-> "no"] \in Rows
  BY <1>r DEF Rows
<1>f. /\ pc[p] \in Writing
      /\ \A k \in Keys \ {req[p].key} :
            meta'[k] = meta[k] /\ final'[k] = final[k] /\ legacy'[k] = legacy[k]
  BY DEF IInv, TypeOK, Writing, Commit
<1>1. TypeOK'
  <2>1. meta' \in [Keys -> Rows \cup {None}]
    BY <1>0, <1>m DEF IInv, TypeOK, Commit
  <2>2. pc' \in [Procs -> PcLabels] /\ res' \in [Procs -> {"none", "ok", "err", "missing", "rowonly"}]
    BY <1>0 DEF IInv, TypeOK, PcLabels, Commit
  <2> QED BY <2>1, <2>2 DEF IInv, TypeOK, Commit
<1>2. RequestInv'
  BY <1>0, <1>s, <1>r, <1>m, <1>f DEF IInv, TypeOK, RequestInv, Writing, Requests, ClientOps, JobOps, Commit
<1>3. LockInv'
  BY <1>0, <1>s, <1>r, <1>m, <1>f DEF IInv, TypeOK, RequestInv, LockInv, Reading, Writing, Commit
<1>4. ASSUME NEW q \in Procs, q # p PROVE SwapAt(q)' /\ ReadAt(q)'
  BY <1>0, <1>s, <1>r, <1>m, <1>f, <1>4, Others DEF IInv, TypeOK, SidInv, Writing, Commit
<1>5. SwapAt(p)'
  BY <1>0, <1>s, <1>r, <1>m, <1>f DEF IInv, TypeOK, SwapInv, SwapAt, Waiting, Active, Live, Commit
<1>6. ReadAt(p)'
  BY <1>0, <1>s, <1>r, <1>m, <1>f DEF IInv, TypeOK, RequestInv, ReadInv, ReadAt, Writing, Commit
<1>7. SidInv' /\ LayoutInv'
  BY <1>0, <1>s, <1>r, <1>m, <1>f DEF IInv, TypeOK, SidInv, LayoutInv, Commit
<1>8. BackupInv'
  BY <1>0, <1>s, <1>r, <1>m, <1>f DEF IInv, TypeOK, BackupInv, SwapInv, SwapAt, Torn, Commit
<1>9. UpInv'
  <2>1. Consistent(req[p].key)' \/ pc'[p] = "restore"
    <3>1. CASE meta' = [meta EXCEPT ![req[p].key] = [etag |-> tag[p], deleted |-> "no"]]
      BY <1>0, <1>r, <3>1 DEF IInv, TypeOK, Consistent, Resolve, Commit
    <3> QED BY <1>0, <3>1 DEF IInv, TypeOK, Commit
  <2> QED BY <1>0, <1>s, <1>r, <1>m, <1>f, <2>1, OtherKeys DEF IInv, TypeOK, Commit
<1> QED BY <1>0, <1>1, <1>2, <1>3, <1>4, <1>5, <1>6, <1>7, <1>8, <1>9
       DEF IInv, SwapInv, ReadInv, RecoverInv

\* The fallback path of the previous version is not the one readers resolve.
LEMMA DropOldStep ==
  ASSUME IInv, NEW p \in Procs, DropOld(p)
  PROVE  IInv'
<1>0. /\ pc[p] # "idle" /\ phase = "up" /\ phase' = "up" /\ req[p] \in Requests
      /\ req[p].key \in Keys /\ req[p].src \in Keys
      /\ Stripe[req[p].key] \in Stripes /\ Stripe[req[p].src] \in Stripes
  BY Serving DEF DropOld, Unlink
<1>s. SwapAt(p)
  BY DEF IInv, SwapInv
<1>c. Consistent(req[p].key)
  BY <1>0, Settled DEF Writing, DropOld, Unlink
<1>f. /\ pc[p] \in Writing
      /\ \A k \in Keys \ {req[p].key} :
            meta'[k] = meta[k] /\ final'[k] = final[k] /\ legacy'[k] = legacy[k]
  BY DEF IInv, TypeOK, Writing, DropOld, Unlink
<1>1. TypeOK'
  BY <1>0, <1>s, <1>c, <1>f DEF IInv, TypeOK, PcLabels, EtagOrNone, DropOld, Unlink
<1>2. RequestInv'
  BY <1>0, <1>s, <1>c, <1>f DEF IInv, TypeOK, RequestInv, Writing, Requests, ClientOps, JobOps, DropOld, Unlink
<1>3. LockInv'
  BY <1>0, <1>s, <1>c, <1>f DEF IInv, TypeOK, RequestInv, LockInv, Reading, Writing, DropOld, Unlink
<1>4. ASSUME NEW q \in Procs, q # p PROVE SwapAt(q)' /\ ReadAt(q)'
  BY <1>0, <1>s, <1>c, <1>f, <1>4, Others DEF IInv, TypeOK, SidInv, Writing, DropOld, Unlink
<1>5. SwapAt(p)'
  BY <1>0, <1>s, <1>c, <1>f DEF IInv, TypeOK, SwapInv, SwapAt, Waiting, Active, Live, DropOld, Unlink
<1>6. ReadAt(p)'
  BY <1>0, <1>s, <1>c, <1>f DEF IInv, TypeOK, RequestInv, ReadInv, ReadAt, Writing, DropOld, Unlink
<1>7. SidInv' /\ LayoutInv'
  BY <1>0, <1>s, <1>c, <1>f DEF IInv, TypeOK, SidInv, LayoutInv, DropOld, Unlink
<1>8. BackupInv'
  BY <1>0, <1>s, <1>c, <1>f DEF IInv, TypeOK, BackupInv, SwapInv, SwapAt, Torn, DropOld, Unlink
<1>9. UpInv'
  <2>1. Consistent(req[p].key)'
    BY <1>0, <1>s, <1>c DEF SwapAt, Consistent, Resolve, Live, DropOld, Unlink
  <2> QED BY <1>0, <1>s, <1>c, <1>f, <2>1, OtherKeys DEF IInv, TypeOK, DropOld, Unlink
<1> QED BY <1>0, <1>1, <1>2, <1>3, <1>4, <1>5, <1>6, <1>7, <1>8, <1>9
       DEF IInv, SwapInv, ReadInv, RecoverInv

\* A backup is dropped after the commit, or before the rename.
LEMMA DropPrevStep ==
  ASSUME IInv, NEW p \in Procs, DropPrev(p)
  PROVE  IInv'
<1>0. /\ pc[p] # "idle" /\ phase = "up" /\ phase' = "up" /\ req[p] \in Requests
      /\ req[p].key \in Keys /\ req[p].src \in Keys
      /\ Stripe[req[p].key] \in Stripes /\ Stripe[req[p].src] \in Stripes
  BY Serving DEF DropPrev, Unlink
<1>1. TypeOK'
  BY <1>0 DEF IInv, TypeOK, PcLabels, EtagOrNone, DropPrev, Unlink
<1>2. RequestInv'
  BY <1>0 DEF IInv, TypeOK, RequestInv, Writing, Requests, ClientOps, JobOps, DropPrev, Unlink
<1>3. LockInv'
  BY <1>0 DEF IInv, TypeOK, RequestInv, LockInv, Reading, Writing, DropPrev, Unlink
<1>4. ASSUME NEW q \in Procs, q # p PROVE SwapAt(q)' /\ ReadAt(q)'
  BY <1>0, <1>4, OtherSwap, OtherRead DEF IInv, TypeOK, SidInv, DropPrev, Unlink
<1>5. SwapAt(p)'
  BY <1>0, ZenonT(30) DEF IInv, TypeOK, SwapInv, SwapAt, Waiting, Active, Live, DropPrev, Unlink
<1>6. ReadAt(p)'
  BY <1>0 DEF IInv, TypeOK, RequestInv, ReadInv, ReadAt, Writing, DropPrev, Unlink
<1>7. SidInv' /\ LayoutInv'
  BY <1>0 DEF IInv, TypeOK, SidInv, LayoutInv, DropPrev, Unlink
<1>8. BackupInv'
  BY <1>0 DEF IInv, TypeOK, BackupInv, SwapInv, SwapAt, Torn, DropPrev, Unlink
<1>9. UpInv'
  BY <1>0 DEF IInv, TypeOK, UpInv, Consistent, Live, Resolve, DropPrev, Unlink
<1> QED BY <1>0, <1>1, <1>2, <1>3, <1>4, <1>5, <1>6, <1>7, <1>8, <1>9
       DEF IInv, SwapInv, ReadInv, RecoverInv

\* Then its intent.
LEMMA DropSwapStep ==
  ASSUME IInv, NEW p \in Procs, DropSwap(p)
  PROVE  IInv'
<1>0. /\ pc[p] # "idle" /\ phase = "up" /\ phase' = "up" /\ req[p] \in Requests
      /\ req[p].key \in Keys /\ req[p].src \in Keys
      /\ Stripe[req[p].key] \in Stripes /\ Stripe[req[p].src] \in Stripes
  BY Serving DEF DropSwap, Unlink
<1>1. TypeOK'
  BY <1>0 DEF IInv, TypeOK, PcLabels, EtagOrNone, DropSwap, Unlink
<1>2. RequestInv'
  BY <1>0 DEF IInv, TypeOK, RequestInv, Writing, Requests, ClientOps, JobOps, DropSwap, Unlink
<1>3. LockInv'
  BY <1>0 DEF IInv, TypeOK, RequestInv, LockInv, Reading, Writing, DropSwap, Unlink
<1>4. ASSUME NEW q \in Procs, q # p PROVE SwapAt(q)' /\ ReadAt(q)'
  BY <1>0, <1>4, OtherSwap, OtherRead DEF IInv, TypeOK, SidInv, DropSwap, Unlink
<1>5. SwapAt(p)'
  BY <1>0 DEF IInv, TypeOK, SwapInv, SwapAt, Waiting, Active, Live, DropSwap, Unlink
<1>6. ReadAt(p)'
  BY <1>0 DEF IInv, TypeOK, RequestInv, ReadInv, ReadAt, Writing, DropSwap, Unlink
<1>7. SidInv' /\ LayoutInv'
  BY <1>0 DEF IInv, TypeOK, SidInv, LayoutInv, DropSwap, Unlink
<1>8. BackupInv'
  BY <1>0 DEF IInv, TypeOK, BackupInv, SwapInv, SwapAt, Torn, DropSwap, Unlink
<1>9. UpInv'
  BY <1>0 DEF IInv, TypeOK, UpInv, Consistent, Live, Resolve, DropSwap, Unlink
<1> QED BY <1>0, <1>1, <1>2, <1>3, <1>4, <1>5, <1>6, <1>7, <1>8, <1>9
       DEF IInv, SwapInv, ReadInv, RecoverInv

\* The rollback brings the bytes back to the row.
LEMMA RestoreStep ==
  ASSUME IInv, NEW p \in Procs, Restore(p), Sound
  PROVE  IInv'
<1>0. /\ pc[p] # "idle" /\ phase = "up" /\ phase' = "up" /\ req[p] \in Requests
      /\ req[p].key \in Keys /\ req[p].src \in Keys
      /\ Stripe[req[p].key] \in Stripes /\ Stripe[req[p].src] \in Stripes
  BY Serving DEF Restore
<1>s. SwapAt(p)
  BY DEF IInv, SwapInv
<1>f. /\ pc[p] \in Writing
      /\ \A k \in Keys \ {req[p].key} :
            meta'[k] = meta[k] /\ final'[k] = final[k] /\ legacy'[k] = legacy[k]
  BY DEF IInv, TypeOK, Writing, Restore
<1>1. TypeOK'
  BY <1>0, <1>s, <1>f DEF IInv, TypeOK, PcLabels, EtagOrNone, Restore
<1>2. RequestInv'
  BY <1>0, <1>s, <1>f DEF IInv, TypeOK, RequestInv, Writing, Requests, ClientOps, JobOps, Restore
<1>3. LockInv'
  BY <1>0, <1>s, <1>f DEF IInv, TypeOK, RequestInv, LockInv, Reading, Writing, Restore
<1>4. ASSUME NEW q \in Procs, q # p PROVE SwapAt(q)' /\ ReadAt(q)'
  BY <1>0, <1>s, <1>f, <1>4, Others DEF IInv, TypeOK, SidInv, Writing, Restore
<1>5. SwapAt(p)'
  BY <1>0, <1>s, <1>f DEF IInv, TypeOK, SwapInv, SwapAt, Waiting, Active, Live, Restore
<1>6. ReadAt(p)'
  BY <1>0, <1>s, <1>f DEF IInv, TypeOK, RequestInv, ReadInv, ReadAt, Writing, Restore
<1>7. SidInv' /\ LayoutInv'
  BY <1>0, <1>s, <1>f DEF IInv, TypeOK, SidInv, LayoutInv, Restore
<1>8. BackupInv'
  BY <1>0, <1>s, <1>f DEF IInv, TypeOK, BackupInv, SwapInv, SwapAt, Torn, Restore
<1>9. UpInv'
  <2>1. Consistent(req[p].key)'
    <3>1. row[p] = Active(req[p].key) /\ (sid[p] = None => row[p] = None)
      BY <1>s DEF SwapAt, Restore
    <3>2. sid[p] # None /\ row[p] # None => prev[sid[p]] = row[p]
      <4>1. ASSUME sid[p] # None, row[p] # None PROVE prev[sid[p]] = row[p]
        <5>1. /\ sid[p] \in SwapIds /\ prev[sid[p]] # None
              /\ swap[sid[p]] = [key |-> req[p].key, new |-> tag[p], old |-> row[p]]
          BY <1>s, <4>1 DEF IInv, TypeOK, SwapAt, Restore
        <5>2. swap[sid[p]] \in Intents /\ swap[sid[p]] # Torn /\ swap[sid[p]].old = row[p]
          BY <1>0, <1>s, <5>1 DEF IInv, TypeOK, SwapAt, Intents, Torn, Restore
        <5> QED BY <4>1, <5>1, <5>2 DEF IInv, BackupInv
      <4> QED BY <4>1
    <3>3. final'[req[p].key] = IF sid[p] = None THEN None ELSE prev[sid[p]]
      BY <1>0 DEF IInv, TypeOK, Sound, Restore
    <3>4. Live(req[p].key) => row[p] = meta[req[p].key].etag /\ row[p] # None
      BY <1>0, <3>1, FileTypes DEF IInv
    <3> QED BY <3>1, <3>2, <3>3, <3>4 DEF Consistent, Resolve, Live, Restore
  <2> QED BY <1>0, <1>s, <1>f, <2>1, OtherKeys DEF IInv, TypeOK, Restore
<1> QED BY <1>0, <1>1, <1>2, <1>3, <1>4, <1>5, <1>6, <1>7, <1>8, <1>9
       DEF IInv, SwapInv, ReadInv, RecoverInv

\* A DELETE reads the row under the lock.
LEMMA DeleteCheckStep ==
  ASSUME IInv, NEW p \in Procs, DeleteCheck(p)
  PROVE  IInv'
<1>0. /\ pc[p] # "idle" /\ phase = "up" /\ phase' = "up" /\ req[p] \in Requests
      /\ req[p].key \in Keys /\ req[p].src \in Keys
      /\ Stripe[req[p].key] \in Stripes /\ Stripe[req[p].src] \in Stripes
  BY Serving DEF DeleteCheck
<1>1. TypeOK'
  BY <1>0 DEF IInv, TypeOK, PcLabels, EtagOrNone, DeleteCheck
<1>2. RequestInv'
  BY <1>0 DEF IInv, TypeOK, RequestInv, Writing, Requests, ClientOps, JobOps, DeleteCheck
<1>3. LockInv'
  BY <1>0 DEF IInv, TypeOK, RequestInv, LockInv, Reading, Writing, DeleteCheck
<1>4. ASSUME NEW q \in Procs, q # p PROVE SwapAt(q)' /\ ReadAt(q)'
  BY <1>0, <1>4, OtherSwap, OtherRead DEF IInv, TypeOK, SidInv, DeleteCheck
<1>5. SwapAt(p)'
  BY <1>0, SMTT(30) DEF IInv, TypeOK, SwapInv, SwapAt, Waiting, Active, Live, DeleteCheck
<1>6. ReadAt(p)'
  BY <1>0 DEF IInv, TypeOK, RequestInv, ReadInv, ReadAt, Writing, DeleteCheck
<1>7. SidInv' /\ LayoutInv'
  BY <1>0 DEF IInv, TypeOK, SidInv, LayoutInv, DeleteCheck
<1>8. BackupInv'
  BY <1>0 DEF IInv, TypeOK, BackupInv, SwapInv, SwapAt, Torn, DeleteCheck
<1>9. UpInv'
  BY <1>0 DEF IInv, TypeOK, UpInv, Consistent, Live, Resolve, DeleteCheck
<1> QED BY <1>0, <1>1, <1>2, <1>3, <1>4, <1>5, <1>6, <1>7, <1>8, <1>9
       DEF IInv, SwapInv, ReadInv, RecoverInv

\* The row goes before the bytes.
LEMMA DeleteRowStep ==
  ASSUME IInv, NEW p \in Procs, DeleteRow(p)
  PROVE  IInv'
<1>0. /\ pc[p] # "idle" /\ phase = "up" /\ phase' = "up" /\ req[p] \in Requests
      /\ req[p].key \in Keys /\ req[p].src \in Keys
      /\ Stripe[req[p].key] \in Stripes /\ Stripe[req[p].src] \in Stripes
  BY Serving DEF DeleteRow
<1>s. SwapAt(p)
  BY DEF IInv, SwapInv
<1>c. Consistent(req[p].key)
  BY <1>0, Settled DEF Writing, DeleteRow
<1>f. /\ pc[p] \in Writing
      /\ \A k \in Keys \ {req[p].key} :
            meta'[k] = meta[k] /\ final'[k] = final[k] /\ legacy'[k] = legacy[k]
  BY DEF IInv, TypeOK, Writing, DeleteRow
<1>m. /\ meta[req[p].key] \in Rows
      /\ [meta[req[p].key] EXCEPT !.deleted = "soft"] \in Rows
      /\ [meta[req[p].key] EXCEPT !.deleted = "soft"].deleted = "soft"
  BY <1>0, <1>s, FileTypes DEF IInv, SwapAt, Rows, DeleteRow
<1>1. TypeOK'
  BY <1>0, <1>s, <1>c, <1>f, <1>m DEF IInv, TypeOK, PcLabels, EtagOrNone, DeleteRow
<1>2. RequestInv'
  BY <1>0, <1>s, <1>c, <1>f, <1>m DEF IInv, TypeOK, RequestInv, Writing, Requests, ClientOps, JobOps, DeleteRow
<1>3. LockInv'
  BY <1>0, <1>s, <1>c, <1>f, <1>m DEF IInv, TypeOK, RequestInv, LockInv, Reading, Writing, DeleteRow
<1>4. ASSUME NEW q \in Procs, q # p PROVE SwapAt(q)' /\ ReadAt(q)'
  BY <1>0, <1>s, <1>c, <1>f, <1>m, <1>4, Others DEF IInv, TypeOK, SidInv, Writing, DeleteRow
<1>5. SwapAt(p)'
  <2>1. pc'[p] = "dropfinal" => ~Live(req[p].key)'
    BY <1>0, <1>m DEF IInv, TypeOK, Live, DeleteRow
  <2> QED BY <1>0, <1>s, <2>1 DEF IInv, TypeOK, SwapAt, Waiting, DeleteRow
<1>6. ReadAt(p)'
  BY <1>0, <1>s, <1>c, <1>f, <1>m DEF IInv, TypeOK, RequestInv, ReadInv, ReadAt, Writing, DeleteRow
<1>7. SidInv' /\ LayoutInv'
  BY <1>0, <1>s, <1>c, <1>f, <1>m DEF IInv, TypeOK, SidInv, LayoutInv, DeleteRow
<1>8. BackupInv'
  BY <1>0, <1>s, <1>c, <1>f, <1>m DEF IInv, TypeOK, BackupInv, SwapInv, SwapAt, Torn, DeleteRow
<1>9. UpInv'
  <2>1. Consistent(req[p].key)'
    <3>1. ~Live(req[p].key)' \/ meta' = meta
      BY <1>0, <1>m DEF IInv, TypeOK, Live, DeleteRow
    <3> QED BY <1>c, <3>1 DEF Consistent, Resolve, Live, DeleteRow
  <2> QED BY <1>0, <1>s, <1>c, <1>f, <1>m, <2>1, OtherKeys DEF IInv, TypeOK, DeleteRow
<1> QED BY <1>0, <1>1, <1>2, <1>3, <1>4, <1>5, <1>6, <1>7, <1>8, <1>9
       DEF IInv, SwapInv, ReadInv, RecoverInv

\* The bytes that go are those of no live object.
LEMMA DropFinalStep ==
  ASSUME IInv, NEW p \in Procs, DropFinal(p)
  PROVE  IInv'
<1>0. /\ pc[p] # "idle" /\ phase = "up" /\ phase' = "up" /\ req[p] \in Requests
      /\ req[p].key \in Keys /\ req[p].src \in Keys
      /\ Stripe[req[p].key] \in Stripes /\ Stripe[req[p].src] \in Stripes
  BY Serving DEF DropFinal, Unlink
<1>s. SwapAt(p)
  BY DEF IInv, SwapInv
<1>f. /\ pc[p] \in Writing
      /\ \A k \in Keys \ {req[p].key} :
            meta'[k] = meta[k] /\ final'[k] = final[k] /\ legacy'[k] = legacy[k]
  BY DEF IInv, TypeOK, Writing, DropFinal, Unlink
<1>1. TypeOK'
  BY <1>0, <1>s, <1>f DEF IInv, TypeOK, PcLabels, EtagOrNone, DropFinal, Unlink
<1>2. RequestInv'
  BY <1>0, <1>s, <1>f DEF IInv, TypeOK, RequestInv, Writing, Requests, ClientOps, JobOps, DropFinal, Unlink
<1>3. LockInv'
  BY <1>0, <1>s, <1>f DEF IInv, TypeOK, RequestInv, LockInv, Reading, Writing, DropFinal, Unlink
<1>4. ASSUME NEW q \in Procs, q # p PROVE SwapAt(q)' /\ ReadAt(q)'
  BY <1>0, <1>s, <1>f, <1>4, Others DEF IInv, TypeOK, SidInv, Writing, DropFinal, Unlink
<1>5. SwapAt(p)'
  BY <1>0, <1>s, <1>f DEF IInv, TypeOK, SwapInv, SwapAt, Waiting, Active, Live, DropFinal, Unlink
<1>6. ReadAt(p)'
  BY <1>0, <1>s, <1>f DEF IInv, TypeOK, RequestInv, ReadInv, ReadAt, Writing, DropFinal, Unlink
<1>7. SidInv' /\ LayoutInv'
  BY <1>0, <1>s, <1>f DEF IInv, TypeOK, SidInv, LayoutInv, DropFinal, Unlink
<1>8. BackupInv'
  BY <1>0, <1>s, <1>f DEF IInv, TypeOK, BackupInv, SwapInv, SwapAt, Torn, DropFinal, Unlink
<1>9. UpInv'
  <2>1. Consistent(req[p].key)'
    BY <1>0, <1>s DEF SwapAt, Consistent, Live, DropFinal, Unlink
  <2> QED BY <1>0, <1>s, <1>f, <2>1, OtherKeys DEF IInv, TypeOK, DropFinal, Unlink
<1> QED BY <1>0, <1>1, <1>2, <1>3, <1>4, <1>5, <1>6, <1>7, <1>8, <1>9
       DEF IInv, SwapInv, ReadInv, RecoverInv

\* So are those under the fallback path.
LEMMA DropLegacyStep ==
  ASSUME IInv, NEW p \in Procs, DropLegacy(p)
  PROVE  IInv'
<1>0. /\ pc[p] # "idle" /\ phase = "up" /\ phase' = "up" /\ req[p] \in Requests
      /\ req[p].key \in Keys /\ req[p].src \in Keys
      /\ Stripe[req[p].key] \in Stripes /\ Stripe[req[p].src] \in Stripes
  BY Serving DEF DropLegacy, Unlink
<1>s. SwapAt(p)
  BY DEF IInv, SwapInv
<1>f. /\ pc[p] \in Writing
      /\ \A k \in Keys \ {req[p].key} :
            meta'[k] = meta[k] /\ final'[k] = final[k] /\ legacy'[k] = legacy[k]
  BY DEF IInv, TypeOK, Writing, DropLegacy, Unlink
<1>1. TypeOK'
  BY <1>0, <1>s, <1>f DEF IInv, TypeOK, PcLabels, EtagOrNone, DropLegacy, Unlink
<1>2. RequestInv'
  BY <1>0, <1>s, <1>f DEF IInv, TypeOK, RequestInv, Writing, Requests, ClientOps, JobOps, DropLegacy, Unlink
<1>3. LockInv'
  BY <1>0, <1>s, <1>f DEF IInv, TypeOK, RequestInv, LockInv, Reading, Writing, DropLegacy, Unlink
<1>4. ASSUME NEW q \in Procs, q # p PROVE SwapAt(q)' /\ ReadAt(q)'
  BY <1>0, <1>s, <1>f, <1>4, Others DEF IInv, TypeOK, SidInv, Writing, DropLegacy, Unlink
<1>5. SwapAt(p)'
  BY <1>0, <1>s, <1>f DEF IInv, TypeOK, SwapInv, SwapAt, Waiting, Active, Live, DropLegacy, Unlink
<1>6. ReadAt(p)'
  BY <1>0, <1>s, <1>f DEF IInv, TypeOK, RequestInv, ReadInv, ReadAt, Writing, DropLegacy, Unlink
<1>7. SidInv' /\ LayoutInv'
  BY <1>0, <1>s, <1>f DEF IInv, TypeOK, SidInv, LayoutInv, DropLegacy, Unlink
<1>8. BackupInv'
  BY <1>0, <1>s, <1>f DEF IInv, TypeOK, BackupInv, SwapInv, SwapAt, Torn, DropLegacy, Unlink
<1>9. UpInv'
  <2>1. Consistent(req[p].key)'
    BY <1>0, <1>s DEF SwapAt, Consistent, Live, DropLegacy, Unlink
  <2> QED BY <1>0, <1>s, <1>f, <2>1, OtherKeys DEF IInv, TypeOK, DropLegacy, Unlink
<1> QED BY <1>0, <1>1, <1>2, <1>3, <1>4, <1>5, <1>6, <1>7, <1>8, <1>9
       DEF IInv, SwapInv, ReadInv, RecoverInv

\* purge_soft_deleted_row removes the row of no live object.
LEMMA PurgeRowStep ==
  ASSUME IInv, NEW p \in Procs, PurgeRow(p)
  PROVE  IInv'
<1>0. /\ pc[p] # "idle" /\ phase = "up" /\ phase' = "up" /\ req[p] \in Requests
      /\ req[p].key \in Keys /\ req[p].src \in Keys
      /\ Stripe[req[p].key] \in Stripes /\ Stripe[req[p].src] \in Stripes
  BY Serving DEF PurgeRow
<1>c. Consistent(req[p].key)
  BY <1>0, Settled DEF Writing, PurgeRow
<1>f. /\ pc[p] \in Writing
      /\ \A k \in Keys \ {req[p].key} :
            meta'[k] = meta[k] /\ final'[k] = final[k] /\ legacy'[k] = legacy[k]
  BY DEF IInv, TypeOK, Writing, PurgeRow
<1>1. TypeOK'
  BY <1>0, <1>c, <1>f DEF IInv, TypeOK, PcLabels, EtagOrNone, PurgeRow
<1>2. RequestInv'
  BY <1>0, <1>c, <1>f DEF IInv, TypeOK, RequestInv, Writing, Requests, ClientOps, JobOps, PurgeRow
<1>3. LockInv'
  BY <1>0, <1>c, <1>f DEF IInv, TypeOK, RequestInv, LockInv, Reading, Writing, PurgeRow
<1>4. ASSUME NEW q \in Procs, q # p PROVE SwapAt(q)' /\ ReadAt(q)'
  BY <1>0, <1>c, <1>f, <1>4, Others DEF IInv, TypeOK, SidInv, Writing, PurgeRow
<1>5. SwapAt(p)'
  BY <1>0, <1>c, <1>f DEF IInv, TypeOK, SwapInv, SwapAt, Waiting, Active, Live, PurgeRow
<1>6. ReadAt(p)'
  BY <1>0, <1>c, <1>f DEF IInv, TypeOK, RequestInv, ReadInv, ReadAt, Writing, PurgeRow
<1>7. SidInv' /\ LayoutInv'
  BY <1>0, <1>c, <1>f DEF IInv, TypeOK, SidInv, LayoutInv, PurgeRow
<1>8. BackupInv'
  BY <1>0, <1>c, <1>f DEF IInv, TypeOK, BackupInv, SwapInv, SwapAt, Torn, PurgeRow
<1>9. UpInv'
  <2>1. Consistent(req[p].key)'
    BY <1>0, <1>c DEF IInv, TypeOK, Consistent, Resolve, Live, PurgeRow
  <2> QED BY <1>0, <1>c, <1>f, <2>1, OtherKeys DEF IInv, TypeOK, PurgeRow
<1> QED BY <1>0, <1>1, <1>2, <1>3, <1>4, <1>5, <1>6, <1>7, <1>8, <1>9
       DEF IInv, SwapInv, ReadInv, RecoverInv

\* The orphan GC goes on only when no live row names the blob.
LEMMA OrphanCheckStep ==
  ASSUME IInv, NEW p \in Procs, OrphanCheck(p)
  PROVE  IInv'
<1>0. /\ pc[p] # "idle" /\ phase = "up" /\ phase' = "up" /\ req[p] \in Requests
      /\ req[p].key \in Keys /\ req[p].src \in Keys
      /\ Stripe[req[p].key] \in Stripes /\ Stripe[req[p].src] \in Stripes
  BY Serving DEF OrphanCheck
<1>1. TypeOK'
  BY <1>0 DEF IInv, TypeOK, PcLabels, EtagOrNone, OrphanCheck
<1>2. RequestInv'
  BY <1>0 DEF IInv, TypeOK, RequestInv, Writing, Requests, ClientOps, JobOps, OrphanCheck
<1>3. LockInv'
  BY <1>0 DEF IInv, TypeOK, RequestInv, LockInv, Reading, Writing, OrphanCheck
<1>4. ASSUME NEW q \in Procs, q # p PROVE SwapAt(q)' /\ ReadAt(q)'
  BY <1>0, <1>4, OtherSwap, OtherRead DEF IInv, TypeOK, SidInv, OrphanCheck
<1>5. SwapAt(p)'
  BY <1>0 DEF IInv, TypeOK, SwapInv, SwapAt, Waiting, Active, Live, OrphanCheck
<1>6. ReadAt(p)'
  BY <1>0 DEF IInv, TypeOK, RequestInv, ReadInv, ReadAt, Writing, OrphanCheck
<1>7. SidInv' /\ LayoutInv'
  BY <1>0 DEF IInv, TypeOK, SidInv, LayoutInv, OrphanCheck
<1>8. BackupInv'
  BY <1>0 DEF IInv, TypeOK, BackupInv, SwapInv, SwapAt, Torn, OrphanCheck
<1>9. UpInv'
  BY <1>0 DEF IInv, TypeOK, UpInv, Consistent, Live, Resolve, OrphanCheck
<1> QED BY <1>0, <1>1, <1>2, <1>3, <1>4, <1>5, <1>6, <1>7, <1>8, <1>9
       DEF IInv, SwapInv, ReadInv, RecoverInv

\* reconcile deletes a row only.
LEMMA StaleRowStep ==
  ASSUME IInv, NEW p \in Procs, StaleRow(p)
  PROVE  IInv'
<1>0. /\ pc[p] # "idle" /\ phase = "up" /\ phase' = "up" /\ req[p] \in Requests
      /\ req[p].key \in Keys /\ req[p].src \in Keys
      /\ Stripe[req[p].key] \in Stripes /\ Stripe[req[p].src] \in Stripes
  BY Serving DEF StaleRow
<1>c. Consistent(req[p].key)
  BY <1>0, Settled DEF Writing, StaleRow
<1>f. /\ pc[p] \in Writing
      /\ \A k \in Keys \ {req[p].key} :
            meta'[k] = meta[k] /\ final'[k] = final[k] /\ legacy'[k] = legacy[k]
  BY DEF IInv, TypeOK, Writing, StaleRow
<1>1. TypeOK'
  BY <1>0, <1>c, <1>f DEF IInv, TypeOK, PcLabels, EtagOrNone, StaleRow
<1>2. RequestInv'
  BY <1>0, <1>c, <1>f DEF IInv, TypeOK, RequestInv, Writing, Requests, ClientOps, JobOps, StaleRow
<1>3. LockInv'
  BY <1>0, <1>c, <1>f DEF IInv, TypeOK, RequestInv, LockInv, Reading, Writing, StaleRow
<1>4. ASSUME NEW q \in Procs, q # p PROVE SwapAt(q)' /\ ReadAt(q)'
  BY <1>0, <1>c, <1>f, <1>4, Others DEF IInv, TypeOK, SidInv, Writing, StaleRow
<1>5. SwapAt(p)'
  BY <1>0, <1>c, <1>f, SMTT(30) DEF IInv, TypeOK, SwapInv, SwapAt, Waiting, Active, Live, StaleRow
<1>6. ReadAt(p)'
  BY <1>0, <1>c, <1>f DEF IInv, TypeOK, RequestInv, ReadInv, ReadAt, Writing, StaleRow
<1>7. SidInv' /\ LayoutInv'
  BY <1>0, <1>c, <1>f DEF IInv, TypeOK, SidInv, LayoutInv, StaleRow
<1>8. BackupInv'
  BY <1>0, <1>c, <1>f DEF IInv, TypeOK, BackupInv, SwapInv, SwapAt, Torn, StaleRow
<1>9. UpInv'
  <2>1. Consistent(req[p].key)'
    BY <1>0, <1>c DEF IInv, TypeOK, Consistent, Resolve, Live, StaleRow
  <2> QED BY <1>0, <1>c, <1>f, <2>1, OtherKeys DEF IInv, TypeOK, StaleRow
<1> QED BY <1>0, <1>1, <1>2, <1>3, <1>4, <1>5, <1>6, <1>7, <1>8, <1>9
       DEF IInv, SwapInv, ReadInv, RecoverInv

\* A GET reads the row under the read lock.
LEMMA GetRowStep ==
  ASSUME IInv, NEW p \in Procs, GetRow(p)
  PROVE  IInv'
<1>0. /\ pc[p] # "idle" /\ phase = "up" /\ phase' = "up" /\ req[p] \in Requests
      /\ req[p].key \in Keys /\ req[p].src \in Keys
      /\ Stripe[req[p].key] \in Stripes /\ Stripe[req[p].src] \in Stripes
  BY Serving DEF GetRow
<1>t. /\ Active(req[p].key) \in EtagOrNone /\ Resolve(req[p].key) \in EtagOrNone
      /\ Live(req[p].key) => Active(req[p].key) = meta[req[p].key].etag /\ Active(req[p].key) \in Etags
      /\ ~Live(req[p].key) => Active(req[p].key) = None
  BY <1>0, FileTypes DEF IInv
<1>u. Active(req[p].key)' = Active(req[p].key)
  BY DEF Active, Live, GetRow
<1>1. TypeOK'
  BY <1>0, <1>t, <1>u DEF IInv, TypeOK, PcLabels, EtagOrNone, GetRow
<1>2. RequestInv'
  BY <1>0, <1>t, <1>u DEF IInv, TypeOK, RequestInv, Writing, Requests, ClientOps, JobOps, GetRow
<1>3. LockInv'
  BY <1>0, <1>t, <1>u DEF IInv, TypeOK, RequestInv, LockInv, Reading, Writing, GetRow
<1>4. ASSUME NEW q \in Procs, q # p PROVE SwapAt(q)' /\ ReadAt(q)'
  BY <1>0, <1>t, <1>u, <1>4, OtherSwap, OtherRead DEF IInv, TypeOK, SidInv, GetRow
<1>5. SwapAt(p)'
  BY <1>0, <1>t, <1>u, SMTT(30) DEF IInv, TypeOK, SwapInv, SwapAt, Waiting, Active, Live, GetRow
<1>6. ReadAt(p)'
  BY <1>0, <1>t, <1>u DEF IInv, TypeOK, ReadAt, GetRow
<1>7. SidInv' /\ LayoutInv'
  BY <1>0, <1>t, <1>u DEF IInv, TypeOK, SidInv, LayoutInv, GetRow
<1>8. BackupInv'
  BY <1>0, <1>t, <1>u DEF IInv, TypeOK, BackupInv, SwapInv, SwapAt, Torn, GetRow
<1>9. UpInv'
  BY <1>0, <1>t, <1>u DEF IInv, TypeOK, UpInv, Consistent, Live, Resolve, GetRow
<1> QED BY <1>0, <1>1, <1>2, <1>3, <1>4, <1>5, <1>6, <1>7, <1>8, <1>9
       DEF IInv, SwapInv, ReadInv, RecoverInv

\* The file it opens is that version: no writer has run in between.
LEMMA GetOpenStep ==
  ASSUME IInv, NEW p \in Procs, GetOpen(p)
  PROVE  IInv'
<1>0. /\ pc[p] # "idle" /\ phase = "up" /\ phase' = "up" /\ req[p] \in Requests
      /\ req[p].key \in Keys /\ req[p].src \in Keys
      /\ Stripe[req[p].key] \in Stripes /\ Stripe[req[p].src] \in Stripes
  BY Serving DEF GetOpen
<1>t. /\ Active(req[p].key) \in EtagOrNone /\ Resolve(req[p].key) \in EtagOrNone
      /\ Live(req[p].key) => Active(req[p].key) = meta[req[p].key].etag /\ Active(req[p].key) \in Etags
      /\ ~Live(req[p].key) => Active(req[p].key) = None
  BY <1>0, FileTypes DEF IInv
<1>u. Active(req[p].key)' = Active(req[p].key)
  BY DEF Active, Live, GetOpen
<1>c. Consistent(req[p].key)
  BY <1>0, Settled DEF Writing, GetOpen
<1>1. TypeOK'
  BY <1>0, <1>t, <1>u, <1>c DEF IInv, TypeOK, PcLabels, EtagOrNone, GetOpen
<1>2. RequestInv'
  BY <1>0, <1>t, <1>u, <1>c DEF IInv, TypeOK, RequestInv, Writing, Requests, ClientOps, JobOps, GetOpen
<1>3. LockInv'
  BY <1>0, <1>t, <1>u, <1>c DEF IInv, TypeOK, RequestInv, LockInv, Reading, Writing, GetOpen
<1>4. ASSUME NEW q \in Procs, q # p PROVE SwapAt(q)' /\ ReadAt(q)'
  BY <1>0, <1>t, <1>u, <1>c, <1>4, OtherSwap, OtherRead DEF IInv, TypeOK, SidInv, GetOpen
<1>5. SwapAt(p)'
  BY <1>0, <1>t, <1>u, <1>c, SMTT(30) DEF IInv, TypeOK, SwapInv, SwapAt, Waiting, Active, Live, GetOpen
<1>6. ReadAt(p)'
  <2>1. row[p] # None /\ row[p] = Active(req[p].key) /\ Live(req[p].key)
    BY <1>0, <1>t DEF IInv, ReadInv, ReadAt, GetOpen
  <2>2. Resolve(req[p].key) = row[p]
    BY <2>1, <1>t, <1>c DEF Consistent
  <2> QED BY <1>0, <2>1, <2>2 DEF IInv, TypeOK, ReadAt, GetOpen
<1>7. SidInv' /\ LayoutInv'
  BY <1>0, <1>t, <1>u, <1>c DEF IInv, TypeOK, SidInv, LayoutInv, GetOpen
<1>8. BackupInv'
  BY <1>0, <1>t, <1>u, <1>c DEF IInv, TypeOK, BackupInv, SwapInv, SwapAt, Torn, GetOpen
<1>9. UpInv'
  BY <1>0, <1>t, <1>u, <1>c DEF IInv, TypeOK, UpInv, Consistent, Live, Resolve, GetOpen
<1> QED BY <1>0, <1>1, <1>2, <1>3, <1>4, <1>5, <1>6, <1>7, <1>8, <1>9
       DEF IInv, SwapInv, ReadInv, RecoverInv

\* A handler that ends gives back its own locks and no others.
LEMMA ReturnStep ==
  ASSUME IInv, NEW p \in Procs, Return(p)
  PROVE  IInv'
<1>0. /\ pc[p] # "idle" /\ phase = "up" /\ phase' = "up" /\ req[p] \in Requests
      /\ req[p].key \in Keys /\ req[p].src \in Keys
      /\ Stripe[req[p].key] \in Stripes /\ Stripe[req[p].src] \in Stripes
  BY Serving DEF Return, Idle
<1>1. TypeOK'
  <2>1. writer' \in [Stripes -> Procs \cup {None}] /\ readers' \in [Stripes -> SUBSET Procs]
    BY DEF IInv, TypeOK, Return, Idle
  <2> QED BY <2>1 DEF IInv, TypeOK, PcLabels, EtagOrNone, Return, Idle
<1>2. RequestInv'
  BY <1>0 DEF IInv, TypeOK, RequestInv, Writing, Requests, ClientOps, JobOps, Return, Idle
<1>3. LockInv'
  <2>1. /\ pc'[p] = "idle"
        /\ \A q \in Procs \ {p} : pc'[q] = pc[q] /\ req'[q] = req[q] /\ need'[q] = need[q]
        /\ \A s \in Stripes : writer'[s] = IF writer[s] = p THEN None ELSE writer[s]
        /\ \A s \in Stripes : readers'[s] = readers[s] \ {p}
    BY DEF IInv, TypeOK, Return, Idle
  <2>2. ASSUME NEW q \in Procs \ {p}, pc[q] # "idle"
        PROVE  Stripe[req[q].key] \in Stripes /\ Stripe[req[q].src] \in Stripes
    BY <2>2, Serving
  <2>3. \A s \in Stripes : readers'[s] # {} => writer'[s] = None
    BY <2>1 DEF IInv, LockInv
  <2> QED BY <2>1, <2>2, <2>3 DEF IInv, LockInv, Reading, Writing
<1>4. ASSUME NEW q \in Procs, q # p PROVE SwapAt(q)' /\ ReadAt(q)'
  BY <1>0, <1>4, OtherSwap, OtherRead DEF IInv, TypeOK, SidInv, Return, Idle
<1>5. SwapAt(p)'
  BY <1>0 DEF IInv, TypeOK, SwapInv, SwapAt, Waiting, Active, Live, Return, Idle
<1>6. ReadAt(p)'
  BY <1>0 DEF IInv, TypeOK, RequestInv, ReadInv, ReadAt, Writing, Return, Idle
<1>7. SidInv' /\ LayoutInv'
  BY <1>0 DEF IInv, TypeOK, SidInv, LayoutInv, Return, Idle
<1>8. BackupInv'
  BY <1>0 DEF IInv, TypeOK, BackupInv, SwapInv, SwapAt, Torn, Return, Idle
<1>9. UpInv'
  BY <1>0 DEF IInv, TypeOK, UpInv, Consistent, Live, Resolve, Return, Idle
<1> QED BY <1>0, <1>1, <1>2, <1>3, <1>4, <1>5, <1>6, <1>7, <1>8, <1>9
       DEF IInv, SwapInv, ReadInv, RecoverInv

-----------------------------------------------------------------------------
(* And by a request that arrives, a clock tick, a job without a lock.       *)

\* A handler that arrives holds no lock, and a PUT has staged what it will commit.
LEMMA BeginStep ==
  ASSUME IInv, NEW p \in Procs, NEW r \in Requests, NEW at \in {"lock", "rlock", "scan"},
         Begin(p, r, at),
         tag' \in [Procs -> EtagOrNone], bytes' \in [Procs -> EtagOrNone],
         \A q \in Procs \ {p} : tag'[q] = tag[q] /\ bytes'[q] = bytes[q],
         at = "rlock" <=> r.op = "get",
         at = "scan" => r.op = "stale",
         r.op = "put" => tag'[p] \in Etags /\ tag'[p] = bytes'[p]
  PROVE  IInv'
<1>0. /\ pc[p] = "idle" /\ phase = "up" /\ phase' = "up" /\ sid[p] = None
      /\ Stripe[r.key] \in Stripes /\ Stripe[r.src] \in Stripes
  <2>1. r.key \in Keys /\ r.src \in Keys
    BY DEF Requests
  <2> QED BY <2>1 DEF IInv, SwapInv, SwapAt, Waiting, Stripes, Begin
<1>1. TypeOK'
  <2>1. /\ pc' \in [Procs -> PcLabels] /\ req' \in [Procs -> Requests \cup {None}]
        /\ need' \in [Procs -> SUBSET Stripes]
    BY <1>0 DEF IInv, TypeOK, PcLabels, Begin
  <2>2. /\ meta' = meta /\ final' = final /\ legacy' = legacy /\ prev' = prev /\ swap' = swap
        /\ writer' = writer /\ readers' = readers /\ phase' = phase /\ entry' = entry /\ step' = step
        /\ row' = row /\ sid' = sid /\ res' = res /\ faults' = faults /\ crashes' = crashes
    BY DEF Begin, disk, startup, counters
  <2> QED BY <2>1, <2>2 DEF IInv, TypeOK
<1>2. RequestInv'
  BY <1>0 DEF IInv, TypeOK, RequestInv, Writing, Begin
<1>3. LockInv'
  BY <1>0 DEF IInv, TypeOK, LockInv, Reading, Writing, Begin
<1>4. ASSUME NEW q \in Procs, q # p PROVE SwapAt(q)' /\ ReadAt(q)'
  BY <1>0, <1>4, OtherSwap, OtherRead DEF IInv, TypeOK, Begin
<1>5. SwapAt(p)'
  BY <1>0 DEF IInv, TypeOK, SwapAt, Waiting, Begin
<1>6. ReadAt(p)'
  BY <1>0 DEF IInv, TypeOK, ReadAt, Begin
<1>7. SidInv' /\ LayoutInv'
  BY DEF IInv, SidInv, LayoutInv, Begin
<1>8. BackupInv'
  BY DEF IInv, BackupInv, Begin
<1>9. UpInv'
  BY <1>0 DEF IInv, TypeOK, UpInv, Consistent, Live, Resolve, Begin
<1> QED BY <1>0, <1>1, <1>2, <1>3, <1>4, <1>5, <1>6, <1>7, <1>8, <1>9
       DEF IInv, SwapInv, ReadInv, RecoverInv

\* Every request and every job arrives that way.
LEMMA ArriveStep ==
  ASSUME IInv, NEW p \in Procs, Arrive(p)
  PROVE  IInv'
<1>1. CASE PutBegin(p)
  <2> PICK k \in Keys, e \in Etags, c \in Conds :
        /\ Begin(p, [op |-> "put", key |-> k, src |-> k, etag |-> e, cond |-> c], "lock")
        /\ tag' = [tag EXCEPT ![p] = e]
        /\ bytes' = [bytes EXCEPT ![p] = e]
    BY <1>1 DEF PutBegin
  <2>1. [op |-> "put", key |-> k, src |-> k, etag |-> e, cond |-> c] \in Requests
    BY DEF Begin
  <2>2. /\ tag' \in [Procs -> EtagOrNone] /\ bytes' \in [Procs -> EtagOrNone]
        /\ \A q \in Procs \ {p} : tag'[q] = tag[q] /\ bytes'[q] = bytes[q]
        /\ tag'[p] = e /\ bytes'[p] = e
    BY DEF IInv, TypeOK, EtagOrNone
  <2> QED BY <2>1, <2>2, BeginStep
<1>2. CASE CopyBegin(p)
  <2> PICK k \in Keys, s \in Keys, c \in Conds :
        /\ Begin(p, [op |-> "copy", key |-> k, src |-> s, etag |-> None, cond |-> c], "lock")
        /\ UNCHANGED <<tag, bytes>>
    BY <1>2 DEF CopyBegin
  <2>1. [op |-> "copy", key |-> k, src |-> s, etag |-> None, cond |-> c] \in Requests
    BY DEF Begin
  <2> QED BY <2>1, BeginStep DEF IInv, TypeOK
<1>3. CASE DeleteBegin(p)
  <2> PICK k \in Keys, c \in Conds :
        /\ Begin(p, [op |-> "delete", key |-> k, src |-> k, etag |-> None, cond |-> c], "lock")
        /\ UNCHANGED <<tag, bytes>>
    BY <1>3 DEF DeleteBegin
  <2>1. [op |-> "delete", key |-> k, src |-> k, etag |-> None, cond |-> c] \in Requests
    BY DEF Begin
  <2> QED BY <2>1, BeginStep DEF IInv, TypeOK
<1>4. CASE GetBegin(p)
  <2> PICK k \in Keys :
        /\ Begin(p, [op |-> "get", key |-> k, src |-> k, etag |-> None, cond |-> EtagOrNone],
                 "rlock")
        /\ UNCHANGED <<tag, bytes>>
    BY <1>4 DEF GetBegin
  <2>1. [op |-> "get", key |-> k, src |-> k, etag |-> None, cond |-> EtagOrNone] \in Requests
    BY DEF Begin
  <2> QED BY <2>1, BeginStep DEF IInv, TypeOK
<1>5. ASSUME NEW k \in Keys, NEW op \in {"purge", "orphan"},
             Begin(p, JobRequest(op, k), "lock"), UNCHANGED <<tag, bytes>>
      PROVE  IInv'
  <2>1. JobRequest(op, k) \in Requests /\ JobRequest(op, k).op = op
    BY <1>5 DEF Begin, JobRequest
  <2> QED BY <1>5, <2>1, BeginStep DEF IInv, TypeOK
<1>6. CASE PurgeBegin(p)
  BY <1>5, <1>6 DEF PurgeBegin
<1>7. CASE OrphanBegin(p)
  BY <1>5, <1>7 DEF OrphanBegin
<1>8. CASE StaleBegin(p)
  <2> PICK k \in Keys : Begin(p, JobRequest("stale", k), "scan") /\ UNCHANGED <<tag, bytes>>
    BY <1>8 DEF StaleBegin
  <2>1. JobRequest("stale", k) \in Requests /\ JobRequest("stale", k).op = "stale"
    BY DEF Begin, JobRequest
  <2> QED BY <2>1, BeginStep DEF IInv, TypeOK
<1> QED BY <1>1, <1>2, <1>3, <1>4, <1>6, <1>7, <1>8 DEF Arrive

\* purge_stale_tmp_files takes only a backup no swap owns and no intent names.
LEMMA PurgeTmpStep ==
  ASSUME IInv, PurgeTmp
  PROVE  IInv'
<1> PICK i \in SwapIds :
      /\ phase = "up" /\ swap[i] = None
      /\ \A p \in Procs : sid[p] # i
      /\ prev' = [prev EXCEPT ![i] = None]
      /\ UNCHANGED <<meta, final, legacy, swap, locks, startup, pc, request, res, counters>>
  BY DEF PurgeTmp
<1>1. TypeOK'
  BY DEF IInv, TypeOK, EtagOrNone
<1>2. RequestInv' /\ LockInv' /\ SidInv' /\ LayoutInv'
  BY DEF IInv, RequestInv, LockInv, Reading, SidInv, LayoutInv
<1>3. ASSUME NEW q \in Procs PROVE SwapAt(q)' /\ ReadAt(q)'
  BY <1>3, OtherSwap, OtherRead DEF IInv, TypeOK
<1>4. BackupInv'
  BY DEF IInv, TypeOK, BackupInv
<1>5. UpInv' /\ RecoverInv'
  BY DEF IInv, UpInv, RecoverInv, Consistent, Live, Resolve
<1> QED BY <1>1, <1>2, <1>3, <1>4, <1>5 DEF IInv, SwapInv, ReadInv

\* A row that expires was no live object before and is none after.
LEMMA ExpireStep ==
  ASSUME IInv, Expire
  PROVE  IInv'
<1> PICK x \in Keys :
      /\ phase = "up"
      /\ meta[x] # None /\ meta[x].deleted = "soft"
      /\ meta' = [meta EXCEPT ![x].deleted = "expired"]
      /\ UNCHANGED <<final, legacy, journal, locks, startup, pc, request, res, counters>>
  BY DEF Expire
<1>0. /\ meta[x] \in Rows /\ meta'[x] = [meta[x] EXCEPT !.deleted = "expired"]
      /\ meta'[x] \in Rows /\ meta'[x].deleted = "expired"
      /\ \A k \in Keys \ {x} : meta'[k] = meta[k]
  BY DEF IInv, TypeOK, Rows
<1>1. TypeOK'
  <2>1. meta' \in [Keys -> Rows \cup {None}]
    BY <1>0 DEF IInv, TypeOK
  <2> QED BY <2>1 DEF IInv, TypeOK
<1>2. ASSUME NEW k \in Keys
      PROVE  /\ Live(k)' = Live(k) /\ Active(k)' = Active(k)
             /\ Consistent(k)' = Consistent(k)
  <2>1. CASE k = x
    BY <1>0, <2>1 DEF Live, Active, Consistent
  <2>2. CASE k # x
    BY <1>0, <2>2 DEF Live, Active, Consistent, Resolve
  <2> QED BY <2>1, <2>2
<1>3. RequestInv' /\ LockInv' /\ SidInv' /\ LayoutInv' /\ BackupInv'
  BY DEF IInv, RequestInv, LockInv, Reading, SidInv, LayoutInv, BackupInv
<1>4. ASSUME NEW q \in Procs PROVE SwapAt(q)' /\ ReadAt(q)'
  <2>1. SwapAt(q) /\ ReadAt(q)
    BY DEF IInv, SwapInv, ReadInv
  <2>2. pc[q] # "idle" => /\ Live(req[q].key)' = Live(req[q].key)
                          /\ Active(req[q].key)' = Active(req[q].key)
                          /\ Active(req[q].src)' = Active(req[q].src)
    BY <1>2, Serving
  <2>3. SwapAt(q)'
    BY <2>1, <2>2 DEF SwapAt, Waiting
  <2> QED BY <2>1, <2>2, <2>3 DEF ReadAt
<1>5. UpInv' /\ RecoverInv'
  BY <1>2 DEF IInv, UpInv, RecoverInv
<1> QED BY <1>1, <1>3, <1>4, <1>5 DEF IInv, SwapInv, ReadInv

-----------------------------------------------------------------------------
(* A crash turns what a writer had apart into what recovery must restore.   *)

\* A writer past its rename whose key is apart has a journal entry to restore it.
LEMMA Journaled ==
  ASSUME IInv, NEW p \in Procs, pc[p] \in {"commit", "restore"}, ~Consistent(req[p].key)
  PROVE  /\ sid[p] \in SwapIds /\ swap[sid[p]] # None
         /\ MustRestore(sid[p]) /\ swap[sid[p]].key = req[p].key
<1>1. SwapAt(p) /\ req[p].key \in Keys
  BY Serving DEF IInv, SwapInv
<1>2. Live(req[p].key) /\ Resolve(req[p].key) # meta[req[p].key].etag
  BY DEF Consistent
<1>3. /\ row[p] = Active(req[p].key) /\ Active(req[p].key) = meta[req[p].key].etag
      /\ row[p] \in Etags
  BY <1>1, <1>2, FileTypes DEF IInv, SwapAt
<1>4. sid[p] \in SwapIds /\ prev[sid[p]] # None
  BY <1>1, <1>3 DEF IInv, TypeOK, SwapAt
<1>5. swap[sid[p]] = [key |-> req[p].key, new |-> tag[p], old |-> row[p]]
  BY <1>1, <1>4 DEF SwapAt
<1>6. Active(req[p].key) # tag[p]
  BY <1>1, <1>2, <1>3 DEF SwapAt, Resolve
<1>7. swap[sid[p]] # None /\ swap[sid[p]] # Torn
  <2>1. tag[p] \in Etags
    BY <1>1 DEF SwapAt
  <2>2. swap[sid[p]] \in Intents
    BY <1>1, <1>3, <1>5, <2>1 DEF Intents, EtagOrNone
  <2>3. swap[sid[p]].key # None
    BY <1>1, <1>5
  <2> QED BY <2>2, <2>3 DEF Torn
<1> QED BY <1>3, <1>4, <1>5, <1>6, <1>7 DEF MustRestore

\* The process dies: memory is gone, the disk stays.
LEMMA CrashStep ==
  ASSUME IInv, Crash
  PROVE  IInv'
<1>1. TypeOK'
  BY DEF IInv, TypeOK, PcLabels, EtagOrNone, Crash
<1>2. RequestInv' /\ SidInv' /\ LayoutInv' /\ BackupInv'
  BY DEF IInv, RequestInv, Writing, SidInv, LayoutInv, BackupInv, Crash
<1>3. LockInv'
  BY DEF LockInv, Reading, Writing, Crash
<1>4. SwapInv' /\ ReadInv'
  BY DEF SwapInv, SwapAt, Waiting, ReadInv, ReadAt, Crash
<1>5. ASSUME NEW k \in Keys
      PROVE  \/ Consistent(k)
             \/ \E i \in SwapIds : swap[i] # None /\ MustRestore(i) /\ swap[i].key = k
  <2>1. CASE phase = "recovering"
    BY <2>1 DEF IInv, RecoverInv
  <2>2. CASE phase = "up"
    BY <2>2, Journaled DEF IInv, UpInv
  <2> QED BY <2>1, <2>2 DEF IInv, TypeOK
<1>6. RecoverInv'
  BY <1>5 DEF RecoverInv, Consistent, MustRestore, Live, Active, Resolve, Crash
<1>7. UpInv'
  BY DEF UpInv, Crash
<1> QED BY <1>1, <1>2, <1>3, <1>4, <1>6, <1>7 DEF IInv

\* No handler runs while the engine recovers.
LEMMA Quiet ==
  ASSUME IInv, phase = "recovering", UNCHANGED <<locks, pc, request, res>>
  PROVE  RequestInv' /\ LockInv' /\ SwapInv' /\ SidInv' /\ ReadInv'
<1>1. \A p \in Procs : pc[p] = "idle" /\ sid[p] = None
  BY DEF IInv, RecoverInv, SwapInv, SwapAt, Waiting
<1>2. RequestInv' /\ LockInv' /\ SidInv'
  BY DEF IInv, RequestInv, LockInv, Reading, SidInv
<1>3. ASSUME NEW p \in Procs PROVE SwapAt(p)' /\ ReadAt(p)'
  BY <1>1, OtherSwap, OtherRead DEF Writing, Reading
<1> QED BY <1>2, <1>3 DEF SwapInv, ReadInv

\* Recovery works on one entry: a backup that is due goes back to its key.
LEMMA RecoverEntryStep ==
  ASSUME IInv, RecoverEntry, Sound
  PROVE  IInv'
<1> PICK i \in SwapIds :
      /\ phase = "recovering" /\ step = "scan"
      /\ swap[i] # None
      /\ entry' = i
      /\ step' = "dropprev"
      /\ MustRestore(i) => /\ final' = [final EXCEPT ![swap[i].key] = prev[i]]
                           /\ prev' = [prev EXCEPT ![i] = None]
      /\ ~MustRestore(i) => UNCHANGED <<final, prev>>
      /\ UNCHANGED <<meta, legacy, swap, locks, phase, pc, request, res, counters>>
  BY DEF RecoverEntry, Sound
<1>1. RequestInv' /\ LockInv' /\ SwapInv' /\ SidInv' /\ ReadInv'
  BY Quiet
<1>2. LayoutInv' /\ UpInv'
  BY DEF IInv, LayoutInv, UpInv
<1>3. \A k \in Keys : Active(k)' = Active(k)
  BY DEF Active, Live
<1>4. CASE MustRestore(i)
  <2> DEFINE x == swap[i].key
  <2>1. swap[i] \in Intents /\ swap[i] # Torn /\ x \in Keys
    BY <1>4 DEF IInv, TypeOK, Intents, MustRestore
  <2>2. /\ final' \in [Keys -> EtagOrNone] /\ prev' \in [SwapIds -> EtagOrNone]
        /\ final'[x] = prev[i] /\ \A k \in Keys \ {x} : final'[k] = final[k]
        /\ prev'[i] = None /\ \A j \in SwapIds \ {i} : prev'[j] = prev[j]
    BY <1>4, <2>1 DEF IInv, TypeOK, EtagOrNone
  <2>3. TypeOK'
    BY <2>2 DEF IInv, TypeOK
  <2>4. BackupInv'
    BY <2>2 DEF IInv, BackupInv
  <2>5. ~MustRestore(i)'
    BY <2>2 DEF MustRestore
  <2>6. Consistent(x)'
    <3>1. prev[i] = swap[i].old /\ swap[i].old = Active(x) /\ prev[i] # None
      BY <1>4, <2>1 DEF IInv, BackupInv, MustRestore
    <3> QED BY <2>1, <2>2, <3>1 DEF Consistent, Live, Resolve, Active
  <2>7. ASSUME NEW k \in Keys \ {x}
        PROVE  Consistent(k)' \/ \E j \in SwapIds : swap'[j] # None /\ MustRestore(j)' /\ swap'[j].key = k
    <3>1. CASE Consistent(k)
      BY <2>2, <3>1 DEF Consistent, Live, Resolve
    <3>2. ASSUME NEW j \in SwapIds, swap[j] # None, MustRestore(j), swap[j].key = k
          PROVE  MustRestore(j)'
      BY <1>3, <2>2, <2>7, <3>2 DEF MustRestore
    <3> QED BY <3>1, <3>2 DEF IInv, RecoverInv
  <2>8. RecoverInv'
    BY <2>5, <2>6, <2>7 DEF IInv, RecoverInv
  <2> QED BY <1>1, <1>2, <2>3, <2>4, <2>8 DEF IInv
<1>5. CASE ~MustRestore(i)
  <2>1. TypeOK'
    BY <1>5 DEF IInv, TypeOK
  <2>2. \A j \in SwapIds : MustRestore(j)' = MustRestore(j)
    BY <1>5 DEF MustRestore, Active, Live
  <2>3. \A k \in Keys : Consistent(k)' = Consistent(k)
    BY <1>5 DEF Consistent, Live, Resolve
  <2>4. RecoverInv'
    BY <1>5, <2>2, <2>3 DEF IInv, RecoverInv
  <2>5. BackupInv'
    BY <1>5 DEF IInv, BackupInv
  <2> QED BY <1>1, <1>2, <2>1, <2>4, <2>5 DEF IInv
<1> QED BY <1>4, <1>5

\* Only then are the entry's backup and its intent removed.
LEMMA RecoverDropStep ==
  ASSUME IInv, RecoverDropPrev \/ RecoverDropSwap
  PROVE  IInv'
<1>0. /\ phase = "recovering" /\ step # "scan" /\ phase' = phase
      /\ UNCHANGED <<meta, final, legacy, locks, pc, request, res, crashes>>
      /\ faults' \in Nat
  BY DEF IInv, TypeOK, RecoverDropPrev, RecoverDropSwap, Unlink
<1>1. RequestInv' /\ LockInv' /\ SwapInv' /\ SidInv' /\ ReadInv'
  BY <1>0, Quiet
<1>2. LayoutInv' /\ UpInv'
  BY <1>0 DEF IInv, LayoutInv, UpInv
<1>3. \A k \in Keys : Active(k)' = Active(k) /\ Consistent(k)' = Consistent(k)
  BY <1>0 DEF Active, Consistent, Live, Resolve
<1>4. entry \in SwapIds /\ swap[entry] # None /\ ~MustRestore(entry)
  BY <1>0 DEF IInv, TypeOK, RecoverInv
<1>5. /\ prev' \in [SwapIds -> EtagOrNone] /\ swap' \in [SwapIds -> Intents \cup {None}]
      /\ \A j \in SwapIds \ {entry} : prev'[j] = prev[j] /\ swap'[j] = swap[j]
      /\ prev'[entry] \in {None, prev[entry]} /\ swap'[entry] \in {None, swap[entry]}
      /\ step' = "dropswap" => entry' = entry /\ swap' = swap
      /\ step' \in {"dropswap", "scan"}
      /\ entry' \in SwapIds \cup {None}
  BY <1>4 DEF IInv, TypeOK, EtagOrNone, RecoverDropPrev, RecoverDropSwap, Unlink
<1>6. TypeOK'
  BY <1>0, <1>5 DEF IInv, TypeOK
<1>7. BackupInv'
  BY <1>5 DEF IInv, BackupInv
<1>8. ASSUME NEW j \in SwapIds, swap[j] # None, MustRestore(j)
      PROVE  swap'[j] = swap[j] /\ MustRestore(j)'
  <2>1. j # entry /\ swap'[j] = swap[j] /\ prev'[j] = prev[j]
    BY <1>4, <1>5, <1>8
  <2>2. Active(swap[j].key)' = Active(swap[j].key)
    BY <1>0, <2>1 DEF Active, Live
  <2> QED BY <1>8, <2>1, <2>2 DEF MustRestore
<1>9. RecoverInv'
  <2>1. step' # "scan" => entry' # None /\ swap'[entry'] # None /\ ~MustRestore(entry)'
    <3>1. swap[entry] \notin {None, Torn} => swap[entry].key \in Keys
      BY <1>4 DEF IInv, TypeOK, Intents
    <3> QED BY <1>3, <1>4, <1>5, <3>1 DEF MustRestore
  <2> QED BY <1>0, <1>3, <1>5, <1>8, <2>1 DEF IInv, RecoverInv
<1> QED BY <1>1, <1>2, <1>6, <1>7, <1>9 DEF IInv

\* With an empty journal every object's bytes and row agree, and the engine serves.
LEMMA RecoverDoneStep ==
  ASSUME IInv, RecoverDone
  PROVE  IInv'
<1>1. RequestInv' /\ LockInv' /\ SwapInv' /\ SidInv' /\ ReadInv'
  BY Quiet DEF RecoverDone
<1>2. TypeOK' /\ BackupInv' /\ LayoutInv' /\ RecoverInv'
  BY DEF IInv, TypeOK, BackupInv, LayoutInv, RecoverInv, RecoverDone
<1>3. \A k \in Keys : Consistent(k)
  BY DEF IInv, RecoverInv, RecoverDone
<1>4. UpInv'
  BY <1>3 DEF UpInv, Consistent, Live, Resolve, RecoverDone
<1> QED BY <1>1, <1>2, <1>4 DEF IInv

-----------------------------------------------------------------------------
(* The invariant, and what it implies.                                      *)

\* The engine starts with an empty store.
LEMMA InitInv ==
  ASSUME Init, Sound
  PROVE  IInv
<1>1. TypeOK
  BY DEF Init, Sound, TypeOK, PcLabels, EtagOrNone
<1>2. RequestInv /\ LockInv /\ SidInv /\ BackupInv /\ ReadInv
  BY DEF Init, RequestInv, LockInv, Reading, Writing, SidInv, BackupInv, ReadInv, ReadAt
<1>3. SwapInv
  BY DEF Init, SwapInv, SwapAt, Waiting
<1>4. LayoutInv /\ UpInv /\ RecoverInv
  BY DEF Init, Sound, LayoutInv, UpInv, RecoverInv, Consistent, Live
<1> QED BY <1>1, <1>2, <1>3, <1>4 DEF IInv

\* A step that changes nothing keeps everything.
LEMMA StutterStep ==
  ASSUME IInv, UNCHANGED vars
  PROVE  IInv'
<1> USE DEF vars
<1>1. TypeOK'
  BY DEF IInv, TypeOK
<1>2. \A k \in Keys : Active(k)' = Active(k) /\ Live(k)' = Live(k) /\ Consistent(k)' = Consistent(k)
  BY DEF Active, Live, Consistent, Resolve
<1>3. RequestInv' /\ LockInv' /\ SidInv' /\ BackupInv' /\ LayoutInv'
  BY DEF IInv, RequestInv, LockInv, Reading, SidInv, BackupInv, LayoutInv
<1>4. SwapInv' /\ ReadInv'
  BY OtherSwap, OtherRead DEF SwapInv, ReadInv
<1>5. UpInv' /\ RecoverInv'
  BY <1>2 DEF IInv, UpInv, RecoverInv, MustRestore, Active, Live
<1> QED BY <1>1, <1>3, <1>4, <1>5 DEF IInv

\* Every step keeps the invariant.
LEMMA NextInv ==
  ASSUME IInv, Sound, [Next]_vars
  PROVE  IInv'
<1>1. ASSUME NEW p \in Procs, Handle(p) PROVE IInv'
  BY <1>1, StaleScanStep, CopyRowStep, CopyLinkStep, SwapCheckStep, BackupStep, IntentOpenStep,
     IntentWriteStep, RenameStep, CommitStep, DropOldStep, DropPrevStep, DropSwapStep,
     RestoreStep, DeleteCheckStep, DeleteRowStep, DropFinalStep, DropLegacyStep, PurgeRowStep,
     OrphanCheckStep, StaleRowStep, GetRowStep, GetOpenStep, ReturnStep DEF Handle
<1>2. ASSUME NEW p \in Procs, Arrive(p) \/ LockNext(p) \/ ReadLock(p) PROVE IInv'
  BY <1>2, ArriveStep, LockNextStep, ReadLockStep
<1>3. CASE PurgeTmp \/ Expire \/ Crash
  BY <1>3, PurgeTmpStep, ExpireStep, CrashStep
<1>4. CASE Recover
  BY <1>4, RecoverEntryStep, RecoverDropStep, RecoverDoneStep DEF Recover
<1>5. CASE UNCHANGED vars
  BY <1>5, StutterStep
<1> QED BY <1>1, <1>2, <1>3, <1>4, <1>5 DEF Next

\* IInv holds in every reachable state of an engine without blobs under a
\* fallback path and whose rollbacks succeed.
THEOREM Inductive ==
  ASSUME Sound
  PROVE  Spec => []IInv
<1>1. Init => IInv
  BY InitInv
<1>2. IInv /\ [Next]_vars => IInv'
  BY NextInv
<1> QED BY <1>1, <1>2, PTL DEF Spec

\* Every variable of the engine keeps its type.
THEOREM TypeCorrect ==
  ASSUME Sound
  PROVE  Spec => []TypeOK
<1>1. IInv => TypeOK
  BY DEF IInv
<1> QED BY <1>1, Inductive, PTL

\* Whatever handlers, jobs, I/O failures and crashes do, and in any order, the
\* file a reader resolves for a live object that no writer has locked is the one
\* the object's row names.
THEOREM BytesAlwaysMatch ==
  ASSUME Sound
  PROVE  Spec => []BytesMatchMetadata
<1>1. IInv => BytesMatchMetadata
  <2> SUFFICES ASSUME IInv, phase = "up", NEW k \in Keys, Live(k), writer[Stripe[k]] = None
               PROVE  Resolve(k) = meta[k].etag
    BY DEF BytesMatchMetadata
  <2>1. ASSUME NEW p \in Procs, pc[p] \in {"commit", "restore"}, req[p].key = k PROVE FALSE
    BY <2>1 DEF IInv, LockInv, Writing
  <2> QED BY <2>1 DEF IInv, UpInv, Consistent
<1> QED BY <1>1, Inductive, PTL

\* A GET never pairs the row of one version with the bytes of another, and never
\* finds a listed object without bytes.
THEOREM ReadsAreOneVersion ==
  ASSUME Sound
  PROVE  Spec => []ReadsOneVersion
<1>1. IInv => ReadsOneVersion
  BY DEF IInv, ReadInv, ReadAt, ReadsOneVersion
<1> QED BY <1>1, Inductive, PTL

\* When the journal is worked off after a crash, bytes and rows agree.
THEOREM RecoveryAlwaysRestores ==
  ASSUME Sound
  PROVE  Spec => []RecoveryRestores
<1>1. IInv => RecoveryRestores
  BY DEF IInv, RecoverInv, Consistent, RecoveryRestores
<1> QED BY <1>1, Inductive, PTL

-----------------------------------------------------------------------------
(* The engine implements atomic registers (Linearizable).                   *)

\* A step of p, or of nobody, leaves another handler's call where it was when the
\* versions it works on stay.
LEMMA OtherCall ==
  ASSUME CallInv, NEW q \in Procs,
         pc'[q] = pc[q], req'[q] = req[q], res'[q] = res[q],
         tag'[q] = tag[q], bytes'[q] = bytes[q],
         pc[q] \in Writing => /\ Active(req[q].key)' = Active(req[q].key)
                              /\ Active(req[q].src)' = Active(req[q].src)
  PROVE  CallAt(q)'
BY DEF CallInv, CallAt, Swapping, Writing

\* So do the steps that change no row.
LEMMA OthersCalls ==
  ASSUME IInv, CallInv, NEW p \in Procs, UNCHANGED meta,
         \A q \in Procs \ {p} : /\ pc'[q] = pc[q] /\ req'[q] = req[q] /\ res'[q] = res[q]
                                /\ tag'[q] = tag[q] /\ bytes'[q] = bytes[q],
         CallAt(p)'
  PROVE  CallInv'
<1>1. \A k : Active(k)' = Active(k)
  BY DEF Active, Live
<1>2. ASSUME NEW q \in Procs \ {p} PROVE CallAt(q)'
  BY <1>1, <1>2, OtherCall
<1> QED BY <1>2 DEF CallInv

\* And the ones that change the row of a key their handler has locked.
LEMMA WriterCalls ==
  ASSUME IInv, CallInv, NEW p \in Procs, pc[p] \in Writing,
         \A k \in Keys \ {req[p].key} : meta'[k] = meta[k],
         \A q \in Procs \ {p} : /\ pc'[q] = pc[q] /\ req'[q] = req[q] /\ res'[q] = res[q]
                                /\ tag'[q] = tag[q] /\ bytes'[q] = bytes[q],
         CallAt(p)'
  PROVE  CallInv'
<1>1. ASSUME NEW q \in Procs \ {p} PROVE CallAt(q)'
  <2>1. CASE pc[q] \notin Writing
    BY <2>1, OtherCall
  <2>2. CASE pc[q] \in Writing
    <3>1. req[q].key \in Keys \ {req[p].key} /\ req[q].src \in Keys \ {req[p].key}
      BY <2>2, Serving, Exclusive DEF Writing
    <3>2. \A k \in Keys \ {req[p].key} : Active(k)' = Active(k)
      BY DEF Active, Live
    <3> QED BY <3>1, <3>2, OtherCall
  <2> QED BY <2>1, <2>2
<1> QED BY <1>1 DEF CallInv

\* Handlers that change no row.
LEMMA CallUnwritten ==
  ASSUME IInv, CallInv, NEW p \in Procs,
         \/ StaleScan(p) \/ CopyRow(p) \/ CopyLink(p) \/ SwapCheck(p) \/ Backup(p)
         \/ IntentOpen(p) \/ IntentWrite(p) \/ Rename(p) \/ DropOld(p) \/ DropPrev(p)
         \/ DropSwap(p) \/ Restore(p) \/ DeleteCheck(p) \/ DropFinal(p) \/ DropLegacy(p)
         \/ OrphanCheck(p) \/ GetRow(p) \/ GetOpen(p) \/ Return(p) \/ LockNext(p) \/ ReadLock(p)
  PROVE  CallInv'
<1> USE DEF CallAt, Deciding, Swapping
<1>0. CallAt(p) /\ pc \in [Procs -> PcLabels] /\ res[p] \in {"none", "ok", "err", "missing", "rowonly"}
  BY DEF CallInv, IInv, TypeOK
<1>t. /\ pc \in [Procs -> PcLabels] /\ res \in [Procs -> {"none", "ok", "err", "missing", "rowonly"}]
      /\ req \in [Procs -> Requests \cup {None}]
      /\ tag \in [Procs -> EtagOrNone] /\ bytes \in [Procs -> EtagOrNone]
  BY DEF IInv, TypeOK
<1>a. UNCHANGED meta
  BY DEF StaleScan, CopyRow, CopyLink, SwapCheck, Backup, IntentOpen, IntentWrite, Rename, DropOld,
         DropPrev, DropSwap, Restore, DeleteCheck, DropFinal, DropLegacy, OrphanCheck, GetRow,
         GetOpen, Return, LockNext, ReadLock
<1>b. \A k : Active(k)' = Active(k)
  BY <1>a DEF Active, Live
<1>c. pc[p] = "link" => tag[p] = Active(req[p].src)
  BY DEF IInv, SwapInv, SwapAt
<1>d. pc[p] = "lock" => req[p].op # "get" /\ req[p].op \in ClientOps \cup JobOps
  <2>1. pc[p] = "lock" => req[p] \in Requests
    BY Serving
  <2> QED BY <2>1 DEF IInv, RequestInv, Requests
<1>1. CASE StaleScan(p)
  <2>1. CallAt(p)'
    BY <1>1, <1>0, <1>b, <1>t DEF StaleScan, Idle, JobOps, PcLabels, ClientOps
  <2> QED BY <1>1, <1>t, <2>1, OthersCalls DEF StaleScan, Idle
<1>2. CASE CopyRow(p)
  <2>1. CallAt(p)'
    BY <1>2, <1>0, <1>b, <1>t DEF CopyRow, PcLabels, ClientOps
  <2> QED BY <1>2, <1>t, <2>1, OthersCalls DEF CopyRow
<1>3. CASE CopyLink(p)
  <2>1. CallAt(p)'
    BY <1>3, <1>0, <1>b, <1>c, <1>t DEF CopyLink, PcLabels, ClientOps
  <2> QED BY <1>3, <1>t, <2>1, OthersCalls DEF CopyLink
<1>4. CASE SwapCheck(p)
  <2>1. CallAt(p)'
    BY <1>4, <1>0, <1>b, <1>t DEF SwapCheck, PcLabels, ClientOps
  <2> QED BY <1>4, <1>t, <2>1, OthersCalls DEF SwapCheck
<1>5. CASE Backup(p)
  <2>1. CallAt(p)'
    BY <1>5, <1>0, <1>b, <1>t DEF Backup, PcLabels, ClientOps
  <2> QED BY <1>5, <1>t, <2>1, OthersCalls DEF Backup
<1>6. CASE IntentOpen(p)
  <2>1. CallAt(p)'
    BY <1>6, <1>0, <1>b, <1>t DEF IntentOpen, PcLabels, ClientOps
  <2> QED BY <1>6, <1>t, <2>1, OthersCalls DEF IntentOpen
<1>7. CASE IntentWrite(p)
  <2>1. CallAt(p)'
    BY <1>7, <1>0, <1>b, <1>t DEF IntentWrite, PcLabels, ClientOps
  <2> QED BY <1>7, <1>t, <2>1, OthersCalls DEF IntentWrite
<1>8. CASE Rename(p)
  <2>1. CallAt(p)'
    BY <1>8, <1>0, <1>b, <1>t DEF Rename, PcLabels, ClientOps
  <2> QED BY <1>8, <1>t, <2>1, OthersCalls DEF Rename
<1>9. CASE DropOld(p)
  <2>1. CallAt(p)'
    BY <1>9, <1>0, <1>b, <1>t DEF DropOld, PcLabels, ClientOps
  <2> QED BY <1>9, <1>t, <2>1, OthersCalls DEF DropOld
<1>10. CASE DropPrev(p)
  <2>1. CallAt(p)'
    BY <1>10, <1>0, <1>b, <1>t DEF DropPrev, PcLabels, ClientOps
  <2> QED BY <1>10, <1>t, <2>1, OthersCalls DEF DropPrev
<1>11. CASE DropSwap(p)
  <2>1. CallAt(p)'
    BY <1>11, <1>0, <1>b, <1>t DEF DropSwap, PcLabels, ClientOps
  <2> QED BY <1>11, <1>t, <2>1, OthersCalls DEF DropSwap
<1>12. CASE Restore(p)
  <2>1. CallAt(p)'
    BY <1>12, <1>0, <1>b, <1>t DEF Restore, PcLabels, ClientOps
  <2> QED BY <1>12, <1>t, <2>1, OthersCalls DEF Restore
<1>13. CASE DeleteCheck(p)
  <2>1. CallAt(p)'
    BY <1>13, <1>0, <1>b, <1>t DEF DeleteCheck, PcLabels, ClientOps
  <2> QED BY <1>13, <1>t, <2>1, OthersCalls DEF DeleteCheck
<1>14. CASE DropFinal(p)
  <2>1. CallAt(p)'
    BY <1>14, <1>0, <1>b, <1>t DEF DropFinal, PcLabels, ClientOps
  <2> QED BY <1>14, <1>t, <2>1, OthersCalls DEF DropFinal
<1>15. CASE DropLegacy(p)
  <2>1. CallAt(p)'
    BY <1>15, <1>0, <1>b, <1>t DEF DropLegacy, PcLabels, ClientOps
  <2> QED BY <1>15, <1>t, <2>1, OthersCalls DEF DropLegacy
<1>16. CASE OrphanCheck(p)
  <2>1. CallAt(p)'
    BY <1>16, <1>0, <1>b, <1>t DEF OrphanCheck, JobOps, PcLabels, ClientOps
  <2> QED BY <1>16, <1>t, <2>1, OthersCalls DEF OrphanCheck
<1>17. CASE GetRow(p)
  <2>1. CallAt(p)'
    BY <1>17, <1>0, <1>b, <1>t DEF GetRow, PcLabels, ClientOps
  <2> QED BY <1>17, <1>t, <2>1, OthersCalls DEF GetRow
<1>18. CASE GetOpen(p)
  <2>1. CallAt(p)'
    BY <1>18, <1>0, <1>b, <1>t DEF GetOpen, PcLabels, ClientOps
  <2> QED BY <1>18, <1>t, <2>1, OthersCalls DEF GetOpen
<1>19. CASE Return(p)
  <2>1. CallAt(p)'
    BY <1>19, <1>0, <1>b, <1>t DEF Return, Idle, PcLabels, ClientOps
  <2> QED BY <1>19, <1>t, <2>1, OthersCalls DEF Return, Idle
<1>20. CASE LockNext(p)
  <2>1. CallAt(p)'
    BY <1>20, <1>0, <1>b, <1>d, <1>t DEF LockNext, PcLabels, JobOps, ClientOps
  <2> QED BY <1>20, <1>t, <2>1, OthersCalls DEF LockNext
<1>21. CASE ReadLock(p)
  <2>1. CallAt(p)'
    BY <1>21, <1>0, <1>b, <1>t DEF ReadLock, PcLabels, ClientOps
  <2> QED BY <1>21, <1>t, <2>1, OthersCalls DEF ReadLock
<1> QED BY <1>1, <1>2, <1>3, <1>4, <1>5, <1>6, <1>7, <1>8, <1>9, <1>10, <1>11, <1>12, <1>13, <1>14, <1>15, <1>16, <1>17, <1>18, <1>19, <1>20, <1>21

\* Handlers that change the row of their key.
LEMMA CallWritten ==
  ASSUME IInv, CallInv, NEW p \in Procs,
         Commit(p) \/ DeleteRow(p) \/ PurgeRow(p) \/ StaleRow(p)
  PROVE  CallInv'
<1> USE DEF CallAt, Deciding, Swapping
<1>0. CallAt(p) /\ pc[p] \in Writing /\ meta \in [Keys -> Rows \cup {None}]
  BY DEF CallInv, IInv, TypeOK, Commit, DeleteRow, PurgeRow, StaleRow, Writing
<1>t. /\ pc \in [Procs -> PcLabels] /\ res \in [Procs -> {"none", "ok", "err", "missing", "rowonly"}]
  BY DEF IInv, TypeOK
<1>1. CallAt(p)'
  BY <1>0, <1>t DEF Commit, DeleteRow, PurgeRow, StaleRow, JobOps, ClientOps
<1>2. \A k \in Keys \ {req[p].key} : meta'[k] = meta[k]
  BY <1>0 DEF Commit, DeleteRow, PurgeRow, StaleRow
<1>3. \A q \in Procs \ {p} : /\ pc'[q] = pc[q] /\ req'[q] = req[q] /\ res'[q] = res[q]
                                /\ tag'[q] = tag[q] /\ bytes'[q] = bytes[q]
  BY <1>t DEF Commit, DeleteRow, PurgeRow, StaleRow
<1> QED BY <1>0, <1>1, <1>2, <1>3, WriterCalls

\* A request arrives undecided.
LEMMA CallBegins ==
  ASSUME IInv, CallInv, NEW p \in Procs, NEW r \in Requests, NEW at \in {"lock", "rlock", "scan"},
         Begin(p, r, at),
         \A q \in Procs \ {p} : tag'[q] = tag[q] /\ bytes'[q] = bytes[q],
         at = "rlock" => bytes'[p] = None,
         at = "lock" /\ r.op = "put" => tag'[p] = r.etag,
         at = "scan" => r.op \in JobOps
  PROVE  CallInv'
<1>t. pc \in [Procs -> PcLabels] /\ req \in [Procs -> Requests \cup {None}]
  BY DEF IInv, TypeOK
<1>1. pc'[p] = at /\ req'[p] = r /\ res'[p] = "none" /\ UNCHANGED <<meta, res>>
  BY <1>t DEF Begin, CallInv, CallAt, Deciding
<1>2. CallAt(p)'
  BY <1>1 DEF CallAt, Deciding, Swapping
<1>3. \A q \in Procs \ {p} : pc'[q] = pc[q] /\ req'[q] = req[q]
  BY <1>t DEF Begin
<1> QED BY <1>1, <1>2, <1>3, OthersCalls

\* Requests and jobs arrive undecided.
LEMMA CallArrives ==
  ASSUME IInv, CallInv, NEW p \in Procs, Arrive(p)
  PROVE  CallInv'
<1>t. tag \in [Procs -> EtagOrNone] /\ bytes \in [Procs -> EtagOrNone]
  BY DEF IInv, TypeOK
<1>0. pc[p] = "idle" => bytes[p] = None
  BY DEF CallInv, CallAt
<1>1. CASE PutBegin(p)
  <2> PICK k \in Keys, e \in Etags, c \in Conds :
        /\ Begin(p, [op |-> "put", key |-> k, src |-> k, etag |-> e, cond |-> c], "lock")
        /\ tag' = [tag EXCEPT ![p] = e] /\ bytes' = [bytes EXCEPT ![p] = e]
    BY <1>1 DEF PutBegin
  <2> DEFINE r == [op |-> "put", key |-> k, src |-> k, etag |-> e, cond |-> c]
  <2>1. Begin(p, r, "lock") /\ r \in Requests /\ r.etag = e
    BY DEF Begin
  <2> HIDE DEF r
  <2> QED BY <1>t, <2>1, CallBegins
<1>2. CASE CopyBegin(p)
  <2> PICK k \in Keys, s \in Keys, c \in Conds :
        /\ Begin(p, [op |-> "copy", key |-> k, src |-> s, etag |-> None, cond |-> c], "lock")
        /\ UNCHANGED <<tag, bytes>>
    BY <1>2 DEF CopyBegin
  <2> DEFINE r == [op |-> "copy", key |-> k, src |-> s, etag |-> None, cond |-> c]
  <2>1. Begin(p, r, "lock") /\ r \in Requests /\ r.op = "copy"
    BY DEF Begin
  <2> HIDE DEF r
  <2> QED BY <1>t, <2>1, CallBegins
<1>3. CASE DeleteBegin(p)
  <2> PICK k \in Keys, c \in Conds :
        /\ Begin(p, [op |-> "delete", key |-> k, src |-> k, etag |-> None, cond |-> c], "lock")
        /\ UNCHANGED <<tag, bytes>>
    BY <1>3 DEF DeleteBegin
  <2> DEFINE r == [op |-> "delete", key |-> k, src |-> k, etag |-> None, cond |-> c]
  <2>1. Begin(p, r, "lock") /\ r \in Requests /\ r.op = "delete"
    BY DEF Begin
  <2> HIDE DEF r
  <2> QED BY <1>t, <2>1, CallBegins
<1>4. CASE GetBegin(p)
  <2> PICK k \in Keys :
        /\ Begin(p, [op |-> "get", key |-> k, src |-> k, etag |-> None, cond |-> EtagOrNone], "rlock")
        /\ UNCHANGED <<tag, bytes>>
    BY <1>4 DEF GetBegin
  <2> DEFINE r == [op |-> "get", key |-> k, src |-> k, etag |-> None, cond |-> EtagOrNone]
  <2>1. Begin(p, r, "rlock") /\ r \in Requests /\ pc[p] = "idle"
    BY DEF Begin
  <2> HIDE DEF r
  <2> QED BY <1>0, <1>t, <2>1, CallBegins
<1>5. CASE PurgeBegin(p) \/ OrphanBegin(p) \/ StaleBegin(p)
  <2>1. PICK k \in Keys, op \in JobOps, at \in {"lock", "scan"} :
            Begin(p, JobRequest(op, k), at) /\ UNCHANGED <<tag, bytes>>
    <3>1. CASE PurgeBegin(p)
      BY <3>1 DEF PurgeBegin, JobOps
    <3>2. CASE OrphanBegin(p)
      BY <3>2 DEF OrphanBegin, JobOps
    <3>3. CASE StaleBegin(p)
      BY <3>3 DEF StaleBegin, JobOps
    <3> QED BY <1>5, <3>1, <3>2, <3>3
  <2>2. JobRequest(op, k) \in Requests /\ JobRequest(op, k).op \in JobOps
    BY <2>1 DEF Begin, JobRequest
  <2>3. JobRequest(op, k).op # "put"
    BY <2>2 DEF JobOps
  <2> QED BY <1>t, <2>1, <2>2, <2>3, CallBegins
<1> QED BY <1>1, <1>2, <1>3, <1>4, <1>5 DEF Arrive

\* Time and recovery change no active version.
LEMMA Unwritten ==
  ASSUME IInv, PurgeTmp \/ Expire \/ Recover \/ UNCHANGED vars, NEW k \in Keys
  PROVE  Active(k)' = Active(k)
<1>1. CASE Expire
  <2>1. meta[k] # None => meta[k] \in Rows
    BY DEF IInv, TypeOK
  <2>2. meta \in [Keys -> Rows \cup {None}]
    BY DEF IInv, TypeOK
  <2> QED BY <1>1, <2>1, <2>2 DEF Expire, Active, Live, Rows
<1>2. CASE PurgeTmp \/ Recover \/ UNCHANGED vars
  BY <1>2 DEF PurgeTmp, Recover, RecoverEntry, RecoverDropPrev, RecoverDropSwap, RecoverDone, vars,
              Active, Live
<1> QED BY <1>1, <1>2

\* What happens to no request in particular.
LEMMA CallElsewhere ==
  ASSUME IInv, CallInv, PurgeTmp \/ Expire \/ Crash \/ Recover \/ UNCHANGED vars
  PROVE  CallInv'
<1>1. CASE Crash
  BY <1>1 DEF Crash, CallInv, CallAt, Deciding, Swapping
<1>2. CASE PurgeTmp \/ Expire \/ Recover \/ UNCHANGED vars
  <2>1. UNCHANGED <<pc, req, res, tag, bytes>>
    BY <1>2 DEF PurgeTmp, Expire, Recover, RecoverEntry, RecoverDropPrev, RecoverDropSwap,
                RecoverDone, vars
  <2>2. \A k \in Keys : Active(k)' = Active(k)
    BY <1>2, Unwritten
  <2>3. ASSUME NEW q \in Procs PROVE CallAt(q)'
    <3>1. pc[q] \in Writing => req[q].key \in Keys /\ req[q].src \in Keys
      BY Serving DEF Writing
    <3> QED BY <2>1, <2>2, <3>1, OtherCall
  <2> QED BY <2>3 DEF CallInv
<1> QED BY <1>1, <1>2

\* Every step keeps the calls where they belong.
LEMMA NextCall ==
  ASSUME IInv, CallInv, [Next]_vars
  PROVE  CallInv'
<1>1. ASSUME NEW p \in Procs, Handle(p) PROVE CallInv'
  BY <1>1, CallUnwritten, CallWritten DEF Handle
<1>2. ASSUME NEW p \in Procs, Arrive(p) \/ LockNext(p) \/ ReadLock(p) PROVE CallInv'
  BY <1>2, CallArrives, CallUnwritten
<1> QED BY <1>1, <1>2, CallElsewhere DEF Next

\* No call is pending at first.
LEMMA InitCall ==
  ASSUME Init
  PROVE  CallInv
BY DEF Init, CallInv, CallAt, Deciding, Swapping

-----------------------------------------------------------------------------
(* Each step seen as a step of AtomicObjects.                               *)

\* An object is seen to change only when its active version does.
LEMMA SameObjects ==
  ASSUME \A k \in Keys : Active(k)' = Active(k)
  PROVE  Objects' = Objects
BY DEF Objects

\* A call is seen to change only when its request, its outcome or its answer does.
LEMMA SameCalls ==
  ASSUME \A q \in Procs :
            /\ req'[q] = req[q] /\ res'[q] = res[q]
            /\ req[q] # None /\ req[q].op = "get" /\ res[q] # "none" =>
                    row'[q] = row[q] /\ bytes'[q] = bytes[q]
  PROVE  Calls' = Calls
BY DEF Calls

\* One entry of a function over Procs changes.
LEMMA OneCall ==
  ASSUME NEW p \in Procs, NEW f, NEW g, NEW v,
         f = [q \in Procs |-> f[q]], g = [q \in Procs |-> g[q]],
         g[p] = v, \A q \in Procs \ {p} : g[q] = f[q]
  PROVE  g = [f EXCEPT ![p] = v]
OBVIOUS

\* A step of p leaves the other calls alone.
LEMMA CallStep ==
  ASSUME NEW p \in Procs,
         \A q \in Procs \ {p} : /\ req'[q] = req[q] /\ res'[q] = res[q]
                                /\ row'[q] = row[q] /\ bytes'[q] = bytes[q]
  PROVE  Calls' = [Calls EXCEPT ![p] = Calls'[p]]
<1>1. Calls = [q \in Procs |-> Calls[q]] /\ Calls' = [q \in Procs |-> Calls'[q]]
  BY DEF Calls
<1>2. \A q \in Procs \ {p} : Calls'[q] = Calls[q]
  BY DEF Calls
<1> QED BY <1>1, <1>2, OneCall

\* The step that decides p's call.
LEMMA CallDecided ==
  ASSUME NEW p \in Procs,
         req[p] # None, req[p].op \notin JobOps, res[p] = "none", res'[p] # "none",
         req'[p] = req[p],
         \A q \in Procs \ {p} : /\ req'[q] = req[q] /\ res'[q] = res[q]
                                /\ row'[q] = row[q] /\ bytes'[q] = bytes[q]
  PROVE  /\ Calls[p] = [req |-> req[p], res |-> "none", etag |-> None, bytes |-> None]
         /\ Calls' = [Calls EXCEPT ![p] =
                        [req |-> req[p], res |-> res'[p],
                         etag |-> IF req[p].op = "get" THEN row'[p] ELSE None,
                         bytes |-> IF req[p].op = "get" THEN bytes'[p] ELSE None]]
<1>1. Calls[p] = [req |-> req[p], res |-> "none", etag |-> None, bytes |-> None]
  BY DEF Calls
<1>2. Calls'[p] = [req |-> req[p], res |-> res'[p],
                   etag |-> IF req[p].op = "get" THEN row'[p] ELSE None,
                   bytes |-> IF req[p].op = "get" THEN bytes'[p] ELSE None]
  BY DEF Calls
<1> QED BY <1>1, <1>2, CallStep

\* What the abstract call of p becomes when it is answered without a value.
LEMMA CallAnswered ==
  ASSUME NEW p \in Procs,
         req[p] \in Requests, req[p].op \notin JobOps \cup {"get"}, res[p] = "none", res'[p] # "none",
         req'[p] = req[p],
         \A q \in Procs \ {p} : /\ req'[q] = req[q] /\ res'[q] = res[q]
                                /\ row'[q] = row[q] /\ bytes'[q] = bytes[q]
  PROVE  Atomic!Running(p) /\ Calls[p].req = req[p] /\ Atomic!Answer(p, res'[p])
<1>1. Calls[p] = [req |-> req[p], res |-> "none", etag |-> None, bytes |-> None]
  BY CallDecided
<1>2. Calls' = [Calls EXCEPT ![p] = [req |-> req[p], res |-> res'[p], etag |-> None, bytes |-> None]]
  BY CallDecided
<1>3. [Calls[p] EXCEPT !.res = res'[p]] = [req |-> req[p], res |-> res'[p], etag |-> None, bytes |-> None]
  BY <1>1
<1>4. Calls[p] # None
  BY <1>1, CallAssumption DEF CallRecords, EtagOrNone
<1>5. [Calls EXCEPT ![p].res = res'[p]] = [Calls EXCEPT ![p] = [Calls[p] EXCEPT !.res = res'[p]]]
  OBVIOUS
<1>6. Atomic!Answer(p, res'[p])
  BY <1>2, <1>3, <1>5 DEF Atomic!Answer
<1> QED BY <1>1, <1>4, <1>6 DEF Atomic!Running

\* A write that fails.
LEMMA Failed ==
  ASSUME NEW p \in Procs, req[p] \in Requests, req[p].op \notin JobOps \cup {"get"}, res[p] = "none",
         req'[p] = req[p], res'[p] = "err",
         \A q \in Procs \ {p} : /\ req'[q] = req[q] /\ res'[q] = res[q]
                                /\ row'[q] = row[q] /\ bytes'[q] = bytes[q],
         UNCHANGED Objects
  PROVE  Atomic!Fail(p)
BY CallAnswered DEF Atomic!Fail

\* A write that takes effect.
LEMMA TakesEffect ==
  ASSUME NEW p \in Procs, req[p] \in Requests, res[p] = "none",
         req'[p] = req[p], res'[p] = "ok",
         \A q \in Procs \ {p} : /\ req'[q] = req[q] /\ res'[q] = res[q]
                                /\ row'[q] = row[q] /\ bytes'[q] = bytes[q],
         Active(req[p].key) \in req[p].cond,
         \A k \in Keys \ {req[p].key} : Active(k)' = Active(k),
         \/ req[p].op = "put" /\ Active(req[p].key)' = req[p].etag
         \/ /\ req[p].op = "copy" /\ Active(req[p].src) # None
            /\ Active(req[p].key)' = Active(req[p].src)
         \/ req[p].op = "delete" /\ Active(req[p].key)' = None
  PROVE  Atomic!Write(p)
<1>1. Atomic!Running(p) /\ Calls[p].req = req[p] /\ Atomic!Answer(p, "ok")
  BY CallAnswered DEF JobOps
<1>2. req[p].key \in Keys /\ req[p].src \in Keys
  BY DEF Requests
<1>3. Objects' = [Objects EXCEPT ![req[p].key] = Active(req[p].key)']
  BY <1>2 DEF Objects
<1>4. Objects[req[p].key] = Active(req[p].key) /\ Objects[req[p].src] = Active(req[p].src)
  BY <1>2 DEF Objects
<1> QED BY <1>1, <1>3, <1>4 DEF Atomic!Write

\* A read of the version that is current now.
LEMMA Observes ==
  ASSUME NEW p \in Procs, req[p] \in Requests, req[p].op = "get", res[p] = "none",
         req'[p] = req[p], row'[p] = Active(req[p].key),
         \A q \in Procs \ {p} : /\ req'[q] = req[q] /\ res'[q] = res[q]
                                /\ row'[q] = row[q] /\ bytes'[q] = bytes[q],
         UNCHANGED Objects,
         \/ /\ bytes'[p] = Active(req[p].key)
            /\ res'[p] = IF Active(req[p].key) = None THEN "missing" ELSE "ok"
         \/ Active(req[p].key) # None /\ bytes'[p] = None /\ res'[p] = "rowonly"
  PROVE  Atomic!Read(p) \/ Atomic!ReadRow(p)
<1> DEFINE v == Objects[req[p].key]
<1>0. Calls = [q \in Procs |-> Calls[q]]
  BY DEF Calls
<1>1. v = Active(req[p].key)
  BY DEF Objects, Requests
<1>2. /\ Calls[p] = [req |-> req[p], res |-> "none", etag |-> None, bytes |-> None]
      /\ Calls' = [Calls EXCEPT ![p] = [req |-> req[p], res |-> res'[p], etag |-> row'[p], bytes |-> bytes'[p]]]
  BY CallDecided DEF JobOps
<1>3. Calls[p] # None /\ Calls[p].req = req[p] /\ Calls[p].res = "none"
  BY <1>2, CallAssumption DEF CallRecords, EtagOrNone
<1>4. CASE bytes'[p] = v /\ res'[p] = IF v = None THEN "missing" ELSE "ok"
  <2> DEFINE o == IF v = None THEN "missing" ELSE "ok"
  <2>1. [Calls EXCEPT ![p].res = o, ![p].etag = v, ![p].bytes = v]
          = [Calls EXCEPT ![p] = [req |-> req[p], res |-> o, etag |-> v, bytes |-> v]]
    <3> DEFINE f == [Calls EXCEPT ![p] = [req |-> req[p], res |-> o, etag |-> None, bytes |-> None]]
               g == [Calls EXCEPT ![p] = [req |-> req[p], res |-> o, etag |-> v, bytes |-> None]]
    <3> HIDE DEF o, v
    <3>1. [Calls[p] EXCEPT !.res = o] = f[p] /\ f[p] = [req |-> req[p], res |-> o, etag |-> None, bytes |-> None]
      BY <1>0, <1>2
    <3>2. [Calls EXCEPT ![p].res = o] = f
      BY <1>0, <3>1
    <3>3. [f[p] EXCEPT !.etag = v] = g[p] /\ g[p] = [req |-> req[p], res |-> o, etag |-> v, bytes |-> None]
      BY <1>0, <3>1
    <3>4. [f EXCEPT ![p].etag = v] = g
      BY <1>0, <3>3
    <3>5. [g[p] EXCEPT !.bytes = v] = [req |-> req[p], res |-> o, etag |-> v, bytes |-> v]
      BY <3>3
    <3>6. [g EXCEPT ![p].bytes = v] = [Calls EXCEPT ![p] = [req |-> req[p], res |-> o, etag |-> v, bytes |-> v]]
      BY <1>0, <3>5
    <3> QED BY <3>2, <3>4, <3>6
  <2>2. Calls' = [Calls EXCEPT ![p].res = o, ![p].etag = v, ![p].bytes = v]
    BY <1>1, <1>2, <1>4, <2>1
  <2> QED BY <1>3, <2>2 DEF Atomic!Read, Atomic!Running
<1>5. CASE v # None /\ bytes'[p] = None /\ res'[p] = "rowonly"
  <2>1. [Calls EXCEPT ![p].res = "rowonly", ![p].etag = v]
          = [Calls EXCEPT ![p] = [req |-> req[p], res |-> "rowonly", etag |-> v, bytes |-> None]]
    <3> DEFINE f == [Calls EXCEPT ![p] = [req |-> req[p], res |-> "rowonly", etag |-> None, bytes |-> None]]
    <3> HIDE DEF v
    <3>1. [Calls[p] EXCEPT !.res = "rowonly"] = f[p]
          /\ f[p] = [req |-> req[p], res |-> "rowonly", etag |-> None, bytes |-> None]
      BY <1>0, <1>2
    <3>2. [Calls EXCEPT ![p].res = "rowonly"] = f
      BY <1>0, <3>1
    <3>3. [f[p] EXCEPT !.etag = v] = [req |-> req[p], res |-> "rowonly", etag |-> v, bytes |-> None]
      BY <3>1
    <3>4. [f EXCEPT ![p].etag = v]
            = [Calls EXCEPT ![p] = [req |-> req[p], res |-> "rowonly", etag |-> v, bytes |-> None]]
      BY <1>0, <3>3
    <3> QED BY <3>2, <3>4
  <2>2. Calls' = [Calls EXCEPT ![p].res = "rowonly", ![p].etag = v]
    BY <1>1, <1>2, <1>5, <2>1
  <2> QED BY <1>3, <1>5, <2>2 DEF Atomic!ReadRow, Atomic!Running
<1> QED BY <1>1, <1>4, <1>5

\* A client's request arrives, a job's does not show.
LEMMA Arrives ==
  ASSUME NEW p \in Procs, NEW r \in Requests, req[p] = None, res[p] = "none",
         req'[p] = r, res'[p] = "none",
         \A q \in Procs \ {p} : /\ req'[q] = req[q] /\ res'[q] = res[q]
                                /\ row'[q] = row[q] /\ bytes'[q] = bytes[q],
         UNCHANGED Objects
  PROVE  Atomic!Invoke(p) \/ UNCHANGED Atomic!vars
<1>1. Calls[p] = None /\ Calls = [q \in Procs |-> Calls[q]]
  BY DEF Calls
<1>2. CASE r.op \in JobOps
  <2>1. Calls'[p] = None
    BY <1>2 DEF Calls
  <2>2. Calls' = [Calls EXCEPT ![p] = Calls'[p]]
    BY CallStep
  <2>3. Calls' = Calls
    BY <1>1, <2>1, <2>2
  <2> QED BY <2>3 DEF Atomic!vars
<1>3. CASE r.op \notin JobOps
  <2>1. Calls'[p] = Atomic!Pending(r)
    BY <1>3 DEF Calls, Atomic!Pending
  <2>2. Calls' = [Calls EXCEPT ![p] = Calls'[p]]
    BY CallStep
  <2> QED BY <1>1, <2>1, <2>2 DEF Atomic!Invoke
<1> QED BY <1>2, <1>3

\* An answer goes out, or a job ends.
LEMMA Leaves ==
  ASSUME NEW p \in Procs, req[p] \in Requests, res[p] \in {"none", "ok", "err", "missing", "rowonly"},
         req[p].op \notin JobOps => res[p] # "none",
         req'[p] = None,
         row[p] \in EtagOrNone, bytes[p] \in EtagOrNone,
         \A q \in Procs \ {p} : /\ req'[q] = req[q] /\ res'[q] = res[q]
                                /\ row'[q] = row[q] /\ bytes'[q] = bytes[q],
         UNCHANGED Objects
  PROVE  Atomic!Respond(p) \/ UNCHANGED Atomic!vars
<1>1. Calls'[p] = None /\ Calls = [q \in Procs |-> Calls[q]]
  BY DEF Calls
<1>2. Calls' = [Calls EXCEPT ![p] = None]
  BY <1>1, CallStep
<1>3. CASE req[p].op \in JobOps
  <2>1. Calls[p] = None
    BY <1>3 DEF Calls
  <2>2. Calls' = Calls
    BY <1>1, <1>2, <2>1
  <2> QED BY <2>2 DEF Atomic!vars
<1>4. CASE req[p].op \notin JobOps
  <2> DEFINE c == [req |-> req[p], res |-> res[p],
                   etag |-> IF req[p].op = "get" /\ res[p] # "none" THEN row[p] ELSE None,
                   bytes |-> IF req[p].op = "get" /\ res[p] # "none" THEN bytes[p] ELSE None]
  <2>1. Calls[p] = c
    BY <1>4 DEF Calls
  <2>2. c \in CallRecords /\ c.res = res[p]
    BY DEF CallRecords, EtagOrNone
  <2>3. Calls[p] # None /\ Calls[p].res # "none"
    BY <1>4, <2>1, <2>2, CallAssumption
  <2> QED BY <1>2, <2>3 DEF Atomic!Respond
<1> QED BY <1>3, <1>4

\* A step of p that decides nothing and writes no row is not seen.
LEMMA Unseen ==
  ASSUME UNCHANGED meta,
         \A q \in Procs :
            /\ req'[q] = req[q] /\ res'[q] = res[q]
            /\ req[q] # None /\ req[q].op = "get" /\ res[q] # "none" =>
                    row'[q] = row[q] /\ bytes'[q] = bytes[q]
  PROVE  UNCHANGED Atomic!vars
<1>1. \A k \in Keys : Active(k)' = Active(k)
  BY DEF Active, Live
<1> QED BY <1>1, SameObjects, SameCalls DEF Atomic!vars

\* A step of the registers, or one they do not see.
AtomicStep == Atomic!Next \/ UNCHANGED Atomic!vars

\* A step of one call is a step of the registers.
LEMMA AtomicSteps ==
  ASSUME NEW p \in Procs,
         \/ Atomic!Invoke(p) \/ Atomic!Write(p) \/ Atomic!Fail(p) \/ Atomic!Read(p)
         \/ Atomic!ReadRow(p) \/ Atomic!Respond(p) \/ UNCHANGED Atomic!vars
  PROVE  AtomicStep
BY DEF AtomicStep, Atomic!Next

\* COPY and PUT up to the commit.
LEMMA SwapSim ==
  ASSUME IInv, CallInv, NEW p \in Procs,
         \/ CopyRow(p) \/ CopyLink(p) \/ SwapCheck(p) \/ Backup(p)
         \/ IntentOpen(p) \/ IntentWrite(p) \/ Rename(p)
  PROVE  AtomicStep
<1>0. /\ req[p] \in Requests /\ req[p].op \in {"put", "copy"} /\ res[p] = "none"
      /\ UNCHANGED <<meta, req>>
  BY Serving DEF CallInv, CallAt, Deciding, Swapping, CopyRow, CopyLink, SwapCheck, Backup, IntentOpen,
       IntentWrite, Rename
<1>t. /\ res \in [Procs -> {"none", "ok", "err", "missing", "rowonly"}]
      /\ row \in [Procs -> EtagOrNone] /\ bytes \in [Procs -> EtagOrNone]
  BY DEF IInv, TypeOK
<1>1. \A q \in Procs \ {p} : res'[q] = res[q] /\ row'[q] = row[q] /\ bytes'[q] = bytes[q]
  BY <1>t DEF CopyRow, CopyLink, SwapCheck, Backup, IntentOpen, IntentWrite, Rename
<1>2. res'[p] \in {"none", "err"}
  BY <1>0, <1>t DEF CopyRow, CopyLink, SwapCheck, Backup, IntentOpen, IntentWrite, Rename
<1>3. CASE res'[p] = "none"
  BY <1>0, <1>1, <1>3, Unseen, AtomicSteps
<1>4. CASE res'[p] = "err"
  <2>1. UNCHANGED Objects
    BY <1>0, SameObjects DEF Active, Live
  <2> QED BY <1>0, <1>1, <1>4, <2>1, Failed, AtomicSteps DEF JobOps
<1> QED BY <1>2, <1>3, <1>4

\* The commit is where a swap takes effect.
LEMMA CommitSim ==
  ASSUME IInv, CallInv, NEW p \in Procs, Commit(p)
  PROVE  AtomicStep
<1>0. /\ req[p] \in Requests /\ req[p].key \in Keys /\ req[p].src \in Keys
      /\ req[p].op \in {"put", "copy"} /\ res[p] = "none" /\ Active(req[p].key) \in req[p].cond
      /\ req[p].op = "put" => tag[p] = req[p].etag
      /\ req[p].op = "copy" => tag[p] = Active(req[p].src)
      /\ tag[p] \in Etags
      /\ UNCHANGED <<req, row, bytes>>
  BY Serving DEF CallInv, CallAt, Deciding, Swapping, Commit, IInv, SwapInv, SwapAt
<1>t. /\ res \in [Procs -> {"none", "ok", "err", "missing", "rowonly"}]
      /\ meta \in [Keys -> Rows \cup {None}]
  BY DEF IInv, TypeOK
<1>1. CASE UNCHANGED meta /\ res' = [res EXCEPT ![p] = "err"]
  <2>1. UNCHANGED Objects
    BY <1>1, SameObjects DEF Active, Live
  <2> QED BY <1>0, <1>t, <1>1, <2>1, Failed, AtomicSteps DEF JobOps
<1>2. CASE /\ meta' = [meta EXCEPT ![req[p].key] = [etag |-> tag[p], deleted |-> "no"]]
           /\ res' = [res EXCEPT ![p] = "ok"]
  <2>1. [etag |-> tag[p], deleted |-> "no"] \in Rows
    BY <1>0 DEF Rows
  <2>2. Active(req[p].key)' = tag[p]
    BY <1>0, <1>t, <1>2, <2>1 DEF Active, Live
  <2>3. \A k \in Keys \ {req[p].key} : Active(k)' = Active(k)
    BY <1>t, <1>2 DEF Active, Live
  <2>4. req[p].op = "copy" => Active(req[p].src) # None
    BY <1>0
  <2> QED BY <1>0, <1>t, <1>2, <2>2, <2>3, <2>4, TakesEffect, AtomicSteps
<1> QED BY <1>1, <1>2 DEF Commit

\* DELETE takes effect at its row, or at the check when there is nothing to delete.
LEMMA DeleteSim ==
  ASSUME IInv, CallInv, NEW p \in Procs, DeleteCheck(p) \/ DeleteRow(p)
  PROVE  AtomicStep
<1>0. /\ req[p] \in Requests /\ req[p].key \in Keys
      /\ req[p].op = "delete" /\ res[p] = "none"
      /\ pc[p] = "delrow" => Active(req[p].key) \in req[p].cond
      /\ UNCHANGED <<req, row, bytes>>
  BY Serving DEF CallInv, CallAt, Deciding, Swapping, DeleteCheck, DeleteRow
<1>t. /\ res \in [Procs -> {"none", "ok", "err", "missing", "rowonly"}]
      /\ meta \in [Keys -> Rows \cup {None}]
  BY DEF IInv, TypeOK
<1>1. CASE UNCHANGED <<meta, res>>
  BY <1>0, <1>1, Unseen, AtomicSteps
<1>2. CASE UNCHANGED meta /\ res' = [res EXCEPT ![p] = "err"]
  <2>1. UNCHANGED Objects
    BY <1>2, SameObjects DEF Active, Live
  <2> QED BY <1>0, <1>t, <1>2, <2>1, Failed, AtomicSteps DEF JobOps
<1>3. CASE /\ res' = [res EXCEPT ![p] = "ok"] /\ Active(req[p].key) \in req[p].cond
           /\ \A k \in Keys \ {req[p].key} : Active(k)' = Active(k)
           /\ Active(req[p].key)' = None
  BY <1>0, <1>t, <1>3, TakesEffect, AtomicSteps
<1>4. CASE DeleteCheck(p)
  <2>1. CASE Active(req[p].key) \in req[p].cond /\ ~Live(req[p].key) /\ Finish(p, "ok")
    <3>1. \A k \in Keys : Active(k)' = Active(k)
      BY <1>4 DEF Active, Live, DeleteCheck
    <3> QED BY <1>0, <1>3, <2>1, <3>1 DEF Active
  <2> QED BY <1>1, <1>2, <1>4, <2>1 DEF DeleteCheck
<1>5. CASE DeleteRow(p)
  <2>1. CASE /\ meta' = [meta EXCEPT ![req[p].key] =
                           IF SoftDelete THEN [@ EXCEPT !.deleted = "soft"] ELSE None]
             /\ res' = [res EXCEPT ![p] = "ok"]
    <3>1. \A k \in Keys \ {req[p].key} : Active(k)' = Active(k)
      BY <1>t, <2>1 DEF Active, Live
    <3>2. meta[req[p].key] \in Rows
      BY <1>0, <1>5, FileTypes DEF DeleteRow, IInv, SwapInv, SwapAt
    <3>3. ~Live(req[p].key)'
      BY <1>0, <1>t, <2>1, <3>2 DEF Live, Rows
    <3>4. Active(req[p].key)' = None
      BY <3>3 DEF Active
    <3> QED BY <1>0, <1>3, <1>5, <2>1, <3>1, <3>4 DEF DeleteRow
  <2> QED BY <1>2, <1>5, <2>1 DEF DeleteRow
<1> QED BY <1>4, <1>5

\* What follows a decision, and the jobs, change nothing a client sees.
LEMMA QuietSim ==
  ASSUME IInv, CallInv, NEW p \in Procs,
         \/ DropOld(p) \/ DropPrev(p) \/ DropSwap(p) \/ Restore(p) \/ DropFinal(p) \/ DropLegacy(p)
         \/ OrphanCheck(p) \/ LockNext(p) \/ ReadLock(p)
  PROVE  AtomicStep
<1>1. UNCHANGED <<meta, req, res, row, bytes>>
  BY DEF DropOld, DropPrev, DropSwap, Restore, DropFinal, DropLegacy, OrphanCheck, LockNext, ReadLock
<1> QED BY <1>1, Unseen, AtomicSteps

\* A purge removes the row of an object that is gone; reconcile finds no row to
\* remove, for no live object is without its blob.
LEMMA JobSim ==
  ASSUME IInv, CallInv, NEW p \in Procs, PurgeRow(p) \/ StaleRow(p)
  PROVE  AtomicStep
<1>0. req[p].key \in Keys /\ UNCHANGED <<req, res, row, bytes>>
  BY Serving DEF PurgeRow, StaleRow
<1>t. meta \in [Keys -> Rows \cup {None}]
  BY DEF IInv, TypeOK
<1>1. \A k \in Keys : Active(k)' = Active(k)
  <2>1. CASE PurgeRow(p)
    BY <1>0, <1>t, <2>1 DEF PurgeRow, Active, Live
  <2>2. CASE StaleRow(p)
    <3>1. Consistent(req[p].key)
      BY <1>0, <2>2, Settled DEF StaleRow, Writing
    <3>2. Live(req[p].key) => Resolve(req[p].key) # None
      BY <1>0, <3>1, FileTypes DEF Consistent, IInv
    <3> QED BY <2>2, <3>2 DEF StaleRow, Active, Live
  <2> QED BY <2>1, <2>2
<1>2. UNCHANGED Atomic!vars
  BY <1>0, <1>1, SameObjects, SameCalls DEF Atomic!vars
<1> QED BY <1>2, AtomicSteps

\* A GET takes effect at its row when the row is the answer, and otherwise when it
\* opens the file: the version it read is still the current one.
LEMMA GetSim ==
  ASSUME IInv, CallInv, NEW p \in Procs, GetRow(p) \/ GetOpen(p)
  PROVE  AtomicStep
<1>0. /\ req[p] \in Requests /\ req[p].key \in Keys
      /\ req[p].op = "get" /\ res[p] = "none" /\ bytes[p] = None
      /\ UNCHANGED <<meta, req>>
  BY Serving DEF CallInv, CallAt, Deciding, IInv, RequestInv, GetRow, GetOpen
<1>t. /\ res \in [Procs -> {"none", "ok", "err", "missing", "rowonly"}]
      /\ row \in [Procs -> EtagOrNone] /\ bytes \in [Procs -> EtagOrNone]
  BY DEF IInv, TypeOK
<1>1. UNCHANGED Objects
  BY <1>0, SameObjects DEF Active, Live
<1>2. \A q \in Procs \ {p} : res'[q] = res[q] /\ row'[q] = row[q] /\ bytes'[q] = bytes[q]
  BY <1>t DEF GetRow, GetOpen
<1>3. Live(req[p].key) => Active(req[p].key) # None
  BY <1>0, FileTypes DEF IInv
<1>4. CASE GetRow(p)
  <2>1. CASE UNCHANGED res
    BY <1>0, <1>2, <2>1, Unseen, AtomicSteps
  <2>2. CASE Live(req[p].key) /\ Finish(p, "rowonly")
    <3>1. row'[p] = Active(req[p].key) /\ bytes'[p] = None /\ res'[p] = "rowonly"
      BY <1>0, <1>t, <1>4, <2>2 DEF GetRow
    <3> QED BY <1>0, <1>1, <1>2, <1>3, <2>2, <3>1, Observes, AtomicSteps
  <2>3. CASE ~Live(req[p].key) /\ Finish(p, "missing")
    <3>1. /\ row'[p] = Active(req[p].key) /\ bytes'[p] = None /\ res'[p] = "missing"
          /\ Active(req[p].key) = None
      BY <1>0, <1>t, <1>4, <2>3 DEF GetRow, Active
    <3> QED BY <1>0, <1>1, <1>2, <3>1, Observes, AtomicSteps
  <2> QED BY <1>4, <2>1, <2>2, <2>3 DEF GetRow
<1>5. CASE GetOpen(p)
  <2>1. row[p] # None /\ row[p] = Active(req[p].key)
    BY <1>5 DEF GetOpen, IInv, ReadInv, ReadAt
  <2>2. Live(req[p].key) /\ Resolve(req[p].key) = Active(req[p].key)
    BY <1>0, <1>5, <2>1, Settled, FileTypes DEF GetOpen, Active, Consistent, IInv
  <2>3. /\ row'[p] = Active(req[p].key) /\ bytes'[p] = Active(req[p].key) /\ res'[p] = "ok"
        /\ Active(req[p].key) # None
    BY <1>t, <1>5, <2>1, <2>2 DEF GetOpen
  <2> QED BY <1>0, <1>1, <1>2, <2>3, Observes, AtomicSteps
<1> QED BY <1>4, <1>5

\* A handler ends.
LEMMA EndSim ==
  ASSUME IInv, CallInv, NEW p \in Procs, Return(p) \/ StaleScan(p)
  PROVE  AtomicStep
<1>0. /\ req[p] \in Requests /\ UNCHANGED meta
      /\ req[p].op \notin JobOps => Return(p) /\ res[p] # "none"
  <2>1. req[p] \in Requests /\ UNCHANGED meta
    BY Serving DEF Return, StaleScan
  <2>2. req[p].op \in ClientOps \cup JobOps
    BY <2>1 DEF Requests
  <2>3. pc[p] = "scan" => req[p].op \in JobOps
    BY DEF CallInv, CallAt
  <2>4. pc[p] = "done" /\ req[p].op \in ClientOps => res[p] # "none"
    BY DEF CallInv, CallAt, Deciding
  <2> QED BY <2>1, <2>2, <2>3, <2>4 DEF Return, StaleScan
<1>t. /\ res \in [Procs -> {"none", "ok", "err", "missing", "rowonly"}]
      /\ row \in [Procs -> EtagOrNone] /\ bytes \in [Procs -> EtagOrNone]
      /\ req \in [Procs -> Requests \cup {None}]
  BY DEF IInv, TypeOK
<1>1. UNCHANGED Objects
  BY <1>0, SameObjects DEF Active, Live
<1>2. CASE Idle(p)
  BY <1>0, <1>t, <1>1, <1>2, Leaves, AtomicSteps DEF Idle
<1>3. CASE UNCHANGED <<request, res>>
  BY <1>0, <1>3, Unseen, AtomicSteps
<1> QED BY <1>2, <1>3 DEF Return, StaleScan

\* A request arrives.
LEMMA ArriveSim ==
  ASSUME IInv, CallInv, NEW p \in Procs, Arrive(p)
  PROVE  AtomicStep
<1>1. PICK r \in Requests, at \in {"lock", "rlock", "scan"} : Begin(p, r, at)
  <2>1. Arrive(p) => \E r, at : Begin(p, r, at) /\ at \in {"lock", "rlock", "scan"}
    BY DEF Arrive, PutBegin, CopyBegin, DeleteBegin, GetBegin, PurgeBegin, OrphanBegin, StaleBegin
  <2> QED BY <2>1 DEF Begin
<1>t. /\ req \in [Procs -> Requests \cup {None}] /\ bytes \in [Procs -> EtagOrNone]
  BY DEF IInv, TypeOK
<1>2. req[p] = None /\ res[p] = "none"
  BY <1>1 DEF Begin, IInv, RequestInv, CallInv, CallAt, Deciding
<1>3. \A q \in Procs \ {p} : bytes'[q] = bytes[q]
  BY <1>t DEF Arrive, PutBegin, CopyBegin, DeleteBegin, GetBegin, PurgeBegin, OrphanBegin, StaleBegin
<1>4. UNCHANGED Objects
  BY <1>1, SameObjects DEF Begin, Active, Live
<1>5. /\ req'[p] = r /\ res'[p] = "none"
      /\ \A q \in Procs \ {p} : req'[q] = req[q] /\ res'[q] = res[q] /\ row'[q] = row[q]
  BY <1>t, <1>1, <1>2 DEF Begin
<1> QED BY <1>2, <1>3, <1>4, <1>5, Arrives, AtomicSteps

\* Scratch files, time, crashes and recovery.
LEMMA ElsewhereSim ==
  ASSUME IInv, PurgeTmp \/ Expire \/ Crash \/ Recover \/ UNCHANGED vars
  PROVE  AtomicStep
<1>1. CASE Crash
  <2>1. UNCHANGED Objects
    BY <1>1, SameObjects DEF Crash, Active, Live
  <2>2. Calls' = [p \in Procs |-> None]
    BY <1>1 DEF Crash, Calls
  <2> QED BY <2>1, <2>2 DEF AtomicStep, Atomic!Next, Atomic!Crash
<1>2. CASE PurgeTmp \/ Expire \/ Recover \/ UNCHANGED vars
  <2>1. UNCHANGED <<req, res, row, bytes>>
    BY <1>2 DEF PurgeTmp, Expire, Recover, RecoverEntry, RecoverDropPrev, RecoverDropSwap,
                RecoverDone, vars
  <2>2. \A k \in Keys : Active(k)' = Active(k)
    BY <1>2, Unwritten
  <2> QED BY <2>1, <2>2, SameObjects, SameCalls DEF AtomicStep, Atomic!vars
<1> QED BY <1>1, <1>2

\* Every step of the engine is a step of the atomic registers, or changes nothing there.
LEMMA NextSim ==
  ASSUME IInv, CallInv, [Next]_vars
  PROVE  [Atomic!Next]_(Atomic!vars)
<1>1. ASSUME NEW p \in Procs, Handle(p) PROVE AtomicStep
  BY <1>1, SwapSim, CommitSim, DeleteSim, QuietSim, JobSim, GetSim, EndSim DEF Handle
<1>2. ASSUME NEW p \in Procs, Arrive(p) \/ LockNext(p) \/ ReadLock(p) PROVE AtomicStep
  BY <1>2, ArriveSim, QuietSim
<1>3. AtomicStep
  BY <1>1, <1>2, ElsewhereSim DEF Next
<1> QED BY <1>3 DEF AtomicStep

\* The engine starts where the registers may start.
LEMMA InitSim ==
  ASSUME Init, Sound
  PROVE  Atomic!Init
<1>1. Objects \in [Keys -> Etags \cup {None}]
  BY DEF Init, Sound, Objects, Active, Live
<1>2. Calls = [p \in Procs |-> None]
  BY DEF Init, Calls
<1> QED BY <1>1, <1>2 DEF Atomic!Init

\* The engine implements atomic registers: whatever the interleaving of handlers, jobs, I/O
\* failures and crashes, every PUT, COPY and DELETE takes effect at one instant, with its
\* precondition true at that instant, or not at all, and every GET answers with one version.
THEOREM EngineLinearizable ==
  ASSUME Sound
  PROVE  Spec => Linearizable
<1>1. Init => CallInv /\ Atomic!Init
  BY InitCall, InitSim
<1>2. IInv /\ CallInv /\ [Next]_vars => CallInv' /\ [Atomic!Next]_(Atomic!vars)
  BY NextCall, NextSim
<1>3. Spec => []IInv
  BY Inductive
<1> QED BY <1>1, <1>2, <1>3, PTL DEF Spec, Linearizable, Atomic!Spec
=============================================================================
