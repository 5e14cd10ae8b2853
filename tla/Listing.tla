------------------------------ MODULE Listing ------------------------------
(***************************************************************************)
(* A client that walks a bucket page by page, each page one request that   *)
(* continues after the previous answer's next_start_after:                 *)
(*   "plain"   GET /{bucket}                  (StorageEngine::list_objects)*)
(*   "folders" GET /{bucket}?delimiter=...    (the same, common prefixes)  *)
(*   "purge"   DELETE /{bucket}?prefix=... without a metadata store        *)
(*             (delete_blob_only_prefix, list_blob_only_keys)              *)
(* while other clients add and remove keys between its requests.           *)
(* Keys are numbers in key order; Folder gives the common prefix of a key, *)
(* 0 when nothing after the requested prefix contains the delimiter.       *)
(***************************************************************************)
EXTENDS Integers, FiniteSets, FiniteSetsExt

CONSTANTS
    Keys,       \* the keys under the requested prefix
    Folder,     \* key -> its common prefix, 0 for none
    Walks,      \* the walks, as [kind, limit]; one is chosen
    ScanCap,    \* NOS_LIST_SCAN_CAP
    MaxWrites   \* bound: keys added and removed while the walk runs

VARIABLES
    rows,    \* keys of active objects
    walk,    \* the walk
    pc,      \* "page", "count" or "done"
    after,   \* start_after of the next request
    last,    \* last key scanned, between the two queries of a page
    items,   \* keys answered so far
    folders, \* common prefixes answered so far
    kept,    \* keys present since the walk began
    writes

vars == <<rows, walk, pc, after, last, items, folders, kept, writes>>

FirstOf(set, n) == {k \in set : Cardinality({j \in set : j <= k}) <= n}

\* One query: at most n rows after the cursor, in key order.
ListActiveRows(n) == FirstOf({k \in rows : k > after}, n)

CountKeysAfter(k) == Cardinality({j \in rows : j > k})

-----------------------------------------------------------------------------
\* Mutant of NextStartAfter: the extra row fetched to detect more is the cursor.
NextStartAfterExtra(page, scanned) == Max(scanned)

\* The cursor of a truncated plain page: its last row.
NextStartAfter(page, scanned) == Max(page)

\* limit + 1 rows are fetched to see whether more follow.
ListPlain ==
    LET scanned == ListActiveRows(walk.limit + 1)
        page == FirstOf(scanned, walk.limit)
        truncated == Cardinality(scanned) > walk.limit
    IN  /\ walk.kind = "plain" /\ pc = "page"
        /\ items' = items \cup page
        /\ IF truncated THEN after' = NextStartAfter(page, scanned) /\ UNCHANGED pc
           ELSE pc' = "done" /\ UNCHANGED after
        /\ UNCHANGED <<rows, walk, last, folders, kept, writes>>

-----------------------------------------------------------------------------
\* A row opens an entry of the answer unless its folder is already in it.
OpensEntry(scanned, k) ==
    Folder[k] = 0 \/ \A j \in scanned : j < k => Folder[j] # Folder[k]

\* The row at which the entries reach the limit and the scan stops.
BreaksAt(scanned) ==
    {k \in scanned : /\ OpensEntry(scanned, k)
                     /\ Cardinality({j \in scanned : j < k /\ OpensEntry(scanned, j)}) >= walk.limit}

\* The scan remembers a row before it decides whether the row still fits.
LastScanned(scanned) ==
    IF BreaksAt(scanned) # {} THEN Min(BreaksAt(scanned)) ELSE Max(scanned)

\* Rows that are answered, as an item or through their folder.
Answered(scanned) ==
    IF BreaksAt(scanned) # {} THEN {k \in scanned : k < Min(BreaksAt(scanned))} ELSE scanned

ListFolders ==
    LET scanned == ListActiveRows(ScanCap)
        answered == Answered(scanned)
    IN  /\ walk.kind = "folders" /\ pc = "page"
        /\ items' = items \cup {k \in answered : Folder[k] = 0}
        /\ folders' = folders \cup ({Folder[k] : k \in answered} \ {0})
        /\ IF scanned = {} THEN pc' = "done" /\ UNCHANGED <<after, last>>
           ELSE IF BreaksAt(scanned) # {} \/ Cardinality(scanned) >= ScanCap
           THEN after' = LastScanned(scanned) /\ UNCHANGED <<pc, last>>
           ELSE last' = LastScanned(scanned) /\ pc' = "count" /\ UNCHANGED after
        /\ UNCHANGED <<rows, walk, kept, writes>>

\* A second query decides whether a page that took every row is the last.
CountAfter ==
    /\ pc = "count"
    /\ IF CountKeysAfter(last) > 0 THEN after' = last /\ pc' = "page"
       ELSE pc' = "done" /\ UNCHANGED after
    /\ last' = 0
    /\ UNCHANGED <<rows, walk, items, folders, kept, writes>>

-----------------------------------------------------------------------------
\* The directory walk yields keys in any order and stops at its limit; only
\* what it found is sorted.
ListBlobOnlyKeys(n) == {s \in SUBSET rows : Cardinality(s) = Min({n, Cardinality(rows)})}

\* items are the keys the purge answered as deleted.
PurgePage ==
    /\ walk.kind = "purge" /\ pc = "page"
    /\ \E found \in ListBlobOnlyKeys(walk.limit + 1) :
         LET page == FirstOf({k \in found : k > after}, walk.limit)
             truncated == Cardinality(found) > walk.limit
         IN  /\ rows' = rows \ page
             /\ items' = items \cup page
             /\ IF truncated /\ page # {} THEN after' = Max(page) /\ UNCHANGED pc
                ELSE pc' = "done" /\ UNCHANGED after
    /\ UNCHANGED <<walk, last, folders, kept, writes>>

-----------------------------------------------------------------------------
\* Another client.
PutKey(k) ==
    /\ writes < MaxWrites /\ writes' = writes + 1
    /\ k \notin rows /\ pc # "done"
    /\ rows' = rows \cup {k}
    /\ UNCHANGED <<walk, pc, after, last, items, folders, kept>>

DeleteKey(k) ==
    /\ writes < MaxWrites /\ writes' = writes + 1
    /\ k \in rows /\ pc # "done"
    /\ rows' = rows \ {k} /\ kept' = kept \ {k}
    /\ UNCHANGED <<walk, pc, after, last, items, folders>>

Init ==
    /\ walk \in Walks
    /\ rows \in SUBSET Keys /\ kept = rows
    /\ pc = "page" /\ after = 0 /\ last = 0
    /\ items = {} /\ folders = {} /\ writes = 0

Next ==
    \/ ListPlain \/ ListFolders \/ CountAfter \/ PurgePage
    \/ \E k \in Keys : PutKey(k) \/ DeleteKey(k)

Spec == Init /\ [][Next]_vars

-----------------------------------------------------------------------------
(* When the last page has been answered, every key that was there from the *)
(* first request to the last has been answered, itself or through its      *)
(* common prefix (list_objects), or deleted (delete_blob_only_prefix),     *)
(* whatever was added and removed in between.                              *)
KeysListed ==
    pc = "done" => \A k \in kept : k \in items \/ Folder[k] \in folders
=============================================================================
