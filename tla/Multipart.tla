----------------------------- MODULE Multipart -----------------------------
(***************************************************************************)
(* One multipart upload: its session row, the rows of its parts, the part   *)
(* files in its directory, and the requests that upload parts, complete or  *)
(* abort it, with the purge of stale sessions and crashes.                  *)
(*                                                                          *)
(* Sessions share nothing but the object's key, whose swap is ObjectStore's *)
(* subject; here a commit is one step.  A part's content and the etag       *)
(* recorded for it are the same value.                                      *)
(***************************************************************************)
EXTENDS Naturals, Sequences, FiniteSets

CONSTANTS
    Procs,       \* request handlers and the purge job
    Parts,       \* part numbers: 1..N
    Contents,    \* bodies a part may be uploaded with
    MaxOps,      \* bound: requests
    MaxCrashes,  \* bound: crashes
    None,        \* no row, no file, no part list
    Any          \* a listed part without an etag

ASSUME MultipartConstants ==
    /\ IsFiniteSet(Parts) /\ Parts = 1..Cardinality(Parts)
    /\ {MaxOps, MaxCrashes} \subseteq Nat
    /\ None \notin Contents
    /\ Any \notin Contents \cup {None}

VARIABLES
    session,   \* the row of multipart_uploads: "none" yet, "open", "stale"
               \* (older than the TTL) or "gone"
    recorded,  \* Parts -> etag in multipart_parts, or None
    dir,       \* the upload's directory exists
    file,      \* Parts -> content of the part file, or None
    object,    \* content of the completed object, or None
    req,       \* Procs -> the handler's state
    raced,     \* parts of which two uploads were between rename and record at once
    ops, crashes

state == <<session, recorded, dir, file, object>>
vars == <<state, req, raced, ops, crashes>>

Idle == [pc |-> "idle", part |-> None, body |-> None, list |-> None, chosen |-> <<>>,
         read |-> <<>>]

\* Part lists a client may send: parts in any order, with or without etags.
Listed == [part : Parts, etag : Contents \cup {Any}]
Lists == {None} \cup UNION {[1..n -> Listed] : n \in 0..Cardinality(Parts)}

\* The recorded parts, ordered by number (list_multipart_parts).
RecordedParts ==
    LET have == {n \in Parts : recorded[n] # None}
        nth(i) == CHOOSE n \in have : Cardinality({m \in have : m < n}) = i - 1
    IN  [i \in 1..Cardinality(have) |-> [part |-> nth(i), etag |-> recorded[nth(i)]]]

\* Without a list the parts must run from 1 without a gap; with one, exactly the
\* listed parts are used, in ascending order, each recorded with the listed etag.
Selectable(list) ==
    IF list = None
    THEN /\ RecordedParts # <<>>
         /\ \A i \in DOMAIN RecordedParts : RecordedParts[i].part = i
    ELSE /\ list # <<>>
         /\ \A i, j \in DOMAIN list : i < j => list[i].part < list[j].part
         /\ \A i \in DOMAIN list :
                /\ recorded[list[i].part] # None
                /\ list[i].etag \in {Any, recorded[list[i].part]}

Select(list) ==
    IF list = None THEN RecordedParts
    ELSE [i \in DOMAIN list |-> [part |-> list[i].part, etag |-> recorded[list[i].part]]]

Init ==
    /\ session = "none"
    /\ recorded = [n \in Parts |-> None]
    /\ dir = FALSE
    /\ file = [n \in Parts |-> None]
    /\ object = None
    /\ req = [p \in Procs |-> Idle]
    /\ raced = {}
    /\ ops = 0
    /\ crashes = 0

Set(p, new) == req' = [req EXCEPT ![p] = new]
\* The session row, then the directory; without one the client gets an error and
\* no upload id, and the purge removes the row.
InitMultipart ==
    /\ session = "none"
    /\ session' = "open"
    /\ dir' \in BOOLEAN
    /\ UNCHANGED <<recorded, file, object, req, raced, ops, crashes>>

\* A request with the upload id arrives; without a session row it is answered NotFound.
Begin(p, new) ==
    /\ req[p].pc = "idle"
    /\ session \in {"open", "stale"} /\ dir
    /\ ops < MaxOps
    /\ ops' = ops + 1
    /\ Set(p, new)
    /\ UNCHANGED <<state, raced, crashes>>

-----------------------------------------------------------------------------
(* upload_part                                                              *)

PartBegin(p) ==
    \E n \in Parts, c \in Contents :
        Begin(p, [Idle EXCEPT !.pc = "receive", !.part = n, !.body = c])

\* The body ends early, is too large, or the directory is gone: only the scratch
\* file is lost.
PartFail(p) ==
    /\ req[p].pc = "receive"
    /\ Set(p, Idle)
    /\ UNCHANGED <<state, raced, ops, crashes>>

\* Mutant of PartReceived: the body is written over the part as it arrives.
PartReceivedInPlace(p) ==
    LET n == req[p].part
    IN  /\ req[p].pc = "receive" /\ dir
        /\ \E c \in Contents : file' = [file EXCEPT ![n] = c]
        /\ Set(p, [req[p] EXCEPT !.pc = "record"])
        /\ UNCHANGED <<session, recorded, dir, object, raced, ops, crashes>>

\* The whole body arrived in the scratch file, which is renamed over the part.
PartReceived(p) ==
    LET n == req[p].part
    IN  /\ req[p].pc = "receive" /\ dir
        /\ file' = [file EXCEPT ![n] = req[p].body]
        /\ Set(p, [req[p] EXCEPT !.pc = "record"])
        /\ raced' = IF \E q \in Procs : req[q].pc = "record" /\ req[q].part = n
                    THEN raced \cup {n} ELSE raced
        /\ UNCHANGED <<session, recorded, dir, object, ops, crashes>>

\* upsert_multipart_part; the table has no foreign key to the session.
PartRecord(p) ==
    /\ req[p].pc = "record"
    /\ recorded' = [recorded EXCEPT ![req[p].part] = req[p].body]
    /\ Set(p, Idle)
    /\ UNCHANGED <<session, dir, file, object, raced, ops, crashes>>

-----------------------------------------------------------------------------
(* complete_multipart                                                       *)

CompleteBegin(p) ==
    \E list \in Lists : Begin(p, [Idle EXCEPT !.pc = "select", !.list = list])

CompleteSelect(p) ==
    LET q == req[p]
    IN  /\ q.pc = "select"
        /\ Set(p, IF Selectable(q.list)
                  THEN [q EXCEPT !.pc = "assemble", !.chosen = Select(q.list)]
                  ELSE Idle)
        /\ UNCHANGED <<state, raced, ops, crashes>>

\* Mutant of CompleteRead: a part is taken as it is on disk.
CompleteReadUnchecked(p) ==
    LET q == req[p]
        next == q.chosen[Len(q.read) + 1]
    IN  /\ q.pc = "assemble" /\ Len(q.read) < Len(q.chosen)
        /\ Set(p, IF file[next.part] # None
                  THEN [q EXCEPT !.read = Append(@, file[next.part])]
                  ELSE Idle)
        /\ UNCHANGED <<state, raced, ops, crashes>>

\* The next part is opened, copied and checked against what was recorded for it.
CompleteRead(p) ==
    LET q == req[p]
        next == q.chosen[Len(q.read) + 1]
    IN  /\ q.pc = "assemble" /\ Len(q.read) < Len(q.chosen)
        /\ Set(p, IF file[next.part] = next.etag
                  THEN [q EXCEPT !.read = Append(@, file[next.part])]
                  ELSE Idle)
        /\ UNCHANGED <<state, raced, ops, crashes>>

CompleteCommit(p) ==
    /\ req[p].pc = "assemble" /\ Len(req[p].read) = Len(req[p].chosen)
    /\ object' = req[p].read
    /\ Set(p, [req[p] EXCEPT !.pc = "cleanparts"])
    /\ UNCHANGED <<session, recorded, dir, file, raced, ops, crashes>>

\* A precondition or the capacity check refuses the commit; the session stays.
CompleteRefused(p) ==
    /\ req[p].pc = "assemble" /\ Len(req[p].read) = Len(req[p].chosen)
    /\ Set(p, Idle)
    /\ UNCHANGED <<state, raced, ops, crashes>>

-----------------------------------------------------------------------------
(* abort_multipart, purge_stale_multipart_uploads and cleanup_multipart     *)

AbortBegin(p) == Begin(p, [Idle EXCEPT !.pc = "cleanparts"])

Expire ==
    /\ session = "open"
    /\ session' = "stale"
    /\ UNCHANGED <<recorded, dir, file, object, req, raced, ops, crashes>>

PurgeBegin(p) ==
    /\ req[p].pc = "idle"
    /\ session = "stale"
    /\ Set(p, [Idle EXCEPT !.pc = "cleanparts"])
    /\ UNCHANGED <<state, raced, ops, crashes>>

CleanParts(p) ==
    /\ req[p].pc = "cleanparts"
    /\ recorded' = [n \in Parts |-> None]
    /\ Set(p, [req[p] EXCEPT !.pc = "cleansession"])
    /\ UNCHANGED <<session, dir, file, object, raced, ops, crashes>>

CleanSession(p) ==
    /\ req[p].pc = "cleansession"
    /\ session' = "gone"
    /\ Set(p, [req[p] EXCEPT !.pc = "cleandir"])
    /\ UNCHANGED <<recorded, dir, file, object, raced, ops, crashes>>

\* Mutant of CleanDir: the directory is left for later.
CleanDirSkipped(p) ==
    /\ req[p].pc = "cleandir"
    /\ Set(p, Idle)
    /\ UNCHANGED <<state, raced, ops, crashes>>

CleanDir(p) ==
    /\ req[p].pc = "cleandir"
    /\ dir' = FALSE
    /\ file' = [n \in Parts |-> None]
    /\ Set(p, Idle)
    /\ UNCHANGED <<session, recorded, object, raced, ops, crashes>>

\* The process dies.  `.multipart/{id}` of a session whose row is gone stays for
\* good, so a crash between the row and the directory is left out here.
Crash ==
    /\ crashes < MaxCrashes
    /\ \A p \in Procs : req[p].pc # "cleandir"
    /\ crashes' = crashes + 1
    /\ req' = [p \in Procs |-> Idle]
    /\ raced' = raced \cup {req[p].part : p \in {q \in Procs : req[q].pc = "record"}}
    /\ UNCHANGED <<state, ops>>

Proceed(p) ==
    \/ PartFail(p) \/ PartReceived(p) \/ PartRecord(p)
    \/ CompleteSelect(p) \/ CompleteRead(p) \/ CompleteCommit(p) \/ CompleteRefused(p)
    \/ CleanParts(p) \/ CleanSession(p) \/ CleanDir(p)

Next ==
    \/ \E p \in Procs : PartBegin(p) \/ CompleteBegin(p) \/ AbortBegin(p) \/ PurgeBegin(p) \/ Proceed(p)
    \/ InitMultipart \/ Expire \/ Crash

Spec == Init /\ [][Next]_vars

\* Handlers finish, sessions grow old and the purge runs on its schedule.
FairSpec ==
    /\ Spec
    /\ \A p \in Procs : WF_vars(Proceed(p))
    /\ WF_vars(\E p \in Procs : PurgeBegin(p))
    /\ WF_vars(Expire)

-----------------------------------------------------------------------------
(* What must hold.                                                          *)

\* A completed object is exactly the parts that were chosen for it: each the bytes
\* recorded when the list was checked (and listed by the client, where it gave an
\* etag), however parts are uploaded again or the session is cleaned up meanwhile.
AssembledAsListed ==
    [][\A p \in Procs :
          (req[p].pc = "assemble" /\ req'[p].pc = "cleanparts") =>
              /\ Len(object') = Len(req[p].chosen)
              /\ \A i \in DOMAIN object' :
                    /\ object'[i] = req[p].chosen[i].etag
                    /\ req[p].list # None => req[p].list[i].etag \in {Any, object'[i]}]_vars

\* Uploading a part again, even when the retry fails half way or the node dies,
\* leaves every recorded etag and its part file in agreement, so that the upload can
\* still be completed; only two uploads of one part at the same time, or a crash
\* between the rename and the record, can set them apart.
PartsMatchRecords ==
    session # "gone" =>
        \A n \in Parts \ raced :
            \/ recorded[n] \in {None, file[n]}
            \/ \E p \in Procs : req[p].pc = "record" /\ req[p].part = n

\* A session that was abandoned, completed or aborted leaves no directory behind.
SessionsCleanedUp == (session = "open") ~> (session = "gone" /\ ~dir)
=============================================================================
