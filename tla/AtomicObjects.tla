--------------------------- MODULE AtomicObjects ---------------------------
(***************************************************************************)
(* What the storage engine promises its clients: every key is an atomic     *)
(* register.  A PUT, COPY or DELETE takes effect at one instant between its *)
(* invocation and its response, and only if its precondition holds at that  *)
(* instant; one that fails takes no effect; a GET returns the etag and the  *)
(* bytes of the version current at one instant.  When the process dies,     *)
(* every pending call is lost: it has taken effect completely or not at     *)
(* all.  Nothing else changes an object.                                    *)
(***************************************************************************)
CONSTANTS Procs, Keys, Etags, None, Requests

VARIABLES
    obj,    \* Keys -> the current version, None when there is none
    call    \* Procs -> None, or the pending call: its request, its outcome
            \* so far, and the etag and the bytes it will return

vars == <<obj, call>>

Pending(r) == [req |-> r, res |-> "none", etag |-> None, bytes |-> None]

Invoke(p) ==
    \E r \in Requests :
        /\ call[p] = None
        /\ call' = [call EXCEPT ![p] = Pending(r)]
        /\ UNCHANGED obj

Running(p) == call[p] # None /\ call[p].res = "none"

Answer(p, outcome) == call' = [call EXCEPT ![p].res = outcome]

\* A write whose precondition holds takes effect.
Write(p) ==
    LET r == call[p].req
    IN  /\ Running(p)
        /\ obj[r.key] \in r.cond
        /\ \/ r.op = "put" /\ obj' = [obj EXCEPT ![r.key] = r.etag]
           \/ r.op = "copy" /\ obj[r.src] # None /\ obj' = [obj EXCEPT ![r.key] = obj[r.src]]
           \/ r.op = "delete" /\ obj' = [obj EXCEPT ![r.key] = None]
        /\ Answer(p, "ok")

\* A write may be refused or fail; then it changes nothing.
Fail(p) ==
    /\ Running(p)
    /\ call[p].req.op # "get"
    /\ Answer(p, "err")
    /\ UNCHANGED obj

Read(p) ==
    LET v == obj[call[p].req.key]
    IN  /\ Running(p)
        /\ call[p].req.op = "get"
        /\ call' = [call EXCEPT ![p].res = IF v = None THEN "missing" ELSE "ok",
                                ![p].etag = v, ![p].bytes = v]
        /\ UNCHANGED obj

\* A conditional GET is answered from the row: an etag, and no bytes.
ReadRow(p) ==
    LET v == obj[call[p].req.key]
    IN  /\ Running(p)
        /\ call[p].req.op = "get"
        /\ v # None
        /\ call' = [call EXCEPT ![p].res = "rowonly", ![p].etag = v]
        /\ UNCHANGED obj

Respond(p) ==
    /\ call[p] # None /\ call[p].res # "none"
    /\ call' = [call EXCEPT ![p] = None]
    /\ UNCHANGED obj

Crash == call' = [p \in Procs |-> None] /\ UNCHANGED obj

Init ==
    /\ obj \in [Keys -> Etags \cup {None}]
    /\ call = [p \in Procs |-> None]

Next == \/ \E p \in Procs : Invoke(p) \/ Write(p) \/ Fail(p) \/ Read(p) \/ ReadRow(p) \/ Respond(p)
        \/ Crash

Spec == Init /\ [][Next]_vars
=============================================================================
