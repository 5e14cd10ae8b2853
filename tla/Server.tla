------------------------------- MODULE Server -------------------------------
(***************************************************************************)
(* Connections and shutdown (server.rs): the accept loop with its          *)
(* connection slots, the timeouts that end silent and stalled connections, *)
(* handlers that run to completion in a task of their own, and serve_until *)
(* draining when SIGTERM arrives.                                          *)
(* hyper's HTTP/1 state of a connection is external: reading headers,      *)
(* handling, sending the response, then headers again (keep-alive).        *)
(***************************************************************************)
EXTENDS Integers, Sequences, FiniteSets

CONSTANTS
    Conns,          \* client connections
    MaxConnections, \* NOS_MAX_CONNECTIONS
    MaxRequests,    \* bound: requests a client sends on one connection
    MaxHung,        \* bound: requests whose handler never ends
    MaxFailures     \* bound: accept errors

VARIABLES
    loop,      \* accept loop: "slot", "accept", "draining" or "stopped"
    slots,     \* free permits of the connection semaphore
    queue,     \* the kernel's listen queue
    conn,      \* connection -> "new", "queued", "headers", "handler", "sending" or "closed"
    handler,   \* connection -> its request's task: "none", "running", "done" or "cut"
    hung,      \* connections whose handler never ends
    requests,  \* connection -> requests sent
    signal,    \* shutdown was requested
    graceOver, \* serve_until gave up waiting
    failures

vars == <<loop, slots, queue, conn, handler, hung, requests, signal, graceOver, failures>>

Stopping == loop \in {"draining", "stopped"}

\* Mutant of OpenConnections: a task drops its sender before it serves.
OpenConnectionsIdle == {c \in Conns : conn[c] = "headers"}

\* Connection tasks; each holds a sender of the channel that shutdown awaits.
OpenConnections == {c \in Conns : conn[c] \in {"headers", "handler", "sending"}}

-----------------------------------------------------------------------------
(* The accept loop.                                                        *)

Connect(c) ==
    /\ conn[c] = "new" /\ ~Stopping
    /\ conn' = [conn EXCEPT ![c] = "queued"] /\ queue' = Append(queue, c)
    /\ UNCHANGED <<loop, slots, handler, hung, requests, signal, graceOver, failures>>

\* At the limit nothing is accepted until a connection ends.
AcquireSlot ==
    /\ loop = "slot" /\ slots > 0
    /\ slots' = slots - 1 /\ loop' = "accept"
    /\ UNCHANGED <<queue, conn, handler, hung, requests, signal, graceOver, failures>>

\* The connection's task takes the slot over.
Accept ==
    /\ loop = "accept" /\ queue # <<>>
    /\ conn' = [conn EXCEPT ![Head(queue)] = "headers"] /\ queue' = Tail(queue)
    /\ loop' = "slot"
    /\ UNCHANGED <<slots, handler, hung, requests, signal, graceOver, failures>>

\* A reset connection, or no descriptors left: the slot goes back.
AcceptFails ==
    /\ loop = "accept" /\ failures < MaxFailures /\ failures' = failures + 1
    /\ \/ /\ queue # <<>> /\ queue' = Tail(queue)
          /\ conn' = [conn EXCEPT ![Head(queue)] = "closed"]
       \/ UNCHANGED <<queue, conn>>
    /\ slots' = slots + 1 /\ loop' = "slot"
    /\ UNCHANGED <<handler, hung, requests, signal, graceOver>>

Signal ==
    /\ ~signal /\ signal' = TRUE
    /\ UNCHANGED <<loop, slots, queue, conn, handler, hung, requests, graceOver, failures>>

\* Both waits of the loop end on shutdown; dropping the listener resets the
\* connections still queued.
Stop ==
    /\ signal /\ loop \in {"slot", "accept"}
    /\ slots' = IF loop = "accept" THEN slots + 1 ELSE slots
    /\ loop' = "draining"
    /\ conn' = [c \in Conns |-> IF conn[c] \in {"new", "queued"} THEN "closed" ELSE conn[c]]
    /\ queue' = <<>>
    /\ UNCHANGED <<handler, hung, requests, signal, graceOver, failures>>

\* The process ends with the tasks that still run.
Exit == handler' = [c \in Conns |-> IF handler[c] = "running" THEN "cut" ELSE handler[c]]

Drained ==
    /\ loop = "draining" /\ OpenConnections = {}
    /\ loop' = "stopped" /\ Exit
    /\ UNCHANGED <<slots, queue, conn, hung, requests, signal, graceOver, failures>>

GraceOver ==
    /\ loop = "draining" /\ OpenConnections # {}
    /\ loop' = "stopped" /\ graceOver' = TRUE /\ Exit
    /\ UNCHANGED <<slots, queue, conn, hung, requests, signal, failures>>

-----------------------------------------------------------------------------
(* One connection.                                                         *)

\* The task ends and drops its slot and its sender.
Close(c) ==
    /\ conn' = [conn EXCEPT ![c] = "closed"]
    /\ slots' = slots + 1

\* The request runs in a task of its own.
SendHeaders(c) ==
    /\ conn[c] = "headers" /\ loop # "stopped" /\ requests[c] < MaxRequests
    /\ requests' = [requests EXCEPT ![c] = @ + 1]
    /\ conn' = [conn EXCEPT ![c] = "handler"]
    /\ handler' = [handler EXCEPT ![c] = "running"]
    /\ hung' \in {hung} \cup (IF Cardinality(hung) < MaxHung THEN {hung \cup {c}} ELSE {})
    /\ UNCHANGED <<loop, slots, queue, signal, graceOver, failures>>

\* Mutant of HeaderTimeout: hyper is given no timer.
HeaderTimeoutNever(c) == FALSE /\ UNCHANGED vars

\* Idle keep-alive time included.
HeaderTimeout(c) ==
    /\ conn[c] = "headers" /\ loop # "stopped" /\ Close(c)
    /\ UNCHANGED <<loop, queue, handler, hung, requests, signal, graceOver, failures>>

\* run_to_completion: whether or not the connection is still there.
HandlerEnds(c) ==
    /\ handler[c] = "running" /\ c \notin hung /\ loop # "stopped"
    /\ handler' = [handler EXCEPT ![c] = "done"]
    /\ conn' = [conn EXCEPT ![c] = IF @ = "handler" THEN "sending" ELSE @]
    /\ UNCHANGED <<loop, slots, queue, hung, requests, signal, graceOver, failures>>

\* After the response the connection is kept alive, unless shutdown asked
\* it to close.
ResponseSent(c) ==
    /\ conn[c] = "sending" /\ loop # "stopped"
    /\ IF Stopping THEN Close(c)
       ELSE conn' = [conn EXCEPT ![c] = "headers"] /\ UNCHANGED slots
    /\ UNCHANGED <<loop, queue, handler, hung, requests, signal, graceOver, failures>>

\* A write stayed blocked too long, or the client closed the connection.
SendStalls(c) ==
    /\ conn[c] = "sending" /\ loop # "stopped" /\ Close(c)
    /\ UNCHANGED <<loop, queue, handler, hung, requests, signal, graceOver, failures>>

Disconnect(c) ==
    /\ conn[c] \in {"headers", "handler"} /\ loop # "stopped" /\ Close(c)
    /\ UNCHANGED <<loop, queue, handler, hung, requests, signal, graceOver, failures>>

\* graceful_shutdown of a connection with no request in progress.
CloseIdle(c) ==
    /\ loop = "draining" /\ conn[c] = "headers" /\ Close(c)
    /\ UNCHANGED <<loop, queue, handler, hung, requests, signal, graceOver, failures>>

-----------------------------------------------------------------------------
Init ==
    /\ loop = "slot" /\ slots = MaxConnections /\ queue = <<>>
    /\ conn = [c \in Conns |-> "new"] /\ handler = [c \in Conns |-> "none"]
    /\ hung = {} /\ requests = [c \in Conns |-> 0]
    /\ signal = FALSE /\ graceOver = FALSE /\ failures = 0

Loop == AcquireSlot \/ Accept \/ Stop \/ Drained \/ GraceOver
Serve(c) == HeaderTimeout(c) \/ HandlerEnds(c) \/ SendStalls(c) \/ ResponseSent(c) \/ CloseIdle(c)

Next ==
    \/ Loop \/ AcceptFails \/ Signal
    \/ \E c \in Conns : Connect(c) \/ SendHeaders(c) \/ Disconnect(c) \/ Serve(c)

Spec == Init /\ [][Next]_vars

\* The runtime polls every task, and timers fire.
FairSpec == Spec /\ WF_vars(Loop) /\ \A c \in Conns : WF_vars(Serve(c))

-----------------------------------------------------------------------------
(* A graceful stop cuts off no request whose client is still connected,    *)
(* unless the grace period is over.                                        *)
DrainKeepsRequests ==
    loop = "stopped" /\ ~graceOver => \A c \in Conns : handler[c] = "cut" => conn[c] = "closed"

(* Clients that send nothing, or stop reading, cannot keep others out: a   *)
(* queued connection is eventually served, refused or reset, although only *)
(* MaxConnections are served at once and some handlers hang.               *)
Waiting(c) == conn[c] = "queued"
QueueServed == \A c \in Conns : Waiting(c) ~> ~Waiting(c)

(* Once shutdown is requested serve_until returns, even with a handler     *)
(* that never ends and with every slot taken.                              *)
Draining == signal /\ loop # "stopped"
ShutdownEnds == Draining ~> ~Draining

(* No wait of the server lasts: for a slot, or for the drain.               *)
WaitsEnd == QueueServed /\ ShutdownEnds
=============================================================================
