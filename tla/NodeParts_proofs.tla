------------------------- MODULE NodeParts_proofs -------------------------
(***************************************************************************)
(* The inductive invariants of the parts of one node, for every value of   *)
(* their constants: every step of a part keeps its invariant, and the      *)
(* invariant gives the part's property.  Parts_proofs draws the theorems.  *)
(***************************************************************************)
EXTENDS NodeParts, Integers, Sequences, FiniteSets, TLAPS, FiniteSetTheorems, NaturalsInduction, WellFoundedInduction

-----------------------------------------------------------------------------
(* Connections and shutdown (Server).                                      *)

(* Connections are open while their task runs; once the loop stops, no     *)
(* connection is left that was not accepted, and a stop that needed no     *)
(* grace waited for all of them.                                           *)
ServerInv ==
    /\ loop \in {"slot", "accept", "draining", "stopped"}
    /\ conn \in [Conns -> {"new", "queued", "headers", "handler", "sending", "closed"}]
    /\ handler \in [Conns -> {"none", "running", "done", "cut"}]
    /\ queue \in Seq(Conns)
    /\ loop \in {"draining", "stopped"} => \A c \in Conns : conn[c] \notin {"new", "queued"}
    /\ loop # "stopped" => \A c \in Conns : handler[c] # "cut"
    /\ loop = "stopped" /\ ~graceOver => \A c \in Conns : conn[c] = "closed"

LEMMA ServerInit == ASSUME SV!Init PROVE ServerInv
BY DEF SV!Init, ServerInv

LEMMA ServerNext == ASSUME ServerInv, [SV!Next]_serverVars PROVE ServerInv'
<1> USE DEF ServerInv
<1>1. CASE SV!AcquireSlot
  BY <1>1 DEF SV!AcquireSlot
<1>2. CASE SV!Accept
  BY <1>2 DEF SV!Accept
<1>3. CASE SV!AcceptFails
  <2>1. loop = "accept" /\ loop' = "slot" /\ handler' = handler
    BY <1>3 DEF SV!AcceptFails
  <2>2. queue' \in Seq(Conns)
    BY <1>3 DEF SV!AcceptFails
  <2>3. conn' \in [Conns -> {"new", "queued", "headers", "handler", "sending", "closed"}]
    BY <1>3 DEF SV!AcceptFails
  <2> QED BY <2>1, <2>2, <2>3
<1>4. CASE SV!Signal
  BY <1>4 DEF SV!Signal
<1>5. CASE SV!Stop
  BY <1>5 DEF SV!Stop
<1>6. CASE SV!Drained
  BY <1>6 DEF SV!Drained, SV!Exit, SV!OpenConnections
<1>7. CASE SV!GraceOver
  BY <1>7 DEF SV!GraceOver, SV!Exit
<1>8. ASSUME NEW c \in Conns, SV!Connect(c) PROVE ServerInv'
  BY <1>8 DEF SV!Connect, SV!Stopping
<1>9. ASSUME NEW c \in Conns, SV!SendHeaders(c) PROVE ServerInv'
  BY <1>9 DEF SV!SendHeaders
<1>10. ASSUME NEW c \in Conns, SV!Disconnect(c) PROVE ServerInv'
  BY <1>10 DEF SV!Disconnect, SV!Close
<1>11. ASSUME NEW c \in Conns, SV!Serve(c) PROVE ServerInv'
  BY <1>11 DEF SV!Serve, SV!HeaderTimeout, SV!HandlerEnds, SV!SendStalls, SV!ResponseSent, SV!CloseIdle,
               SV!Close, SV!Stopping
<1>12. CASE UNCHANGED serverVars
  BY <1>12 DEF serverVars
<1> QED
  BY <1>1, <1>2, <1>3, <1>4, <1>5, <1>6, <1>7, <1>8, <1>9, <1>10, <1>11, <1>12 DEF SV!Next, SV!Loop

(* The slots: each connection task holds one, the accept loop holds one    *)
(* between acquiring it and handing it to a task, and all others are free. *)
(* The listen queue holds waiting connections, each once.                  *)
Open(f) == {c \in Conns : f[c] \in {"headers", "handler", "sending"}}

SlotsInv ==
    /\ slots \in Nat
    /\ slots + Cardinality(SV!OpenConnections) + (IF loop = "accept" THEN 1 ELSE 0) = MaxConnections
    /\ \A i \in 1..Len(queue) : conn[queue[i]] = "queued"
    /\ \A i, j \in 1..Len(queue) : queue[i] = queue[j] => i = j

(* What a connection's change of state does to the number of tasks.        *)
LEMMA OpenChange ==
  ASSUME IsFiniteSet(Conns), NEW f, NEW g, NEW c \in Conns, \A d \in Conns \ {c} : g[d] = f[d]
  PROVE  /\ Cardinality(Open(f)) \in Nat /\ Cardinality(Open(g)) \in Nat
         /\ (c \in Open(f) <=> c \in Open(g)) => Cardinality(Open(g)) = Cardinality(Open(f))
         /\ c \in Open(f) /\ c \notin Open(g) => Cardinality(Open(f)) = Cardinality(Open(g)) + 1
         /\ c \notin Open(f) /\ c \in Open(g) => Cardinality(Open(g)) = Cardinality(Open(f)) + 1
<1>1. \A h : IsFiniteSet(Open(h)) /\ Cardinality(Open(h)) \in Nat
  <2>1. \A h : Open(h) \subseteq Conns
    BY DEF Open
  <2> QED BY <2>1, FS_Subset, FS_CardinalityType
<1>2. \A d \in Conns \ {c} : d \in Open(f) <=> d \in Open(g)
  BY DEF Open
<1>3. Open(f) \subseteq Conns /\ Open(g) \subseteq Conns
  BY DEF Open
<1>4. CASE c \in Open(f) <=> c \in Open(g)
  <2>1. Open(f) = Open(g)
    BY <1>2, <1>3, <1>4
  <2> QED BY <1>1, <1>4, <2>1
<1>5. CASE c \in Open(f) /\ c \notin Open(g)
  <2>1. Open(f) = Open(g) \cup {c}
    BY <1>2, <1>3, <1>5
  <2>2. Cardinality(Open(g) \cup {c}) = Cardinality(Open(g)) + 1
    BY <1>1, <1>5, FS_AddElement
  <2> QED BY <1>1, <1>5, <2>1, <2>2
<1>6. CASE c \notin Open(f) /\ c \in Open(g)
  <2>1. Open(g) = Open(f) \cup {c}
    BY <1>2, <1>3, <1>6
  <2>2. Cardinality(Open(f) \cup {c}) = Cardinality(Open(f)) + 1
    BY <1>1, <1>6, FS_AddElement
  <2> QED BY <1>1, <1>6, <2>1, <2>2
<1> QED BY <1>4, <1>5, <1>6

LEMMA SlotsInit ==
  ASSUME MaxConnections \in Nat, SV!Init
  PROVE  SlotsInv
<1>1. SV!OpenConnections = {}
  BY DEF SV!Init, SV!OpenConnections
<1>2. Cardinality(SV!OpenConnections) = 0
  BY <1>1, FS_EmptySet
<1> QED BY <1>2 DEF SV!Init, SlotsInv

LEMMA SlotsNext ==
  ASSUME IsFiniteSet(Conns), MaxConnections \in Nat, ServerInv, SlotsInv, [SV!Next]_serverVars
  PROVE  SlotsInv'
<1>0. SV!OpenConnections = Open(conn) /\ SV!OpenConnections' = Open(conn')
  BY DEF SV!OpenConnections, Open
<1>n. Cardinality(Open(conn)) \in Nat
  <2>1. Open(conn) \subseteq Conns
    BY DEF Open
  <2> QED BY <2>1, FS_Subset, FS_CardinalityType
<1>t. /\ conn \in [Conns -> {"new", "queued", "headers", "handler", "sending", "closed"}]
      /\ queue \in Seq(Conns)
  BY DEF ServerInv
<1>s. /\ slots \in Nat
      /\ slots + Cardinality(Open(conn)) + (IF loop = "accept" THEN 1 ELSE 0) = MaxConnections
      /\ \A i \in 1..Len(queue) : conn[queue[i]] = "queued"
      /\ \A i, j \in 1..Len(queue) : queue[i] = queue[j] => i = j
  BY <1>0 DEF SlotsInv
\* A step that leaves the connections or only their requests alone.
<1>same. ASSUME conn' = conn, queue' = queue,
                \/ slots' = slots /\ (loop' = "accept" <=> loop = "accept")
                \/ slots' = slots - 1 /\ slots > 0 /\ loop # "accept" /\ loop' = "accept"
                \/ slots' = slots + 1 /\ loop = "accept" /\ loop' # "accept"
         PROVE  SlotsInv'
  <2>1. Cardinality(Open(conn')) = Cardinality(Open(conn))
    BY <1>same
  <2> QED BY <1>0, <1>n, <1>s, <1>same, <2>1 DEF SlotsInv
\* A step of the task of one connection.
<1>task. ASSUME NEW c \in Conns, NEW x, c \in Open(conn),
                conn' = [conn EXCEPT ![c] = x], queue' = queue, loop' = loop,
                \/ x \in {"headers", "handler", "sending"} /\ slots' = slots
                \/ x = "closed" /\ slots' = slots + 1
         PROVE  SlotsInv'
  <2>1. \A d \in Conns \ {c} : conn'[d] = conn[d]
    BY <1>t, <1>task
  <2>2. c \in Open(conn) /\ (c \in Open(conn') <=> x \in {"headers", "handler", "sending"})
    BY <1>t, <1>task DEF Open
  <2>a. /\ Cardinality(Open(conn')) \in Nat
        /\ c \in Open(conn') => Cardinality(Open(conn')) = Cardinality(Open(conn))
        /\ c \notin Open(conn') => Cardinality(Open(conn)) = Cardinality(Open(conn')) + 1
    BY <2>1, <2>2, OpenChange
  <2>3. slots' \in Nat /\ slots' + Cardinality(Open(conn')) = slots + Cardinality(Open(conn))
    BY <1>n, <1>s, <1>task, <2>2, <2>a
  <2>4. Cardinality(Open(conn')) \in Nat
    BY <2>1, OpenChange
  <2>5. \A i \in 1..Len(queue) : conn'[queue[i]] = "queued"
    <3> SUFFICES ASSUME NEW i \in 1..Len(queue) PROVE conn'[queue[i]] = "queued"
      OBVIOUS
    <3>1. queue[i] \in Conns /\ conn[queue[i]] = "queued"
      BY <1>t, <1>s
    <3>2. queue[i] # c
      BY <2>2, <3>1 DEF Open
    <3> QED BY <2>1, <3>1, <3>2
  <2>6. slots' + Cardinality(Open(conn')) + (IF loop' = "accept" THEN 1 ELSE 0) = MaxConnections
    BY <1>n, <1>s, <1>task, <2>3, <2>4
  <2> QED BY <1>0, <1>s, <1>task, <2>3, <2>5, <2>6 DEF SlotsInv
\* The first connection of the queue leaves it.
<1>head. ASSUME queue # <<>>, NEW x, conn' = [conn EXCEPT ![Head(queue)] = x], queue' = Tail(queue),
                loop = "accept", loop' = "slot",
                \/ x = "headers" /\ slots' = slots
                \/ x = "closed" /\ slots' = slots + 1
         PROVE  SlotsInv'
  <2> DEFINE c == Head(queue)
  <2>0. c \in Conns /\ c = queue[1] /\ 1 \in 1..Len(queue) /\ Len(queue) \in Nat
    BY <1>t, <1>head
  <2>1. \A d \in Conns \ {c} : conn'[d] = conn[d]
    BY <1>t, <1>head
  <2>2. conn[c] = "queued" /\ conn'[c] = x
    BY <1>t, <1>s, <1>head, <2>0
  <2>3. c \notin Open(conn) /\ (c \in Open(conn') <=> x = "headers")
    BY <1>head, <2>0, <2>2 DEF Open
  <2> HIDE DEF c
  <2>a. /\ Cardinality(Open(conn')) \in Nat
        /\ c \notin Open(conn') => Cardinality(Open(conn')) = Cardinality(Open(conn))
        /\ c \in Open(conn') => Cardinality(Open(conn')) = Cardinality(Open(conn)) + 1
    BY <2>0, <2>1, <2>3, OpenChange
  <2>4. slots' \in Nat /\ slots' + Cardinality(Open(conn')) = slots + Cardinality(Open(conn)) + 1
    BY <1>n, <1>s, <1>head, <2>3, <2>a
  <2>5. Len(queue') = Len(queue) - 1 /\ \A i \in 1..Len(queue') : queue'[i] = queue[i + 1] /\ i + 1 \in 1..Len(queue)
    BY <1>t, <1>head, <2>0
  <2>6. ASSUME NEW i \in 1..Len(queue') PROVE conn'[queue'[i]] = "queued"
    <3>1. queue'[i] = queue[i + 1] /\ i + 1 \in 1..Len(queue) /\ i + 1 # 1
      BY <2>0, <2>5
    <3>2. queue[i + 1] # c
      BY <1>s, <2>0, <3>1
    <3>3. queue[i + 1] \in Conns /\ conn[queue[i + 1]] = "queued"
      BY <1>t, <1>s, <3>1
    <3> QED BY <2>1, <3>1, <3>2, <3>3
  <2>7. ASSUME NEW i \in 1..Len(queue'), NEW j \in 1..Len(queue'), queue'[i] = queue'[j] PROVE i = j
    <3>1. i + 1 = j + 1
      BY <1>s, <2>5, <2>7
    <3> QED BY <2>0, <2>5, <3>1
  <2>8. Cardinality(Open(conn')) \in Nat
    BY <2>0, <2>1, OpenChange
  <2>9. slots' + Cardinality(Open(conn')) + (IF loop' = "accept" THEN 1 ELSE 0) = MaxConnections
    BY <1>n, <1>s, <1>head, <2>4, <2>8
  <2> QED BY <1>0, <2>4, <2>6, <2>7, <2>9 DEF SlotsInv
<1>1. CASE SV!AcquireSlot
  BY <1>1, <1>same DEF SV!AcquireSlot
<1>2. CASE SV!Accept
  BY <1>2, <1>head DEF SV!Accept
<1>3. CASE SV!AcceptFails
  BY <1>3, <1>head, <1>same DEF SV!AcceptFails
<1>4. CASE SV!Signal
  BY <1>4, <1>same DEF SV!Signal
<1>5. CASE SV!Stop
  <2>1. Open(conn') = Open(conn) /\ queue' = <<>> /\ Len(queue') = 0
    BY <1>5, <1>t DEF SV!Stop, Open
  <2>2. slots' \in Nat /\ slots' + Cardinality(Open(conn)) + (IF loop' = "accept" THEN 1 ELSE 0) = MaxConnections
    BY <1>5, <1>n, <1>s DEF SV!Stop
  <2>3. 1..Len(queue') = {}
    BY <2>1
  <2> QED BY <1>0, <2>1, <2>2, <2>3 DEF SlotsInv
<1>6. CASE SV!Drained \/ SV!GraceOver
  BY <1>6, <1>same DEF SV!Drained, SV!GraceOver
<1>7. ASSUME NEW c \in Conns, SV!Connect(c) PROVE SlotsInv'
  <2>1. \A d \in Conns \ {c} : conn'[d] = conn[d]
    BY <1>t, <1>7 DEF SV!Connect
  <2>2. conn[c] = "new" /\ conn'[c] = "queued" /\ queue' = Append(queue, c) /\ slots' = slots /\ loop' = loop
    BY <1>t, <1>7 DEF SV!Connect
  <2>3. c \notin Open(conn) /\ c \notin Open(conn')
    BY <2>2 DEF Open
  <2>4. Cardinality(Open(conn')) = Cardinality(Open(conn))
    BY <2>1, <2>3, OpenChange
  <2>5. /\ Len(queue) \in Nat /\ Len(queue') = Len(queue) + 1 /\ queue'[Len(queue) + 1] = c
        /\ \A i \in 1..Len(queue) : queue'[i] = queue[i] /\ queue[i] \in Conns
    BY <1>t, <2>2
  <2>6. \A i \in 1..Len(queue) : queue'[i] # c /\ conn'[queue'[i]] = "queued"
    BY <1>s, <2>1, <2>2, <2>5
  <2>7. \A i \in 1..Len(queue') : i \in 1..Len(queue) \/ i = Len(queue) + 1
    BY <2>5
  <2>8. \A i \in 1..Len(queue') : conn'[queue'[i]] = "queued"
    BY <2>2, <2>5, <2>6, <2>7
  <2>9. \A i, j \in 1..Len(queue') : queue'[i] = queue'[j] => i = j
    BY <1>s, <2>5, <2>6, <2>7
  <2> QED BY <1>0, <1>s, <2>2, <2>4, <2>8, <2>9 DEF SlotsInv
<1>8. ASSUME NEW c \in Conns, SV!SendHeaders(c) PROVE SlotsInv'
  BY <1>8, <1>task DEF SV!SendHeaders, Open
<1>closes. ASSUME NEW c \in Conns, conn[c] \in {"headers", "handler", "sending"}, SV!Close(c),
                  queue' = queue, loop' = loop
           PROVE  SlotsInv'
  <2>1. c \in Open(conn) /\ conn' = [conn EXCEPT ![c] = "closed"] /\ slots' = slots + 1
    BY <1>closes DEF SV!Close, Open
  <2> QED BY <1>closes, <1>task, <2>1
<1>9. ASSUME NEW c \in Conns, SV!Disconnect(c) PROVE SlotsInv'
  BY <1>9, <1>closes DEF SV!Disconnect
<1>10. ASSUME NEW c \in Conns, SV!HandlerEnds(c) PROVE SlotsInv'
  <2>1. CASE conn[c] = "handler"
    <3>1. c \in Open(conn) /\ conn' = [conn EXCEPT ![c] = "sending"]
      BY <1>10, <2>1 DEF SV!HandlerEnds, Open
    <3>2. slots' = slots /\ queue' = queue /\ loop' = loop
      BY <1>10 DEF SV!HandlerEnds
    <3> QED BY <1>task, <3>1, <3>2
  <2>2. CASE conn[c] # "handler"
    <3>1. conn' = conn
      BY <1>t, <1>10, <2>2 DEF SV!HandlerEnds
    <3> QED BY <1>10, <1>same, <3>1 DEF SV!HandlerEnds
  <2> QED BY <2>1, <2>2
<1>11. ASSUME NEW c \in Conns, SV!HeaderTimeout(c) \/ SV!SendStalls(c) \/ SV!CloseIdle(c) PROVE SlotsInv'
  BY <1>11, <1>closes DEF SV!HeaderTimeout, SV!SendStalls, SV!CloseIdle
<1>12. ASSUME NEW c \in Conns, SV!ResponseSent(c) PROVE SlotsInv'
  <2>1. CASE SV!Stopping
    BY <1>12, <1>closes, <2>1 DEF SV!ResponseSent
  <2>2. CASE ~SV!Stopping
    <3>1. c \in Open(conn) /\ conn' = [conn EXCEPT ![c] = "headers"]
      BY <1>12, <2>2 DEF SV!ResponseSent, Open
    <3>2. slots' = slots /\ queue' = queue /\ loop' = loop
      BY <1>12, <2>2 DEF SV!ResponseSent
    <3> QED BY <1>task, <3>1, <3>2
  <2> QED BY <2>1, <2>2
<1>13. CASE UNCHANGED serverVars
  BY <1>13, <1>same DEF serverVars
<1> QED
  BY <1>1, <1>2, <1>3, <1>4, <1>5, <1>6, <1>7, <1>8, <1>9, <1>10, <1>11, <1>12, <1>13
  DEF SV!Next, SV!Loop, SV!Serve

(* No slot is lost and none is used twice: the connections being served    *)
(* are never more than NOS_MAX_CONNECTIONS, and with the free slots and    *)
(* the one the accept loop holds they are exactly that many, through       *)
(* failed accepts, timeouts, disconnects and the drain.                    *)
THEOREM SlotsBalance ==
  ASSUME IsFiniteSet(Conns), MaxConnections \in Nat
  PROVE  SV!Spec => [](SlotsInv /\ Cardinality(SV!OpenConnections) <= MaxConnections)
<1>1. SV!Init => ServerInv /\ SlotsInv
  BY ServerInit, SlotsInit
<1>2. ServerInv /\ SlotsInv /\ [SV!Next]_(SV!vars) => (ServerInv /\ SlotsInv)'
  <2> SUFFICES ASSUME ServerInv, SlotsInv, [SV!Next]_(SV!vars) PROVE (ServerInv /\ SlotsInv)'
    OBVIOUS
  <2>1. [SV!Next]_serverVars
    BY DEF SV!vars, serverVars
  <2> QED BY <2>1, ServerNext, SlotsNext
<1>3. SlotsInv => Cardinality(SV!OpenConnections) <= MaxConnections
  <2>1. SV!OpenConnections \subseteq Conns
    BY DEF SV!OpenConnections
  <2>2. Cardinality(SV!OpenConnections) \in Nat
    BY <2>1, FS_Subset, FS_CardinalityType
  <2> QED BY <2>2 DEF SlotsInv
<1> QED BY <1>1, <1>2, <1>3, PTL DEF SV!Spec

-----------------------------------------------------------------------------
(* Numbers.                                                                *)

LEMMA LeastNat ==
  ASSUME NEW T, T \subseteq Nat, T # {}
  PROVE  \E x \in T : \A y \in T : x <= y
<1> DEFINE R == OpToRel(<, Nat)
<1>1. IsWellFoundedOn(R, Nat)
  BY NatLessThanWellFounded
<1>2. \A a, b \in Nat : a < b => <<a, b>> \in R
  BY DEF OpToRel
<1> HIDE DEF R
<1>3. PICK x \in T : \A y \in T : ~ (<<y, x>> \in R)
  BY <1>1, WFMin
<1>4. \A y \in T : ~ (y < x)
  BY <1>2, <1>3
<1> QED BY <1>4

LEMMA GreatestNat ==
  ASSUME NEW S, S \subseteq Nat, IsFiniteSet(S), S # {}
  PROVE  \E x \in S : \A y \in S : x >= y
<1> DEFINE Above(x) == {y \in S : y > x}
           T == {Cardinality(Above(x)) : x \in S}
<1>1. \A x \in S : IsFiniteSet(Above(x)) /\ Cardinality(Above(x)) \in Nat
  BY FS_Subset, FS_CardinalityType
<1>2. PICK t \in T : \A u \in T : t <= u
  <2>1. T \subseteq Nat /\ T # {}
    BY <1>1
  <2> HIDE DEF T
  <2> QED BY <2>1, LeastNat
<1>3. PICK x \in S : t = Cardinality(Above(x))
  BY <1>2
<1>4. \A y \in S : Cardinality(Above(x)) <= Cardinality(Above(y))
  BY <1>2, <1>3
<1>5. ASSUME NEW y \in S, y > x PROVE FALSE
  <2>1. x \in Nat /\ y \in Nat
    OBVIOUS
  <2>2. Above(y) \subseteq Above(x)
    <3>1. ASSUME NEW z \in S, z > y PROVE z > x
      BY <1>5, <2>1, <3>1
    <3> QED BY <3>1
  <2>3. y \in Above(x) /\ y \notin Above(y)
    BY <1>5, <2>1
  <2>4. Above(y) # Above(x)
    BY <2>3
  <2> HIDE DEF Above
  <2>5. Cardinality(Above(y)) < Cardinality(Above(x))
    BY <1>1, <2>2, <2>4, FS_Subset
  <2> QED BY <1>1, <1>4, <2>5
<1> QED BY <1>5

-----------------------------------------------------------------------------
(* Listing.                                                                *)

(* Listing's own view of the library's operators.                          *)
LEMMA ListingCardinality ==
  ASSUME NEW S
  PROVE  LS!Cardinality(S) = Cardinality(S)
BY DEF LS!Cardinality, Cardinality

LEMMA MaxOfRows ==
  ASSUME NEW S, S \subseteq Nat, IsFiniteSet(S), S # {}
  PROVE  LS!Max(S) \in S /\ \A y \in S : y <= LS!Max(S)
<1>1. PICK x \in S : \A y \in S : x >= y
  BY GreatestNat
<1>2. LS!Max(S) \in S /\ \A y \in S : LS!Max(S) >= y
  BY <1>1 DEF LS!Max
<1> QED BY <1>2

(* What the first n elements of a set are: those below one of them are     *)
(* among them, and there are n of them unless the set is smaller.          *)
LEMMA FirstOfSet ==
  ASSUME NEW S, S \subseteq Nat, IsFiniteSet(S), NEW n \in Nat
  PROVE  /\ LS!FirstOf(S, n) \subseteq S /\ IsFiniteSet(LS!FirstOf(S, n))
         /\ Cardinality(LS!FirstOf(S, n)) \in Nat /\ Cardinality(LS!FirstOf(S, n)) <= n
         /\ \A k \in S, m \in LS!FirstOf(S, n) : k <= m => k \in LS!FirstOf(S, n)
         /\ Cardinality(LS!FirstOf(S, n)) < n => LS!FirstOf(S, n) = S
         /\ Cardinality(S) <= n => LS!FirstOf(S, n) = S
<1> DEFINE F == LS!FirstOf(S, n)
           UpTo(k) == {j \in S : j <= k}
<1>1. \A k : k \in F <=> k \in S /\ Cardinality(UpTo(k)) <= n
  BY ListingCardinality DEF LS!FirstOf
<1>2. \A k : IsFiniteSet(UpTo(k)) /\ Cardinality(UpTo(k)) \in Nat /\ Cardinality(UpTo(k)) <= Cardinality(S)
  BY FS_Subset, FS_CardinalityType
<1>n. \A k \in S : k \in Nat
  OBVIOUS
<1>3. \A k, m \in S : k <= m => UpTo(k) \subseteq UpTo(m)
  <2> SUFFICES ASSUME NEW k \in S, NEW m \in S, k <= m, NEW j \in S, j <= k PROVE j <= m
    OBVIOUS
  <2> QED BY <1>n
<1>4. \A k, m \in S : k <= m => Cardinality(UpTo(k)) <= Cardinality(UpTo(m))
  <2> HIDE DEF UpTo
  <2> QED BY <1>2, <1>3, FS_Subset
<1> HIDE DEF F
<1>5. F \subseteq S /\ IsFiniteSet(F) /\ Cardinality(F) \in Nat
  <2>1. F \subseteq S
    BY <1>1
  <2> QED BY <2>1, FS_Subset, FS_CardinalityType
<1>6. \A k \in S, m \in F : k <= m => k \in F
  <2> SUFFICES ASSUME NEW k \in S, NEW m \in F, k <= m PROVE k \in F
    OBVIOUS
  <2>1. m \in S /\ Cardinality(UpTo(m)) <= n
    BY <1>1
  <2>2. Cardinality(UpTo(k)) <= Cardinality(UpTo(m))
    BY <1>4, <2>1
  <2> HIDE DEF UpTo
  <2>3. Cardinality(UpTo(k)) <= n
    BY <1>2, <2>1, <2>2
  <2> QED BY <1>1, <2>3
<1>7. Cardinality(F) <= n
  <2>1. CASE F = {}
    BY <2>1, FS_EmptySet
  <2>2. CASE F # {}
    <3>1. F \subseteq Nat
      BY <1>5
    <3>2. PICK m \in F : \A k \in F : m >= k
      BY <1>5, <2>2, <3>1, GreatestNat
    <3>3. F \subseteq UpTo(m)
      BY <1>5, <3>1, <3>2
    <3>4. Cardinality(UpTo(m)) <= n
      BY <1>1
    <3> HIDE DEF UpTo
    <3>5. Cardinality(F) <= Cardinality(UpTo(m))
      BY <1>2, <3>3, FS_Subset
    <3> QED BY <1>2, <1>5, <3>4, <3>5
  <2> QED BY <2>1, <2>2
<1>8. ASSUME Cardinality(F) < n PROVE F = S
  <2> SUFFICES ASSUME F # S PROVE FALSE
    OBVIOUS
  <2>1. PICK k \in S \ F : \A j \in S \ F : k <= j
    <3>1. S \ F \subseteq Nat /\ S \ F # {}
      BY <1>5
    <3> QED BY <3>1, LeastNat
  <2>2. Cardinality(UpTo(k)) > n
    <3>1. ~(Cardinality(UpTo(k)) <= n)
      BY <1>1, <2>1
    <3> HIDE DEF UpTo
    <3> QED BY <1>2, <3>1
  <2>3. UpTo(k) \subseteq F \cup {k}
    <3> SUFFICES ASSUME NEW j \in S, j <= k, j # k PROVE j \in F
      OBVIOUS
    <3>1. j < k
      BY <1>n, <2>1
    <3> QED BY <1>n, <2>1, <3>1
  <2>4. IsFiniteSet(F \cup {k}) /\ Cardinality(F \cup {k}) = Cardinality(F) + 1
    BY <1>5, <2>1, FS_AddElement
  <2> HIDE DEF UpTo
  <2>5. Cardinality(UpTo(k)) <= Cardinality(F \cup {k})
    BY <2>3, <2>4, FS_Subset
  <2> QED BY <1>2, <1>5, <1>8, <2>2, <2>4, <2>5
<1>9. ASSUME Cardinality(S) <= n PROVE F = S
  <2> HIDE DEF UpTo
  <2>1. ASSUME NEW k \in S PROVE k \in F
    <3>1. Cardinality(UpTo(k)) <= n
      BY <1>2, <1>9, FS_CardinalityType
    <3> QED BY <1>1, <3>1
  <2> QED BY <1>5, <2>1
<1> QED BY <1>5, <1>6, <1>7, <1>8, <1>9 DEF F

(* The entries of an answer by delimiter: keys, and common prefixes.       *)
EntryOf(k) == IF Folder[k] = 0 THEN <<"key", k>> ELSE <<"folder", Folder[k]>>
Entries == {EntryOf(k) : k \in ListKeys}

(* The walks that no page's limit cuts short: pages of plain keys of any   *)
(* size, listings by delimiter with at most a page of entries in a scan,   *)
(* and purges whose directory walk sees every key.                         *)
Fits(w) ==
    /\ w.limit \in Nat \ {0}
    /\ \/ w.kind = "plain"
       \/ w.kind = "folders" /\ (ScanCap <= w.limit \/ Cardinality(Entries) <= w.limit)
       \/ w.kind = "purge" /\ Cardinality(ListKeys) <= w.limit + 1

(* Keys in key order, above the empty cursor.                              *)
ListingSettings == ListKeys \subseteq Nat \ {0} /\ IsFiniteSet(ListKeys) /\ ScanCap \in Nat \ {0}

Listed(k) == k \in items \/ Folder[k] \in folders

(* Every key that has stayed is still stored, or was answered; the ones    *)
(* behind the cursor were answered, and between the two queries of a page  *)
(* so were the ones behind the last row.                                   *)
ListingInv ==
    /\ rows \subseteq ListKeys /\ kept \subseteq ListKeys /\ after \in Nat
    /\ \A k \in kept : k \in rows \/ Listed(k)
    /\ \A k \in kept : k <= after => Listed(k)
    /\ pc = "count" => last \in Nat /\ \A k \in kept : k <= last => Listed(k)
    /\ pc = "done" => \A k \in kept : Listed(k)

LEMMA RowsFinite ==
  ASSUME ListingSettings, ListingInv
  PROVE  /\ rows \subseteq Nat /\ IsFiniteSet(rows) /\ \A k \in kept : k \in Nat
         /\ \A a : {k \in rows : k > a} \subseteq Nat /\ IsFiniteSet({k \in rows : k > a})
BY FS_Subset DEF ListingSettings, ListingInv

(* A listing by delimiter that fits stops at no row.                       *)
LEMMA NoBreak ==
  ASSUME ListingSettings, ListingInv, lister.kind = "folders", Fits(lister)
  PROVE  LS!BreaksAt(LS!ListActiveRows(ScanCap)) = {}
<1> DEFINE scanned == LS!ListActiveRows(ScanCap)
           Opens == {j \in scanned : LS!OpensEntry(scanned, j)}
<1>1. ScanCap \in Nat /\ lister.limit \in Nat
  BY DEF ListingSettings, Fits
<1>2. scanned \subseteq rows /\ IsFiniteSet(scanned) /\ Cardinality(scanned) \in Nat /\ Cardinality(scanned) <= ScanCap
  BY <1>1, RowsFinite, FirstOfSet DEF LS!ListActiveRows
<1> HIDE DEF scanned
<1> SUFFICES ASSUME NEW k \in LS!BreaksAt(scanned) PROVE FALSE
  BY DEF scanned
<1> DEFINE B == {j \in scanned : j < k /\ LS!OpensEntry(scanned, j)}
<1>3. /\ k \in scanned /\ LS!OpensEntry(scanned, k)
      /\ Cardinality(B) >= lister.limit
  BY ListingCardinality DEF LS!BreaksAt
<1>4. scanned \subseteq Nat /\ scanned \subseteq ListKeys
  BY <1>2, RowsFinite DEF ListingInv
<1>5. B \subseteq scanned /\ k \notin B
  BY <1>3, <1>4
<1>6. IsFiniteSet(B) /\ Cardinality(B) \in Nat
  <2> HIDE DEF B
  <2> QED BY <1>2, <1>5, FS_Subset, FS_CardinalityType
<1>7. IsFiniteSet(B \cup {k}) /\ Cardinality(B \cup {k}) = Cardinality(B) + 1
  <2> HIDE DEF B
  <2> QED BY <1>5, <1>6, FS_AddElement
<1>8. CASE ScanCap <= lister.limit
  <2>1. B \cup {k} \subseteq scanned
    BY <1>3
  <2> HIDE DEF B
  <2>2. Cardinality(B \cup {k}) <= Cardinality(scanned)
    BY <1>2, <2>1, FS_Subset
  <2> QED BY <1>1, <1>2, <1>3, <1>6, <1>7, <1>8, <2>2
<1>9. CASE Cardinality(Entries) <= lister.limit
  <2> DEFINE f == [j \in B \cup {k} |-> EntryOf(j)]
             g == [j \in ListKeys |-> EntryOf(j)]
  <2>1. g \in Surjection(ListKeys, Entries)
    BY DEF Surjection, Entries
  <2>2. IsFiniteSet(Entries) /\ Cardinality(Entries) \in Nat
    <3> HIDE DEF g
    <3> QED BY <2>1, FS_Surjection, FS_CardinalityType DEF ListingSettings
  <2>3. \A j \in B \cup {k} : j \in scanned /\ j \in Nat /\ j \in ListKeys /\ LS!OpensEntry(scanned, j)
    BY <1>3, <1>4
  <2>4. ASSUME NEW i \in B \cup {k}, NEW j \in B \cup {k}, i # j, EntryOf(i) = EntryOf(j) PROVE FALSE
    <3>1. Folder[i] = Folder[j] /\ Folder[i] # 0
      BY <2>4 DEF EntryOf
    <3>2. (i < j => Folder[i] # Folder[j]) /\ (j < i => Folder[j] # Folder[i])
      BY <2>3, <3>1 DEF LS!OpensEntry
    <3>3. i \in Nat /\ j \in Nat
      BY <2>3
    <3> QED BY <2>4, <3>1, <3>2, <3>3
  <2>5. f \in Injection(B \cup {k}, Entries)
    <3>1. f \in [B \cup {k} -> Entries]
      BY <2>3 DEF Entries
    <3> QED BY <2>4, <3>1 DEF Injection, IsInjective
  <2> HIDE DEF f, B
  <2>6. Cardinality(B \cup {k}) <= Cardinality(Entries)
    BY <2>2, <2>5, FS_Injection
  <2> QED BY <1>1, <1>3, <1>6, <1>7, <1>9, <2>2, <2>6
<1> QED BY <1>8, <1>9 DEF Fits

(* What a page of n rows leaves out: nothing, or only rows after its last. *)
LEMMA PageRows ==
  ASSUME ListingSettings, ListingInv, NEW n \in Nat
  PROVE  LET page == LS!ListActiveRows(n)
         IN  /\ page \subseteq rows /\ IsFiniteSet(page) /\ Cardinality(page) \in Nat
             /\ Cardinality(page) < n => page = {k \in rows : k > after}
             /\ page # {} => /\ LS!Max(page) \in page
                             /\ \A k \in page : k <= LS!Max(page)
                             /\ \A k \in rows : after < k /\ k <= LS!Max(page) => k \in page
<1> DEFINE S == {k \in rows : k > after}
           page == LS!ListActiveRows(n)
<1>1. S \subseteq Nat /\ IsFiniteSet(S) /\ S \subseteq rows /\ rows \subseteq Nat /\ after \in Nat
  BY RowsFinite DEF ListingInv
<1>2. page = LS!FirstOf(S, n)
  BY DEF LS!ListActiveRows
<1>3. /\ page \subseteq S /\ IsFiniteSet(page) /\ Cardinality(page) \in Nat
      /\ \A k \in S, m \in page : k <= m => k \in page
      /\ Cardinality(page) < n => page = S
  <2> HIDE DEF S, page
  <2> QED BY <1>1, <1>2, FirstOfSet
<1>4. ASSUME page # {} PROVE LS!Max(page) \in page /\ \A k \in page : k <= LS!Max(page)
  <2>1. page \subseteq Nat
    BY <1>1, <1>3
  <2> HIDE DEF page
  <2> QED BY <1>3, <1>4, <2>1, MaxOfRows
<1>5. ASSUME page # {}, NEW k \in rows, after < k, k <= LS!Max(page) PROVE k \in page
  <2>1. k \in S
    BY <1>1, <1>5
  <2> QED BY <1>3, <1>4, <1>5, <2>1
<1> QED BY <1>1, <1>3, <1>4, <1>5

LEMMA ListingInit == ASSUME ListingSettings, LS!Init PROVE ListingInv
<1>1. \A k \in ListKeys : k \in Nat /\ ~(k <= 0)
  BY DEF ListingSettings
<1> QED BY <1>1 DEF LS!Init, ListingInv

LEMMA PlainPage == ASSUME ListingSettings, ListingInv, Fits(lister), LS!ListPlain PROVE ListingInv'
<1> DEFINE n == lister.limit
           scanned == LS!ListActiveRows(n + 1)
           page == LS!FirstOf(scanned, n)
<1>1. n \in Nat \ {0}
  BY DEF Fits
<1>2. /\ items' = items \cup page /\ folders' = folders /\ kept' = kept /\ rows' = rows
      /\ \/ Cardinality(scanned) > n /\ after' = LS!Max(page) /\ pc' = "page"
         \/ ~(Cardinality(scanned) > n) /\ after' = after /\ pc' = "done"
  BY ListingCardinality DEF LS!ListPlain, LS!NextStartAfter
<1>3. /\ rows \subseteq ListKeys /\ kept \subseteq ListKeys /\ after \in Nat
      /\ \A k \in kept : k \in rows \/ Listed(k)
      /\ \A k \in kept : k <= after => Listed(k)
  BY DEF ListingInv
<1>n. \A k \in kept : k \in Nat
  BY RowsFinite
<1>4. /\ scanned \subseteq rows /\ scanned \subseteq Nat /\ IsFiniteSet(scanned) /\ Cardinality(scanned) \in Nat
      /\ Cardinality(scanned) < n + 1 => scanned = {k \in rows : k > after}
      /\ scanned # {} => /\ LS!Max(scanned) \in scanned
                         /\ \A k \in scanned : k <= LS!Max(scanned)
                         /\ \A k \in rows : after < k /\ k <= LS!Max(scanned) => k \in scanned
  <2>1. n + 1 \in Nat
    BY <1>1
  <2> HIDE DEF n
  <2> QED BY <2>1, PageRows, RowsFinite
<1> HIDE DEF scanned
<1>5. /\ page \subseteq scanned /\ IsFiniteSet(page) /\ Cardinality(page) \in Nat
      /\ \A k \in scanned, m \in page : k <= m => k \in page
      /\ Cardinality(page) < n => page = scanned
      /\ Cardinality(scanned) <= n => page = scanned
  BY <1>1, <1>4, FirstOfSet
<1> HIDE DEF page
<1>6. \A k : Listed(k) \/ k \in page => Listed(k)'
  BY <1>2 DEF Listed
<1>7. CASE Cardinality(scanned) > n
  <2>1. page # {}
    <3> SUFFICES ASSUME page = {} PROVE FALSE
      OBVIOUS
    <3>1. Cardinality(page) = 0
      BY FS_EmptySet
    <3>2. page = scanned
      BY <1>1, <1>5, <3>1
    <3> QED BY <1>1, <1>7, <3>1, <3>2
  <2>2. page \subseteq Nat /\ LS!Max(page) \in page
    BY <1>4, <1>5, <2>1, MaxOfRows
  <2>3. ASSUME NEW k \in kept, k <= LS!Max(page), k > after, k \in rows PROVE k \in page
    <3>0. scanned # {}
      BY <1>5, <2>1
    <3>m. LS!Max(page) \in scanned
      BY <1>5, <2>2
    <3>1. LS!Max(page) <= LS!Max(scanned) /\ LS!Max(scanned) \in Nat
      BY <1>4, <3>0, <3>m
    <3>2. k <= LS!Max(scanned)
      <4>1. k \in Nat /\ LS!Max(page) \in Nat
        BY <1>n, <2>2
      <4> QED BY <2>3, <3>1, <4>1
    <3>3. k \in scanned
      <4>1. after < k
        BY <1>3, <1>n, <2>3
      <4> QED BY <1>4, <2>3, <3>0, <3>2, <4>1
    <3> QED BY <1>5, <2>2, <2>3, <3>3
  <2>4. \A k \in kept : k <= after' => Listed(k)'
    <3> SUFFICES ASSUME NEW k \in kept, k <= LS!Max(page) PROVE Listed(k)'
      BY <1>2, <1>7
    <3>1. CASE k <= after
      BY <1>3, <1>6, <3>1
    <3>2. CASE k > after
      <4>1. k \in rows => k \in page
        BY <2>3, <3>2
      <4> QED BY <1>3, <1>6, <4>1
    <3> QED BY <1>3, <1>n, <3>1, <3>2
  <2> QED BY <1>2, <1>3, <1>6, <1>7, <2>2, <2>4 DEF ListingInv
<1>8. CASE ~(Cardinality(scanned) > n)
  <2>1. page = {k \in rows : k > after}
    BY <1>1, <1>4, <1>5, <1>8
  <2>2. \A k \in kept : Listed(k)'
    <3> SUFFICES ASSUME NEW k \in kept PROVE Listed(k)'
      OBVIOUS
    <3>1. CASE k <= after
      BY <1>3, <1>6, <3>1
    <3>2. CASE k > after
      BY <1>3, <1>6, <2>1, <3>2
    <3> QED BY <1>3, <1>n, <3>1, <3>2
  <2> QED BY <1>2, <1>3, <1>6, <1>8, <2>2 DEF ListingInv
<1> QED BY <1>7, <1>8

LEMMA FolderPage == ASSUME ListingSettings, ListingInv, Fits(lister), LS!ListFolders PROVE ListingInv'
<1> DEFINE scanned == LS!ListActiveRows(ScanCap)
<1>1. LS!BreaksAt(scanned) = {}
  BY NoBreak DEF LS!ListFolders
<1>2. LS!Answered(scanned) = scanned /\ LS!LastScanned(scanned) = LS!Max(scanned)
  BY <1>1 DEF LS!Answered, LS!LastScanned
<1>3. /\ rows \subseteq ListKeys /\ kept \subseteq ListKeys /\ after \in Nat
      /\ \A k \in kept : k \in rows \/ Listed(k)
      /\ \A k \in kept : k <= after => Listed(k)
  BY DEF ListingInv
<1>n. \A k \in kept : k \in Nat
  BY RowsFinite
<1>4. /\ scanned \subseteq rows /\ scanned \subseteq Nat /\ IsFiniteSet(scanned) /\ Cardinality(scanned) \in Nat
      /\ Cardinality(scanned) < ScanCap => scanned = {k \in rows : k > after}
      /\ scanned # {} => /\ LS!Max(scanned) \in scanned
                         /\ \A k \in scanned : k <= LS!Max(scanned)
                         /\ \A k \in rows : after < k /\ k <= LS!Max(scanned) => k \in scanned
  BY PageRows, RowsFinite DEF ListingSettings
<1>5. /\ items' = items \cup {k \in scanned : Folder[k] = 0} /\ kept' = kept /\ rows' = rows
      /\ folders' = folders \cup ({Folder[k] : k \in scanned} \ {0})
      /\ \/ scanned = {} /\ pc' = "done" /\ after' = after
         \/ scanned # {} /\ after' = LS!Max(scanned) /\ pc' = "page"
         \/ scanned # {} /\ last' = LS!Max(scanned) /\ pc' = "count" /\ after' = after
  <2> HIDE DEF scanned
  <2> QED BY <1>1, <1>2 DEF LS!ListFolders, scanned
<1> HIDE DEF scanned
<1>6. \A k : Listed(k) \/ k \in scanned => Listed(k)'
  BY <1>5 DEF Listed
<1>7. ASSUME scanned # {}, NEW k \in kept, k <= LS!Max(scanned) PROVE Listed(k)'
  <2>1. CASE k <= after
    BY <1>3, <1>6, <2>1
  <2>2. CASE k > after
    <3>1. k \in rows => k \in scanned
      BY <1>3, <1>n, <1>4, <1>7, <2>2
    <3> QED BY <1>3, <1>6, <3>1
  <2> QED BY <1>3, <1>n, <2>1, <2>2
<1>8. ASSUME scanned = {}, NEW k \in kept PROVE Listed(k)'
  <2>1. Cardinality(scanned) = 0
    BY <1>8, FS_EmptySet
  <2>2. {j \in rows : j > after} = {}
    BY <1>4, <1>8, <2>1 DEF ListingSettings
  <2>3. k \in rows => k <= after
    BY <1>3, <1>n, <2>2
  <2> QED BY <1>3, <1>6, <2>3
<1> QED BY <1>3, <1>4, <1>5, <1>6, <1>7, <1>8 DEF ListingInv

LEMMA PurgedPage == ASSUME ListingSettings, ListingInv, Fits(lister), LS!PurgePage PROVE ListingInv'
<1> DEFINE n == lister.limit
<1>1. n \in Nat \ {0} /\ Cardinality(ListKeys) <= n + 1
  BY DEF Fits, LS!PurgePage
<1>2. /\ rows \subseteq ListKeys /\ kept \subseteq ListKeys /\ after \in Nat
      /\ \A k \in kept : k \in rows \/ Listed(k)
      /\ \A k \in kept : k <= after => Listed(k)
  BY DEF ListingInv
<1>n. \A k \in kept : k \in Nat
  BY RowsFinite
<1>f. IsFiniteSet(rows) /\ Cardinality(rows) \in Nat /\ Cardinality(rows) <= n + 1 /\ rows \subseteq Nat
  <2>1. Cardinality(rows) <= Cardinality(ListKeys) /\ IsFiniteSet(rows) /\ IsFiniteSet(ListKeys)
    BY <1>2, FS_Subset DEF ListingSettings
  <2>2. Cardinality(rows) \in Nat /\ Cardinality(ListKeys) \in Nat
    BY <2>1, FS_CardinalityType
  <2> QED BY <1>1, <2>1, <2>2, RowsFinite
<1>3. PICK found \in LS!ListBlobOnlyKeys(n + 1) :
        LET page == LS!FirstOf({k \in found : k > after}, n)
            truncated == LS!Cardinality(found) > n
        IN  /\ rows' = rows \ page
            /\ items' = items \cup page
            /\ IF truncated /\ page # {} THEN after' = LS!Max(page) /\ UNCHANGED pc
               ELSE pc' = "done" /\ UNCHANGED after
  BY DEF LS!PurgePage
<1>4. found = rows
  <2>1. LS!Min({n + 1, Cardinality(rows)}) = Cardinality(rows)
    <3> DEFINE T == {n + 1, Cardinality(rows)}
    <3>1. \E x \in T : x = Cardinality(rows) /\ \A y \in T : x <= y
      BY <1>1, <1>f
    <3>2. \A x \in T : (\A y \in T : x <= y) => x = Cardinality(rows)
      BY <1>1, <1>f
    <3> QED BY <3>1, <3>2 DEF LS!Min
  <2>2. found \subseteq rows /\ Cardinality(found) = Cardinality(rows)
    BY <1>3, <2>1, ListingCardinality DEF LS!ListBlobOnlyKeys
  <2> QED BY <1>f, <2>2, FS_Subset
<1> DEFINE S == {k \in rows : k > after}
           page == LS!FirstOf(S, n)
<1>5. /\ items' = items \cup page /\ folders' = folders /\ kept' = kept /\ rows' = rows \ page
      /\ \/ page # {} /\ after' = LS!Max(page) /\ pc' = "page"
         \/ (page = {} \/ Cardinality(rows) <= n) /\ after' = after /\ pc' = "done"
  <2>1. Cardinality(rows) > n \/ Cardinality(rows) <= n
    BY <1>1, <1>f
  <2>2. folders' = folders /\ kept' = kept /\ pc = "page"
    BY DEF LS!PurgePage
  <2> QED BY <1>3, <1>4, <2>1, <2>2, ListingCardinality
<1>6. S \subseteq Nat /\ IsFiniteSet(S) /\ S \subseteq rows /\ Cardinality(S) \in Nat /\ Cardinality(S) <= Cardinality(rows)
  <2>1. S \subseteq rows
    OBVIOUS
  <2> HIDE DEF S
  <2> QED BY <1>f, <2>1, FS_Subset, FS_CardinalityType
<1>s. \A k \in kept : k \in rows => k \in S \/ Listed(k)
  BY <1>2, <1>n
<1> HIDE DEF S
<1>7. /\ page \subseteq S /\ IsFiniteSet(page) /\ Cardinality(page) \in Nat
      /\ \A k \in S, m \in page : k <= m => k \in page
      /\ Cardinality(page) < n => page = S
      /\ Cardinality(S) <= n => page = S
  BY <1>1, <1>6, FirstOfSet
<1> HIDE DEF page
<1>8. \A k : Listed(k) \/ k \in page => Listed(k)'
  BY <1>5 DEF Listed
<1>9. CASE page # {} /\ after' = LS!Max(page) /\ pc' = "page"
  <2>1. page \subseteq Nat /\ LS!Max(page) \in page
    BY <1>6, <1>7, <1>9, MaxOfRows
  <2>2. \A k \in kept : k <= LS!Max(page) => Listed(k)'
    BY <1>2, <1>s, <1>7, <1>8, <2>1
  <2> QED BY <1>2, <1>5, <1>8, <1>9, <2>1, <2>2 DEF ListingInv
<1>10. CASE (page = {} \/ Cardinality(rows) <= n) /\ after' = after /\ pc' = "done"
  <2>1. page = S
    <3>1. CASE page = {}
      <4>1. Cardinality(page) = 0
        BY <3>1, FS_EmptySet
      <4> QED BY <1>1, <1>7, <4>1
    <3>2. CASE Cardinality(rows) <= n
      BY <1>1, <1>f, <1>6, <1>7, <3>2
    <3> QED BY <1>10, <3>1, <3>2
  <2>2. \A k \in kept : Listed(k)'
    BY <1>2, <1>s, <1>8, <2>1
  <2> QED BY <1>2, <1>5, <1>8, <1>10, <2>2 DEF ListingInv
<1> QED BY <1>5, <1>9, <1>10

LEMMA ListingNext ==
  ASSUME ListingSettings, ListingInv, Fits(lister), [LS!Next]_listingVars
  PROVE  ListingInv' /\ Fits(lister)'
<1>1. Fits(lister)'
  <2>1. lister' = lister
    BY DEF LS!Next, LS!ListPlain, LS!ListFolders, LS!CountAfter, LS!PurgePage, LS!PutKey, LS!DeleteKey, listingVars
  <2> QED BY <2>1 DEF Fits
<1>2. CASE LS!CountAfter
  <2>1. /\ rows \subseteq ListKeys /\ kept \subseteq ListKeys /\ after \in Nat /\ last \in Nat
        /\ \A k \in kept : k \in rows \/ Listed(k)
        /\ \A k \in kept : k <= after => Listed(k)
        /\ \A k \in kept : k <= last => Listed(k)
    BY <1>2 DEF ListingInv, LS!CountAfter
  <2>2. \A k : Listed(k) => Listed(k)'
    BY <1>2 DEF LS!CountAfter, Listed
  <2>3. ASSUME ~(LS!CountKeysAfter(last) > 0), NEW k \in kept PROVE Listed(k)
    <3> DEFINE S == {j \in rows : j > last}
    <3>1. IsFiniteSet(S) /\ Cardinality(S) \in Nat
      BY RowsFinite, FS_CardinalityType
    <3>2. Cardinality(S) = 0
      BY <2>3, <3>1, ListingCardinality DEF LS!CountKeysAfter
    <3>3. S = {}
      BY <3>1, <3>2, FS_EmptySet
    <3>4. k \in rows => k <= last
      BY <2>1, <3>3, RowsFinite
    <3> QED BY <2>1, <3>4
  <2> QED BY <1>2, <2>1, <2>2, <2>3 DEF LS!CountAfter, ListingInv
<1>3. ASSUME NEW k \in ListKeys, LS!PutKey(k) PROVE ListingInv'
  BY <1>3 DEF LS!PutKey, ListingInv, Listed
<1>4. ASSUME NEW k \in ListKeys, LS!DeleteKey(k) PROVE ListingInv'
  BY <1>4 DEF LS!DeleteKey, ListingInv, Listed
<1>5. CASE UNCHANGED listingVars
  BY <1>5 DEF listingVars, ListingInv, Listed
<1> QED BY <1>1, <1>2, <1>3, <1>4, <1>5, PlainPage, FolderPage, PurgedPage DEF LS!Next

-----------------------------------------------------------------------------
(* Rate limit.                                                             *)

(* What the configuration parses to: unsigned numbers.                     *)
RateSettings == {Rate, Burst, MaxTracked, IdleAfter} \subseteq Nat

(* An idle bucket is a full one.                                           *)
IdleIsFull == Rate * IdleAfter >= Burst

Buckets == [tokens : 0..Burst, last : Nat]

RateTypeOK ==
    /\ DOMAIN bucket \subseteq RateClients
    /\ bucket \in [DOMAIN bucket -> Buckets]
    /\ now \in Nat /\ since \in 0..now
    /\ passed \in [RateClients -> Nat]

(* What a tracked client was let through and what it may still ask for     *)
(* were earned by its last request; a client without a bucket, forgotten   *)
(* or never seen, has spent nothing that a full bucket would return.       *)
Earned ==
    /\ \A c \in RL!Tracked :
        /\ since <= bucket[c].last /\ bucket[c].last <= now
        /\ passed[c] + bucket[c].tokens <= Burst + Rate * (bucket[c].last - since)
    /\ \A c \in RateClients \ RL!Tracked : passed[c] <= Rate * (now - since)

RateInv == RateTypeOK /\ Earned


(* Arithmetic.                                                             *)

LEMMA RateMin ==
  ASSUME NEW a \in Int, NEW b \in Int
  PROVE  RL!Min({a, b}) = IF a <= b THEN a ELSE b
BY DEF RL!Min

(* Time adds up, and what time earns only grows.                           *)
LEMMA Accrue ==
  ASSUME NEW r \in Nat, NEW a \in Nat, NEW b \in Nat, NEW c \in Nat, a <= b, b <= c
  PROVE  /\ r * (c - a) = r * (c - b) + r * (b - a)
         /\ r * (c - b) \in Nat /\ r * (b - a) \in Nat /\ r * (c - a) \in Nat
<1>1. PICK x \in Nat : x = c - b
  OBVIOUS
<1>2. PICK y \in Nat : y = b - a
  OBVIOUS
<1>3. c - a = x + y
  BY <1>1, <1>2
<1>4. r * (x + y) = r * x + r * y
  OBVIOUS
<1>5. r * x \in Nat /\ r * y \in Nat
  OBVIOUS
<1> QED BY <1>1, <1>2, <1>3, <1>4, <1>5

LEMMA Monotone ==
  ASSUME NEW r \in Nat, NEW a \in Nat, NEW b \in Nat, a <= b
  PROVE  r * a <= r * b
<1>1. PICK x \in Nat : b = a + x
  BY b - a \in Nat
<1>2. r * (a + x) = r * a + r * x /\ r * x \in Nat /\ r * a \in Nat
  OBVIOUS
<1> QED BY <1>1, <1>2


(* A bucket whose client sent nothing for IDLE_EVICT_AFTER has nothing to  *)
(* forget.                                                                 *)
LEMMA IdleSpentNothing ==
  ASSUME RateSettings, IdleIsFull, RateInv, NEW c \in RL!Tracked, ~ (now - bucket[c].last < IdleAfter)
  PROVE  passed[c] <= Rate * (now - since)
<1>1. /\ Rate \in Nat /\ Burst \in Nat /\ IdleAfter \in Nat
      /\ now \in Nat /\ since \in Nat /\ bucket[c].last \in Nat /\ bucket[c].tokens \in Nat /\ passed[c] \in Nat
      /\ since <= bucket[c].last /\ bucket[c].last <= now
      /\ passed[c] + bucket[c].tokens <= Burst + Rate * (bucket[c].last - since)
  BY DEF RateSettings, RateInv, RateTypeOK, Earned, Buckets, RL!Tracked
<1>2. PICK l \in Nat : l = bucket[c].last
  BY <1>1
<1>3. now - l \in Nat /\ IdleAfter <= now - l
  BY <1>1, <1>2
<1>4. Rate * IdleAfter <= Rate * (now - l)
  BY <1>1, <1>3, Monotone
<1>5. /\ Rate * (now - since) = Rate * (now - l) + Rate * (l - since)
      /\ Rate * (now - l) \in Nat /\ Rate * (l - since) \in Nat
  BY <1>1, <1>2, Accrue
<1>6. Rate * IdleAfter \in Nat /\ Rate * IdleAfter >= Burst
  BY <1>1 DEF IdleIsFull
<1> QED BY <1>1, <1>2, <1>4, <1>5, <1>6

(* The eviction keeps every bucket, or only recent ones, or, when those    *)
(* are too many, none.                                                     *)
LEMMA EvictKeeps ==
  ASSUME RateSettings
  PROVE  \/ RL!EvictIdle = RL!Tracked
         \/ RL!EvictIdle = RL!Recent
         \/ RL!EvictIdle = {} /\ RL!Recent # {}
<1>1. Cardinality({}) = 0
  BY FS_EmptySet
<1>2. ~ (0 > MaxTracked \div 2)
  BY DEF RateSettings
<1> QED BY <1>1, <1>2 DEF RL!EvictIdle

(* One request of client c.                                                *)
LEMMA TakeTokenInv ==
  ASSUME RateSettings, IdleIsFull, RateInv, NEW c \in RateClients, RL!TakeToken(c)
  PROVE  RateInv'
<1> DEFINE keeps == RL!EvictIdle
           reset == keeps = {} /\ RL!Recent # {}
           old == IF c \in keeps THEN bucket[c] ELSE [tokens |-> Burst, last |-> now]
           b == RL!Refill(old)
           ok == b.tokens >= 1
           new == IF ok THEN [b EXCEPT !.tokens = @ - 1] ELSE b
<1>0. /\ Rate \in Nat /\ Burst \in Nat /\ IdleAfter \in Nat
      /\ now \in Nat /\ since \in Nat /\ since <= now /\ passed \in [RateClients -> Nat]
  BY DEF RateSettings, RateInv, RateTypeOK
<1>1. \A d \in RL!Tracked : /\ bucket[d] \in Buckets /\ d \in RateClients
                         /\ bucket[d].tokens \in Nat /\ bucket[d].tokens <= Burst
                         /\ bucket[d].last \in Nat
  BY <1>0 DEF RateInv, RateTypeOK, RL!Tracked, Buckets
<1>2. keeps \subseteq RL!Tracked
  BY EvictKeeps DEF RL!Recent
<1>3. /\ bucket' = [d \in keeps \cup {c} |-> IF d # c THEN bucket[d] ELSE new]
      /\ passed' = [d \in RateClients |-> (IF reset THEN 0 ELSE passed[d]) + (IF d = c /\ ok THEN 1 ELSE 0)]
      /\ since' = IF reset THEN now ELSE since
      /\ now' = now
  BY DEF RL!TakeToken
<1>4. old.tokens \in 0..Burst /\ old.last \in Nat /\ since <= old.last /\ old.last <= now
  BY <1>0, <1>1, <1>2 DEF RateInv, Earned
<1>5. /\ b.tokens \in 0..Burst /\ b.last = now
      /\ b.tokens <= old.tokens + (now - old.last) * Rate
  <2>1. PICK x \in Nat : x = (now - old.last) * Rate
    BY <1>0, <1>4
  <2>2. b = [tokens |-> RL!Min({Burst, old.tokens + x}), last |-> now]
    BY <2>1 DEF RL!Refill
  <2>3. RL!Min({Burst, old.tokens + x}) = IF Burst <= old.tokens + x THEN Burst ELSE old.tokens + x
    BY <1>0, <1>4, <2>1, RateMin
  <2> HIDE DEF old, b
  <2> QED BY <1>0, <1>4, <2>1, <2>2, <2>3
<1>6. /\ new \in Buckets /\ new.last = now
      /\ new.tokens = IF ok THEN b.tokens - 1 ELSE b.tokens
  <2>1. b \in Buckets
    BY <1>0, <1>5 DEF Buckets, RL!Refill
  <2> HIDE DEF b
  <2> QED BY <1>0, <1>5, <2>1 DEF Buckets
<1> HIDE DEF keeps, reset, old, b, ok, new
<1>7. DOMAIN bucket' = keeps \cup {c} /\ bucket'[c] = new /\ \A d \in keeps : d # c => bucket'[d] = bucket[d]
  BY <1>3
<1>8. RateTypeOK'
  <2>1. bucket' \in [DOMAIN bucket' -> Buckets] /\ DOMAIN bucket' \subseteq RateClients
    BY <1>1, <1>2, <1>3, <1>6, <1>7
  <2>2. passed' \in [RateClients -> Nat]
    BY <1>0, <1>3
  <2>3. now' \in Nat /\ since' \in 0..now'
    BY <1>0, <1>3
  <2> QED BY <2>1, <2>2, <2>3 DEF RateTypeOK
<1>9. new.tokens + (IF ok THEN 1 ELSE 0) = b.tokens /\ new.tokens \in Nat
  BY <1>0, <1>5, <1>6 DEF Buckets
<1>10. CASE reset
  <2>1. RL!Tracked' = {c} /\ since' = now /\ now' = now
    BY <1>3, <1>7, <1>10 DEF RL!Tracked, reset
  <2>2. passed'[c] + new.tokens <= Burst
    BY <1>0, <1>3, <1>5, <1>9, <1>10
  <2>3. \A d \in RateClients \ {c} : passed'[d] = 0
    BY <1>3, <1>10
  <2>4. Rate * (now - now) = 0
    BY <1>0
  <2>5. Earned'
    BY <1>0, <1>6, <1>7, <2>1, <2>2, <2>3, <2>4 DEF Earned
  <2> QED BY <1>8, <2>5 DEF RateInv
<1>11. CASE ~ reset
  <2>1. RL!Tracked' = keeps \cup {c} /\ since' = since /\ now' = now
    BY <1>3, <1>7, <1>11 DEF RL!Tracked
  <2>2. ASSUME NEW d \in RateClients \ keeps PROVE passed[d] <= Rate * (now - since)
    <3>1. CASE d \notin RL!Tracked
      BY <3>1 DEF RateInv, Earned
    <3>2. CASE d \in RL!Tracked
      <4>1. keeps = RL!Recent
        BY <2>2, <3>2, <1>11, EvictKeeps DEF keeps, reset
      <4> QED BY <2>2, <3>2, <4>1, IdleSpentNothing DEF RL!Recent
    <3> QED BY <3>1, <3>2
  <2>3. passed[c] + b.tokens <= Burst + Rate * (now - since)
    <3>0. passed[c] \in Nat /\ b.tokens \in Nat
      BY <1>0, <1>5
    <3>1. CASE c \notin keeps
      <4>1. passed[c] <= Rate * (now - since) /\ Rate * (now - since) \in Nat
        BY <1>0, <2>2, <3>1
      <4> QED BY <1>0, <1>5, <3>0, <4>1
    <3>2. CASE c \in keeps
      <4>1. PICK l \in Nat : l = bucket[c].last /\ since <= l /\ l <= now
        BY <1>1, <1>2, <3>2 DEF RateInv, Earned
      <4>2. PICK t \in Nat : t = bucket[c].tokens /\ passed[c] + t <= Burst + Rate * (l - since)
        BY <1>1, <1>2, <3>2, <4>1 DEF RateInv, Earned
      <4>3. old.last = l /\ old.tokens = t
        BY <3>2, <4>1, <4>2 DEF old
      <4>4. (now - l) * Rate = Rate * (now - l)
        BY <1>0, <4>1
      <4>5. /\ Rate * (now - since) = Rate * (now - l) + Rate * (l - since)
            /\ Rate * (now - l) \in Nat /\ Rate * (l - since) \in Nat
        BY <1>0, <4>1, Accrue
      <4> QED BY <1>0, <1>5, <3>0, <4>2, <4>3, <4>4, <4>5
    <3> QED BY <3>1, <3>2
  <2>4. passed'[c] + new.tokens <= Burst + Rate * (now - since)
    <3>1. passed'[c] = passed[c] + (IF ok THEN 1 ELSE 0) /\ passed[c] \in Nat
      BY <1>0, <1>3, <1>11
    <3> QED BY <1>0, <1>9, <2>3, <3>1
  <2>5. \A d \in RateClients : d # c => passed'[d] = passed[d]
    BY <1>0, <1>3, <1>11
  <2>6. ASSUME NEW d \in RL!Tracked'
        PROVE  /\ since' <= bucket'[d].last /\ bucket'[d].last <= now'
               /\ passed'[d] + bucket'[d].tokens <= Burst + Rate * (bucket'[d].last - since')
    <3>1. CASE d = c
      BY <1>0, <1>6, <1>7, <2>1, <2>4, <3>1
    <3>2. CASE d # c
      <4>1. d \in keeps /\ d \in RL!Tracked /\ d \in RateClients /\ bucket'[d] = bucket[d] /\ passed'[d] = passed[d]
        BY <1>1, <1>2, <1>7, <2>1, <2>5, <3>2
      <4> QED BY <2>1, <4>1 DEF RateInv, Earned
    <3> QED BY <3>1, <3>2
  <2>7. ASSUME NEW d \in RateClients \ RL!Tracked' PROVE passed'[d] <= Rate * (now' - since')
    BY <2>1, <2>2, <2>5
  <2>8. Earned'
    BY <2>6, <2>7 DEF Earned
  <2> QED BY <1>8, <2>8 DEF RateInv
<1> QED BY <1>10, <1>11

LEMMA TickInv == ASSUME RateSettings, RateInv, RL!Tick PROVE RateInv'
<1>1. /\ now \in Nat /\ since \in 0..now /\ Rate \in Nat /\ now' = now + 1
      /\ UNCHANGED <<bucket, passed, since>> /\ passed \in [RateClients -> Nat]
  BY DEF RateSettings, RateInv, RateTypeOK, RL!Tick
<1>2. RateTypeOK'
  BY <1>1 DEF RateInv, RateTypeOK
<1>3. Rate * (now - since) <= Rate * (now' - since)
  BY <1>1, Monotone
<1>4. ASSUME NEW c \in RL!Tracked
      PROVE  since' <= bucket'[c].last /\ bucket'[c].last <= now'
  <2>1. bucket[c].last \in Nat /\ since <= bucket[c].last /\ bucket[c].last <= now
    BY DEF RateInv, RateTypeOK, Earned, RL!Tracked, Buckets
  <2> QED BY <1>1, <2>1
<1>5. ASSUME NEW c \in RateClients \ RL!Tracked PROVE passed'[c] <= Rate * (now' - since')
  <2>1. passed[c] <= Rate * (now - since) /\ passed[c] \in Nat
    BY <1>1 DEF RateInv, Earned
  <2>2. Rate * (now - since) \in Nat /\ Rate * (now' - since) \in Nat
    BY <1>1
  <2> QED BY <1>1, <1>3, <2>1, <2>2
<1>6. Earned'
  BY <1>1, <1>4, <1>5 DEF RateInv, Earned, RL!Tracked
<1> QED BY <1>2, <1>6 DEF RateInv

LEMMA RateInit == ASSUME RateSettings, RL!Init PROVE RateInv
<1>1. DOMAIN bucket = {} /\ now = 0 /\ since = 0 /\ passed = [c \in RateClients |-> 0] /\ Rate \in Nat
  BY DEF RL!Init, RateSettings
<1>2. RateTypeOK
  BY <1>1 DEF RateTypeOK, RL!Init
<1>3. Earned
  BY <1>1 DEF Earned, RL!Tracked
<1> QED BY <1>2, <1>3 DEF RateInv

(* What an invariant of the buckets says of every client, tracked or not.  *)
LEMMA EarnedHeld == ASSUME RateSettings, RateInv PROVE RL!RateHeld
<1> SUFFICES ASSUME NEW c \in RateClients PROVE passed[c] <= Burst + Rate * (now - since)
  BY DEF RL!RateHeld
<1>0. /\ Rate \in Nat /\ Burst \in Nat /\ passed[c] \in Nat
      /\ now \in Nat /\ since \in Nat /\ since <= now /\ Rate * (now - since) \in Nat
  BY DEF RateSettings, RateInv, RateTypeOK
<1>1. CASE c \notin RL!Tracked
  <2>1. passed[c] <= Rate * (now - since)
    BY <1>1 DEF RateInv, Earned
  <2> QED BY <1>0, <2>1
<1>2. CASE c \in RL!Tracked
  <2>1. PICK l \in Nat : l = bucket[c].last /\ since <= l /\ l <= now
    BY <1>2 DEF RateInv, RateTypeOK, Earned, RL!Tracked, Buckets
  <2>2. passed[c] <= Burst + Rate * (l - since)
    BY <1>0, <1>2, <2>1 DEF RateInv, RateTypeOK, Earned, RL!Tracked, Buckets
  <2>3. l - since \in Nat /\ now - since \in Nat /\ l - since <= now - since
    BY <1>0, <2>1
  <2>4. Rate * (l - since) <= Rate * (now - since) /\ Rate * (l - since) \in Nat
    BY <1>0, <2>3, Monotone
  <2> QED BY <1>0, <2>2, <2>4
<1> QED BY <1>1, <1>2

LEMMA RateNext ==
  ASSUME RateSettings, IdleIsFull, RateInv, [RL!Next]_rateVars
  PROVE  RateInv'
<1>1. CASE UNCHANGED rateVars
  BY <1>1 DEF rateVars, RateInv, RateTypeOK, Earned, RL!Tracked
<1> QED BY <1>1, TakeTokenInv, TickInv DEF RL!Next

-----------------------------------------------------------------------------
(* Reloads of the cluster configuration.                                   *)

Configs ==
    [mode : {"standalone", "replicated", "assigned", "replicated+assigned"},
     token : BOOLEAN, peers : BOOLEAN, rules : BOOLEAN]

(* The environment and admin requests hold configurations.                 *)
ReloadSettings == EnvConfig \in Configs /\ Snapshots \in [RE!Requests -> Configs]

PCs == {"idle", "built", "saved", "replace", "stop", "ok", "failed"}
Backends == 1 .. Len(configs)

ReloadTypeOK ==
    /\ saved \in Configs \cup {RE!None}
    /\ cluster \in Configs
    /\ configs \in Seq(Configs)
    /\ live \in Backends
    /\ running \subseteq Backends
    /\ req \in [RE!Requests -> [pc : PCs, backend : Nat]]
    /\ overlap \in BOOLEAN

Holds(r) == req[r].pc \in {"built", "saved", "replace", "stop"}

(* Each reload in progress has a backend of its own, which is not the live *)
(* one: the one it built until the replace, the one it replaced after.     *)
Owned ==
    /\ \A r \in RE!Requests : Holds(r) => req[r].backend \in Backends /\ req[r].backend # live
    /\ \A r, s \in RE!Requests : Holds(r) /\ Holds(s) /\ req[r].backend = req[s].backend => r = s

(* The backend about to go live is that of the snapshot, and its worker    *)
(* runs.                                                                   *)
Prepared ==
    \A r \in RE!Requests : req[r].pc \in {"built", "saved", "replace"} =>
        /\ configs[req[r].backend] = Snapshots[r]
        /\ RE!Replicates(Snapshots[r]) => req[r].backend \in running

LiveRuns == RE!Replicates(configs[live]) => live \in running

(* Every other worker belongs to a reload that will stop it or use it.     *)
NoStray == \A b \in running : b = live \/ \E r \in RE!Requests : Holds(r) /\ req[r].backend = b

(* How far a single reload has come.                                       *)
Progress(r) ==
    /\ RE!IntoClusterConfig(Snapshots[r])
    /\ req[r].pc = "built" => cluster = RE!StartConfig /\ configs[live] = cluster
    /\ req[r].pc \in {"saved", "replace", "stop"} => saved = Snapshots[r]
    /\ req[r].pc \in {"replace", "stop"} => cluster = Snapshots[r]
    /\ req[r].pc = "stop" => configs[live] = Snapshots[r]
Alone ==
    ~overlap =>
        /\ \A r, s \in RE!Requests : Holds(r) /\ Holds(s) => r = s
        /\ \A r \in RE!Requests : Holds(r) => Progress(r)
        /\ (\A r \in RE!Requests : ~Holds(r)) => cluster = RE!StartConfig /\ configs[live] = cluster

ReloadInv == ReloadTypeOK /\ Owned /\ Prepared /\ LiveRuns /\ NoStray /\ Alone

USE DEF PCs, Backends

LEMMA HoldsIsWorking ==
  ASSUME ReloadTypeOK
  PROVE  RE!Working = {r \in RE!Requests : Holds(r)}
<1>1. \A r \in RE!Requests : req[r].pc \in PCs
  BY DEF ReloadTypeOK
<1> QED BY <1>1 DEF RE!Working, Holds

(* A snapshot that was accepted is never mistaken for no snapshot, so the  *)
(* next start takes it.                                                    *)
LEMMA StartsSaved ==
  ASSUME ReloadSettings, NEW r \in RE!Requests, RE!IntoClusterConfig(Snapshots[r]), saved = Snapshots[r]
  PROVE  RE!StartConfig = Snapshots[r]
<1>1. Snapshots[r] \in Configs
  BY DEF ReloadSettings
<1>2. Snapshots[r].mode # "none" /\ RE!None.mode = "none"
  BY <1>1 DEF Configs, RE!None
<1> QED BY <1>2 DEF RE!StartConfig

LEMMA StartTyped ==
  ASSUME ReloadSettings, ReloadTypeOK
  PROVE  RE!StartConfig \in Configs
BY DEF ReloadSettings, ReloadTypeOK, RE!StartConfig

LEMMA ReloadInvGives ==
  ASSUME ReloadSettings, ReloadInv
  PROVE  RE!ReloadSettles
<1>1. RE!Working = {r \in RE!Requests : Holds(r)}
  BY HoldsIsWorking DEF ReloadInv
<1>2. RE!OneWorker
  BY <1>1 DEF ReloadInv, LiveRuns, NoStray, RE!OneWorker
<1>3. RE!ConfigsAgree
  BY <1>1 DEF ReloadInv, Alone, RE!ConfigsAgree
<1> QED BY <1>2, <1>3 DEF RE!ReloadSettles

LEMMA PutInv == ASSUME ReloadSettings, ReloadInv, NEW r \in RE!Requests, RE!PutClusterConfig(r) PROVE ReloadInv'
<1> DEFINE s == Snapshots[r]
           b == Len(configs) + 1
<1>0. ReloadTypeOK /\ req[r].pc = "idle" /\ UNCHANGED <<saved, cluster, live>> /\ RE!StartConfig' = RE!StartConfig
  BY DEF ReloadInv, RE!PutClusterConfig, RE!StartConfig
<1>1. RE!Working = {q \in RE!Requests : Holds(q)}
  BY <1>0, HoldsIsWorking
<1>2. overlap' = (overlap \/ RE!Working # {}) /\ overlap' \in BOOLEAN
  BY DEF RE!PutClusterConfig
<1>3. CASE RE!IntoClusterConfig(s) /\ RE!BuildOk(s)
  <2>1. /\ configs' = Append(configs, s)
        /\ running' = IF RE!Replicates(s) THEN running \cup {b} ELSE running
        /\ req' = [req EXCEPT ![r] = [pc |-> "built", backend |-> b]]
    BY <1>3 DEF RE!PutClusterConfig, RE!Build
  <2>2. s \in Configs /\ configs \in Seq(Configs) /\ Len(configs) \in Nat
    BY <1>0 DEF ReloadSettings, ReloadTypeOK
  <2>3. /\ configs' \in Seq(Configs) /\ Len(configs') = b /\ configs'[b] = s
        /\ \A i \in Backends : configs'[i] = configs[i]
    BY <2>1, <2>2
  <2>4. live \in Backends /\ b \notin Backends /\ b \in Nat /\ running \subseteq Backends
    BY <1>0, <2>2 DEF ReloadTypeOK
  <2>5. /\ req'[r].pc = "built" /\ req'[r].backend = b
        /\ \A q \in RE!Requests : q # r => req'[q] = req[q]
    BY <1>0, <2>1 DEF ReloadTypeOK
  <2> HIDE DEF b, s
  <2>6. ReloadTypeOK'
    <3>1. req' \in [RE!Requests -> [pc : PCs, backend : Nat]]
      BY <1>0, <2>1, <2>4 DEF ReloadTypeOK
    <3>2. live' \in 1..Len(configs') /\ running' \subseteq 1..Len(configs')
      <4>1. Len(configs') \in Nat /\ Len(configs') = Len(configs) + 1
        BY <2>2, <2>3 DEF b
      <4>2. Backends \subseteq 1..Len(configs') /\ b \in 1..Len(configs')
        BY <2>2, <2>3, <4>1
      <4>3. running' \subseteq running \cup {b}
        BY <2>1
      <4> QED BY <1>0, <2>4, <4>2, <4>3
    <3> QED BY <1>0, <1>2, <2>3, <3>1, <3>2 DEF ReloadTypeOK
  <2>7. Owned'
    BY <1>0, <2>2, <2>3, <2>4, <2>5 DEF ReloadInv, Owned, Holds, b
  <2>8. Prepared'
    BY <1>0, <2>1, <2>3, <2>4, <2>5 DEF ReloadInv, Owned, Prepared, Holds, s
  <2>9. LiveRuns'
    BY <1>0, <2>1, <2>3, <2>4 DEF ReloadInv, LiveRuns
  <2>10. NoStray'
    BY <1>0, <2>1, <2>5 DEF ReloadInv, NoStray, Holds
  <2>11. Alone'
    <3> SUFFICES ASSUME ~overlap' PROVE /\ \A q, t \in RE!Requests : Holds(q)' /\ Holds(t)' => q = t
                                        /\ \A q \in RE!Requests : Holds(q)' => Progress(q)'
                                        /\ ~ \A q \in RE!Requests : ~Holds(q)'
      BY DEF Alone
    <3>1. ~overlap /\ \A q \in RE!Requests : ~Holds(q)
      BY <1>1, <1>2
    <3>2. \A q \in RE!Requests : Holds(q)' <=> q = r
      BY <2>5, <3>1 DEF Holds
    <3>3. cluster = RE!StartConfig /\ configs[live] = cluster
      BY <3>1 DEF ReloadInv, Alone
    <3>4. Progress(r)'
      BY <1>0, <1>3, <2>3, <2>4, <2>5, <3>3 DEF Progress, s
    <3> QED BY <3>2, <3>4
  <2> QED BY <2>6, <2>7, <2>8, <2>9, <2>10, <2>11 DEF ReloadInv
<1>4. CASE ~ (RE!IntoClusterConfig(s) /\ RE!BuildOk(s))
  <2>1. req' = [req EXCEPT ![r].pc = "failed"] /\ UNCHANGED <<configs, running>>
    BY <1>4 DEF RE!PutClusterConfig
  <2>2. /\ req'[r].pc = "failed" /\ \A q \in RE!Requests : q # r => req'[q] = req[q]
        /\ req' \in [RE!Requests -> [pc : PCs, backend : Nat]]
    BY <1>0, <2>1 DEF ReloadTypeOK
  <2>3. \A q \in RE!Requests : (Holds(q)' <=> Holds(q)) /\ (Holds(q) => req'[q] = req[q])
    BY <1>0, <2>2 DEF Holds
  <2>4. ReloadTypeOK'
    BY <1>0, <1>2, <2>1, <2>2 DEF ReloadTypeOK
  <2>5. Owned' /\ Prepared' /\ LiveRuns' /\ NoStray'
    BY <1>0, <2>1, <2>2, <2>3 DEF ReloadInv, Owned, Prepared, LiveRuns, NoStray, Holds
  <2>6. Alone'
    <3>1. ~overlap' => ~overlap
      BY <1>2
    <3>2. \A q \in RE!Requests : Holds(q) /\ Progress(q) => Progress(q)'
      BY <1>0, <2>1, <2>3 DEF Progress
    <3> QED BY <1>0, <2>1, <2>3, <3>1, <3>2 DEF ReloadInv, Alone
  <2> QED BY <2>4, <2>5, <2>6 DEF ReloadInv
<1> QED BY <1>3, <1>4

(* The steps of a reload that has its backend.  A step that ends it also   *)
(* stops the worker it leaves behind.                                      *)
LEMMA FinishInv ==
  ASSUME ReloadSettings, ReloadInv, NEW r \in RE!Requests, Holds(r), NEW end \in {"ok", "failed"},
         end = "failed" => req[r].pc = "built", end = "ok" => req[r].pc = "stop",
         req' = [req EXCEPT ![r].pc = end], running' = running \ {req[r].backend},
         UNCHANGED <<saved, cluster, live, configs, overlap>>
  PROVE  ReloadInv'
<1>0. ReloadTypeOK /\ RE!StartConfig' = RE!StartConfig
  BY DEF ReloadInv, RE!StartConfig
<1>1. /\ req'[r].pc = end /\ \A q \in RE!Requests : q # r => req'[q] = req[q]
      /\ req' \in [RE!Requests -> [pc : PCs, backend : Nat]]
  BY <1>0 DEF ReloadTypeOK
<1>2. \A q \in RE!Requests : (Holds(q)' <=> Holds(q) /\ q # r) /\ (Holds(q)' => req'[q] = req[q])
  BY <1>1 DEF Holds
<1>3. \A q \in RE!Requests : Holds(q)' => req[q].backend # req[r].backend
  BY <1>2 DEF ReloadInv, Owned
<1>4. ReloadTypeOK'
  BY <1>0, <1>1 DEF ReloadTypeOK
<1>5. Owned'
  BY <1>2 DEF ReloadInv, Owned
<1>6. Prepared'
  <2> SUFFICES ASSUME NEW q \in RE!Requests, req'[q].pc \in {"built", "saved", "replace"}
               PROVE  /\ configs[req[q].backend] = Snapshots[q] /\ req'[q] = req[q]
                      /\ RE!Replicates(Snapshots[q]) => req[q].backend \in running'
    BY DEF Prepared
  <2>1. Holds(q)' /\ req'[q] = req[q]
    BY <1>2 DEF Holds
  <2> QED BY <1>3, <2>1 DEF ReloadInv, Prepared
<1>7. LiveRuns'
  BY DEF ReloadInv, Owned, LiveRuns
<1>8. NoStray'
  <2> SUFFICES ASSUME NEW b \in running', b # live
               PROVE  \E q \in RE!Requests : Holds(q)' /\ req'[q].backend = b
    BY DEF NoStray
  <2>1. PICK q \in RE!Requests : Holds(q) /\ req[q].backend = b
    BY DEF ReloadInv, NoStray
  <2>2. q # r
    BY <2>1
  <2> QED BY <1>2, <2>1, <2>2
<1>9. Alone'
  <2> SUFFICES ASSUME ~overlap
               PROVE  (\A q \in RE!Requests : ~Holds(q)') /\ cluster = RE!StartConfig /\ configs[live] = cluster
    <3>1. RE!StartConfig' = RE!StartConfig /\ overlap' = overlap /\ cluster' = cluster /\ configs' = configs /\ live' = live
      BY <1>0
    <3> QED BY <3>1 DEF Alone
  <2>1. \A q \in RE!Requests : ~Holds(q)'
    BY <1>2 DEF ReloadInv, Alone
  <2>2. Progress(r)
    BY DEF ReloadInv, Alone
  <2>3. CASE end = "failed"
    BY <2>1, <2>2, <2>3 DEF Progress
  <2>4. CASE end = "ok"
    <3>0. RE!IntoClusterConfig(Snapshots[r]) /\ saved = Snapshots[r]
      BY <2>2, <2>4 DEF Progress
    <3>1. RE!StartConfig = Snapshots[r]
      BY <3>0, StartsSaved
    <3> QED BY <2>1, <2>2, <2>4, <3>1 DEF Progress
  <2> QED BY <2>1, <2>3, <2>4
<1> QED BY <1>4, <1>5, <1>6, <1>7, <1>8, <1>9 DEF ReloadInv

LEMMA SaveInv == ASSUME ReloadSettings, ReloadInv, NEW r \in RE!Requests, RE!SaveSnapshot(r) PROVE ReloadInv'
<1>0. ReloadTypeOK /\ req[r].pc = "built" /\ Holds(r) /\ UNCHANGED <<cluster, live, configs, overlap>>
  BY DEF ReloadInv, RE!SaveSnapshot, Holds
<1>1. CASE RE!SaveFails(r)
  BY <1>0, <1>1, FinishInv DEF RE!SaveFails
<1>2. CASE saved' = Snapshots[r] /\ req' = [req EXCEPT ![r].pc = "saved"] /\ UNCHANGED running
  <2>1. /\ req'[r].pc = "saved" /\ req'[r].backend = req[r].backend
        /\ \A q \in RE!Requests : q # r => req'[q] = req[q]
        /\ req' \in [RE!Requests -> [pc : PCs, backend : Nat]]
    BY <1>0, <1>2 DEF ReloadTypeOK
  <2>2. \A q \in RE!Requests : (Holds(q)' <=> Holds(q)) /\ req'[q].backend = req[q].backend
    BY <1>0, <2>1 DEF Holds
  <2>3. ReloadTypeOK'
    <3>1. saved' \in Configs
      BY <1>2 DEF ReloadSettings
    <3> QED BY <1>0, <1>2, <2>1, <3>1 DEF ReloadTypeOK
  <2>4. Owned' /\ LiveRuns' /\ NoStray'
    BY <1>0, <1>2, <2>2 DEF ReloadInv, Owned, LiveRuns, NoStray
  <2>5. Prepared'
    BY <1>0, <1>2, <2>1 DEF ReloadInv, Prepared
  <2>6. Alone'
    <3> SUFFICES ASSUME ~overlap
                 PROVE  /\ \A q, t \in RE!Requests : Holds(q)' /\ Holds(t)' => q = t
                        /\ Progress(r)' /\ Holds(r)'
      BY <1>0 DEF Alone
    <3>1. Progress(r)
      BY <1>0 DEF ReloadInv, Alone
    <3>2. Progress(r)'
      BY <1>2, <2>1, <3>1 DEF Progress
    <3> QED BY <1>0, <2>2, <3>2 DEF ReloadInv, Alone
  <2> QED BY <2>3, <2>4, <2>5, <2>6 DEF ReloadInv
<1> QED BY <1>1, <1>2 DEF RE!SaveSnapshot

LEMMA UpdateInv == ASSUME ReloadSettings, ReloadInv, NEW r \in RE!Requests, RE!UpdateCluster(r) PROVE ReloadInv'
<1>0. /\ ReloadTypeOK /\ req[r].pc = "saved" /\ Holds(r) /\ UNCHANGED <<saved, live, configs, running, overlap>>
      /\ cluster' = Snapshots[r] /\ req' = [req EXCEPT ![r].pc = "replace"]
  BY DEF ReloadInv, RE!UpdateCluster, RE!SetCluster, Holds
<1>1. /\ req'[r].pc = "replace" /\ req'[r].backend = req[r].backend
      /\ \A q \in RE!Requests : q # r => req'[q] = req[q]
      /\ req' \in [RE!Requests -> [pc : PCs, backend : Nat]]
  BY <1>0 DEF ReloadTypeOK
<1>2. \A q \in RE!Requests : (Holds(q)' <=> Holds(q)) /\ req'[q].backend = req[q].backend
  BY <1>0, <1>1 DEF Holds
<1>3. ReloadTypeOK'
  <2>1. cluster' \in Configs
    BY <1>0 DEF ReloadSettings
  <2> QED BY <1>0, <1>1, <2>1 DEF ReloadTypeOK
<1>4. Owned' /\ LiveRuns' /\ NoStray'
  BY <1>0, <1>2 DEF ReloadInv, Owned, LiveRuns, NoStray
<1>5. Prepared'
  BY <1>0, <1>1 DEF ReloadInv, Prepared
<1>6. Alone'
  <2> SUFFICES ASSUME ~overlap
               PROVE  /\ \A q, t \in RE!Requests : Holds(q)' /\ Holds(t)' => q = t
                      /\ Progress(r)' /\ Holds(r)'
    BY <1>0 DEF Alone
  <2>1. Progress(r)
    BY <1>0 DEF ReloadInv, Alone
  <2>2. Progress(r)'
    BY <1>0, <1>1, <2>1 DEF Progress
  <2> QED BY <1>0, <1>2, <2>2 DEF ReloadInv, Alone
<1> QED BY <1>3, <1>4, <1>5, <1>6 DEF ReloadInv

(* The swap: the request gives the backend it built and takes the one that *)
(* was live.                                                               *)
LEMMA ReplaceInv == ASSUME ReloadSettings, ReloadInv, NEW r \in RE!Requests, RE!ReplaceBackend(r) PROVE ReloadInv'
<1>0. /\ ReloadTypeOK /\ req[r].pc = "replace" /\ Holds(r) /\ UNCHANGED <<saved, cluster, configs, running, overlap>>
      /\ live' = req[r].backend /\ req' = [req EXCEPT ![r] = [pc |-> "stop", backend |-> live]]
  BY DEF ReloadInv, RE!ReplaceBackend, Holds
<1>1. live \in Nat /\ live \in Backends
  BY <1>0 DEF ReloadTypeOK
<1>2. /\ req'[r].pc = "stop" /\ req'[r].backend = live
      /\ \A q \in RE!Requests : q # r => req'[q] = req[q]
      /\ req' \in [RE!Requests -> [pc : PCs, backend : Nat]]
  BY <1>0, <1>1 DEF ReloadTypeOK
<1>3. \A q \in RE!Requests : Holds(q)' <=> Holds(q)
  BY <1>0, <1>2 DEF Holds
<1>4. req[r].backend \in Backends /\ req[r].backend # live
  BY <1>0 DEF ReloadInv, Owned
<1>5. ReloadTypeOK'
  BY <1>0, <1>2, <1>4 DEF ReloadTypeOK
<1>6. Owned'
  BY <1>0, <1>1, <1>2, <1>3, <1>4 DEF ReloadInv, Owned
<1>7. Prepared'
  BY <1>0, <1>2 DEF ReloadInv, Prepared
<1>8. LiveRuns'
  BY <1>0 DEF ReloadInv, Prepared, LiveRuns
<1>9. NoStray'
  <2> SUFFICES ASSUME NEW b \in running, b # req[r].backend
               PROVE  \E q \in RE!Requests : Holds(q)' /\ req'[q].backend = b
    BY <1>0 DEF NoStray
  <2>1. CASE b = live
    BY <1>0, <1>2, <1>3, <2>1
  <2>2. CASE b # live
    <3>1. PICK q \in RE!Requests : Holds(q) /\ req[q].backend = b
      BY <2>2 DEF ReloadInv, NoStray
    <3> QED BY <1>2, <1>3, <3>1
  <2> QED BY <2>1, <2>2
<1>10. Alone'
  <2> SUFFICES ASSUME ~overlap
               PROVE  /\ \A q, t \in RE!Requests : Holds(q)' /\ Holds(t)' => q = t
                      /\ Progress(r)' /\ Holds(r)'
    BY <1>0 DEF Alone
  <2>1. Progress(r)
    BY <1>0 DEF ReloadInv, Alone
  <2>2. configs[req[r].backend] = Snapshots[r]
    BY <1>0 DEF ReloadInv, Prepared
  <2>3. Progress(r)'
    BY <1>0, <1>2, <2>1, <2>2 DEF Progress
  <2> QED BY <1>0, <1>3, <2>3 DEF ReloadInv, Alone
<1> QED BY <1>5, <1>6, <1>7, <1>8, <1>9, <1>10 DEF ReloadInv

LEMMA ShutdownInv == ASSUME ReloadSettings, ReloadInv, NEW r \in RE!Requests, RE!ShutdownReplaced(r) PROVE ReloadInv'
BY FinishInv DEF RE!ShutdownReplaced, RE!Stopped, Holds

LEMMA RestartInv == ASSUME ReloadSettings, ReloadInv, RE!Restart PROVE ReloadInv'
<1>0. /\ ReloadTypeOK /\ saved' = saved /\ RE!StartConfig' = RE!StartConfig /\ RE!StartConfig \in Configs
  BY StartTyped DEF ReloadInv, RE!Restart, RE!StartConfig
<1>1. /\ cluster' = RE!StartConfig /\ configs' = <<RE!StartConfig>> /\ live' = 1 /\ overlap' = FALSE
      /\ running' = IF RE!Replicates(RE!StartConfig) THEN {1} ELSE {}
  BY DEF RE!Restart
<1>2. Len(configs') = 1 /\ configs' \in Seq(Configs) /\ configs'[1] = RE!StartConfig
  BY <1>0, <1>1
<1>3. req' \in [RE!Requests -> [pc : PCs, backend : Nat]] /\ \A q \in RE!Requests : ~Holds(q)'
  <2>1. req' = [q \in RE!Requests |-> IF q \in RE!Working THEN [pc |-> "failed", backend |-> 0] ELSE req[q]]
    BY DEF RE!Restart
  <2>2. \A q \in RE!Requests : req'[q] \in [pc : PCs, backend : Nat]
    BY <1>0, <2>1 DEF ReloadTypeOK
  <2>3. \A q \in RE!Requests : req'[q].pc \in {"idle", "ok", "failed"}
    BY <2>1 DEF RE!Working
  <2> QED BY <2>1, <2>2, <2>3 DEF Holds
<1>4. ReloadTypeOK'
  <2>1. live' \in 1..Len(configs') /\ running' \subseteq 1..Len(configs')
    BY <1>1, <1>2
  <2>2. saved' \in Configs \cup {RE!None} /\ cluster' \in Configs /\ overlap' \in BOOLEAN
    BY <1>0, <1>1 DEF ReloadTypeOK
  <2> QED BY <1>2, <1>3, <2>1, <2>2 DEF ReloadTypeOK
<1>5. Owned' /\ Prepared'
  BY <1>3 DEF Owned, Prepared, Holds
<1>6. LiveRuns' /\ NoStray'
  <2>1. configs'[live'] = RE!StartConfig
    BY <1>1, <1>2
  <2>2. LiveRuns'
    BY <1>1, <2>1 DEF LiveRuns
  <2>3. \A b \in running' : b = live'
    BY <1>1
  <2>4. NoStray'
    BY <2>3 DEF NoStray
  <2> QED BY <2>2, <2>4
<1>7. Alone'
  BY <1>0, <1>1, <1>2, <1>3 DEF Alone
<1> QED BY <1>4, <1>5, <1>6, <1>7 DEF ReloadInv

LEMMA OtherReloadSteps ==
  ASSUME ReloadInv, UNCHANGED <<saved, cluster, live, configs, running, req, overlap>>
  PROVE  ReloadInv'
<1>1. ReloadTypeOK' /\ Owned' /\ Prepared' /\ LiveRuns' /\ NoStray'
  BY DEF ReloadInv, ReloadTypeOK, Owned, Prepared, LiveRuns, NoStray, Holds
<1>2. Alone'
  BY DEF ReloadInv, Alone, Progress, Holds, RE!StartConfig
<1> QED BY <1>1, <1>2 DEF ReloadInv

LEMMA ReloadInit == ASSUME ReloadSettings, RE!Init PROVE ReloadInv
<1>1. /\ EnvConfig \in Configs /\ configs = <<EnvConfig>> /\ live = 1 /\ cluster = EnvConfig
      /\ saved = RE!None /\ running = IF RE!Replicates(EnvConfig) THEN {1} ELSE {}
      /\ overlap = FALSE
  BY DEF ReloadSettings, RE!Init
<1>2. Len(configs) = 1 /\ configs \in Seq(Configs) /\ configs[1] = EnvConfig
  BY <1>1
<1>3. req \in [RE!Requests -> [pc : PCs, backend : Nat]] /\ \A q \in RE!Requests : ~Holds(q)
  BY DEF RE!Init, Holds
<1>4. ReloadTypeOK
  <2>1. live \in 1..Len(configs) /\ running \subseteq 1..Len(configs)
    BY <1>1, <1>2
  <2> QED BY <1>1, <1>2, <1>3, <2>1 DEF ReloadTypeOK
<1>5. Owned /\ Prepared /\ LiveRuns /\ NoStray
  BY <1>1, <1>2, <1>3 DEF Owned, Prepared, LiveRuns, NoStray, Holds
<1>6. Alone
  BY <1>1, <1>2, <1>3 DEF Alone, RE!StartConfig
<1> QED BY <1>4, <1>5, <1>6 DEF ReloadInv

LEMMA ReloadNext == ASSUME ReloadSettings, ReloadInv, [RE!Next]_reloadVars PROVE ReloadInv'
<1>1. ASSUME NEW r \in RE!Requests, RE!PutClusterConfig(r) \/ RE!Step(r) PROVE ReloadInv'
  BY <1>1, PutInv, SaveInv, UpdateInv, ReplaceInv, ShutdownInv DEF RE!Step
<1>2. CASE RE!Restart
  BY <1>2, RestartInv
<1>3. CASE RE!TakeBackend \/ RE!Write \/ RE!Delivery \/ UNCHANGED reloadVars
  BY <1>3, OtherReloadSteps DEF RE!TakeBackend, RE!Write, RE!Delivery, RE!Deliver, reloadVars
<1> QED BY <1>1, <1>2, <1>3 DEF RE!Next

HIDE DEF PCs, Backends

-----------------------------------------------------------------------------
(* Scrub, recompression, migration and dictionaries (Maintenance).         *)

Blobs ==
    [ver : Nat \ {0}, format : {"raw", "indexed", "legacy"}, level : {0, 1}, dict : Nat,
     nested : BOOLEAN, damaged : BOOLEAN]

(* What is stored at the start: finitely many objects, in any encoding     *)
(* that needs no trained dictionary.                                       *)
StoredBlobs ==
    /\ IsFiniteSet(MT!Objects) /\ MT!Objects \subseteq Nat \X Nat
    /\ Stored \in [MT!Objects -> Blobs]
    /\ \A o \in MT!Objects : Stored[o].dict = 0

Batches ==
    [pc : {"next", "saving", "blob", "recheck", "staged"}, todo : SUBSET MT!Objects, truncated : BOOLEAN,
     last : Nat, dict : Nat, obj : MT!Objects \cup {<<0, 0>>}, saw : Blobs \cup {MT!NoBlob}, ver : Nat]

MaintTypeOK ==
    /\ row \in [MT!Objects -> Nat]
    /\ blob \in [MT!Objects -> Blobs \cup {MT!NoBlob}]
    /\ lock \in [MT!Objects -> {"free", "put", "delete"}]
    /\ walk \in [MT!Walks -> Batches \cup {MT!Idle}]
    /\ dicts \subseteq Nat /\ IsFiniteSet(dicts)
    /\ loaded \subseteq dicts
    /\ trainer \in Nat

(* A walk that looks at an object has one, and has read what it rewrites.  *)
Looking ==
    \A w \in MT!Walks :
        /\ walk[w].pc \in {"blob", "recheck", "staged"} => walk[w].obj \in MT!Objects
        /\ walk[w].pc = "staged" => walk[w].saw \in Blobs

Known(d) == d \in loaded \cup {0}

(* Whatever a blob was or will be compressed with is registered, and a     *)
(* restart registers it again.                                             *)
DictsThere ==
    /\ \A o \in MT!Objects : blob[o] # MT!NoBlob => Known(blob[o].dict)
    /\ \A w \in MT!Walks : walk[w] # MT!Idle => Known(walk[w].dict)

MaintInv == MaintTypeOK /\ Looking /\ DictsThere /\ MT!SwapKeepsObject /\ MT!NoFalseAlarm

USE DEF MT!Walks
-----------------------------------------------------------------------------
(* A finite set of numbers has a greatest one.                             *)
LEMMA MaxThere ==
  ASSUME NEW S, S \subseteq Nat, IsFiniteSet(S), S # {}
  PROVE  MT!Max(S) \in S
<1>1. PICK x \in S : \A y \in S : x >= y
  BY GreatestNat
<1> QED BY <1>1 DEF MT!Max

LEMMA CurrentKnown ==
  ASSUME MaintTypeOK
  PROVE  MT!CurrentDict \in Nat /\ Known(MT!CurrentDict)
<1>1. IsFiniteSet(loaded) /\ loaded \subseteq Nat
  BY FS_Subset DEF MaintTypeOK
<1>2. PICK S : S = {0} \cup loaded
  OBVIOUS
<1>3. S = loaded \cup {0} /\ S \subseteq Nat /\ S # {}
  BY <1>1, <1>2
<1>4. IsFiniteSet(S)
  BY <1>1, <1>3, FS_AddElement
<1>5. MT!Max(S) \in S
  BY <1>3, <1>4, MaxThere
<1>6. MT!CurrentDict \in S
  BY <1>2, <1>5 DEF MT!CurrentDict
<1> QED BY <1>3, <1>6 DEF Known

LEMMA NotNoBlob ==
  ASSUME NEW f \in Blobs
  PROVE  f # MT!NoBlob /\ f.ver # 0
<1>1. MT!NoBlob.ver = 0
  BY DEF MT!NoBlob
<1> QED BY <1>1 DEF Blobs

LEMMA UploadedTyped ==
  ASSUME MaintTypeOK, NEW o, NEW v \in Nat \ {0}
  PROVE  /\ MT!Uploaded(o, v) \in Blobs /\ MT!Uploaded(o, v).ver = v
         /\ Known(MT!Uploaded(o, v).dict)
<1>1. PICK d \in Nat : d = MT!CurrentDict /\ Known(d)
  BY CurrentKnown
<1>2. Known(0)
  BY DEF Known
<1> QED BY <1>1, <1>2 DEF MT!Uploaded, Blobs

(* Encoding a blob again keeps its content.                                *)
LEMMA ReencodedTyped ==
  ASSUME NEW w, NEW o, NEW f \in Blobs, NEW d \in Nat
  PROVE  /\ MT!Reencoded(w, o, f, d) \in Blobs /\ MT!Reencoded(w, o, f, d).ver = f.ver
         /\ MT!Reencoded(w, o, f, d).dict \in {0, d, f.dict}
<1> DEFINE g == [f EXCEPT !.nested = @ /\ w # "migrate"]
<1>1. g \in Blobs /\ g.ver = f.ver /\ g.dict = f.dict
  BY DEF Blobs
<1>2. [g EXCEPT !.format = "indexed", !.level = 1, !.dict = d] \in Blobs
  BY <1>1 DEF Blobs
<1>3. [g EXCEPT !.format = "raw", !.dict = 0] \in Blobs
  BY <1>1 DEF Blobs
<1>4. /\ [g EXCEPT !.format = "indexed", !.level = 1, !.dict = d].ver = f.ver
      /\ [g EXCEPT !.format = "indexed", !.level = 1, !.dict = d].dict = d
      /\ [g EXCEPT !.format = "raw", !.dict = 0].ver = f.ver
      /\ [g EXCEPT !.format = "raw", !.dict = 0].dict = 0
  BY <1>1 DEF Blobs
<1> HIDE DEF g
<1>5. MT!Reencoded(w, o, f, d) \in {[g EXCEPT !.format = "indexed", !.level = 1, !.dict = d],
                                 [g EXCEPT !.format = "raw", !.dict = 0], g}
  BY DEF MT!Reencoded, g
<1> QED BY <1>1, <1>2, <1>3, <1>4, <1>5

(* A file with the stamp of the one that was read has its content.         *)
LEMMA SameStamp ==
  ASSUME MaintTypeOK, NEW o \in MT!Objects, NEW f \in Blobs, MT!Unchanged(o, f)
  PROVE  blob[o] \in Blobs /\ blob[o].ver = f.ver /\ blob[o].dict = f.dict
<1> DEFINE g == [f EXCEPT !.damaged = FALSE]
<1>1. g \in Blobs /\ g.ver = f.ver /\ g.dict = f.dict
  BY DEF Blobs
<1>2. g # MT!NoBlob
  BY <1>1, NotNoBlob
<1>3. g = IF blob[o] = MT!NoBlob THEN MT!NoBlob ELSE [blob[o] EXCEPT !.damaged = FALSE]
  BY DEF MT!Unchanged
<1>4. blob[o] # MT!NoBlob /\ blob[o] \in Blobs /\ g = [blob[o] EXCEPT !.damaged = FALSE]
  BY <1>2, <1>3 DEF MaintTypeOK
<1> HIDE DEF g
<1>5. [blob[o] EXCEPT !.damaged = FALSE].ver = blob[o].ver /\ [blob[o] EXCEPT !.damaged = FALSE].dict = blob[o].dict
  BY <1>4 DEF Blobs
<1> QED BY <1>1, <1>4, <1>5

LEMMA BatchTyped ==
  ASSUME StoredBlobs, MaintTypeOK, NEW a
  PROVE  /\ MT!Batch(MT!ListKeyPage(a)) \in Batches /\ MT!Batch(MT!ListKeyPage(a)).pc = "next"
         /\ Known(MT!Batch(MT!ListKeyPage(a)).dict)
<1>1. ASSUME NEW rs, rs \subseteq MT!Objects, NEW t \in BOOLEAN
      PROVE  MT!EndingAtLastRow(rs, t) \in [rows : SUBSET MT!Objects, truncated : BOOLEAN, last : Nat]
  <2>1. IsFiniteSet(rs)
    BY <1>1, FS_Subset DEF StoredBlobs
  <2>2. PICK K : K = MT!KeysOf(rs)
    OBVIOUS
  <2>3. K \subseteq Nat
    BY <1>1, <2>2 DEF MT!KeysOf, StoredBlobs
  <2>4. IsFiniteSet(K)
    <3> DEFINE key == [o \in rs |-> o[1]]
    <3>1. key \in Surjection(rs, K)
      BY <2>2 DEF Surjection, MT!KeysOf
    <3> HIDE DEF key
    <3> QED BY <2>1, <3>1, FS_Surjection
  <2>5. IsFiniteSet(K \cup {0}) /\ K \cup {0} \subseteq Nat /\ {0} \cup K = K \cup {0}
    BY <2>3, <2>4, FS_AddElement
  <2>6. MT!Max({0} \cup K) \in Nat
    BY <2>5, MaxThere
  <2> QED BY <1>1, <2>2, <2>6 DEF MT!EndingAtLastRow
<1>2. MT!ActiveAfter(a) \subseteq MT!Objects
  BY DEF MT!ActiveAfter
<1>3. MT!ListKeyPage(a) \in [rows : SUBSET MT!Objects, truncated : BOOLEAN, last : Nat]
  <2> DEFINE all == MT!ActiveAfter(a)
             rs == {o \in all : MT!Cardinality({p \in all : p[1] <= o[1]}) <= Limit}
             equal == {o \in all : \A p \in all : o[1] <= p[1]}
  <2>1. rs \subseteq MT!Objects /\ equal \subseteq MT!Objects /\ all \subseteq MT!Objects /\ (equal # all) \in BOOLEAN
    BY <1>2
  <2>2. MT!ListKeyPage(a) \in {MT!EndingAtLastRow(all, FALSE), MT!EndingAtLastRow(rs, TRUE),
                            MT!EndingAtLastRow(equal, equal # all)}
    BY DEF MT!ListKeyPage
  <2> HIDE DEF all, rs, equal
  <2> QED BY <1>1, <2>1, <2>2
<1>4. PICK p \in [rows : SUBSET MT!Objects, truncated : BOOLEAN, last : Nat] : p = MT!ListKeyPage(a)
  BY <1>3
<1>5. MT!Batch(p) \in Batches /\ MT!Batch(p).pc = "next" /\ MT!Batch(p).dict = MT!CurrentDict
  BY CurrentKnown DEF MT!Batch, Batches
<1> QED BY <1>4, <1>5, CurrentKnown

-----------------------------------------------------------------------------
(* A step that moves one walk, and touches no object.                      *)
LEMMA WalkInv ==
  ASSUME MaintInv, NEW w \in MT!Walks, NEW b \in Batches \cup {MT!Idle},
         walk' = [walk EXCEPT ![w] = b],
         b.pc \in {"blob", "recheck", "staged"} => b.obj \in MT!Objects,
         b.pc = "staged" => b.saw \in Blobs,
         b # MT!Idle => Known(b.dict),
         \A a \in alarms' : a.broken,
         UNCHANGED <<row, blob, lock, dicts, loaded, trainer>>
  PROVE  MaintInv'
<1>1. MaintTypeOK'
  BY DEF MaintInv, MaintTypeOK
<1>2. walk'[w] = b /\ \A v \in MT!Walks : v # w => walk'[v] = walk[v]
  BY DEF MaintInv, MaintTypeOK
<1>3. Looking'
  BY <1>2 DEF MaintInv, Looking
<1>4. DictsThere'
  BY <1>2 DEF MaintInv, DictsThere, Known
<1>5. MT!SwapKeepsObject' /\ MT!NoFalseAlarm'
  BY DEF MaintInv, MT!SwapKeepsObject, MT!NoFalseAlarm
<1> QED BY <1>1, <1>3, <1>4, <1>5 DEF MaintInv

(* A step that replaces the row, lock and blob of one object.              *)
LEMMA ObjectInv ==
  ASSUME MaintInv, NEW o \in MT!Objects, NEW v \in Nat, NEW f \in Blobs \cup {MT!NoBlob}, NEW l \in {"free", "put", "delete"},
         row' = [row EXCEPT ![o] = v], blob' = [blob EXCEPT ![o] = f], lock' = [lock EXCEPT ![o] = l],
         l = "free" /\ f # MT!NoBlob => f.ver = v,
         f # MT!NoBlob => Known(f.dict),
         UNCHANGED <<walk, alarms, dicts, loaded, trainer>>
  PROVE  MaintInv'
<1>1. MaintTypeOK'
  BY DEF MaintInv, MaintTypeOK
<1>2. /\ row'[o] = v /\ blob'[o] = f /\ lock'[o] = l
      /\ \A p \in MT!Objects : p # o => row'[p] = row[p] /\ blob'[p] = blob[p] /\ lock'[p] = lock[p]
  BY DEF MaintInv, MaintTypeOK
<1>3. Looking' /\ MT!NoFalseAlarm'
  BY DEF MaintInv, Looking, MT!NoFalseAlarm
<1>4. DictsThere'
  BY <1>2 DEF MaintInv, DictsThere, Known
<1>5. MT!SwapKeepsObject'
  BY <1>2 DEF MaintInv, MT!SwapKeepsObject
<1> QED BY <1>1, <1>3, <1>4, <1>5 DEF MaintInv

(* The row, blob and lock that a step leaves as they are.                  *)
LEMMA Same ==
  ASSUME MaintTypeOK, NEW o \in MT!Objects
  PROVE  /\ row = [row EXCEPT ![o] = row[o]] /\ blob = [blob EXCEPT ![o] = blob[o]] /\ lock = [lock EXCEPT ![o] = lock[o]]
         /\ row[o] \in Nat /\ blob[o] \in Blobs \cup {MT!NoBlob} /\ lock[o] \in {"free", "put", "delete"}
BY DEF MaintTypeOK

LEMMA ClientInv ==
  ASSUME MaintInv, NEW o \in MT!Objects, MT!PutSwap(o) \/ MT!PutCommit(o) \/ MT!DeleteRow(o) \/ MT!DropBlob(o) \/ MT!Harm(o)
  PROVE  MaintInv'
<1>0. MaintTypeOK /\ UNCHANGED <<walk, alarms, dicts, loaded, trainer>>
  BY DEF MaintInv, MT!PutSwap, MT!PutCommit, MT!DeleteRow, MT!DropBlob, MT!Harm
<1>1. blob[o] # MT!NoBlob => Known(blob[o].dict) /\ blob[o] \in Blobs
  BY <1>0, Same DEF MaintInv, DictsThere
<1>2. lock[o] = "free" /\ blob[o] # MT!NoBlob => blob[o].ver = row[o]
  BY DEF MaintInv, MT!SwapKeepsObject
<1>3. blob[o].ver \in Nat /\ row[o] \in Nat
  BY <1>0, Same DEF Blobs, MT!NoBlob
<1>4. CASE MT!PutSwap(o)
  <2>1. PICK v \in Nat \ {0} : v = MT!Max({row[o], blob[o].ver}) + 1
    <3>1. MT!Max({row[o], blob[o].ver}) \in Nat
      BY <1>3 DEF MT!Max
    <3> QED BY <3>1
  <2>2. PICK f \in Blobs : f = MT!Uploaded(o, v) /\ Known(f.dict)
    BY <1>0, UploadedTyped
  <2>3. blob' = [blob EXCEPT ![o] = f] /\ lock' = [lock EXCEPT ![o] = "put"] /\ row' = [row EXCEPT ![o] = row[o]]
    BY <1>0, <1>4, <2>1, <2>2, Same DEF MT!PutSwap
  <2> QED BY <1>0, <1>3, <2>2, <2>3, ObjectInv
<1>5. CASE MT!PutCommit(o)
  <2>1. blob' = [blob EXCEPT ![o] = blob[o]] /\ lock' = [lock EXCEPT ![o] = "free"] /\ row' = [row EXCEPT ![o] = blob[o].ver]
    BY <1>0, <1>5, Same DEF MT!PutCommit
  <2> QED BY <1>0, <1>1, <1>3, <2>1, Same, ObjectInv
<1>6. CASE MT!DeleteRow(o)
  <2>1. blob' = [blob EXCEPT ![o] = blob[o]] /\ lock' = [lock EXCEPT ![o] = "delete"] /\ row' = [row EXCEPT ![o] = 0]
    BY <1>0, <1>6, Same DEF MT!DeleteRow
  <2> QED BY <1>0, <1>1, <2>1, Same, ObjectInv
<1>7. CASE MT!DropBlob(o)
  <2>1. blob' = [blob EXCEPT ![o] = MT!NoBlob] /\ lock' = [lock EXCEPT ![o] = "free"] /\ row' = [row EXCEPT ![o] = row[o]]
    BY <1>0, <1>7, Same DEF MT!DropBlob
  <2> QED BY <1>0, <1>3, <2>1, ObjectInv
<1>8. CASE MT!Harm(o)
  <2>1. /\ lock' = [lock EXCEPT ![o] = "free"] /\ row' = [row EXCEPT ![o] = row[o]] /\ blob[o] # MT!NoBlob
        /\ lock[o] = "free"
    BY <1>0, <1>8, Same DEF MT!Harm
  <2>2. CASE blob' = [blob EXCEPT ![o] = MT!NoBlob]
    BY <1>0, <1>3, <2>1, <2>2, ObjectInv
  <2>3. CASE blob' = [blob EXCEPT ![o].damaged = TRUE]
    <3>1. PICK f : f = [blob[o] EXCEPT !.damaged = TRUE]
      OBVIOUS
    <3>2. f \in Blobs /\ f.ver = blob[o].ver /\ f.dict = blob[o].dict
      BY <1>1, <2>1, <3>1 DEF Blobs
    <3>3. blob' = [blob EXCEPT ![o] = f]
      BY <2>3, <3>1
    <3> QED BY <1>0, <1>1, <1>2, <1>3, <2>1, <3>2, <3>3, ObjectInv
  <2> QED BY <1>8, <2>2, <2>3 DEF MT!Harm
<1> QED BY <1>4, <1>5, <1>6, <1>7, <1>8

LEMMA BatchFacts ==
  ASSUME MaintTypeOK, NEW w \in MT!Walks, walk[w].pc # "idle"
  PROVE  walk[w] \in Batches /\ walk[w] # MT!Idle
<1>1. MT!Idle.pc = "idle"
  BY DEF MT!Idle
<1> QED BY <1>1 DEF MaintTypeOK

LEMMA OverTyped ==
  ASSUME NEW b \in Batches
  PROVE  MT!ScrubOver(b) \in Batches /\ MT!ScrubOver(b).pc = "next" /\ MT!ScrubOver(b).dict = b.dict
BY DEF MT!ScrubOver, Batches

LEMMA IdlePc == MT!Idle.pc = "idle"
BY DEF MT!Idle

(* Pages and cursors.                                                      *)
LEMMA PageInv ==
  ASSUME StoredBlobs, MaintInv, NEW w \in MT!Walks,
         MT!StartBatch(w) \/ MT!SaveCursor(w) \/ (w = "scrub" /\ (MT!SaveScrubEpoch \/ MT!SaveScrubCursor))
  PROVE  MaintInv'
<1>0. /\ MaintTypeOK /\ UNCHANGED <<row, blob, lock, alarms, dicts, loaded, trainer>> /\ \A a \in alarms' : a.broken
  BY DEF MaintInv, MT!NoFalseAlarm, MT!StartBatch, MT!SaveCursor, MT!SaveScrubEpoch, MT!SaveScrubCursor
<1>1. CASE MT!StartBatch(w)
  <2>1. PICK b : b = MT!Batch(MT!ListKeyPage(cursor[w]))
    OBVIOUS
  <2>2. b \in Batches /\ b.pc = "next" /\ Known(b.dict)
    BY <1>0, <2>1, BatchTyped
  <2>3. walk' = [walk EXCEPT ![w] = b]
    BY <1>1, <2>1 DEF MT!StartBatch
  <2> QED BY <1>0, <2>2, <2>3, WalkInv
<1>2. CASE MT!SaveCursor(w) \/ (w = "scrub" /\ MT!SaveScrubCursor)
  <2>1. walk' = [walk EXCEPT ![w] = MT!Idle]
    BY <1>2 DEF MT!SaveCursor, MT!SaveScrubCursor
  <2> QED BY <1>0, <2>1, IdlePc, WalkInv
<1>3. CASE w = "scrub" /\ MT!SaveScrubEpoch
  <2>1. PICK b : b = [walk[w] EXCEPT !.pc = "saving"]
    OBVIOUS
  <2>2. walk[w] \in Batches /\ walk[w] # MT!Idle
    BY <1>0, <1>3, BatchFacts DEF MT!SaveScrubEpoch
  <2>3. b \in Batches /\ b.pc = "saving" /\ b.dict = walk[w].dict
    BY <2>1, <2>2 DEF Batches
  <2>4. Known(b.dict)
    BY <2>2, <2>3 DEF MaintInv, DictsThere
  <2>5. walk' = [walk EXCEPT ![w] = b]
    BY <1>3, <2>1 DEF MT!SaveScrubEpoch
  <2> QED BY <1>0, <2>3, <2>4, <2>5, WalkInv
<1> QED BY <1>1, <1>2, <1>3

(* The scrub reads a row, then the blob.                                   *)
LEMMA ScrubLookInv ==
  ASSUME StoredBlobs, MaintInv, (\E o \in MT!Objects : MT!ScrubRow(o)) \/ MT!ScrubBlob
  PROVE  MaintInv'
<1> DEFINE b == walk["scrub"]
<1>0. /\ MaintTypeOK /\ UNCHANGED <<row, blob, lock, alarms, dicts, loaded, trainer>> /\ \A a \in alarms' : a.broken
      /\ "scrub" \in MT!Walks
  BY DEF MaintInv, MT!NoFalseAlarm, MT!ScrubRow, MT!ScrubBlob, MT!Suspect
<1>1. b \in Batches /\ b # MT!Idle /\ Known(b.dict)
  <2>1. b.pc # "idle"
    BY DEF MT!ScrubRow, MT!ScrubBlob
  <2>2. b \in Batches /\ b # MT!Idle
    BY <1>0, <2>1, BatchFacts
  <2> QED BY <1>0, <2>2 DEF MaintInv, DictsThere
<1>2. ASSUME NEW o \in MT!Objects, MT!ScrubRow(o) PROVE MaintInv'
  <2>1. PICK n : /\ walk' = [walk EXCEPT !["scrub"] = n]
                 /\ \/ n = [b EXCEPT !.pc = "blob", !.obj = o, !.ver = row[o], !.todo = @ \ {o}]
                    \/ n = [b EXCEPT !.todo = @ \ {o}] /\ b.pc = "next"
    BY <1>2 DEF MT!ScrubRow
  <2>2. row[o] \in Nat
    BY <1>0 DEF MaintTypeOK
  <2>3. /\ n \in Batches /\ n.dict = b.dict /\ n.pc \in {"blob", "next"}
        /\ n.pc = "blob" => n.obj = o
    <3>1. PICK c \in Batches : c = b
      BY <1>1
    <3>2. CASE n = [c EXCEPT !.pc = "blob", !.obj = o, !.ver = row[o], !.todo = @ \ {o}]
      BY <2>2, <3>1, <3>2 DEF Batches
    <3>3. CASE n = [c EXCEPT !.todo = @ \ {o}] /\ c.pc = "next"
      BY <3>1, <3>3 DEF Batches
    <3> QED BY <2>1, <3>1, <3>2, <3>3
  <2> QED BY <1>0, <1>1, <2>1, <2>3, WalkInv
<1>3. CASE MT!ScrubBlob
  <2>1. b.pc = "blob" /\ b.obj \in MT!Objects
    BY <1>0, <1>3 DEF MT!ScrubBlob, MaintInv, Looking
  <2>2. PICK n : /\ walk' = [walk EXCEPT !["scrub"] = n]
                 /\ n = MT!ScrubOver(b) \/ n = [b EXCEPT !.pc = "recheck"]
    BY <1>3 DEF MT!ScrubBlob, MT!Suspect
  <2>3. [b EXCEPT !.pc = "recheck"] \in Batches /\ [b EXCEPT !.pc = "recheck"].pc = "recheck"
        /\ [b EXCEPT !.pc = "recheck"].dict = b.dict /\ [b EXCEPT !.pc = "recheck"].obj = b.obj
    BY <1>1 DEF Batches
  <2>4. n \in Batches /\ n.dict = b.dict /\ n.pc \in {"next", "recheck"} /\ (n.pc = "recheck" => n.obj \in MT!Objects)
    BY <1>1, <2>1, <2>2, <2>3, OverTyped
  <2> QED BY <1>0, <1>1, <2>2, <2>4, WalkInv
<1> QED BY <1>2, <1>3

(* With writers of the key excluded the row and the blob belong together,  *)
(* and the dictionary of an intact blob is registered: what still looks    *)
(* broken is broken.                                                       *)
LEMMA ScrubRecheckInv == ASSUME StoredBlobs, MaintInv, MT!ScrubRecheck PROVE MaintInv'
<1> DEFINE b == walk["scrub"]
           o == b.obj
           f == blob[o]
<1>0. /\ MaintTypeOK /\ UNCHANGED <<row, blob, lock, dicts, loaded, trainer>> /\ "scrub" \in MT!Walks
      /\ b.pc = "recheck" /\ lock[o] = "free" /\ walk' = [walk EXCEPT !["scrub"] = MT!ScrubOver(b)]
  BY DEF MaintInv, MT!ScrubRecheck
<1>1. b \in Batches /\ b # MT!Idle /\ Known(b.dict) /\ o \in MT!Objects
  <2>1. b \in Batches /\ b # MT!Idle
    BY <1>0, BatchFacts
  <2> QED BY <1>0, <2>1 DEF MaintInv, DictsThere, Looking
<1>2. f = MT!NoBlob \/ (f # MT!NoBlob /\ f.ver = row[o] /\ Known(f.dict))
  BY <1>0, <1>1 DEF MaintInv, MT!SwapKeepsObject, DictsThere
<1>3. f = MT!NoBlob \/ f.damaged \/ MT!ScrubHealthy(row[o], f)
  BY <1>2 DEF MT!ScrubHealthy, MT!DictionaryForFrame, Known
<1>4. f # MT!NoBlob => f \in Blobs
  BY <1>0, <1>1 DEF MaintTypeOK
<1>5. \A a \in alarms' : a.broken
  <2>1. PICK x : x = (f = MT!NoBlob \/ f.damaged)
    OBVIOUS
  <2>2. alarms' = alarms \/ (alarms' = alarms \cup {[obj |-> o, broken |-> x]} /\ ~ (f # MT!NoBlob /\ MT!ScrubHealthy(row[o], f)))
    BY <2>1 DEF MT!ScrubRecheck
  <2>3. CASE alarms' = alarms
    BY <2>3 DEF MaintInv, MT!NoFalseAlarm
  <2>4. CASE alarms' = alarms \cup {[obj |-> o, broken |-> x]} /\ ~ (f # MT!NoBlob /\ MT!ScrubHealthy(row[o], f))
    <3>1. x
      BY <1>3, <2>1, <2>4
    <3>2. [obj |-> o, broken |-> x].broken
      BY <3>1
    <3> QED BY <2>4, <3>2 DEF MaintInv, MT!NoFalseAlarm
  <2> QED BY <2>2, <2>3, <2>4
<1>6. MT!ScrubOver(b) \in Batches /\ MT!ScrubOver(b).pc = "next" /\ MT!ScrubOver(b).dict = b.dict
  BY <1>1, OverTyped
<1> HIDE DEF b
<1> QED BY <1>0, <1>1, <1>5, <1>6, WalkInv

(* Recompression and migration.                                            *)
LEMMA ReadForRewriteInv ==
  ASSUME StoredBlobs, MaintInv, NEW w \in MT!Walks, NEW o \in MT!Objects, MT!ReadForRewrite(w, o)
  PROVE  MaintInv'
<1> DEFINE b == walk[w]
           f == blob[o]
<1>0. /\ MaintTypeOK /\ UNCHANGED <<row, blob, lock, alarms, dicts, loaded, trainer>> /\ \A a \in alarms' : a.broken
      /\ b.pc = "next"
  BY DEF MaintInv, MT!NoFalseAlarm, MT!ReadForRewrite
<1>1. b \in Batches /\ b # MT!Idle /\ Known(b.dict)
  <2>1. b \in Batches /\ b # MT!Idle
    BY <1>0, BatchFacts
  <2> QED BY <2>1 DEF MaintInv, DictsThere
<1>2. PICK n : /\ walk' = [walk EXCEPT ![w] = n]
               /\ \/ n = [b EXCEPT !.pc = "staged", !.obj = o, !.saw = f, !.todo = @ \ {o}] /\ f # MT!NoBlob
                  \/ n = [b EXCEPT !.todo = @ \ {o}]
  BY DEF MT!ReadForRewrite
<1>3. f # MT!NoBlob => f \in Blobs
  BY <1>0 DEF MaintTypeOK
<1>4. /\ n \in Batches /\ n.dict = b.dict /\ n.pc \in {"staged", "next"}
      /\ n.pc = "staged" => n.obj = o /\ n.saw \in Blobs
  <2>1. CASE n = [b EXCEPT !.pc = "staged", !.obj = o, !.saw = f, !.todo = @ \ {o}] /\ f # MT!NoBlob
    <3> HIDE DEF f, b
    <3> QED BY <1>1, <1>3, <2>1 DEF Batches
  <2>2. CASE n = [b EXCEPT !.todo = @ \ {o}]
    BY <1>0, <1>1, <2>2 DEF Batches
  <2> QED BY <1>2, <2>1, <2>2
<1> HIDE DEF b
<1> QED BY <1>0, <1>1, <1>2, <1>4, WalkInv

(* The swap: under the key lock, and only over the file that was read.     *)
LEMMA ReplaceBlobInv ==
  ASSUME StoredBlobs, MaintInv, NEW w \in MT!Walks, MT!ReplaceBlob(w)
  PROVE  MaintInv'
<1> DEFINE b == walk[w]
           o == b.obj
<1>0. /\ MaintTypeOK /\ UNCHANGED <<row, lock, alarms, dicts, loaded, trainer>>
      /\ b.pc = "staged" /\ lock[o] = "free" /\ walk' = [walk EXCEPT ![w] = MT!ScrubOver(b)]
      /\ blob' = IF MT!Unchanged(o, b.saw) THEN [blob EXCEPT ![o] = MT!Reencoded(w, o, b.saw, b.dict)] ELSE blob
  BY DEF MaintInv, MT!ReplaceBlob
<1>1. b \in Batches /\ b # MT!Idle /\ Known(b.dict) /\ o \in MT!Objects /\ b.saw \in Blobs
  <2>1. b \in Batches /\ b # MT!Idle
    BY <1>0, BatchFacts
  <2> QED BY <1>0, <2>1 DEF MaintInv, DictsThere, Looking
<1>2. MT!ScrubOver(b) \in Batches /\ MT!ScrubOver(b).pc = "next" /\ MT!ScrubOver(b).dict = b.dict /\ b.dict \in Nat
  BY <1>1, OverTyped DEF Batches
<1>3. PICK f : /\ f \in Blobs \cup {MT!NoBlob} /\ blob' = [blob EXCEPT ![o] = f]
               /\ f # MT!NoBlob => f.ver = row[o] /\ Known(f.dict)
  <2>0. blob[o] # MT!NoBlob => blob[o].ver = row[o] /\ Known(blob[o].dict)
    BY <1>0, <1>1 DEF MaintInv, MT!SwapKeepsObject, DictsThere
  <2>1. CASE ~ MT!Unchanged(o, b.saw)
    BY <1>0, <1>1, <2>0, <2>1, Same
  <2>2. CASE MT!Unchanged(o, b.saw)
    <3>1. blob[o] \in Blobs /\ blob[o].ver = b.saw.ver /\ blob[o].dict = b.saw.dict
      BY <1>0, <1>1, <2>2, SameStamp
    <3>2. PICK g \in Blobs : /\ g = MT!Reencoded(w, o, b.saw, b.dict) /\ g.ver = b.saw.ver
                             /\ g.dict \in {0, b.dict, b.saw.dict}
      BY <1>1, <1>2, ReencodedTyped
    <3>3. blob[o] # MT!NoBlob
      BY <3>1, NotNoBlob
    <3>4. g.ver = row[o] /\ Known(g.dict)
      BY <1>1, <2>0, <3>1, <3>2, <3>3 DEF Known
    <3>5. blob' = [blob EXCEPT ![o] = g]
      BY <1>0, <2>2, <3>2
    <3> QED BY <3>4, <3>5
  <2> QED BY <2>1, <2>2
<1> HIDE DEF b, o
<1>4. /\ walk'[w] = MT!ScrubOver(b) /\ \A v \in MT!Walks : v # w => walk'[v] = walk[v]
      /\ walk' \in [MT!Walks -> Batches \cup {MT!Idle}]
  BY <1>0, <1>2 DEF MaintTypeOK
<1>5. blob'[o] = f /\ \A p \in MT!Objects : p # o => blob'[p] = blob[p]
  BY <1>0, <1>1, <1>3 DEF MaintTypeOK
<1>6. MaintTypeOK'
  BY <1>0, <1>1, <1>3, <1>4 DEF MaintTypeOK
<1>7. Looking'
  BY <1>2, <1>4 DEF MaintInv, Looking
<1>8. DictsThere'
  BY <1>0, <1>1, <1>2, <1>3, <1>4, <1>5 DEF MaintInv, DictsThere, Known
<1>9. MT!SwapKeepsObject' /\ MT!NoFalseAlarm'
  BY <1>0, <1>3, <1>5 DEF MaintInv, MT!SwapKeepsObject, MT!NoFalseAlarm
<1> QED BY <1>6, <1>7, <1>8, <1>9 DEF MaintInv

(* Dictionaries are only ever added; a restart registers all of them.      *)
LEMMA DictInv ==
  ASSUME MaintInv, MT!TrainNext \/ MT!SaveDict \/ MT!TrainingFails
  PROVE  MaintInv'
<1>0. MaintTypeOK /\ UNCHANGED <<row, blob, lock, walk, alarms>> /\ loaded \subseteq loaded'
  BY DEF MaintInv, MT!TrainNext, MT!SaveDict, MT!TrainingFails
<1>1. trainer' \in Nat /\ dicts' \subseteq Nat /\ IsFiniteSet(dicts') /\ loaded' \subseteq dicts'
  <2>1. CASE MT!TrainNext
    <3>1. PICK S : S = dicts \cup {0}
      OBVIOUS
    <3>2. S \subseteq Nat /\ IsFiniteSet(S) /\ S # {} /\ S = {0} \cup dicts
      BY <1>0, <3>1, FS_AddElement DEF MaintTypeOK
    <3>3. MT!Max(S) \in Nat
      BY <3>2, MaxThere
    <3> QED BY <1>0, <2>1, <3>2, <3>3 DEF MaintTypeOK, MT!TrainNext
  <2>2. CASE MT!SaveDict
    BY <1>0, <2>2, FS_AddElement DEF MaintTypeOK, MT!SaveDict
  <2>3. CASE MT!TrainingFails
    BY <1>0, <2>3 DEF MaintTypeOK, MT!TrainingFails
  <2> QED BY <2>1, <2>2, <2>3
<1>2. MaintTypeOK'
  BY <1>0, <1>1 DEF MaintTypeOK
<1>3. Looking' /\ MT!SwapKeepsObject' /\ MT!NoFalseAlarm'
  BY <1>0 DEF MaintInv, Looking, MT!SwapKeepsObject, MT!NoFalseAlarm
<1>4. DictsThere'
  BY <1>0 DEF MaintInv, DictsThere, Known
<1> QED BY <1>2, <1>3, <1>4 DEF MaintInv

LEMMA MaintRestart == ASSUME MaintInv, MT!Restart PROVE MaintInv'
<1>0. /\ MaintTypeOK /\ UNCHANGED <<row, blob, lock, dicts, alarms>> /\ loaded' = dicts /\ trainer' = 0
      /\ walk' = [w \in MT!Walks |-> MT!Idle] /\ loaded \subseteq loaded'
  BY DEF MaintInv, MT!Restart, MT!LoadAll, MaintTypeOK
<1>1. \A w \in MT!Walks : walk'[w] = MT!Idle /\ walk'[w].pc = "idle"
  BY <1>0, IdlePc
<1>2. MaintTypeOK'
  BY <1>0 DEF MaintTypeOK
<1>3. Looking' /\ MT!SwapKeepsObject' /\ MT!NoFalseAlarm'
  BY <1>0, <1>1 DEF MaintInv, Looking, MT!SwapKeepsObject, MT!NoFalseAlarm
<1>4. DictsThere'
  BY <1>0, <1>1 DEF MaintInv, DictsThere, Known
<1> QED BY <1>2, <1>3, <1>4 DEF MaintInv

LEMMA MaintInit == ASSUME StoredBlobs, MT!Init PROVE MaintInv
<1>1. \A w \in MT!Walks : walk[w] = MT!Idle /\ walk[w].pc = "idle"
  BY IdlePc DEF MT!Init
<1>2. MaintTypeOK
  <2>1. row \in [MT!Objects -> Nat] /\ blob \in [MT!Objects -> Blobs \cup {MT!NoBlob}] /\ lock \in [MT!Objects -> {"free", "put", "delete"}]
    BY DEF MT!Init, StoredBlobs, Blobs
  <2>2. dicts \subseteq Nat /\ IsFiniteSet(dicts) /\ loaded \subseteq dicts /\ trainer \in Nat
    BY FS_EmptySet DEF MT!Init
  <2> QED BY <2>1, <2>2 DEF MT!Init, MaintTypeOK
<1>3. Looking /\ MT!SwapKeepsObject /\ MT!NoFalseAlarm
  BY <1>1 DEF MT!Init, Looking, MT!SwapKeepsObject, MT!NoFalseAlarm
<1>4. DictsThere
  BY <1>1 DEF MT!Init, DictsThere, Known, StoredBlobs
<1> QED BY <1>2, <1>3, <1>4 DEF MaintInv

LEMMA MaintNext == ASSUME StoredBlobs, MaintInv, [MT!Next]_maintenanceVars PROVE MaintInv'
<1>1. CASE UNCHANGED maintenanceVars
  <2>1. UNCHANGED <<row, blob, lock, walk, alarms, dicts, loaded, trainer>>
    BY <1>1 DEF maintenanceVars
  <2> QED BY <2>1 DEF MaintInv, MaintTypeOK, Looking, DictsThere, Known, MT!SwapKeepsObject, MT!NoFalseAlarm
<1>2. CASE MT!ScrubStep
  BY <1>2, PageInv, ScrubLookInv, ScrubRecheckInv DEF MT!ScrubStep
<1>3. ASSUME NEW w \in MT!Walks, MT!RewriteStep(w) PROVE MaintInv'
  BY <1>3, PageInv, ReadForRewriteInv, ReplaceBlobInv DEF MT!RewriteStep
<1>4. CASE MT!Finish \/ MT!TrainNext \/ MT!TrainingFails
  BY <1>4, DictInv, ClientInv DEF MT!Finish
<1>5. CASE MT!Restart
  BY <1>5, MaintRestart
<1>6. ASSUME NEW o \in MT!Objects, MT!PutSwap(o) \/ MT!DeleteRow(o) \/ MT!Harm(o) PROVE MaintInv'
  BY <1>6, ClientInv
<1> QED BY <1>1, <1>2, <1>3, <1>4, <1>5, <1>6 DEF MT!Next

HIDE DEF MT!Walks

-----------------------------------------------------------------------------
(* Upload budget and capacity (Admission).                                 *)

(* What the configuration parses to, and uploads whose length is known.    *)
AdmissionSettings ==
    /\ Uploads \in Seq([key : AD!Keys, size : Nat])
    /\ Cap \in Nat /\ MaxInFlight \in Nat /\ Unit \in Nat \ {0}

(* An upload's fields as functions of the upload, to add them up.          *)
Taken == [u \in AD!Ids |-> up[u].taken]
Bytes == [u \in AD!Ids |-> up[u].bytes]
Existing == [u \in AD!Ids |-> up[u].existing]

Swapping == {u \in AD!Ids : up[u].pc = "swap"}

Points == {"start", "refused", "exchange", "body", "check", "checking", "swap", "drop", "answered", "done"}

States == [pc : Points, seen : Nat, existing : Nat, taken : Nat, bytes : Nat]

AdmissionTypeOK ==
    /\ size \in [AD!Keys -> Nat]
    /\ keyLock \in [AD!Keys -> AD!Ids \cup {0}]
    /\ capLock \in AD!Ids \cup {0}
    /\ reserved \in Nat /\ budget \in Nat
    /\ up \in [AD!Ids -> States]

(* A key is locked by the upload between its lock and its release, which   *)
(* therefore still knows the size of the object it replaces; the capacity  *)
(* check is taken by the upload inside it.                                 *)
OneHolder ==
    /\ \A u \in AD!Ids : up[u].pc \in {"check", "checking", "swap", "drop"} => keyLock[Uploads[u].key] = u
    /\ \A u \in AD!Ids : up[u].pc \in {"check", "checking", "swap"} => up[u].existing = size[Uploads[u].key]
    /\ \A u \in AD!Ids : up[u].pc = "checking" => capLock = u

(* The reserved bytes are those of the uploads between admission and       *)
(* release, and what the check read of them is not less than what is left. *)
Reserved ==
    /\ reserved = AD!SumOver(Bytes, AD!Ids)
    /\ \A u \in AD!Ids : up[u].pc \notin {"swap", "drop"} => up[u].bytes = 0
    /\ \A u \in AD!Ids : up[u].pc = "swap" => up[u].bytes = Uploads[u].size
    /\ \A u \in AD!Ids : up[u].pc = "checking" => reserved <= up[u].seen

(* Whichever of the admitted uploads commit, the total stays within the    *)
(* cap: that is what an admission has to leave true.                       *)
AnyCommits ==
    \A A \in SUBSET Swapping : AD!Total + AD!SumOver(Bytes, A) <= Cap + AD!SumOver(Existing, A)

(* A permit is charged by the exchange of the value it was checked with.   *)
Charged ==
    /\ budget = AD!SumOver(Taken, AD!Ids) /\ budget <= MaxInFlight
    /\ \A u \in AD!Ids : up[u].pc \in {"start", "refused", "exchange", "done"} => up[u].taken = 0
    /\ \A u \in AD!Ids : up[u].pc = "exchange" => up[u].seen + AD!Need(u) <= MaxInFlight

AdmissionInv == AdmissionTypeOK /\ OneHolder /\ Reserved /\ AnyCommits /\ Charged

-----------------------------------------------------------------------------
(* Sums.                                                                   *)

LEMMA SumCounts ==
  ASSUME NEW f, NEW S
  PROVE  AD!SumOver(f, S) = Cardinality(AD!Units(f, S))
BY DEF AD!SumOver, AD!Cardinality, Cardinality

LEMMA UnitsOf ==
  ASSUME NEW S, NEW f, NEW x, NEW i
  PROVE  <<x, i>> \in AD!Units(f, S) <=> x \in S /\ i \in 1..f[x]
BY DEF AD!Units

LEMMA SumType ==
  ASSUME NEW T, NEW f \in [T -> Nat], NEW S \in SUBSET T, IsFiniteSet(S)
  PROVE  IsFiniteSet(AD!Units(f, S)) /\ AD!SumOver(f, S) \in Nat
<1> DEFINE G == [x \in S |-> {x} \X (1..f[x])]
           R == {{x} \X (1..f[x]) : x \in S}
<1>1. G \in Surjection(S, R)
  BY DEF Surjection
<1>2. IsFiniteSet(R)
  <2> HIDE DEF G, R
  <2> QED BY <1>1, FS_Surjection
<1>3. ASSUME NEW x \in S PROVE IsFiniteSet({x} \X (1..f[x]))
  <2>1. f[x] \in Nat
    OBVIOUS
  <2>2. IsFiniteSet(1..f[x])
    BY <2>1, FS_Interval
  <2>3. IsFiniteSet({x})
    BY FS_Singleton
  <2> QED BY <2>2, <2>3, FS_Product
<1>4. \A Q \in R : IsFiniteSet(Q)
  BY <1>3
<1>5. IsFiniteSet(UNION R)
  <2> HIDE DEF R
  <2> QED BY <1>2, <1>4, FS_UNION
<1>6. IsFiniteSet(AD!Units(f, S))
  BY <1>5 DEF AD!Units
<1> QED BY <1>6, FS_CardinalityType, SumCounts

LEMMA SumEmpty ==
  ASSUME NEW f
  PROVE  AD!SumOver(f, {}) = 0
<1>1. AD!Units(f, {}) = {}
  BY DEF AD!Units
<1> QED BY <1>1, FS_EmptySet, SumCounts

LEMMA SumAdd ==
  ASSUME NEW T, NEW f \in [T -> Nat], NEW S \in SUBSET T, IsFiniteSet(S),
         NEW u \in T, u \notin S
  PROVE  AD!SumOver(f, S \cup {u}) = AD!SumOver(f, S) + f[u]
<1> DEFINE N == {u} \X (1..f[u])
<1>1. AD!Units(f, S \cup {u}) = AD!Units(f, S) \cup N
  BY DEF AD!Units
<1>2. AD!Units(f, S) \cap N = {}
  BY DEF AD!Units
<1>3. IsFiniteSet(AD!Units(f, S)) /\ AD!SumOver(f, S) \in Nat
  BY SumType
<1>4. IsFiniteSet(N) /\ Cardinality(N) = f[u]
  <2>1. IsFiniteSet({u}) /\ Cardinality({u}) = 1
    BY FS_Singleton
  <2>2. f[u] \in Nat
    OBVIOUS
  <2>3. IsFiniteSet(1..f[u]) /\ Cardinality(1..f[u]) = f[u]
    BY <2>2, FS_Interval
  <2>4. IsFiniteSet(N) /\ Cardinality(N) = Cardinality({u}) * Cardinality(1..f[u])
    BY <2>1, <2>3, FS_Product
  <2> QED BY <2>1, <2>2, <2>3, <2>4
<1>5. Cardinality(AD!Units(f, S) \cup N) = Cardinality(AD!Units(f, S)) + Cardinality(N) - Cardinality(AD!Units(f, S) \cap N)
  <2> HIDE DEF N
  <2> QED BY <1>3, <1>4, FS_Union
<1>6. Cardinality(AD!Units(f, S) \cap N) = 0
  BY <1>2, FS_EmptySet
<1> HIDE DEF N
<1>7. AD!SumOver(f, S \cup {u}) = Cardinality(AD!Units(f, S) \cup N)
  BY <1>1, SumCounts
<1>8. AD!SumOver(f, S) = Cardinality(AD!Units(f, S)) /\ f[u] \in Nat
  BY SumCounts
<1> QED BY <1>3, <1>4, <1>5, <1>6, <1>7, <1>8

LEMMA SumAgree ==
  ASSUME NEW S, NEW f, NEW g, \A x \in S : f[x] = g[x]
  PROVE  AD!SumOver(f, S) = AD!SumOver(g, S)
<1>1. AD!Units(f, S) = AD!Units(g, S)
  BY DEF AD!Units
<1> QED BY <1>1, SumCounts

LEMMA SumSubset ==
  ASSUME NEW T, NEW f \in [T -> Nat], NEW S \in SUBSET T, IsFiniteSet(S), NEW A \in SUBSET S
  PROVE  AD!SumOver(f, A) <= AD!SumOver(f, S)
<1>1. AD!Units(f, A) \in SUBSET AD!Units(f, S)
  BY DEF AD!Units
<1>2. IsFiniteSet(AD!Units(f, S))
  BY SumType
<1> QED BY <1>1, <1>2, FS_Subset, SumCounts

(* A sum one of whose terms changes.                                       *)
LEMMA SumChange ==
  ASSUME NEW T, NEW f \in [T -> Nat], NEW g \in [T -> Nat], NEW S \in SUBSET T, IsFiniteSet(S),
         NEW u \in S, \A x \in S \ {u} : f[x] = g[x]
  PROVE  AD!SumOver(g, S) = AD!SumOver(f, S) - f[u] + g[u]
<1> DEFINE R == S \ {u}
<1>1. R \in SUBSET T /\ IsFiniteSet(R) /\ u \notin R /\ u \in T /\ R \cup {u} = S
  BY FS_RemoveElement
<1>2. \A x \in R : f[x] = g[x]
  OBVIOUS
<1> HIDE DEF R
<1>3. AD!SumOver(f, S) = AD!SumOver(f, R) + f[u]
  <2>1. AD!SumOver(f, R \cup {u}) = AD!SumOver(f, R) + f[u]
    BY <1>1, SumAdd
  <2> QED BY <1>1, <2>1, Zenon
<1>4. AD!SumOver(g, S) = AD!SumOver(g, R) + g[u]
  <2>1. AD!SumOver(g, R \cup {u}) = AD!SumOver(g, R) + g[u]
    BY <1>1, SumAdd
  <2> QED BY <1>1, <2>1, Zenon
<1>5. AD!SumOver(f, R) = AD!SumOver(g, R)
  BY <1>2, SumAgree
<1>6. AD!SumOver(f, R) \in Nat /\ f[u] \in Nat /\ g[u] \in Nat
  BY <1>1, SumType
<1> QED BY <1>1, <1>3, <1>4, <1>5, <1>6

-----------------------------------------------------------------------------
(* Constants.                                                              *)

LEMMA Elements ==
  ASSUME NEW T, NEW s \in Seq(T)
  PROVE  /\ Len(s) \in Nat /\ DOMAIN s = 1..Len(s)
         /\ \A i \in DOMAIN s : s[i] \in T
OBVIOUS

LEMMA LimitTypes ==
  ASSUME AdmissionSettings
  PROVE  /\ IsFiniteSet(AD!Ids) /\ 0 \notin AD!Ids /\ IsFiniteSet(AD!Keys)
         /\ \A u \in AD!Ids : Uploads[u].size \in Nat /\ Uploads[u].key \in AD!Keys
         /\ Cap \in Nat /\ MaxInFlight \in Nat /\ Unit \in Nat \ {0}
<1>1. Uploads \in Seq([key : AD!Keys, size : Nat])
  BY DEF AdmissionSettings
<1>2. Len(Uploads) \in Nat /\ AD!Ids = 1..Len(Uploads)
  BY <1>1, Elements DEF AD!Ids
<1>3. IsFiniteSet(AD!Ids) /\ 0 \notin AD!Ids
  BY <1>2, FS_Interval
<1>4. \A u \in AD!Ids : Uploads[u] \in [key : AD!Keys, size : Nat]
  BY <1>1, Elements DEF AD!Ids
<1>5. \A u \in AD!Ids : Uploads[u].size \in Nat /\ Uploads[u].key \in AD!Keys
  BY <1>4
<1> DEFINE G == [u \in AD!Ids |-> Uploads[u].key]
<1>6. G \in Surjection(AD!Ids, AD!Keys)
  BY DEF Surjection, AD!Keys
<1>7. IsFiniteSet(AD!Keys)
  <2> HIDE DEF G
  <2> QED BY <1>3, <1>6, FS_Surjection
<1> QED BY <1>3, <1>5, <1>7 DEF AdmissionSettings

LEMMA NeedType ==
  ASSUME AdmissionSettings, NEW u \in AD!Ids
  PROVE  AD!Need(u) \in Nat
<1> DEFINE q == ((Uploads[u].size + Unit - 1) \div Unit) * Unit
           p == AD!PermitsFor(Uploads[u].size)
<1>1. Uploads[u].size \in Nat /\ Unit \in Nat \ {0} /\ MaxInFlight \in Nat
  BY LimitTypes
<1>2. q \in Int
  <2>1. (Uploads[u].size + Unit - 1) \div Unit \in Int
    BY <1>1
  <2> QED BY <1>1, <2>1
<1>3. p = AD!Max({Unit, q})
  BY DEF AD!PermitsFor
<1> HIDE DEF q, p
<1>4. AD!Max({Unit, q}) \in Nat
  BY <1>1, <1>2 DEF AD!Max
<1>5. AD!Need(u) = AD!Min({p, MaxInFlight})
  BY DEF AD!Need, p
<1>6. AD!Min({p, MaxInFlight}) \in Nat
  BY <1>1, <1>3, <1>4 DEF AD!Min
<1> QED BY <1>5, <1>6

-----------------------------------------------------------------------------
(* Sums in a step.                                                         *)

LEMMA SumTypes ==
  ASSUME AdmissionSettings, AdmissionInv
  PROVE  /\ AD!Total \in Nat
         /\ Bytes \in [AD!Ids -> Nat] /\ Existing \in [AD!Ids -> Nat] /\ Taken \in [AD!Ids -> Nat]
         /\ \A A \in SUBSET AD!Ids : IsFiniteSet(A) /\ AD!SumOver(Bytes, A) \in Nat /\ AD!SumOver(Existing, A) \in Nat
         /\ AD!SumOver(Taken, AD!Ids) \in Nat
<1>1. IsFiniteSet(AD!Ids) /\ IsFiniteSet(AD!Keys)
  BY LimitTypes
<1>2. AD!Total \in Nat
  <2>1. size \in [AD!Keys -> Nat]
    BY DEF AdmissionInv, AdmissionTypeOK
  <2> QED BY <1>1, <2>1, SumType DEF AD!Total
<1>3. Bytes \in [AD!Ids -> Nat] /\ Existing \in [AD!Ids -> Nat] /\ Taken \in [AD!Ids -> Nat]
  BY DEF AdmissionInv, AdmissionTypeOK, States, Bytes, Existing, Taken
<1>4. \A A \in SUBSET AD!Ids : IsFiniteSet(A)
  BY <1>1, FS_Subset
<1> QED BY <1>1, <1>2, <1>3, <1>4, SumType

(* A step that admits nobody and commits nothing.                          *)
LEMMA KeepCommits ==
  ASSUME AdmissionSettings, AdmissionInv, AD!Total' \in Nat, AD!Total' <= AD!Total, Swapping' \subseteq Swapping,
         \A v \in Swapping' : up'[v].bytes = up[v].bytes /\ up'[v].existing = up[v].existing
  PROVE  AnyCommits'
<1> SUFFICES ASSUME NEW A \in SUBSET Swapping'
             PROVE  AD!Total' + AD!SumOver(Bytes', A) <= Cap + AD!SumOver(Existing', A)
  BY DEF AnyCommits
<1>1. A \in SUBSET Swapping /\ A \in SUBSET AD!Ids
  BY DEF Swapping
<1>2. AD!SumOver(Bytes', A) = AD!SumOver(Bytes, A)
  <2>1. \A v \in A : Bytes'[v] = Bytes[v]
    BY <1>1 DEF Bytes
  <2> QED BY <2>1, SumAgree
<1>3. AD!SumOver(Existing', A) = AD!SumOver(Existing, A)
  <2>1. \A v \in A : Existing'[v] = Existing[v]
    BY <1>1 DEF Existing
  <2> QED BY <2>1, SumAgree
<1>4. AD!Total + AD!SumOver(Bytes, A) <= Cap + AD!SumOver(Existing, A)
  BY <1>1 DEF AdmissionInv, AnyCommits
<1>5. AD!Total \in Nat /\ AD!SumOver(Bytes, A) \in Nat /\ AD!SumOver(Existing, A) \in Nat /\ Cap \in Nat
  BY <1>1, SumTypes, LimitTypes
<1> QED BY <1>2, <1>3, <1>4, <1>5

-----------------------------------------------------------------------------
(* The steps.                                                              *)

LEMMA BudgetLoadStep ==
  ASSUME AdmissionSettings, AdmissionInv, NEW u \in AD!Ids, AD!BudgetLoad(u)
  PROVE  AdmissionInv'
<1>1. /\ up[u].pc = "start"
      /\ size' = size /\ keyLock' = keyLock /\ capLock' = capLock /\ reserved' = reserved /\ budget' = budget
  BY DEF AD!BudgetLoad
<1>2. AD!Need(u) \in Nat /\ MaxInFlight \in Nat
  BY NeedType, LimitTypes
<1>3. /\ \A v \in AD!Ids \ {u} : up'[v] = up[v]
      /\ up'[u].bytes = up[u].bytes /\ up'[u].existing = up[u].existing /\ up'[u].taken = up[u].taken
      /\ \/ up'[u].pc = "refused"
         \/ up'[u].pc = "exchange" /\ up'[u].seen = budget /\ ~ (budget + AD!Need(u) > MaxInFlight)
      /\ up' \in [AD!Ids -> States]
  <2>1. up \in [AD!Ids -> States] /\ budget \in Nat
    BY DEF AdmissionInv, AdmissionTypeOK
  <2>2. PICK c \in States : c = up[u]
    BY <2>1
  <2>3. PICK d : /\ up' = [up EXCEPT ![u] = d]
                 /\ \/ d = [c EXCEPT !.pc = "refused"]
                    \/ ~ (budget + AD!Need(u) > MaxInFlight) /\ d = [c EXCEPT !.pc = "exchange", !.seen = budget]
    BY <2>1, <2>2 DEF AD!BudgetLoad
  <2>4. d \in States
    BY <2>1, <2>3 DEF States, Points
  <2>5. /\ d.bytes = c.bytes /\ d.existing = c.existing /\ d.taken = c.taken
        /\ \/ d.pc = "refused"
           \/ d.pc = "exchange" /\ d.seen = budget /\ ~ (budget + AD!Need(u) > MaxInFlight)
    BY <2>3 DEF States
  <2>6. up'[u] = d /\ up' \in [AD!Ids -> States] /\ \A v \in AD!Ids \ {u} : up'[v] = up[v]
    BY <2>1, <2>3, <2>4
  <2> QED BY <2>2, <2>5, <2>6
<1>4. AdmissionTypeOK'
  BY <1>1, <1>3 DEF AdmissionInv, AdmissionTypeOK
<1>5. OneHolder'
  BY <1>1, <1>3 DEF AdmissionInv, OneHolder
<1>6. Bytes' = Bytes /\ Taken' = Taken
  BY <1>3 DEF Bytes, Taken
<1>7. Reserved'
  BY <1>1, <1>3, <1>6 DEF AdmissionInv, Reserved
<1>8. AnyCommits'
  <2>1. /\ Swapping' \subseteq Swapping
        /\ \A v \in Swapping' : up'[v].bytes = up[v].bytes /\ up'[v].existing = up[v].existing
    BY <1>3 DEF Swapping
  <2>2. AD!Total' = AD!Total
    BY <1>1 DEF AD!Total
  <2> QED BY <2>1, <2>2, SumTypes, KeepCommits
<1>9. Charged'
  <2>1. budget \in Nat /\ budget <= MaxInFlight /\ budget = AD!SumOver(Taken, AD!Ids)
    BY DEF AdmissionInv, AdmissionTypeOK, Charged
  <2>2. \A v \in AD!Ids : up'[v].pc \in {"start", "refused", "exchange", "done"} => up'[v].taken = 0
    BY <1>1, <1>3 DEF AdmissionInv, Charged
  <2>3. \A v \in AD!Ids : up'[v].pc = "exchange" => up'[v].seen + AD!Need(v) <= MaxInFlight
    BY <1>2, <1>3, <2>1 DEF AdmissionInv, Charged
  <2> QED BY <1>1, <1>6, <2>1, <2>2, <2>3 DEF Charged
<1> QED BY <1>4, <1>5, <1>7, <1>8, <1>9 DEF AdmissionInv

LEMMA BudgetExchangeStep ==
  ASSUME AdmissionSettings, AdmissionInv, NEW u \in AD!Ids, AD!BudgetExchange(u)
  PROVE  AdmissionInv'
<1>1. /\ up[u].pc = "exchange"
      /\ size' = size /\ keyLock' = keyLock /\ capLock' = capLock /\ reserved' = reserved
  BY DEF AD!BudgetExchange
<1>2. AD!Need(u) \in Nat /\ MaxInFlight \in Nat
  BY NeedType, LimitTypes
<1>3. /\ \A v \in AD!Ids \ {u} : up'[v] = up[v]
      /\ up'[u].bytes = up[u].bytes /\ up'[u].existing = up[u].existing
      /\ \/ up'[u].pc = "start" /\ up'[u].taken = up[u].taken /\ budget' = budget
         \/ /\ up'[u].pc = "body" /\ up'[u].taken = AD!Need(u)
            /\ budget = up[u].seen /\ budget' = budget + AD!Need(u)
      /\ up' \in [AD!Ids -> States]
  <2>1. up \in [AD!Ids -> States] /\ budget \in Nat
    BY DEF AdmissionInv, AdmissionTypeOK
  <2>2. PICK c \in States : c = up[u]
    BY <2>1
  <2>3. PICK d : /\ up' = [up EXCEPT ![u] = d]
                 /\ \/ d = [c EXCEPT !.pc = "start"] /\ budget' = budget
                    \/ /\ d = [c EXCEPT !.pc = "body", !.taken = AD!Need(u)]
                       /\ budget = c.seen /\ budget' = budget + AD!Need(u)
    BY <2>1, <2>2 DEF AD!BudgetExchange, AD!Exchanged
  <2>4. d \in States
    BY <1>2, <2>3 DEF States, Points
  <2>5. /\ d.bytes = c.bytes /\ d.existing = c.existing
        /\ \/ d.pc = "start" /\ d.taken = c.taken /\ budget' = budget
           \/ d.pc = "body" /\ d.taken = AD!Need(u) /\ budget = c.seen /\ budget' = budget + AD!Need(u)
    BY <2>3 DEF States
  <2>6. up'[u] = d /\ up' \in [AD!Ids -> States] /\ \A v \in AD!Ids \ {u} : up'[v] = up[v]
    BY <2>1, <2>3, <2>4
  <2> QED BY <2>2, <2>5, <2>6
<1>4. AdmissionTypeOK'
  BY <1>1, <1>2, <1>3 DEF AdmissionInv, AdmissionTypeOK
<1>5. OneHolder'
  BY <1>1, <1>3 DEF AdmissionInv, OneHolder
<1>6. Bytes' = Bytes
  BY <1>3 DEF Bytes
<1>7. Reserved'
  BY <1>1, <1>3, <1>6 DEF AdmissionInv, Reserved
<1>8. AnyCommits'
  <2>1. /\ Swapping' \subseteq Swapping
        /\ \A v \in Swapping' : up'[v].bytes = up[v].bytes /\ up'[v].existing = up[v].existing
    BY <1>1, <1>3 DEF Swapping
  <2>2. AD!Total' = AD!Total
    BY <1>1 DEF AD!Total
  <2> QED BY <2>1, <2>2, SumTypes, KeepCommits
<1>9. Charged'
  <2>1. /\ budget \in Nat /\ budget <= MaxInFlight /\ budget = AD!SumOver(Taken, AD!Ids)
        /\ up[u].taken = 0 /\ up[u].seen + AD!Need(u) <= MaxInFlight
    BY <1>1 DEF AdmissionInv, AdmissionTypeOK, Charged
  <2>2. \A v \in AD!Ids : up'[v].pc \in {"start", "refused", "exchange", "done"} => up'[v].taken = 0
    BY <1>1, <1>3, <2>1 DEF AdmissionInv, Charged
  <2>3. \A v \in AD!Ids : up'[v].pc = "exchange" => up'[v].seen + AD!Need(v) <= MaxInFlight
    BY <1>3 DEF AdmissionInv, Charged
  <2>4. Taken \in [AD!Ids -> Nat] /\ Taken' \in [AD!Ids -> Nat]
    BY <1>3 DEF AdmissionInv, AdmissionTypeOK, States, Taken
  <2>5. AD!SumOver(Taken', AD!Ids) = AD!SumOver(Taken, AD!Ids) - Taken[u] + Taken'[u]
    <3>1. \A v \in AD!Ids \ {u} : Taken[v] = Taken'[v]
      BY <1>3 DEF Taken
    <3> QED BY <2>4, <3>1, LimitTypes, SumChange
  <2>6. Taken[u] = 0 /\ Taken'[u] = up'[u].taken
    BY <2>1 DEF Taken
  <2>7. budget' = AD!SumOver(Taken', AD!Ids) /\ budget' <= MaxInFlight
    BY <1>2, <1>3, <2>1, <2>5, <2>6
  <2> QED BY <2>2, <2>3, <2>7 DEF Charged
<1> QED BY <1>4, <1>5, <1>7, <1>8, <1>9 DEF AdmissionInv

LEMMA BudgetReleaseStep ==
  ASSUME AdmissionSettings, AdmissionInv, NEW u \in AD!Ids, AD!BudgetRelease(u)
  PROVE  AdmissionInv'
<1>1. /\ up[u].pc = "answered" /\ budget' = budget - up[u].taken
      /\ size' = size /\ keyLock' = keyLock /\ capLock' = capLock /\ reserved' = reserved
  BY DEF AD!BudgetRelease
<1>3. /\ \A v \in AD!Ids \ {u} : up'[v] = up[v]
      /\ up'[u].bytes = up[u].bytes /\ up'[u].existing = up[u].existing
      /\ up'[u].pc = "done" /\ up'[u].taken = 0
      /\ up' \in [AD!Ids -> States]
  <2>1. up \in [AD!Ids -> States]
    BY DEF AdmissionInv, AdmissionTypeOK
  <2>2. PICK c \in States : c = up[u]
    BY <2>1
  <2>3. up' = [up EXCEPT ![u] = [c EXCEPT !.pc = "done", !.taken = 0]]
    BY <2>1, <2>2 DEF AD!BudgetRelease
  <2>4. [c EXCEPT !.pc = "done", !.taken = 0] \in States
    BY DEF States, Points
  <2> QED BY <2>1, <2>2, <2>3, <2>4 DEF States
<1>4. Charged' /\ budget' \in Nat
  <2>1. budget \in Nat /\ budget <= MaxInFlight /\ budget = AD!SumOver(Taken, AD!Ids) /\ MaxInFlight \in Nat
    BY LimitTypes DEF AdmissionInv, AdmissionTypeOK, Charged
  <2>2. \A v \in AD!Ids : up'[v].pc \in {"start", "refused", "exchange", "done"} => up'[v].taken = 0
    BY <1>3 DEF AdmissionInv, Charged
  <2>3. \A v \in AD!Ids : up'[v].pc = "exchange" => up'[v].seen + AD!Need(v) <= MaxInFlight
    BY <1>3 DEF AdmissionInv, Charged
  <2>4. Taken \in [AD!Ids -> Nat] /\ Taken' \in [AD!Ids -> Nat]
    BY <1>3 DEF AdmissionInv, AdmissionTypeOK, States, Taken
  <2>5. AD!SumOver(Taken', AD!Ids) = AD!SumOver(Taken, AD!Ids) - Taken[u] + Taken'[u]
    <3>1. \A v \in AD!Ids \ {u} : Taken[v] = Taken'[v]
      BY <1>3 DEF Taken
    <3> QED BY <2>4, <3>1, LimitTypes, SumChange
  <2>6. Taken[u] = up[u].taken /\ Taken'[u] = 0 /\ up[u].taken \in Nat
    BY <1>3 DEF Taken, AdmissionInv, AdmissionTypeOK, States
  <2>7. AD!SumOver(Taken', AD!Ids) \in Nat
    BY <2>4, LimitTypes, SumType
  <2>8. budget' = AD!SumOver(Taken', AD!Ids) /\ budget' <= MaxInFlight
    BY <1>1, <2>1, <2>5, <2>6
  <2> QED BY <2>2, <2>3, <2>7, <2>8 DEF Charged
<1>5. AdmissionTypeOK'
  BY <1>1, <1>3, <1>4 DEF AdmissionInv, AdmissionTypeOK
<1>6. OneHolder'
  BY <1>1, <1>3 DEF AdmissionInv, OneHolder
<1>7. Reserved'
  <2>1. Bytes' = Bytes
    BY <1>3 DEF Bytes
  <2> QED BY <1>1, <1>3, <2>1 DEF AdmissionInv, Reserved
<1>8. AnyCommits'
  <2>1. /\ Swapping' \subseteq Swapping
        /\ \A v \in Swapping' : up'[v].bytes = up[v].bytes /\ up'[v].existing = up[v].existing
    BY <1>1, <1>3 DEF Swapping
  <2>2. AD!Total' = AD!Total
    BY <1>1 DEF AD!Total
  <2> QED BY <2>1, <2>2, SumTypes, KeepCommits
<1> QED BY <1>4, <1>5, <1>6, <1>7, <1>8 DEF AdmissionInv

LEMMA LockKeyStep ==
  ASSUME AdmissionSettings, AdmissionInv, NEW u \in AD!Ids, AD!LockKey(u)
  PROVE  AdmissionInv'
<1>1. /\ up[u].pc = "body" /\ keyLock[Uploads[u].key] = 0
      /\ keyLock' = [keyLock EXCEPT ![Uploads[u].key] = u]
      /\ size' = size /\ capLock' = capLock /\ reserved' = reserved /\ budget' = budget
  BY DEF AD!LockKey
<1>2. 0 \notin AD!Ids /\ Uploads[u].key \in AD!Keys /\ size[Uploads[u].key] \in Nat
  BY LimitTypes DEF AdmissionInv, AdmissionTypeOK
<1>3. /\ \A v \in AD!Ids \ {u} : up'[v] = up[v]
      /\ up'[u].bytes = up[u].bytes /\ up'[u].taken = up[u].taken
      /\ up'[u].pc = "check" /\ up'[u].existing = size[Uploads[u].key]
      /\ up' \in [AD!Ids -> States]
  <2>1. up \in [AD!Ids -> States]
    BY DEF AdmissionInv, AdmissionTypeOK
  <2>2. PICK c \in States : c = up[u]
    BY <2>1
  <2>3. up' = [up EXCEPT ![u] = [c EXCEPT !.pc = "check", !.existing = size[Uploads[u].key]]]
    BY <2>1, <2>2 DEF AD!LockKey
  <2>4. [c EXCEPT !.pc = "check", !.existing = size[Uploads[u].key]] \in States
    BY <1>2 DEF States, Points
  <2> QED BY <2>1, <2>2, <2>3, <2>4 DEF States
<1>4. AdmissionTypeOK'
  BY <1>1, <1>3 DEF AdmissionInv, AdmissionTypeOK
<1>5. OneHolder'
  <2>1. keyLock'[Uploads[u].key] = u /\ \A k \in AD!Keys \ {Uploads[u].key} : keyLock'[k] = keyLock[k]
    BY <1>1, <1>2 DEF AdmissionInv, AdmissionTypeOK
  <2>2. ASSUME NEW v \in AD!Ids \ {u}, up[v].pc \in {"check", "checking", "swap", "drop"}
        PROVE  keyLock'[Uploads[v].key] = v
    <3>1. keyLock[Uploads[v].key] = v /\ Uploads[v].key \in AD!Keys
      BY <2>2, LimitTypes DEF AdmissionInv, OneHolder
    <3> QED BY <1>1, <1>2, <2>1, <3>1
  <2>3. \A v \in AD!Ids : up'[v].pc \in {"check", "checking", "swap", "drop"} => keyLock'[Uploads[v].key] = v
    BY <1>3, <2>1, <2>2
  <2> QED BY <1>1, <1>3, <2>3 DEF AdmissionInv, OneHolder
<1>7. Reserved'
  <2>1. Bytes' = Bytes
    BY <1>3 DEF Bytes
  <2> QED BY <1>1, <1>3, <2>1 DEF AdmissionInv, Reserved
<1>8. AnyCommits'
  <2>1. /\ Swapping' \subseteq Swapping
        /\ \A v \in Swapping' : up'[v].bytes = up[v].bytes /\ up'[v].existing = up[v].existing
    BY <1>1, <1>3 DEF Swapping
  <2>2. AD!Total' = AD!Total
    BY <1>1 DEF AD!Total
  <2> QED BY <2>1, <2>2, SumTypes, KeepCommits
<1>9. Charged'
  <2>1. Taken' = Taken
    BY <1>3 DEF Taken
  <2> QED BY <1>1, <1>3, <2>1 DEF AdmissionInv, Charged
<1> QED BY <1>4, <1>5, <1>7, <1>8, <1>9 DEF AdmissionInv

LEMMA CapacityFirstStep ==
  ASSUME AdmissionSettings, AdmissionInv, NEW u \in AD!Ids, AD!CapacityFirst(u)
  PROVE  AdmissionInv'
<1>1. /\ up[u].pc = "check" /\ capLock = 0 /\ capLock' = u
      /\ size' = size /\ keyLock' = keyLock /\ reserved' = reserved /\ budget' = budget
  BY DEF AD!CapacityFirst
<1>2. 0 \notin AD!Ids /\ reserved \in Nat
  BY LimitTypes DEF AdmissionInv, AdmissionTypeOK
<1>3. /\ \A v \in AD!Ids \ {u} : up'[v] = up[v]
      /\ up'[u].bytes = up[u].bytes /\ up'[u].taken = up[u].taken /\ up'[u].existing = up[u].existing
      /\ up'[u].pc = "checking" /\ up'[u].seen = reserved
      /\ up' \in [AD!Ids -> States]
  <2>1. up \in [AD!Ids -> States]
    BY DEF AdmissionInv, AdmissionTypeOK
  <2>2. PICK c \in States : c = up[u]
    BY <2>1
  <2>3. up' = [up EXCEPT ![u] = [c EXCEPT !.pc = "checking", !.seen = reserved]]
    BY <2>1, <2>2 DEF AD!CapacityFirst, AD!Read, AD!ReadOrder
  <2>4. [c EXCEPT !.pc = "checking", !.seen = reserved] \in States
    BY <1>2 DEF States, Points
  <2> QED BY <2>1, <2>2, <2>3, <2>4 DEF States
<1>4. AdmissionTypeOK'
  BY <1>1, <1>3 DEF AdmissionInv, AdmissionTypeOK
<1>5. OneHolder'
  BY <1>1, <1>2, <1>3 DEF AdmissionInv, OneHolder
<1>7. Reserved'
  <2>1. Bytes' = Bytes
    BY <1>3 DEF Bytes
  <2> QED BY <1>1, <1>2, <1>3, <2>1 DEF AdmissionInv, Reserved
<1>8. AnyCommits'
  <2>1. /\ Swapping' \subseteq Swapping
        /\ \A v \in Swapping' : up'[v].bytes = up[v].bytes /\ up'[v].existing = up[v].existing
    BY <1>1, <1>3 DEF Swapping
  <2>2. AD!Total' = AD!Total
    BY <1>1 DEF AD!Total
  <2> QED BY <2>1, <2>2, SumTypes, KeepCommits
<1>9. Charged'
  <2>1. Taken' = Taken
    BY <1>3 DEF Taken
  <2> QED BY <1>1, <1>3, <2>1 DEF AdmissionInv, Charged
<1> QED BY <1>4, <1>5, <1>7, <1>8, <1>9 DEF AdmissionInv

(* The check refuses: nothing is reserved.                                 *)
LEMMA RefusedStep ==
  ASSUME AdmissionSettings, AdmissionInv, NEW u \in AD!Ids, AD!ReserveCapacity(u), AD!Projected(u) > Cap
  PROVE  AdmissionInv'
<1>1. /\ up[u].pc = "checking" /\ capLock' = 0 /\ reserved' = reserved
      /\ size' = size /\ keyLock' = keyLock /\ budget' = budget
  BY DEF AD!ReserveCapacity
<1>2. capLock = u
  BY <1>1 DEF AdmissionInv, OneHolder
<1>3. /\ \A v \in AD!Ids \ {u} : up'[v] = up[v]
      /\ up'[u].bytes = up[u].bytes /\ up'[u].taken = up[u].taken /\ up'[u].existing = up[u].existing
      /\ up'[u].pc = "drop"
      /\ up' \in [AD!Ids -> States]
  <2>1. up \in [AD!Ids -> States]
    BY DEF AdmissionInv, AdmissionTypeOK
  <2>2. PICK c \in States : c = up[u]
    BY <2>1
  <2>3. up' = [up EXCEPT ![u] = [c EXCEPT !.pc = "drop"]]
    BY <2>1, <2>2 DEF AD!ReserveCapacity
  <2>4. [c EXCEPT !.pc = "drop"] \in States
    BY DEF States, Points
  <2> QED BY <2>1, <2>2, <2>3, <2>4 DEF States
<1>4. AdmissionTypeOK'
  BY <1>1, <1>3 DEF AdmissionInv, AdmissionTypeOK
<1>5. OneHolder'
  BY <1>1, <1>2, <1>3 DEF AdmissionInv, OneHolder
<1>7. Reserved'
  <2>1. Bytes' = Bytes
    BY <1>3 DEF Bytes
  <2> QED BY <1>1, <1>3, <2>1 DEF AdmissionInv, Reserved
<1>8. AnyCommits'
  <2>1. /\ Swapping' \subseteq Swapping
        /\ \A v \in Swapping' : up'[v].bytes = up[v].bytes /\ up'[v].existing = up[v].existing
    BY <1>1, <1>3 DEF Swapping
  <2>2. AD!Total' = AD!Total
    BY <1>1 DEF AD!Total
  <2> QED BY <2>1, <2>2, SumTypes, KeepCommits
<1>9. Charged'
  <2>1. Taken' = Taken
    BY <1>3 DEF Taken
  <2> QED BY <1>1, <1>3, <2>1 DEF AdmissionInv, Charged
<1> QED BY <1>4, <1>5, <1>7, <1>8, <1>9 DEF AdmissionInv

(* The check admits: with what it read, every admitted upload counted at   *)
(* least once, whichever of them commit.                                   *)
LEMMA AdmittedStep ==
  ASSUME AdmissionSettings, AdmissionInv, NEW u \in AD!Ids, AD!ReserveCapacity(u), ~ (AD!Projected(u) > Cap)
  PROVE  AdmissionInv'
<1>1. /\ up[u].pc = "checking" /\ capLock' = 0 /\ reserved' = reserved + Uploads[u].size
      /\ size' = size /\ keyLock' = keyLock /\ budget' = budget
  BY DEF AD!ReserveCapacity
<1>2. /\ capLock = u /\ up[u].bytes = 0 /\ reserved <= up[u].seen /\ reserved = AD!SumOver(Bytes, AD!Ids)
      /\ Uploads[u].size \in Nat /\ reserved \in Nat /\ Cap \in Nat
  BY <1>1, LimitTypes DEF AdmissionInv, AdmissionTypeOK, OneHolder, Reserved
<1>3. /\ \A v \in AD!Ids \ {u} : up'[v] = up[v]
      /\ up'[u].bytes = Uploads[u].size /\ up'[u].taken = up[u].taken /\ up'[u].existing = up[u].existing
      /\ up'[u].pc = "swap"
      /\ up' \in [AD!Ids -> States]
  <2>1. up \in [AD!Ids -> States]
    BY DEF AdmissionInv, AdmissionTypeOK
  <2>2. PICK c \in States : c = up[u]
    BY <2>1
  <2>3. up' = [up EXCEPT ![u] = [c EXCEPT !.pc = "swap", !.bytes = Uploads[u].size]]
    BY <2>1, <2>2 DEF AD!ReserveCapacity
  <2>4. [c EXCEPT !.pc = "swap", !.bytes = Uploads[u].size] \in States
    BY <1>2 DEF States, Points
  <2> QED BY <2>1, <2>2, <2>3, <2>4 DEF States
<1>4. AdmissionTypeOK'
  BY <1>1, <1>2, <1>3 DEF AdmissionInv, AdmissionTypeOK
<1>5. OneHolder'
  BY <1>1, <1>2, <1>3 DEF AdmissionInv, OneHolder
<1>6. Bytes \in [AD!Ids -> Nat] /\ Bytes' \in [AD!Ids -> Nat] /\ Existing \in [AD!Ids -> Nat]
  BY <1>3 DEF Bytes, Existing, AdmissionInv, AdmissionTypeOK, States
<1>7. Reserved'
  <2>1. AD!SumOver(Bytes', AD!Ids) = AD!SumOver(Bytes, AD!Ids) - Bytes[u] + Bytes'[u]
    <3>1. \A v \in AD!Ids \ {u} : Bytes[v] = Bytes'[v]
      BY <1>3 DEF Bytes
    <3> QED BY <1>6, <3>1, LimitTypes, SumChange
  <2>2. Bytes[u] = 0 /\ Bytes'[u] = Uploads[u].size
    BY <1>2, <1>3 DEF Bytes
  <2>3. reserved' = AD!SumOver(Bytes', AD!Ids)
    BY <1>1, <1>2, <2>1, <2>2
  <2>4. \A v \in AD!Ids : up'[v].pc \notin {"swap", "drop"} => up'[v].bytes = 0
    BY <1>3 DEF AdmissionInv, Reserved
  <2>5. \A v \in AD!Ids : up'[v].pc = "swap" => up'[v].bytes = Uploads[v].size
    BY <1>3 DEF AdmissionInv, Reserved
  <2>6. \A v \in AD!Ids : up'[v].pc # "checking"
    BY <1>2, <1>3 DEF AdmissionInv, OneHolder
  <2> QED BY <2>3, <2>4, <2>5, <2>6 DEF Reserved
<1>8. AnyCommits'
  <2> SUFFICES ASSUME NEW A \in SUBSET Swapping'
               PROVE  AD!Total' + AD!SumOver(Bytes', A) <= Cap + AD!SumOver(Existing', A)
    BY DEF AnyCommits
  <2>1. AD!Total' = AD!Total /\ Existing' = Existing
    BY <1>1, <1>3 DEF AD!Total, Existing
  <2>2. A \in SUBSET AD!Ids /\ A \ {u} \in SUBSET Swapping /\ A \ {u} \in SUBSET AD!Ids
    BY <1>3 DEF Swapping
  <2> DEFINE B == A \ {u}
  <2>3. AD!SumOver(Bytes', B) = AD!SumOver(Bytes, B)
    <3>1. \A v \in B : Bytes'[v] = Bytes[v]
      BY <1>3, <2>2 DEF Bytes
    <3> QED BY <3>1, SumAgree
  <2>4. /\ AD!Total \in Nat /\ IsFiniteSet(B) /\ AD!SumOver(Bytes, B) \in Nat
        /\ AD!SumOver(Existing, B) \in Nat /\ up[u].existing \in Nat
    BY <2>2, SumTypes DEF AdmissionInv, AdmissionTypeOK, States
  <2>5. CASE u \notin A
    <3>1. B = A
      BY <2>5
    <3>2. AD!Total + AD!SumOver(Bytes, B) <= Cap + AD!SumOver(Existing, B)
      BY <2>2 DEF AdmissionInv, AnyCommits
    <3> QED BY <2>1, <2>3, <3>1, <3>2
  <2>6. CASE u \in A
    <3>1. A = B \cup {u} /\ u \notin B /\ B \in SUBSET AD!Ids
      BY <2>2, <2>6
    <3> HIDE DEF B
    <3>2. AD!SumOver(Bytes', B \cup {u}) = AD!SumOver(Bytes', B) + Bytes'[u]
      BY <1>6, <2>4, <3>1, SumAdd
    <3>3. AD!SumOver(Existing, B \cup {u}) = AD!SumOver(Existing, B) + Existing[u]
      BY <1>6, <2>4, <3>1, SumAdd
    <3>4. Bytes'[u] = Uploads[u].size /\ Existing[u] = up[u].existing
      BY <1>3 DEF Bytes, Existing
    <3>5. AD!SumOver(Bytes, B) <= up[u].seen
      <4>1. AD!SumOver(Bytes, B) <= AD!SumOver(Bytes, AD!Ids)
        BY <1>6, <3>1, LimitTypes, SumSubset
      <4>2. up[u].seen \in Nat
        BY DEF AdmissionInv, AdmissionTypeOK, States
      <4> QED BY <1>2, <2>4, <4>1, <4>2
    <3>6. up[u].seen + AD!Total - up[u].existing + Uploads[u].size <= Cap
      <4>1. AD!Projected(u) = up[u].seen + AD!Total - up[u].existing + Uploads[u].size
        BY DEF AD!Projected, AD!Read, AD!ReadOrder
      <4>2. up[u].seen \in Nat
        BY DEF AdmissionInv, AdmissionTypeOK, States
      <4> QED BY <1>2, <2>4, <4>1, <4>2
    <3>7. up[u].seen \in Nat
      BY DEF AdmissionInv, AdmissionTypeOK, States
    <3>8. AD!Total + (AD!SumOver(Bytes, B) + Uploads[u].size) <= Cap + (AD!SumOver(Existing, B) + up[u].existing)
      BY <1>2, <2>4, <3>5, <3>6, <3>7
    <3>9. AD!Total' + AD!SumOver(Bytes', B \cup {u}) <= Cap + AD!SumOver(Existing', B \cup {u})
      BY <2>1, <2>3, <3>2, <3>3, <3>4, <3>8
    <3> QED BY <3>1, <3>9
  <2> QED BY <2>5, <2>6
<1>9. Charged'
  <2>1. Taken' = Taken
    BY <1>3 DEF Taken
  <2> QED BY <1>1, <1>3, <2>1 DEF AdmissionInv, Charged
<1> QED BY <1>4, <1>5, <1>7, <1>8, <1>9 DEF AdmissionInv

(* A commit or a failed commit: the upload leaves the admitted ones.       *)
LEMMA CommitStep ==
  ASSUME AdmissionSettings, AdmissionInv, NEW u \in AD!Ids, AD!Commit(u)
  PROVE  AdmissionInv'
<1>1. /\ up[u].pc = "swap" /\ keyLock' = keyLock /\ capLock' = capLock
      /\ reserved' = reserved /\ budget' = budget
  BY DEF AD!Commit
<1>2. /\ keyLock[Uploads[u].key] = u /\ up[u].existing = size[Uploads[u].key] /\ up[u].bytes = Uploads[u].size
      /\ Uploads[u].size \in Nat /\ Uploads[u].key \in AD!Keys
  BY <1>1, LimitTypes DEF AdmissionInv, OneHolder, Reserved
<1>3. /\ \A v \in AD!Ids \ {u} : up'[v] = up[v]
      /\ up'[u].bytes = up[u].bytes /\ up'[u].taken = up[u].taken /\ up'[u].existing = up[u].existing
      /\ up'[u].pc = "drop"
      /\ up' \in [AD!Ids -> States]
  <2>1. up \in [AD!Ids -> States]
    BY DEF AdmissionInv, AdmissionTypeOK
  <2>2. PICK c \in States : c = up[u]
    BY <2>1
  <2>3. up' = [up EXCEPT ![u] = [c EXCEPT !.pc = "drop"]]
    BY <2>1, <2>2 DEF AD!Commit
  <2>4. [c EXCEPT !.pc = "drop"] \in States
    BY DEF States, Points
  <2> QED BY <2>1, <2>2, <2>3, <2>4 DEF States
<1>4. /\ size' \in [AD!Keys -> Nat]
      /\ \A k \in AD!Keys \ {Uploads[u].key} : size'[k] = size[k]
      /\ size' = size \/ size'[Uploads[u].key] = Uploads[u].size
  BY <1>2 DEF AD!Commit, AdmissionInv, AdmissionTypeOK
<1>5. AdmissionTypeOK'
  BY <1>1, <1>3, <1>4 DEF AdmissionInv, AdmissionTypeOK
<1>6. OneHolder'
  <2>1. ASSUME NEW v \in AD!Ids, up'[v].pc \in {"check", "checking", "swap"}
        PROVE  up'[v].existing = size'[Uploads[v].key]
    <3>1. v # u /\ up'[v] = up[v] /\ keyLock[Uploads[v].key] = v /\ up[v].existing = size[Uploads[v].key]
      BY <1>3, <2>1 DEF AdmissionInv, OneHolder
    <3>2. Uploads[v].key \in AD!Keys \ {Uploads[u].key}
      BY <1>2, <3>1, LimitTypes
    <3> QED BY <1>4, <3>1, <3>2
  <2> QED BY <1>1, <1>3, <2>1 DEF AdmissionInv, OneHolder
<1>7. Bytes' = Bytes /\ Existing' = Existing /\ Bytes \in [AD!Ids -> Nat] /\ Existing \in [AD!Ids -> Nat]
  BY <1>3 DEF Bytes, Existing, AdmissionInv, AdmissionTypeOK, States
<1>8. Reserved'
  BY <1>1, <1>3, <1>7 DEF AdmissionInv, Reserved
<1>9. AnyCommits'
  <2> SUFFICES ASSUME NEW A \in SUBSET Swapping'
               PROVE  AD!Total' + AD!SumOver(Bytes, A) <= Cap + AD!SumOver(Existing, A)
    BY <1>7 DEF AnyCommits
  <2>1. A \in SUBSET AD!Ids /\ u \notin A /\ A \in SUBSET Swapping /\ A \cup {u} \in SUBSET Swapping
    BY <1>1, <1>3 DEF Swapping
  <2>2. IsFiniteSet(A) /\ AD!SumOver(Bytes, A) \in Nat /\ AD!SumOver(Existing, A) \in Nat /\ AD!Total \in Nat /\ Cap \in Nat
    BY <2>1, SumTypes, LimitTypes
  <2>3. CASE size' = size
    BY <2>1, <2>3 DEF AdmissionInv, AnyCommits, AD!Total
  <2>4. CASE size'[Uploads[u].key] = Uploads[u].size
    <3>1. AD!Total' = AD!Total - size[Uploads[u].key] + Uploads[u].size
      <4>1. \A k \in AD!Keys \ {Uploads[u].key} : size[k] = size'[k]
        BY <1>4
      <4>2. size \in [AD!Keys -> Nat]
        BY DEF AdmissionInv, AdmissionTypeOK
      <4>3. AD!SumOver(size', AD!Keys) = AD!SumOver(size, AD!Keys) - size[Uploads[u].key] + size'[Uploads[u].key]
        BY <1>2, <1>4, <4>1, <4>2, LimitTypes, SumChange
      <4> QED BY <2>4, <4>3 DEF AD!Total
    <3>2. AD!Total + AD!SumOver(Bytes, A \cup {u}) <= Cap + AD!SumOver(Existing, A \cup {u})
      BY <2>1 DEF AdmissionInv, AnyCommits
    <3>3. AD!SumOver(Bytes, A \cup {u}) = AD!SumOver(Bytes, A) + Bytes[u]
      BY <1>7, <2>1, <2>2, SumAdd
    <3>4. AD!SumOver(Existing, A \cup {u}) = AD!SumOver(Existing, A) + Existing[u]
      BY <1>7, <2>1, <2>2, SumAdd
    <3>5. Bytes[u] = Uploads[u].size /\ Existing[u] = size[Uploads[u].key] /\ size[Uploads[u].key] \in Nat
      BY <1>2 DEF Bytes, Existing, AdmissionInv, AdmissionTypeOK
    <3> QED BY <1>2, <2>2, <3>1, <3>2, <3>3, <3>4, <3>5
  <2> QED BY <1>4, <2>3, <2>4
<1>10. Charged'
  <2>1. Taken' = Taken
    BY <1>3 DEF Taken
  <2> QED BY <1>1, <1>3, <2>1 DEF AdmissionInv, Charged
<1> QED BY <1>5, <1>6, <1>8, <1>9, <1>10 DEF AdmissionInv

LEMMA ReleaseCapacityStep ==
  ASSUME AdmissionSettings, AdmissionInv, NEW u \in AD!Ids, AD!ReleaseCapacity(u)
  PROVE  AdmissionInv'
<1>1. /\ up[u].pc = "drop" /\ reserved' = reserved - up[u].bytes
      /\ keyLock' = [keyLock EXCEPT ![Uploads[u].key] = 0]
      /\ size' = size /\ capLock' = capLock /\ budget' = budget
  BY DEF AD!ReleaseCapacity
<1>2. keyLock[Uploads[u].key] = u /\ Uploads[u].key \in AD!Keys
  BY <1>1, LimitTypes DEF AdmissionInv, OneHolder
<1>3. /\ \A v \in AD!Ids \ {u} : up'[v] = up[v]
      /\ up'[u].bytes = 0 /\ up'[u].taken = up[u].taken /\ up'[u].existing = up[u].existing
      /\ up'[u].pc = "answered"
      /\ up' \in [AD!Ids -> States]
  <2>1. up \in [AD!Ids -> States]
    BY DEF AdmissionInv, AdmissionTypeOK
  <2>2. PICK c \in States : c = up[u]
    BY <2>1
  <2>3. up' = [up EXCEPT ![u] = [c EXCEPT !.pc = "answered", !.bytes = 0]]
    BY <2>1, <2>2 DEF AD!ReleaseCapacity
  <2>4. [c EXCEPT !.pc = "answered", !.bytes = 0] \in States
    BY DEF States, Points
  <2> QED BY <2>1, <2>2, <2>3, <2>4 DEF States
<1>4. Reserved' /\ reserved' \in Nat
  <2>1. Bytes \in [AD!Ids -> Nat] /\ Bytes' \in [AD!Ids -> Nat]
    BY <1>3 DEF Bytes, AdmissionInv, AdmissionTypeOK, States
  <2>2. AD!SumOver(Bytes', AD!Ids) = AD!SumOver(Bytes, AD!Ids) - Bytes[u] + Bytes'[u]
    <3>1. \A v \in AD!Ids \ {u} : Bytes[v] = Bytes'[v]
      BY <1>3 DEF Bytes
    <3> QED BY <2>1, <3>1, LimitTypes, SumChange
  <2>3. Bytes[u] = up[u].bytes /\ Bytes'[u] = 0 /\ up[u].bytes \in Nat
    BY <1>3 DEF Bytes, AdmissionInv, AdmissionTypeOK, States
  <2>4. AD!SumOver(Bytes', AD!Ids) \in Nat /\ AD!SumOver(Bytes, AD!Ids) \in Nat
    BY <2>1, LimitTypes, SumType
  <2>5. reserved = AD!SumOver(Bytes, AD!Ids) /\ reserved \in Nat
    BY DEF AdmissionInv, AdmissionTypeOK, Reserved
  <2>6. reserved' = AD!SumOver(Bytes', AD!Ids) /\ reserved' <= reserved
    BY <1>1, <2>2, <2>3, <2>4, <2>5
  <2>7. ASSUME NEW v \in AD!Ids, up'[v].pc = "checking"
        PROVE  reserved' <= up'[v].seen
    <3>1. up'[v] = up[v] /\ reserved <= up[v].seen /\ up[v].seen \in Nat
      BY <1>3, <2>7 DEF AdmissionInv, AdmissionTypeOK, States, Reserved
    <3> QED BY <2>4, <2>5, <2>6, <3>1
  <2>8. \A v \in AD!Ids : up'[v].pc \notin {"swap", "drop"} => up'[v].bytes = 0
    BY <1>3 DEF AdmissionInv, Reserved
  <2>9. \A v \in AD!Ids : up'[v].pc = "swap" => up'[v].bytes = Uploads[v].size
    BY <1>3 DEF AdmissionInv, Reserved
  <2> QED BY <2>4, <2>6, <2>7, <2>8, <2>9 DEF Reserved
<1>5. AdmissionTypeOK'
  BY <1>1, <1>3, <1>4 DEF AdmissionInv, AdmissionTypeOK
<1>6. OneHolder'
  <2>1. ASSUME NEW v \in AD!Ids, up'[v].pc \in {"check", "checking", "swap", "drop"}
        PROVE  keyLock'[Uploads[v].key] = v
    <3>1. v # u /\ up'[v] = up[v] /\ keyLock[Uploads[v].key] = v
      BY <1>3, <2>1 DEF AdmissionInv, OneHolder
    <3>2. Uploads[v].key \in AD!Keys /\ Uploads[v].key # Uploads[u].key
      BY <1>2, <3>1, LimitTypes
    <3> QED BY <1>1, <3>1, <3>2 DEF AdmissionInv, AdmissionTypeOK
  <2> QED BY <1>1, <1>3, <2>1 DEF AdmissionInv, OneHolder
<1>8. AnyCommits'
  <2>1. /\ Swapping' \subseteq Swapping
        /\ \A v \in Swapping' : up'[v].bytes = up[v].bytes /\ up'[v].existing = up[v].existing
    BY <1>1, <1>3 DEF Swapping
  <2>2. AD!Total' = AD!Total
    BY <1>1 DEF AD!Total
  <2> QED BY <2>1, <2>2, SumTypes, KeepCommits
<1>9. Charged'
  <2>1. Taken' = Taken
    BY <1>3 DEF Taken
  <2> QED BY <1>1, <1>3, <2>1 DEF AdmissionInv, Charged
<1> QED BY <1>4, <1>5, <1>6, <1>8, <1>9 DEF AdmissionInv

(* A delete waits for the key's lock: no admitted upload counts on what it *)
(* removes.                                                                *)
LEMMA DeleteStep ==
  ASSUME AdmissionSettings, AdmissionInv, NEW k \in AD!Keys, AD!Delete(k)
  PROVE  AdmissionInv'
<1>1. /\ keyLock[k] = 0 /\ size' = [size EXCEPT ![k] = 0]
      /\ keyLock' = keyLock /\ capLock' = capLock /\ reserved' = reserved /\ budget' = budget /\ up' = up
  BY DEF AD!Delete
<1>2. /\ size \in [AD!Keys -> Nat] /\ size' \in [AD!Keys -> Nat] /\ size'[k] = 0
      /\ \A j \in AD!Keys \ {k} : size[j] = size'[j]
  BY <1>1 DEF AdmissionInv, AdmissionTypeOK
<1>3. AdmissionTypeOK'
  BY <1>1, <1>2 DEF AdmissionInv, AdmissionTypeOK
<1>4. OneHolder'
  <2>1. ASSUME NEW v \in AD!Ids, up[v].pc \in {"check", "checking", "swap"}
        PROVE  up[v].existing = size'[Uploads[v].key]
    <3>1. keyLock[Uploads[v].key] = v /\ up[v].existing = size[Uploads[v].key] /\ v # 0 /\ Uploads[v].key \in AD!Keys
      BY <2>1, LimitTypes DEF AdmissionInv, OneHolder
    <3> QED BY <1>1, <1>2, <3>1
  <2> QED BY <1>1, <2>1 DEF AdmissionInv, OneHolder
<1>5. Reserved'
  BY <1>1 DEF AdmissionInv, Reserved, Bytes
<1>6. AnyCommits'
  <2>1. AD!Total' \in Nat /\ AD!Total' <= AD!Total
    <3>1. AD!SumOver(size', AD!Keys) = AD!SumOver(size, AD!Keys) - size[k] + size'[k]
      BY <1>2, LimitTypes, SumChange
    <3>2. AD!SumOver(size', AD!Keys) \in Nat /\ AD!SumOver(size, AD!Keys) \in Nat
      BY <1>2, LimitTypes, SumType
    <3>3. size[k] \in Nat
      BY <1>2
    <3> QED BY <1>2, <3>1, <3>2, <3>3 DEF AD!Total
  <2>2. Swapping' \subseteq Swapping
    BY <1>1 DEF Swapping
  <2> QED BY <1>1, <2>1, <2>2, KeepCommits
<1>7. Charged'
  BY <1>1 DEF AdmissionInv, Charged, Taken
<1> QED BY <1>3, <1>4, <1>5, <1>6, <1>7 DEF AdmissionInv

-----------------------------------------------------------------------------
LEMMA AdmissionInit ==
  ASSUME AdmissionSettings, AD!Init
  PROVE  AdmissionInv
<1>1. /\ size = [k \in AD!Keys |-> 0] /\ keyLock = [k \in AD!Keys |-> 0] /\ capLock = 0
      /\ reserved = 0 /\ budget = 0
      /\ \A u \in AD!Ids : up[u] = [pc |-> "start", seen |-> 0, existing |-> 0, taken |-> 0, bytes |-> 0]
      /\ up \in [AD!Ids -> States]
  BY DEF AD!Init, States, Points
<1>2. AdmissionTypeOK
  BY <1>1 DEF AdmissionTypeOK
<1>3. \A f, S : (\A x \in S : f[x] = 0) => AD!SumOver(f, S) = 0
  <2> SUFFICES ASSUME NEW f, NEW S, \A x \in S : f[x] = 0
               PROVE  AD!SumOver(f, S) = 0
    OBVIOUS
  <2>1. AD!Units(f, S) = {}
    BY DEF AD!Units
  <2> QED BY <2>1, FS_EmptySet, SumCounts
<1>4. AD!SumOver(Bytes, AD!Ids) = 0 /\ AD!SumOver(Taken, AD!Ids) = 0 /\ AD!Total = 0
  <2>1. (\A u \in AD!Ids : Bytes[u] = 0) /\ (\A u \in AD!Ids : Taken[u] = 0) /\ (\A k \in AD!Keys : size[k] = 0)
    BY <1>1 DEF Bytes, Taken
  <2> QED BY <1>3, <2>1 DEF AD!Total
<1>5. OneHolder
  BY <1>1 DEF OneHolder
<1>6. Reserved
  BY <1>1, <1>4 DEF Reserved
<1>7. AnyCommits
  <2>1. Swapping = {}
    BY <1>1 DEF Swapping
  <2>2. \A A \in SUBSET Swapping : A = {}
    BY <2>1
  <2>3. AD!SumOver(Bytes, {}) = 0 /\ AD!SumOver(Existing, {}) = 0 /\ Cap \in Nat
    BY SumEmpty, LimitTypes
  <2>4. AD!Total + AD!SumOver(Bytes, {}) <= Cap + AD!SumOver(Existing, {})
    BY <1>4, <2>3
  <2> QED BY <2>2, <2>4 DEF AnyCommits
<1>8. Charged
  BY <1>1, <1>4, LimitTypes DEF Charged
<1> QED BY <1>2, <1>5, <1>6, <1>7, <1>8 DEF AdmissionInv

LEMMA StutterStep ==
  ASSUME AdmissionInv, UNCHANGED admissionVars
  PROVE  AdmissionInv'
<1>1. /\ size' = size /\ keyLock' = keyLock /\ capLock' = capLock
      /\ reserved' = reserved /\ budget' = budget /\ up' = up
  BY DEF admissionVars
<1> QED BY <1>1 DEF AdmissionInv, AdmissionTypeOK, OneHolder, Reserved, AnyCommits, Charged, Bytes, Existing, Taken, Swapping, AD!Total

LEMMA AdmissionNext ==
  ASSUME AdmissionSettings, AdmissionInv, [AD!Next]_admissionVars
  PROVE  AdmissionInv'
<1>1. ASSUME NEW u \in AD!Ids, AD!Upload(u) PROVE AdmissionInv'
  <2>1. CASE AD!ReserveCapacity(u)
    BY <2>1, RefusedStep, AdmittedStep
  <2> QED BY <1>1, <2>1, BudgetLoadStep, BudgetExchangeStep, BudgetReleaseStep, LockKeyStep,
             CapacityFirstStep, CommitStep, ReleaseCapacityStep DEF AD!Upload
<1>2. ASSUME NEW k \in AD!Keys, AD!Delete(k) PROVE AdmissionInv'
  BY <1>2, DeleteStep
<1> QED BY <1>1, <1>2, StutterStep DEF AD!Next

LEMMA LimitsKept == ASSUME AdmissionSettings, AdmissionInv PROVE AD!WithinLimits
<1>1. AD!Total <= Cap
  <2>1. {} \in SUBSET Swapping
    OBVIOUS
  <2>2. AD!Total + AD!SumOver(Bytes, {}) <= Cap + AD!SumOver(Existing, {})
    BY <2>1 DEF AdmissionInv, AnyCommits
  <2>3. AD!SumOver(Bytes, {}) = 0 /\ AD!SumOver(Existing, {}) = 0 /\ Cap \in Nat /\ AD!Total \in Nat
    BY SumEmpty, SumTypes, LimitTypes
  <2> QED BY <2>2, <2>3
<1>2. AD!BudgetBalanced
  BY DEF AdmissionInv, Charged, Taken, AD!BudgetBalanced
<1> QED BY <1>1, <1>2 DEF AD!WithinLimits, AD!WithinCap
=============================================================================
