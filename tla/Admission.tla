----------------------------- MODULE Admission -----------------------------
(***************************************************************************)
(* What an upload passes before its object is committed: the budget of     *)
(* upload bytes in flight (middleware/upload_budget.rs) and the cap on     *)
(* stored bytes, NOS_MAX_LOGICAL_BYTES (StorageEngine::reserve_capacity,   *)
(* called under the key lock by swap_in_staged), next to deletes.          *)
(* A counter is only ever touched by atomic operations; what several of    *)
(* them make up together is not atomic.                                    *)
(***************************************************************************)
EXTENDS Integers, Sequences, FiniteSets, FiniteSetsExt, Sums

CONSTANTS
    Uploads,     \* sequence of uploads, each [key, size]
    Cap,         \* NOS_MAX_LOGICAL_BYTES
    MaxInFlight, \* budget of upload bytes
    Unit,        \* permit unit of the budget
    MaxDeletes   \* bound: deletes

VARIABLES
    size,      \* key -> bytes its active row names, 0 when there is none
    keyLock,   \* key -> upload that holds its lock, 0 when free
    capLock,   \* upload inside the capacity check, 0 when none
    reserved,  \* capacity_in_flight
    budget,    \* UploadBudget::in_flight
    up,        \* upload -> [pc, seen, existing, taken, bytes]
    deletes

vars == <<size, keyLock, capLock, reserved, budget, up, deletes>>

Ids == DOMAIN Uploads
Keys == {Uploads[u].key : u \in Ids}

Total == SumOver(size, Keys)

-----------------------------------------------------------------------------
(* Upload budget.                                                          *)

PermitsFor(bytes) == Max({Unit, ((bytes + Unit - 1) \div Unit) * Unit})

\* An upload larger than the budget is charged all of it, and runs alone.
Need(u) == Min({PermitsFor(Uploads[u].size), MaxInFlight})

\* The counter is read ...
BudgetLoad(u) ==
    /\ up[u].pc = "start"
    /\ up' = [up EXCEPT ![u] =
         IF budget + Need(u) > MaxInFlight THEN [@ EXCEPT !.pc = "refused"]
         ELSE [@ EXCEPT !.pc = "exchange", !.seen = budget]]
    /\ UNCHANGED <<size, keyLock, capLock, reserved, budget, deletes>>

Exchanged(u) == budget = up[u].seen

\* ... and exchanged if it still has the value read, else read again.
BudgetExchange(u) ==
    /\ up[u].pc = "exchange"
    /\ IF Exchanged(u)
       THEN /\ budget' = up[u].seen + Need(u)
            /\ up' = [up EXCEPT ![u].pc = "body", ![u].taken = Need(u)]
       ELSE up' = [up EXCEPT ![u].pc = "start"] /\ UNCHANGED budget
    /\ UNCHANGED <<size, keyLock, capLock, reserved, deletes>>

\* The guard is dropped when the handler has answered.
BudgetRelease(u) ==
    /\ up[u].pc = "answered"
    /\ budget' = budget - up[u].taken
    /\ up' = [up EXCEPT ![u].pc = "done", ![u].taken = 0]
    /\ UNCHANGED <<size, keyLock, capLock, reserved, deletes>>

-----------------------------------------------------------------------------
(* Capacity.                                                               *)

\* The body is stored; the key is locked and its row read.
LockKey(u) ==
    LET k == Uploads[u].key
    IN  /\ up[u].pc = "body" /\ keyLock[k] = 0
        /\ keyLock' = [keyLock EXCEPT ![k] = u]
        /\ up' = [up EXCEPT ![u].pc = "check", ![u].existing = size[k]]
        /\ UNCHANGED <<size, capLock, reserved, budget, deletes>>

\* Mutant of ReadOrder: the stored total is read before the bytes in flight.
ReadOrderSwapped == <<"total", "reserved">>

\* In-flight bytes first, stored total second.
ReadOrder == <<"reserved", "total">>

Read(what) == IF what = "total" THEN Total ELSE reserved

CapacityFirst(u) ==
    /\ up[u].pc = "check" /\ capLock = 0
    /\ capLock' = u
    /\ up' = [up EXCEPT ![u].pc = "checking", ![u].seen = Read(ReadOrder[1])]
    /\ UNCHANGED <<size, keyLock, reserved, budget, deletes>>

Projected(u) == up[u].seen + Read(ReadOrder[2]) - up[u].existing + Uploads[u].size

ReserveCapacity(u) ==
    /\ up[u].pc = "checking"
    /\ capLock' = 0
    /\ IF Projected(u) > Cap
       THEN up' = [up EXCEPT ![u].pc = "drop"] /\ UNCHANGED reserved
       ELSE /\ reserved' = reserved + Uploads[u].size
            /\ up' = [up EXCEPT ![u].pc = "swap", ![u].bytes = Uploads[u].size]
    /\ UNCHANGED <<size, keyLock, budget, deletes>>

\* The metadata commit names the new size, or the write fails.
Commit(u) ==
    /\ up[u].pc = "swap"
    /\ \/ size' = [size EXCEPT ![Uploads[u].key] = Uploads[u].size]
       \/ UNCHANGED size
    /\ up' = [up EXCEPT ![u].pc = "drop"]
    /\ UNCHANGED <<keyLock, capLock, reserved, budget, deletes>>

\* The reservation is dropped, then the key lock.
ReleaseCapacity(u) ==
    /\ up[u].pc = "drop"
    /\ reserved' = reserved - up[u].bytes
    /\ keyLock' = [keyLock EXCEPT ![Uploads[u].key] = 0]
    /\ up' = [up EXCEPT ![u].pc = "answered", ![u].bytes = 0]
    /\ UNCHANGED <<size, capLock, budget, deletes>>

\* Another client deletes a key.
Delete(k) ==
    /\ deletes < MaxDeletes /\ deletes' = deletes + 1
    /\ keyLock[k] = 0 /\ size[k] # 0
    /\ size' = [size EXCEPT ![k] = 0]
    /\ UNCHANGED <<keyLock, capLock, reserved, budget, up>>

-----------------------------------------------------------------------------
Init ==
    /\ size = [k \in Keys |-> 0] /\ keyLock = [k \in Keys |-> 0] /\ capLock = 0
    /\ reserved = 0 /\ budget = 0 /\ deletes = 0
    /\ up = [u \in Ids |-> [pc |-> "start", seen |-> 0, existing |-> 0, taken |-> 0, bytes |-> 0]]

Upload(u) ==
    \/ BudgetLoad(u) \/ BudgetExchange(u) \/ BudgetRelease(u) \/ LockKey(u)
    \/ CapacityFirst(u) \/ ReserveCapacity(u) \/ Commit(u) \/ ReleaseCapacity(u)

Next == (\E u \in Ids : Upload(u)) \/ (\E k \in Keys : Delete(k))

Spec == Init /\ [][Next]_vars

-----------------------------------------------------------------------------
(* However uploads, overwrites, failures and deletes interleave, the       *)
(* stored objects never exceed NOS_MAX_LOGICAL_BYTES: between a write's    *)
(* admission and its commit it is counted at least once.                   *)
WithinCap == Total <= Cap

(* The budget counts exactly the uploads that hold a permit, within its    *)
(* limit: no interleaving of reads and exchanges loses a charge, and what  *)
(* an oversized upload returns is what it took.                            *)
BudgetBalanced ==
    /\ budget = SumOver([u \in Ids |-> up[u].taken], Ids)
    /\ budget <= MaxInFlight

(* Both limits hold: what is stored, and what is on its way in.            *)
WithinLimits == WithinCap /\ BudgetBalanced
=============================================================================
