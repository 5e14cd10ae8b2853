----------------------------- MODULE RateLimit -----------------------------
(***************************************************************************)
(* The per-client token buckets of middleware/rate_limit.rs: a request     *)
(* spends a token, buckets refill with time, and when too many clients are *)
(* tracked idle buckets are dropped, then all of them.                     *)
(* Tokens and rates are whole numbers per tick; a bucket that is refilled  *)
(* lazily is refilled when its client's next request arrives.              *)
(***************************************************************************)
EXTENDS Integers, FiniteSets, FiniteSetsExt

CONSTANTS
    Clients,      \* addresses; each has one bucket whatever the connection
    Rate,         \* NOS_RATE_LIMIT_RPS
    Burst,        \* NOS_RATE_LIMIT_BURST
    MaxTracked,   \* MAX_TRACKED_CLIENTS
    IdleAfter,    \* IDLE_EVICT_AFTER
    MaxTime       \* bound: ticks

VARIABLES
    bucket,   \* client -> [tokens, last]; its domain is the tracked clients
    now,
    passed,   \* client -> requests let through since the buckets were reset
    since     \* time of the last reset of all buckets

vars == <<bucket, now, passed, since>>

Tracked == DOMAIN bucket

\* Mutant of Refill: the time of the refill is not kept.
RefillForgets(b) == [b EXCEPT !.tokens = Min({Burst, @ + (now - b.last) * Rate})]

Refill(b) == [tokens |-> Min({Burst, b.tokens + (now - b.last) * Rate}), last |-> now]

\* Over the limit: idle buckets go; if that leaves more than half, all go.
Recent == {c \in Tracked : now - bucket[c].last < IdleAfter}
EvictIdle ==
    IF Cardinality(Tracked) <= MaxTracked THEN Tracked
    ELSE IF Cardinality(Recent) > MaxTracked \div 2 THEN {}
    ELSE Recent

\* One request: eviction, a fresh bucket if there is none, refill, spend.
TakeToken(c) ==
    LET kept == EvictIdle
        reset == kept = {} /\ Recent # {}
        b == Refill(IF c \in kept THEN bucket[c] ELSE [tokens |-> Burst, last |-> now])
        ok == b.tokens >= 1
    IN  /\ bucket' = [d \in kept \cup {c} |->
                        IF d # c THEN bucket[d]
                        ELSE IF ok THEN [b EXCEPT !.tokens = @ - 1] ELSE b]
        /\ passed' = [d \in Clients |-> (IF reset THEN 0 ELSE passed[d])
                                        + (IF d = c /\ ok THEN 1 ELSE 0)]
        /\ since' = IF reset THEN now ELSE since
        /\ UNCHANGED now

Tick == now < MaxTime /\ now' = now + 1 /\ UNCHANGED <<bucket, passed, since>>

Init ==
    /\ bucket = [c \in {} |-> 0]
    /\ now = 0 /\ since = 0 /\ passed = [c \in Clients |-> 0]

Next == Tick \/ \E c \in Clients : TakeToken(c)

Spec == Init /\ [][Next]_vars

(* Dropping idle buckets gives nobody extra requests: until all buckets    *)
(* are reset, a client is let through at most Burst + Rate * elapsed       *)
(* times, provided an idle bucket is a full one (Rate * IdleAfter >=       *)
(* Burst; evict_idle relies on it).                                        *)
RateHeld ==
    Rate * IdleAfter >= Burst =>
        \A c \in Clients : passed[c] <= Burst + Rate * (now - since)
=============================================================================
