--------------------------- MODULE MCObjectStore ---------------------------
(* ObjectStore on small instances.                                          *)
EXTENDS ObjectStoreInv, TLC

OneStripe == [k \in Keys |-> 0]
TwoStripes == [k \in Keys |-> k % 2]
NoConds == {EtagOrNone}
AllConds == Conditions
Symmetric == Permutations(Procs) \cup Permutations(Etags) \cup Permutations(SwapIds)
=============================================================================
