---------------------------- MODULE MCReplication ----------------------------
(* Small instances of Replication for TLC. *)
EXTENDS ReplicationInv, TLC

ContentSymmetry == Permutations(Contents)
==============================================================================
