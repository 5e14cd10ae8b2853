---------------------------- MODULE MCBlockStore ----------------------------
(* BlockStore on small instances.                                           *)
EXTENDS BlockStore

Colliding == [c \in Chunks |-> "h"]
TwoBodies == {<<"a", "a">>, <<"b">>}
OneBody == {<<"a">>}
=============================================================================
