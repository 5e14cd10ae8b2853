----------------------------- MODULE MCListing -----------------------------
(* Listing in folders, with more keys than a page holds.                   *)
EXTENDS Listing

MCFolder == <<0, 1, 1, 0, 2>>
MCWalks == {[kind |-> "folders", limit |-> 2]}
=============================================================================
