---------------------------- MODULE MCGhostPool -----------------------------
(***************************************************************************)
(* GhostPool with a tree of 2^LEVELS leaves and users who own a few notes  *)
(* each.                                                                   *)
(***************************************************************************)
EXTENDS GhostPool

CONSTANT NotesOwned     \* how many notes each user can afford at first

MCHash(left, right) == <<left, right>>
MCFunds == [u \in User |-> NotesOwned * DENOMINATION]

=============================================================================
