-------------------------- MODULE MCIndexingState ---------------------------
(***************************************************************************)
(* Instance of IndexingState for TLC: two calls at once and two loops, the *)
(* fewest with which answers can overtake each other.                      *)
(***************************************************************************)
EXTENDS IndexingState

=============================================================================
