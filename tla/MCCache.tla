------------------------------ MODULE MCCache ------------------------------
(***************************************************************************)
(* Two sets of two lines, blocks of two words and three tags.  The callers *)
(* use one word in each of three blocks of set 0, so that its lines are    *)
(* evicted, and one in set 1.  The memory starts with different words at   *)
(* the two offsets, so that a word copied to a wrong place shows.          *)
(***************************************************************************)
EXTENDS Cache

MCClientAdrs == {1, 4, 8, 2}

MCInitMems == {[a \in Adrs |-> a % 2]}
=============================================================================
