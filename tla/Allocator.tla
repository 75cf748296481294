----------------------------- MODULE Allocator -----------------------------
(***************************************************************************)
(* What a memory allocator promises: the regions it has handed out lie in  *)
(* its memory and do not overlap, a region is as long as the request, and  *)
(* only the client's own call takes a region away.  The boundary-tag       *)
(* allocator of alloc.c implements this.                                   *)
(***************************************************************************)
EXTENDS Naturals

CONSTANTS
  Words,    \* the addresses of the memory, in words
  Requests  \* the lengths that a client may ask for

VARIABLE
  regions   \* the regions handed out, as <<address, length>>

Region(r) == r[1]..(r[1] + r[2] - 1)

Init == regions = {}

\* The new region is disjoint from the others and long enough.
Malloc(n) ==
  \E new \in regions' \ regions :
    /\ regions' = regions \cup {new}
    /\ new[2] >= n
    /\ Region(new) \subseteq Words
    /\ \A r \in regions : Region(r) \cap Region(new) = {}

Free(r) == regions' = regions \ {r}

Next == (\E n \in Requests : Malloc(n)) \/ (\E r \in regions : Free(r))

Spec == Init /\ [][Next]_regions
=============================================================================
