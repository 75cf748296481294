------------------------------- MODULE Memory -------------------------------
(***************************************************************************)
(* What a memory promises its user: a read returns the word last written   *)
(* to the address.  A lookup may also answer that it does not know, and    *)
(* housekeeping changes nothing.  This is the specification that the cache *)
(* of cache.c, together with the memory under it, implements.              *)
(***************************************************************************)
CONSTANTS
  Adrs,     \* the addresses
  Words     \* the values of a word

VARIABLES
  store,    \* store[a]: the word at address a
  ret       \* what the last call returned

Got(a, w) == [op |-> "read", adrs |-> a, w |-> w]
Wrote(a, w) == [op |-> "write", adrs |-> a, w |-> w]
Missed == [op |-> "miss", adrs |-> 0, w |-> 0]
Flushed == [op |-> "flush", adrs |-> 0, w |-> 0]

Init == store \in [Adrs -> Words] /\ ret = Missed

Read(a) == ret' = Got(a, store[a]) /\ UNCHANGED store

Miss == ret' = Missed /\ UNCHANGED store

Write(a, w) == ret' = Wrote(a, w) /\ store' = [store EXCEPT ![a] = w]

Housekeeping == ret' = Flushed /\ UNCHANGED store

Next ==
  \/ \E a \in Adrs : Read(a)
  \/ Miss
  \/ \E a \in Adrs, w \in Words : Write(a, w)
  \/ Housekeeping

Spec == Init /\ [][Next]_<<store, ret>>
=============================================================================
