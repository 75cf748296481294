--------------------------- MODULE AddressSpaces ---------------------------
(***************************************************************************)
(* What a virtual memory promises: every process has a memory of its own,  *)
(* as large as its address space, whatever the other processes do and      *)
(* however little physical memory there is.  The memory system of cache.c  *)
(* implements this.                                                        *)
(***************************************************************************)
CONSTANTS
  Pids,     \* the processes
  VAdrs,    \* the virtual addresses of a process
  Words     \* the values of a word

VARIABLES
  space,    \* space[p][v]: the word at virtual address v of process p
  current,  \* the process that runs
  ret       \* what the last call returned

Got(v, w) == [op |-> "read", adrs |-> v, w |-> w]
Wrote(v, w) == [op |-> "write", adrs |-> v, w |-> w]
Done == [op |-> "done"]

Init ==
  /\ space \in [Pids -> [VAdrs -> Words]]
  /\ current \in Pids
  /\ ret = Done

Read(v) == ret' = Got(v, space[current][v]) /\ UNCHANGED <<space, current>>

Write(v, w) ==
  /\ ret' = Wrote(v, w)
  /\ space' = [space EXCEPT ![current][v] = w]
  /\ UNCHANGED current

Switch(p) == current' = p /\ ret' = Done /\ UNCHANGED space

\* Creating a process, or saving a page on the disk.
Housekeeping == ret' = Done /\ UNCHANGED <<space, current>>

Next ==
  \/ Housekeeping
  \/ \E v \in VAdrs : Read(v) \/ \E w \in Words : Write(v, w)
  \/ \E p \in Pids : Switch(p)

Spec == Init /\ [][Next]_<<space, current, ret>>
=============================================================================
