------------------------------- MODULE Cache -------------------------------
(***************************************************************************)
(* One cache over a memory, driven by an arbitrary sequence of calls, as   *)
(* unitTestCache and the physical memory functions of cache.c drive it.    *)
(* The program is sequential, so a step is one whole call.                 *)
(***************************************************************************)
EXTENDS CacheOps

CONSTANTS
  Words,        \* the values of a word
  ClientAdrs,   \* the addresses the callers use
  InitMems      \* the contents the memory may start with

VARIABLES
  c,      \* the Cache
  mem,    \* the memory under it
  ret     \* what the last call returned, as module Memory describes it

vars == <<c, mem, ret>>

\* All the addresses of m = t + s + b bits.
Adrs == 0..(NTags * NSets * BlockSize - 1)

ASSUME ClientAssumption ==
  ClientAdrs \subseteq Adrs /\ InitMems \subseteq [Adrs -> Words]

\* What the cache and the memory show together: the word a reader gets.
View == [a \in Adrs |-> WordAt(c, mem, a)]

Mem == INSTANCE Memory WITH store <- View

\* err_quit has been called.
Quit == [op |-> "quit", adrs |-> 0, w |-> 0]

-----------------------------------------------------------------------------

\* initCache over a memory the caller has filled.
Init ==
  /\ c = EmptyCache
  /\ mem \in InitMems
  /\ ret = Mem!Missed

\* A call has ended in outcome r, and answers `answer` unless it quits.
Return(r, answer) ==
  /\ c' = r.c
  /\ mem' = r.mem
  /\ ret' = IF r.quit THEN Quit ELSE answer

TryReadFromCache(a) ==
  /\ ret' = IF InCache(c, a) THEN Mem!Got(a, CachedWord(c, a)) ELSE Mem!Missed
  /\ UNCHANGED <<c, mem>>

TryWriteToCache(a, w) ==
  /\ IF InCache(c, a)
       THEN c' = UpdateLine(c, a, w) /\ ret' = Mem!Wrote(a, w)
       ELSE c' = c /\ ret' = Mem!Missed
  /\ UNCHANGED mem

DoWriteToCache(a, w) ==
  \E r \in WriteToCache(c, mem, a, w) : Return(r, Mem!Wrote(a, w))

\* Mutation: with `invalidate` the lines are dropped and not copied.
FlushOrInvalidate(invalidate) ==
  /\ mem' = IF invalidate THEN mem ELSE FlushedMem(c, mem)
  /\ c' = FlushedCache(c, invalidate)
  /\ ret' = Mem!Flushed

FlushCache(invalidate) ==
  /\ mem' = FlushedMem(c, mem)
  /\ c' = FlushedCache(c, invalidate)
  /\ ret' = Mem!Flushed

DoReadFromPhysicalMem(a) ==
  \E r \in ReadFromPhysicalMem(c, mem, a) : Return(r, Mem!Got(a, r.w))

DoWriteToPhysicalMem(a, w) ==
  \E r \in WriteToPhysicalMem(c, mem, a, w) : Return(r, Mem!Wrote(a, w))

Next ==
  /\ ret # Quit
  /\ \/ \E a \in ClientAdrs : TryReadFromCache(a) \/ DoReadFromPhysicalMem(a)
     \/ \E a \in ClientAdrs, w \in Words :
          \/ TryWriteToCache(a, w)
          \/ DoWriteToCache(a, w)
          \/ DoWriteToPhysicalMem(a, w)
     \/ \E invalidate \in BOOLEAN : FlushCache(invalidate)

Spec == Init /\ [][Next]_vars

-----------------------------------------------------------------------------

Tag == 0..NTags-1

LoadedLine == [valid : {TRUE}, tag : Tag, buf : [Offset -> Words]]

LineType == {Empty} \cup LoadedLine

RetType ==
  [op : {"read", "miss", "write", "flush", "quit"}, adrs : Adrs, w : Words \cup {0}]

\* The type invariant; the tag of a line is one that findCacheLine looks for,
\* so that a line is written back to an address of the memory.
TypeOK ==
  /\ c \in [Set -> [Line -> LineType]]
  /\ mem \in [Adrs -> Words]
  /\ ret \in RetType

Unique(k) ==
  \A s \in Set, i, j \in Line :
    i # j /\ k[s][i].valid /\ k[s][j].valid => k[s][i].tag # k[s][j].tag

\* No block is in two lines of its set: two copies would drift apart and the
\* later write-back would win.
UniqueLine == Unique(c)

\* The assertions "cache is not loaded" (cache.c:189 and 220) and "Physical
\* memory not loaded" (cache.c:232) never fail: a line that has just been
\* loaded is found again.
NeverQuits == ret # Quit

\* Reads, hits, misses, evictions and flushes in any order are those of a
\* plain memory: no call changes a word it was not asked to write, and a read
\* returns the last word written.
ImplementsMemory == Mem!Spec

\* The memory under the cache changes only to the word the cache had for the
\* address: a write stays in the cache ("mem shouldn't be updated yet") until
\* its line is written back, and a write-back carries the latest words.
MemoryChangesByWriteBack ==
  [][\A a \in Adrs : mem'[a] # mem[a] =>
       InCache(c, a) /\ mem'[a] = CachedWord(c, a)]_vars

\* After a flush the memory holds what the user has written, everywhere.
FlushMakesMemoryCurrent ==
  [][ret'.op = "flush" => \A a \in Adrs : mem'[a] = View[a]]_vars
=============================================================================
