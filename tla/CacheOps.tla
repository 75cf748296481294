------------------------------ MODULE CacheOps ------------------------------
(***************************************************************************)
(* The set-associative, write-back, write-allocate cache of cache.c, as    *)
(* operators on the value of a `Cache` and of the memory under it.  The    *)
(* program has two of them: Lx in front of the physical memory, and the    *)
(* TLB, whose memory is NULL.                                              *)
(*                                                                         *)
(* An address counts words, not bytes: an access is taken to be one        *)
(* aligned Word, and one that overlaps two words is left out.  The masks   *)
(* and shifts of the code become divisions by NSets = 2^s, BlockSize = 2^b *)
(* and NTags = 2^t.                                                        *)
(*                                                                         *)
(* rand() picks the line to evict, so an operation that may load a line is *)
(* the set of its outcomes.  An outcome is a record: the cache, the memory,*)
(* the word read through the out parameter, and whether err_quit was       *)
(* called.                                                                 *)
(***************************************************************************)
EXTENDS Integers

CONSTANTS
  NSets,      \* c->ns, the number of sets
  NLines,     \* E, the number of lines of a set
  NTags,      \* 2^t, the number of tags that findCacheLine distinguishes
  BlockSize   \* words of a line's buffer

ASSUME GeometryAssumption ==
  {NSets, NLines, NTags, BlockSize} \subseteq Nat \ {0}

Set == 0..NSets-1
Line == 0..NLines-1
Offset == 0..BlockSize-1

\* The memory of a cache that has none under it.
NULL == <<>>

\* The contents of a line while it is not valid: never read, so left out.
Empty == [valid |-> FALSE]

Loaded(tag, buf) == [valid |-> TRUE, tag |-> tag, buf |-> buf]

EmptyCache == [s \in Set |-> [i \in Line |-> Empty]]

-----------------------------------------------------------------------------
(* Parts of an address *)

OffsetOf(adrs) == adrs % BlockSize

BlockOf(adrs) == adrs \div BlockSize

SetOf(adrs) == BlockOf(adrs) % NSets

\* Mutation: the set index is not shifted out of the tag.
TagAndSet(adrs) == BlockOf(adrs)

\* loadCacheLine takes all the bits above the set index as the tag ...
LoadTag(adrs) == BlockOf(adrs) \div NSets

\* Mutation: findCacheLine masks t bits without shifting by s.
UnshiftedTag(adrs) == BlockOf(adrs) % NTags

\* ... and findCacheLine the lowest t of them.
TagOf(adrs) == LoadTag(adrs) % NTags

\* padrs, the memory address of a line of this tag in this set.
LineAdrs(tag, set) == (tag * NSets + set) * BlockSize

-----------------------------------------------------------------------------

Matches(line, adrs) == line.valid /\ (NTags = 1 \/ line.tag = TagOf(adrs))

\* The lines that hold adrs; findCacheLine returns the first one, or NULL.
Hits(c, adrs) == {i \in Line : Matches(c[SetOf(adrs)][i], adrs)}

FindCacheLine(c, adrs) ==
  CHOOSE i \in Hits(c, adrs) : \A j \in Hits(c, adrs) : i <= j

InCache(c, adrs) == Hits(c, adrs) # {}

\* The word at adrs, when it is in the cache.
CachedWord(c, adrs) ==
  c[SetOf(adrs)][FindCacheLine(c, adrs)].buf[OffsetOf(adrs)]

\* The latest word at adrs: what a reader behind the cache gets.
WordAt(c, mem, adrs) == IF InCache(c, adrs) THEN CachedWord(c, adrs) ELSE mem[adrs]

\* memcpy of w into the line that holds adrs.
UpdateLine(c, adrs, w) ==
  [c EXCEPT ![SetOf(adrs)][FindCacheLine(c, adrs)].buf[OffsetOf(adrs)] = w]

\* The block that a line of this set is written back to contains address a.
Covers(line, set, a) ==
  line.valid /\ LineAdrs(line.tag, set) = a - OffsetOf(a)

\* memcpy of a line's buffer to the memory it came from; nothing under NULL.
WriteBack(mem, set, line) ==
  [a \in DOMAIN mem |->
    IF Covers(line, set, a) THEN line.buf[OffsetOf(a)] ELSE mem[a]]

\* memcpy of the block around adrs to a line's buffer.  Under NULL nothing is
\* copied; the one caller then overwrites the whole one-word buffer.
ReadBlock(mem, adrs) ==
  [o \in Offset |-> IF mem = NULL THEN 0 ELSE mem[adrs - OffsetOf(adrs) + o]]

\* The lines that loadCacheLine may take: the first invalid line, or else
\* whichever one rand() picks.
Victims(c, set) ==
  LET invalid == {i \in Line : ~ c[set][i].valid} IN
  IF invalid = {} THEN Line ELSE {i \in invalid : \A j \in invalid : i <= j}

\* Mutation: the evicted line is not written back.
DropVictim(c, mem, adrs, i) ==
  [c   |-> [c EXCEPT ![SetOf(adrs)][i] = Loaded(LoadTag(adrs), ReadBlock(mem, adrs))],
   mem |-> mem]

\* The line i of adrs' set is taken for the block of adrs.
ReplaceLine(c, mem, adrs, i) ==
  LET set == SetOf(adrs)
      mem1 == IF c[set][i].valid THEN WriteBack(mem, set, c[set][i]) ELSE mem
  IN [c   |-> [c EXCEPT ![set][i] = Loaded(LoadTag(adrs), ReadBlock(mem1, adrs))],
      mem |-> mem1]

\* Mutation: loadCacheLine does not look for the block first.
LoadAlways(c, mem, adrs) ==
  {ReplaceLine(c, mem, adrs, i) : i \in Victims(c, SetOf(adrs))}

LoadCacheLine(c, mem, adrs) ==
  IF InCache(c, adrs)
    THEN {[c |-> c, mem |-> mem]}
    ELSE {ReplaceLine(c, mem, adrs, i) : i \in Victims(c, SetOf(adrs))}

\* What follows a load: the write, or err_quit when the line is not found.
WriteLoaded(r, adrs, w) ==
  IF InCache(r.c, adrs)
    THEN [c |-> UpdateLine(r.c, adrs, w), mem |-> r.mem, quit |-> FALSE]
    ELSE [c |-> r.c, mem |-> r.mem, quit |-> TRUE]

WriteToCache(c, mem, adrs, w) ==
  {WriteLoaded(r, adrs, w) : r \in LoadCacheLine(c, mem, adrs)}

\* flushCache copies every valid line to the memory.  The lines of a cache
\* cover disjoint blocks (UniqueLine of module Cache), so at most one of them
\* covers an address and their order does not matter.
Copies(c, a) == {k \in Set \X Line : Covers(c[k[1]][k[2]], k[1], a)}

FlushedMem(c, mem) ==
  [a \in DOMAIN mem |->
    IF Copies(c, a) = {} THEN mem[a]
    ELSE LET k == CHOOSE k \in Copies(c, a) : TRUE
         IN  c[k[1]][k[2]].buf[OffsetOf(a)]]

FlushedCache(c, invalidate) == IF invalidate THEN EmptyCache ELSE c

-----------------------------------------------------------------------------
(* Physical memory behind the cache *)

\* readFromPhysicalMem: on a miss the word of the memory is written to the
\* line it has just been loaded with, and then read.
ReadFromPhysicalMem(c, mem, adrs) ==
  IF InCache(c, adrs)
    THEN {[c |-> c, mem |-> mem, quit |-> FALSE, w |-> CachedWord(c, adrs)]}
    ELSE {[c |-> r.c, mem |-> r.mem, quit |-> r.quit \/ ~ InCache(r.c, adrs),
           w |-> IF InCache(r.c, adrs) THEN CachedWord(r.c, adrs) ELSE 0] :
            r \in WriteToCache(c, mem, adrs, mem[adrs])}

\* Mutation: a write that misses goes to the memory only (no write allocate).
WriteAround(c, mem, adrs, w) ==
  IF InCache(c, adrs)
    THEN {[c |-> UpdateLine(c, adrs, w), mem |-> mem, quit |-> FALSE]}
    ELSE {[c |-> r.c, mem |-> [r.mem EXCEPT ![adrs] = w], quit |-> r.quit] :
            r \in WriteToCache(c, mem, adrs, mem[adrs])}

\* writeToPhysicalMem: on a miss the line is loaded first, through a write of
\* the word the memory holds there, and written in the cache only.
WriteToPhysicalMem(c, mem, adrs, w) ==
  IF InCache(c, adrs)
    THEN {[c |-> UpdateLine(c, adrs, w), mem |-> mem, quit |-> FALSE]}
    ELSE {[WriteLoaded(r, adrs, w) EXCEPT !.quit = @ \/ r.quit] :
            r \in WriteToCache(c, mem, adrs, mem[adrs])}
=============================================================================
