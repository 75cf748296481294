------------------------------- MODULE Alloc -------------------------------
(***************************************************************************)
(* The boundary-tag allocator of alloc.c.  The heap is an array of words   *)
(* (8 bytes, one HDR_TYPE).  A block at p has its neighbour's footer in    *)
(* word p, its own header in word p + 1 and its payload from word p + 2;   *)
(* its own footer is the first word of the next block.  A prolog opens the *)
(* heap and a header of size 0, the epilog, ends it at brk.                *)
(*                                                                         *)
(* Words that hold no tag keep what was last written to them, as in the    *)
(* code.  A step is one call of Malloc or Free by a client that frees only *)
(* what it holds.                                                          *)
(***************************************************************************)
EXTENDS Integers

CONSTANTS
  MemWords,   \* words of the simulated memory (MEM_SIZE)
  BrkIncr,    \* least growth of the heap, in words (BRK_INCR)
  Sizes,      \* the sizes a client asks for, in words
  Garbage     \* what a call of Coalesce may return when it merges; see below

VARIABLES
  word,   \* word[a]: the tag last written to word a of the memory
  brk,    \* mem.brk: the end of the heap
  held,   \* held[p]: the size asked for block p, for those the client holds
  ret,    \* the block whose payload Malloc has just returned
  quit    \* err_quit was called

vars == <<word, brk, held, ret, quit>>

ASSUME AllocAssumption ==
  /\ MemWords \in Nat /\ MemWords > 4 /\ BrkIncr \in Nat \ {0}
  /\ Sizes \subseteq Nat
  /\ Garbage # {} /\ Garbage \subseteq {"coalesced", "curr", "next"}

Word == 0..MemWords-1

HEADER(size, inuse) == [size |-> size, inuse |-> inuse]

EPILOG == HEADER(0, TRUE)

\* The prolog, at the start of the memory.
blockHead == 0

Header(m, p) == m[p + 1]
NextBlock(m, p) == p + m[p + 1].size
PrevBlock(m, p) == p - m[p].size

\* MEM_ALIGN, to 16 bytes.
MemAlign(size) == size + ((2 - (size % 2)) % 2)

-----------------------------------------------------------------------------
(* Blocks *)

\* A block has at least two words.
MaxBlocks == MemWords \div 2

\* The list that NEXT_BLOCK makes from blockHead to the epilog, which included:
\* at[k] holds the block k steps down the list, when it is that long.
List(m) ==
  LET at[k \in Nat] ==
        IF k = 0 THEN {blockHead}
        ELSE {NextBlock(m, p) : p \in {q \in at[k-1] : Header(m, q) # EPILOG}}
  IN  UNION {at[k] : k \in 0..MaxBlocks}

Blocks(m) == {p \in List(m) : Header(m, p) # EPILOG}

Fits(m, size) == {p \in Blocks(m) : ~ Header(m, p).inuse /\ Header(m, p).size >= size}

\* The first fit: the list is in the order of the addresses.
FindFreeBlock(m, size) ==
  CHOOSE p \in Fits(m, size) : \A q \in Fits(m, size) : p <= q

\* Mutation: a free block in front of this one is not merged.
CoalesceForward(m, curr) ==
  LET next == NextBlock(m, curr)
      size == Header(m, curr).size
              + (IF Header(m, next).inuse THEN 0 ELSE Header(m, next).size)
  IN [m   |-> [m EXCEPT ![curr + 1] = HEADER(size, FALSE),
                        ![curr + size] = HEADER(size, FALSE)],
      ret |-> {curr}]

\* Mutation: the next block is merged whether it is free or not.
CoalesceAnyNext(m, curr) ==
  LET next == NextBlock(m, curr)
      size == Header(m, curr).size + Header(m, next).size
  IN [m   |-> [m EXCEPT ![curr + 1] = HEADER(size, FALSE),
                        ![NextBlock(m, next)] = HEADER(size, FALSE)],
      ret |-> {curr}]

(***************************************************************************)
(* Coalesce has a return statement only where nothing is merged.  Where it *)
(* merges, its caller gets what the register happens to hold.  The value   *)
(* is used by ExtendHeap alone, where `next` is the epilog: compiled with  *)
(* gcc 12 it is `next` at -O0, `curr` at -O3 and, by chance, the coalesced *)
(* block at -Os; at -O1 and -O2 it is no address of the heap at all.       *)
(***************************************************************************)
Coalesce(m, curr) ==
  LET prev == PrevBlock(m, curr)
      next == NextBlock(m, curr)
      prevUsed == m[curr].inuse
      nextUsed == Header(m, next).inuse
      first == IF prevUsed THEN curr ELSE prev
      last == IF nextUsed THEN next ELSE NextBlock(m, next)
      size == (IF prevUsed THEN 0 ELSE Header(m, prev).size)
              + Header(m, curr).size
              + (IF nextUsed THEN 0 ELSE Header(m, next).size)
      register == [coalesced |-> first, curr |-> curr, next |-> next]
  IN IF prevUsed /\ nextUsed
       THEN [m |-> m, ret |-> {curr}]
       ELSE [m   |-> [m EXCEPT ![first + 1] = HEADER(size, FALSE),
                               ![last] = HEADER(size, FALSE)],
             ret |-> {register[g] : g \in Garbage}]

\* How far ExtendHeap moves brk for a block of this size.
Increment(size) == MemAlign(IF size > BrkIncr THEN size ELSE BrkIncr)

SbrkFails(incr) == brk + incr >= MemWords

\* The words after ExtendHeap: the old epilog becomes the header of a free block.
ExtendHeap(m, incr) ==
  LET curr == brk - 2 IN
  Coalesce([m EXCEPT ![curr + 1] = HEADER(incr, FALSE),
                     ![curr + incr] = HEADER(incr, FALSE),
                     ![curr + incr + 1] = EPILOG], curr)

\* Mutation: the footer of what remains of the block is not written.
TakeHeaderOnly(m, curr, size) ==
  LET rest == Header(m, curr).size - size
      next == curr + size
      m1 == [m EXCEPT ![curr + 1] = HEADER(size, TRUE), ![next] = HEADER(size, TRUE)]
  IN IF rest = 0 THEN m1 ELSE [m1 EXCEPT ![next + 1] = HEADER(rest, FALSE)]

\* Malloc takes the first `size` words of block curr and leaves the rest free.
Take(m, curr, size) ==
  LET rest == Header(m, curr).size - size
      next == curr + size
      m1 == [m EXCEPT ![curr + 1] = HEADER(size, TRUE), ![next] = HEADER(size, TRUE)]
  IN IF rest = 0 THEN m1
     ELSE [m1 EXCEPT ![next + 1] = HEADER(rest, FALSE),
                     ![next + rest] = HEADER(rest, FALSE)]

\* "unexpected remaing size".  next_size is unsigned: a negative rest is large.
BadRest(m, curr, size) == Header(m, curr).size - size = 1

-----------------------------------------------------------------------------

\* InitMem and InitMalloc.
Init ==
  /\ word = [a \in Word |->
       CASE a \in {1, 2} -> HEADER(2, TRUE)
         [] a = 3 -> EPILOG
         [] OTHER -> HEADER(0, FALSE)]
  /\ brk = 4
  /\ held = [p \in {} |-> 0]
  /\ ret = blockHead
  /\ quit = FALSE

\* Mutation: the room for the tags is not counted.
PlaceNoTags(m, p, n) ==
  LET size == MemAlign(n) IN
  /\ word' = Take(m, p, size)
  /\ held' = [q \in DOMAIN held \cup {p} |-> IF q = p THEN n ELSE held[q]]
  /\ ret' = p
  /\ UNCHANGED quit

\* Malloc has chosen block p of heap m for a request of n words.
Place(m, p, n) ==
  LET size == MemAlign(n + 2) IN
  IF BadRest(m, p, size)
    THEN quit' = TRUE /\ UNCHANGED <<word, held, ret>>
    ELSE /\ word' = Take(m, p, size)
         /\ held' = [q \in DOMAIN held \cup {p} |-> IF q = p THEN n ELSE held[q]]
         /\ ret' = p
         /\ UNCHANGED quit

MallocFit(n) ==
  /\ Fits(word, MemAlign(n + 2)) # {}
  /\ Place(word, FindFreeBlock(word, MemAlign(n + 2)), n)
  /\ UNCHANGED brk

MallocExtend(n) ==
  LET incr == Increment(MemAlign(n + 2))
      h == ExtendHeap(word, incr)
  IN /\ Fits(word, MemAlign(n + 2)) = {}
     /\ ~ SbrkFails(incr)
     /\ brk' = brk + incr
     /\ \E p \in h.ret : Place(h.m, p, n)

OutOfMemory(n) ==
  /\ Fits(word, MemAlign(n + 2)) = {}
  /\ SbrkFails(Increment(MemAlign(n + 2)))
  /\ quit' = TRUE
  /\ UNCHANGED <<word, brk, held, ret>>

Free(p) ==
  LET size == Header(word, p).size
      m == [word EXCEPT ![p + 1] = HEADER(size, FALSE), ![p + size] = HEADER(size, FALSE)]
  IN /\ word' = Coalesce(m, p).m
     /\ held' = [q \in DOMAIN held \ {p} |-> held[q]]
     /\ ret' = blockHead
     /\ UNCHANGED <<brk, quit>>

Malloc(n) == MallocFit(n) \/ MallocExtend(n) \/ OutOfMemory(n)

Exited == quit /\ UNCHANGED vars

Next ==
  \/ ~ quit /\ \E n \in Sizes : Malloc(n)
  \/ ~ quit /\ \E p \in DOMAIN held : Free(p)
  \/ Exited

Spec == Init /\ [][Next]_vars

-----------------------------------------------------------------------------

\* The type invariant, a part of BoundaryTagsAgree.
TypeOK ==
  /\ word \in [Word -> [size : 0..MemWords, inuse : BOOLEAN]]
  /\ brk \in 4..MemWords-1
  /\ DOMAIN held \subseteq Word /\ \A p \in DOMAIN held : held[p] \in Sizes
  /\ ret \in Word
  /\ quit \in BOOLEAN

\* The blocks in use are the prolog and those the client holds, each with room
\* for the request and its tags: nothing leaks, nothing held is given out.
HeldInUse ==
  /\ DOMAIN held = {p \in Blocks(word) \ {blockHead} : Header(word, p).inuse}
  /\ \A p \in DOMAIN held : Header(word, p).size >= held[p] + 2

\* The list of blocks runs from the prolog to the epilog at brk, each block's
\* footer repeats its header, and the tags tell what the client holds: a merge
\* or a split that updates one of two tags only is found out calls later, by
\* the neighbour that reads the other.
BoundaryTagsAgree ==
  /\ TypeOK
  /\ {p \in List(word) : Header(word, p) = EPILOG} = {brk - 2}
  /\ \A p \in Blocks(word) : word[NextBlock(word, p)] = Header(word, p)
  /\ HeldInUse

\* Free blocks are merged at once, however frees and splits are ordered.
NoAdjacentFree ==
  \A p \in Blocks(word) :
    ~ Header(word, p).inuse => Header(word, NextBlock(word, p)).inuse

\* The words that the client may write.
Payload(p) == p+2..p+1+held[p]

\* Malloc and Free write no word of a payload that the client keeps.
PayloadUntouched ==
  [][\A p \in DOMAIN held \cap DOMAIN held', a \in Word :
       a \in Payload(p) => word'[a] = word[a]]_vars

\* The regions handed out, as the tags in the heap tell them.
Regions ==
  {<<p + 2, Header(word, p).size - 2>> :
     p \in {q \in Blocks(word) \ {blockHead} : Header(word, q).inuse}}

Abstract == INSTANCE Allocator WITH
  Words <- Word, Requests <- Sizes, regions <- Regions

\* To its client the heap is a set of disjoint regions that only its own calls
\* change, each as long as was asked for.
ImplementsAllocator == Abstract!Spec

\* ExtendHeap returns the coalesced block ("return coalesced block", line 80):
\* a Malloc that grows the heap takes the free block that ended it, if any.
ReturnsCoalescedBlock ==
  [][brk' # brk =>
       \E last \in Blocks(word) :
         /\ NextBlock(word, last) = brk - 2
         /\ ret' = IF Header(word, last).inuse THEN brk - 2 ELSE last]_vars
=============================================================================
