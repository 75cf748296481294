--------------------------- MODULE MemSystemProofs ---------------------------
(***************************************************************************)
(* Proofs about MemSystem: the types, rmap as the inverse of the page      *)
(* tables, the TLB as a copy of the running table, and that the pages of   *)
(* all processes are memories of their own.                                *)
(*                                                                         *)
(* What the two caches do to the words behind them is cited from           *)
(* CacheProofs, once for Lx and once for the TLB.  On top of it stand what *)
(* the operators do to the words at the physical addresses, what paging    *)
(* does to the pages, and what a call does to the memories.                *)
(*                                                                         *)
(* The theorems are about processes that use the lower half of their       *)
(* pages: the TLB takes a page of the upper half for one of the lower.     *)
(***************************************************************************)
EXTENDS MemSystem, WellFoundedInduction, TLAPS

\* The theorems of module CacheProofs for each of the two caches.
LxCache == INSTANCE CacheProofs WITH
  NSets <- LxSets, NLines <- LxLines, BlockSize <- LxBlock,
  NTags <- (NFrames * PageWords) \div (LxSets * LxBlock),
  Words <- Word, ClientAdrs <- {}, InitMems <- {}, c <- 0, mem <- 0, ret <- 0

TLBCache == INSTANCE CacheProofs WITH
  NSets <- 1, NLines <- TLBLines, BlockSize <- 1, NTags <- NPages \div 2,
  Words <- Word, ClientAdrs <- {}, InitMems <- {}, c <- 0, mem <- 0, ret <- 0

PhysAdr == 0..NFrames*PageWords-1
Entry == 0..MaxProcess*NPages-1
LowPage == 0..(NPages \div 2)-1

\* The sizes are positive.
LEMMA Numbers ==
  /\ MaxProcess \in Nat \ {0} /\ NPages \in Nat \ {0} /\ NFrames \in Nat \ {0}
  /\ PageWords \in Nat \ {0} /\ LxSets \in Nat \ {0} /\ LxLines \in Nat \ {0}
  /\ LxBlock \in Nat \ {0} /\ TLBLines \in Nat \ {0}
BY MemSystemAssumption

\* A product of positive numbers is positive.
LEMMA MulPos ==
  ASSUME NEW a \in Nat \ {0}, NEW b \in Nat \ {0}
  PROVE  a * b \in Nat \ {0}
OBVIOUS

\* An exact quotient.
LEMMA DivExact ==
  ASSUME NEW a \in Nat \ {0}, NEW m \in Nat \ {0}, a % m = 0
  PROVE  (a \div m) * m = a /\ a \div m \in Nat \ {0}
OBVIOUS

\* Products associate.
LEMMA MulAssoc ==
  ASSUME NEW a \in Nat, NEW b \in Nat, NEW c \in Nat
  PROVE  (a * b) * c = a * (b * c)
OBVIOUS

\* Lx caches the physical memory and the TLB the low half of a page table, as
\* CacheProofs assumes of a cache.
LEMMA Geometry ==
  /\ LxCache!GeometryAssumption /\ LxCache!ClientAssumption
  /\ TLBCache!GeometryAssumption /\ TLBCache!ClientAssumption
  /\ LxCache!Adrs = PhysAdr
  /\ TLBCache!Adrs = LowPage
<1>1. LxSets * LxBlock \in Nat \ {0} /\ NFrames * PageWords \in Nat \ {0}
  BY Numbers, MulPos
<1>2. (NFrames * PageWords) % (LxSets * LxBlock) = 0
  BY MemSystemAssumption
<1> DEFINE tags == (NFrames * PageWords) \div (LxSets * LxBlock)
<1>3. tags * (LxSets * LxBlock) = NFrames * PageWords /\ tags \in Nat \ {0}
  BY <1>1, <1>2, DivExact
<1>4. LxCache!GeometryAssumption /\ LxCache!ClientAssumption
  BY <1>3, Numbers DEF LxCache!GeometryAssumption, LxCache!ClientAssumption
<1>5. NPages \div 2 \in Nat \ {0}
  BY Numbers, MemSystemAssumption, DivExact
<1>6. TLBCache!GeometryAssumption /\ TLBCache!ClientAssumption
  BY <1>5, Numbers DEF TLBCache!GeometryAssumption, TLBCache!ClientAssumption
<1>7. (tags * LxSets) * LxBlock = tags * (LxSets * LxBlock)
  BY <1>3, Numbers, MulAssoc
<1>8. LxCache!Adrs = PhysAdr
  BY <1>3, <1>7 DEF LxCache!Adrs, PhysAdr
<1>9. TLBCache!Adrs = LowPage
  BY <1>5 DEF TLBCache!Adrs, LowPage
<1> QED
  BY <1>4, <1>6, <1>8, <1>9


-----------------------------------------------------------------------------
(* The operators of the two caches are those of module CacheProofs. *)

\* Lx uses the operators that CacheProofs is about.
LEMMA LxOperators ==
  ASSUME NEW k, NEW m, NEW a, NEW w, NEW b
  PROVE  /\ LxCache!WordAt(k, m, a) = Lx!WordAt(k, m, a)
         /\ LxCache!ReadFromPhysicalMem(k, m, a) = Lx!ReadFromPhysicalMem(k, m, a)
         /\ LxCache!WriteToPhysicalMem(k, m, a, w) = Lx!WriteToPhysicalMem(k, m, a, w)
         /\ LxCache!FlushedMem(k, m) = Lx!FlushedMem(k, m)
         /\ LxCache!FlushedCache(k, b) = Lx!FlushedCache(k, b)
         /\ LxCache!EmptyCache = Lx!EmptyCache
<1> USE DEF LxCache!Set, Lx!Set, LxCache!Line, Lx!Line, LxCache!Offset, Lx!Offset,
      LxCache!NULL, Lx!NULL, LxCache!Empty, Lx!Empty, LxCache!Loaded, Lx!Loaded,
      LxCache!OffsetOf, Lx!OffsetOf, LxCache!BlockOf, Lx!BlockOf, LxCache!SetOf, Lx!SetOf,
      LxCache!LoadTag, Lx!LoadTag, LxCache!TagOf, Lx!TagOf, LxCache!LineAdrs, Lx!LineAdrs,
      LxCache!Matches, Lx!Matches, LxCache!Hits, Lx!Hits, LxCache!InCache, Lx!InCache,
      LxCache!FindCacheLine, Lx!FindCacheLine, LxCache!CachedWord, Lx!CachedWord,
      LxCache!EmptyCache, Lx!EmptyCache, LxCache!Covers, Lx!Covers
<1>1. LxCache!WordAt(k, m, a) = Lx!WordAt(k, m, a)
  BY DEF LxCache!WordAt, Lx!WordAt
<1>2. LxCache!FlushedMem(k, m) = Lx!FlushedMem(k, m)
  BY DEF LxCache!FlushedMem, Lx!FlushedMem, LxCache!Copies, Lx!Copies
<1>3. /\ LxCache!FlushedCache(k, b) = Lx!FlushedCache(k, b)
      /\ LxCache!EmptyCache = Lx!EmptyCache
  BY DEF LxCache!FlushedCache, Lx!FlushedCache
<1> USE DEF LxCache!UpdateLine, Lx!UpdateLine, LxCache!WriteBack, Lx!WriteBack,
      LxCache!ReadBlock, Lx!ReadBlock, LxCache!Victims, Lx!Victims,
      LxCache!ReplaceLine, Lx!ReplaceLine, LxCache!LoadCacheLine, Lx!LoadCacheLine,
      LxCache!WriteLoaded, Lx!WriteLoaded, LxCache!WriteToCache, Lx!WriteToCache
<1>4. LxCache!ReadFromPhysicalMem(k, m, a) = Lx!ReadFromPhysicalMem(k, m, a)
  BY Zenon DEF LxCache!ReadFromPhysicalMem, Lx!ReadFromPhysicalMem
<1>5. LxCache!WriteToPhysicalMem(k, m, a, w) = Lx!WriteToPhysicalMem(k, m, a, w)
  BY Zenon DEF LxCache!WriteToPhysicalMem, Lx!WriteToPhysicalMem
<1> QED
  BY <1>1, <1>2, <1>3, <1>4, <1>5

\* So does the TLB.
LEMMA TLBOperators ==
  ASSUME NEW k, NEW m, NEW a, NEW w, NEW i
  PROVE  /\ TLBCache!InCache(k, a) = TLB!InCache(k, a)
         /\ TLBCache!CachedWord(k, a) = TLB!CachedWord(k, a)
         /\ TLBCache!WriteToCache(k, m, a, w) = TLB!WriteToCache(k, m, a, w)
         /\ TLBCache!EmptyCache = TLB!EmptyCache
         /\ TLBCache!NULL = TLB!NULL
<1> USE DEF TLBCache!Set, TLB!Set, TLBCache!Line, TLB!Line, TLBCache!Offset, TLB!Offset,
      TLBCache!NULL, TLB!NULL, TLBCache!Empty, TLB!Empty, TLBCache!Loaded, TLB!Loaded,
      TLBCache!OffsetOf, TLB!OffsetOf, TLBCache!BlockOf, TLB!BlockOf, TLBCache!SetOf,
      TLB!SetOf, TLBCache!LoadTag, TLB!LoadTag, TLBCache!TagOf, TLB!TagOf,
      TLBCache!LineAdrs, TLB!LineAdrs, TLBCache!Matches, TLB!Matches, TLBCache!Hits,
      TLB!Hits, TLBCache!InCache, TLB!InCache, TLBCache!FindCacheLine, TLB!FindCacheLine,
      TLBCache!CachedWord, TLB!CachedWord, TLBCache!EmptyCache, TLB!EmptyCache,
      TLBCache!Covers, TLB!Covers
<1>1. /\ TLBCache!InCache(k, a) = TLB!InCache(k, a)
      /\ TLBCache!CachedWord(k, a) = TLB!CachedWord(k, a)
      /\ TLBCache!EmptyCache = TLB!EmptyCache
      /\ TLBCache!NULL = TLB!NULL
  OBVIOUS
<1>2. TLBCache!WriteToCache(k, m, a, w) = TLB!WriteToCache(k, m, a, w)
  BY Zenon DEF TLBCache!UpdateLine, TLB!UpdateLine, TLBCache!WriteBack, TLB!WriteBack,
      TLBCache!ReadBlock, TLB!ReadBlock, TLBCache!Victims, TLB!Victims,
      TLBCache!ReplaceLine, TLB!ReplaceLine, TLBCache!LoadCacheLine, TLB!LoadCacheLine,
      TLBCache!WriteLoaded, TLB!WriteLoaded, TLBCache!WriteToCache, TLB!WriteToCache
<1> QED
  BY <1>1, <1>2

-----------------------------------------------------------------------------
(* What the operators do to the words that a reader gets at the physical addresses. *)

State ==
  [mem : [PhysAdr -> Word], disk : [Entry -> [Offset -> Word]],
   Lx : LxCache!CacheType, TLB : TLBCache!CacheType,
   rmap : [Frame -> {Unused, TableMark} \cup Entry],
   PTBR : {Table(pid) : pid \in Pid}, out : Word, quit : BOOLEAN]

\* Typed, with two good caches, and still running.
Sound(m) ==
  /\ m \in State /\ ~ m.quit
  /\ LxCache!Good(m.Lx) /\ TLBCache!Good(m.TLB)

\* Whether a call of Lx quits is a Boolean.
LEMMA QuitType ==
  ASSUME NEW k, NEW m, NEW a, NEW w
  PROVE  /\ \A r \in Lx!ReadFromPhysicalMem(k, m, a) : r.quit \in BOOLEAN
         /\ \A r \in Lx!WriteToPhysicalMem(k, m, a, w) : r.quit \in BOOLEAN
<1>1. \A r, q : [Lx!WriteLoaded(r, a, w) EXCEPT !.quit = @ \/ q].quit \in BOOLEAN
  BY DEF Lx!WriteLoaded
<1>2. \A r \in Lx!ReadFromPhysicalMem(k, m, a) : r.quit \in BOOLEAN
  <2>1. SUFFICES ASSUME NEW r \in Lx!ReadFromPhysicalMem(k, m, a) PROVE r.quit \in BOOLEAN
    OBVIOUS
  <2>2. CASE Lx!InCache(k, a)
    <3>1. r = [c |-> k, mem |-> m, quit |-> FALSE, w |-> Lx!CachedWord(k, a)]
      BY <2>2 DEF Lx!ReadFromPhysicalMem
    <3> QED
      BY <3>1
  <2>3. CASE ~ Lx!InCache(k, a)
    <3>1. PICK q \in Lx!WriteToCache(k, m, a, m[a]) : r.quit = (q.quit \/ ~ Lx!InCache(q.c, a))
      BY <2>3 DEF Lx!ReadFromPhysicalMem
    <3> QED
      BY <3>1
  <2> QED
    BY <2>2, <2>3
<1>3. \A r \in Lx!WriteToPhysicalMem(k, m, a, w) : r.quit \in BOOLEAN
  <2>1. SUFFICES ASSUME NEW r \in Lx!WriteToPhysicalMem(k, m, a, w) PROVE r.quit \in BOOLEAN
    OBVIOUS
  <2>2. CASE Lx!InCache(k, a)
    <3>1. r = [c |-> Lx!UpdateLine(k, a, w), mem |-> m, quit |-> FALSE]
      BY <2>2 DEF Lx!WriteToPhysicalMem
    <3> QED
      BY <3>1
  <2>3. CASE ~ Lx!InCache(k, a)
    <3>1. PICK q \in Lx!WriteToCache(k, m, a, m[a]) :
            r = [Lx!WriteLoaded(q, a, w) EXCEPT !.quit = @ \/ q.quit]
      BY <2>3 DEF Lx!WriteToPhysicalMem
    <3> QED
      BY <3>1, <1>1
  <2> QED
    BY <2>2, <2>3
<1> QED
  BY <1>2, <1>3

\* The latest words at all physical addresses.
Phys(m) == [a \in PhysAdr |-> Lx!WordAt(m.Lx, m.mem, a)]

\* Every physical address holds a word.
LEMMA PhysType == ASSUME NEW m, Sound(m) PROVE Phys(m) \in [PhysAdr -> Word]
<1>1. \A a \in PhysAdr : LxCache!WordAt(m.Lx, m.mem, a) \in Word
  BY Geometry, LxCache!WordAtType DEF Sound, State
<1> QED
  BY <1>1, LxOperators DEF Phys

\* The rest of a state, without the out parameter.
SameRest(n, m) == n.disk = m.disk /\ n.rmap = m.rmap /\ n.PTBR = m.PTBR

\* readFromPhysicalMem returns the word and changes none.
LEMMA PhysRead ==
  ASSUME NEW m, Sound(m), NEW a \in PhysAdr, NEW n \in ReadFromPhysicalMem(m, a)
  PROVE  /\ Sound(n) /\ SameRest(n, m) /\ n.TLB = m.TLB
         /\ Phys(n) = Phys(m) /\ n.out = Phys(m)[a]
<1>1. PICK r \in Lx!ReadFromPhysicalMem(m.Lx, m.mem, a) :
        n = [m EXCEPT !.Lx = r.c, !.mem = r.mem, !.quit = r.quit, !.out = r.w]
  BY DEF ReadFromPhysicalMem
<1>2. r \in LxCache!ReadFromPhysicalMem(m.Lx, m.mem, a)
  BY LxOperators
<1>3. LxCache!Good(m.Lx) /\ m.mem \in [LxCache!Adrs -> Word] /\ a \in LxCache!Adrs
  BY Geometry DEF Sound, State
<1>4. /\ LxCache!Stores(r, m.Lx, m.mem, a, LxCache!WordAt(m.Lx, m.mem, a))
      /\ r.w = LxCache!WordAt(m.Lx, m.mem, a)
  BY <1>2, <1>3, Geometry, LxCache!ReadPhysicalWord
<1>5. /\ ~ r.quit /\ LxCache!Good(r.c) /\ r.mem \in [PhysAdr -> Word]
      /\ r.w = Phys(m)[a]
      /\ \A b \in PhysAdr : Lx!WordAt(r.c, r.mem, b) = Lx!WordAt(m.Lx, m.mem, b)
  <2>1. \A b \in PhysAdr : LxCache!WordAt(r.c, r.mem, b)
          = IF b = a THEN LxCache!WordAt(m.Lx, m.mem, a) ELSE LxCache!WordAt(m.Lx, m.mem, b)
    BY <1>4, Geometry DEF LxCache!Stores
  <2>2. \A b : /\ LxCache!WordAt(r.c, r.mem, b) = Lx!WordAt(r.c, r.mem, b)
               /\ LxCache!WordAt(m.Lx, m.mem, b) = Lx!WordAt(m.Lx, m.mem, b)
    BY LxOperators
  <2>3. ~ r.quit /\ LxCache!Good(r.c) /\ r.mem \in [PhysAdr -> Word]
    BY <1>4, Geometry DEF LxCache!Stores
  <2> QED
    BY <1>4, <2>1, <2>2, <2>3 DEF Phys
<1>6. r.c \in LxCache!CacheType /\ r.w \in Word /\ r.quit \in BOOLEAN
  BY <1>5, PhysType, QuitType DEF LxCache!Good
<1>7. /\ n.Lx = r.c /\ n.mem = r.mem /\ n.quit = r.quit /\ n.out = r.w
      /\ n.TLB = m.TLB /\ SameRest(n, m)
  BY <1>1 DEF Sound, State, SameRest
<1>8. n \in State
  BY <1>1, <1>5, <1>6 DEF Sound, State
<1> QED
  BY <1>5, <1>7, <1>8 DEF Sound, Phys

\* writeToPhysicalMem changes the word and no other.
LEMMA PhysWrite ==
  ASSUME NEW m, Sound(m), NEW a \in PhysAdr, NEW w \in Word,
         NEW n \in WriteToPhysicalMem(m, a, w)
  PROVE  /\ Sound(n) /\ SameRest(n, m) /\ n.TLB = m.TLB /\ n.out = m.out
         /\ Phys(n) = [Phys(m) EXCEPT ![a] = w]
<1>1. PICK r \in Lx!WriteToPhysicalMem(m.Lx, m.mem, a, w) :
        n = [m EXCEPT !.Lx = r.c, !.mem = r.mem, !.quit = r.quit]
  BY DEF WriteToPhysicalMem
<1>2. r \in LxCache!WriteToPhysicalMem(m.Lx, m.mem, a, w)
  BY LxOperators
<1>3. LxCache!Good(m.Lx) /\ m.mem \in [LxCache!Adrs -> Word] /\ a \in LxCache!Adrs
  BY Geometry DEF Sound, State
<1>4. LxCache!Stores(r, m.Lx, m.mem, a, w)
  BY <1>2, <1>3, Geometry, LxCache!WritePhysicalWord
<1>5. /\ ~ r.quit /\ LxCache!Good(r.c) /\ r.mem \in [PhysAdr -> Word]
      /\ \A b \in PhysAdr : Lx!WordAt(r.c, r.mem, b)
                              = IF b = a THEN w ELSE Lx!WordAt(m.Lx, m.mem, b)
  <2>1. \A b \in PhysAdr : LxCache!WordAt(r.c, r.mem, b)
          = IF b = a THEN w ELSE LxCache!WordAt(m.Lx, m.mem, b)
    BY <1>4, Geometry DEF LxCache!Stores
  <2>2. \A b : /\ LxCache!WordAt(r.c, r.mem, b) = Lx!WordAt(r.c, r.mem, b)
               /\ LxCache!WordAt(m.Lx, m.mem, b) = Lx!WordAt(m.Lx, m.mem, b)
    BY LxOperators
  <2>3. ~ r.quit /\ LxCache!Good(r.c) /\ r.mem \in [PhysAdr -> Word]
    BY <1>4, Geometry DEF LxCache!Stores
  <2> QED
    BY <2>1, <2>2, <2>3
<1>6. r.c \in LxCache!CacheType /\ r.quit \in BOOLEAN
  BY <1>5, QuitType DEF LxCache!Good
<1>7. /\ n.Lx = r.c /\ n.mem = r.mem /\ n.quit = r.quit /\ n.out = m.out
      /\ n.TLB = m.TLB /\ SameRest(n, m)
  BY <1>1 DEF Sound, State, SameRest
<1>8. n \in State
  BY <1>1, <1>5, <1>6 DEF Sound, State
<1> QED
  BY <1>5, <1>7, <1>8 DEF Sound, Phys

\* A flush of Lx brings the memory up to date and changes no word.
LEMMA LxFlushed ==
  ASSUME NEW m, Sound(m), NEW invalidate \in BOOLEAN
  PROVE  LET n == FlushLx(m, invalidate) IN
         /\ Sound(n) /\ SameRest(n, m) /\ n.TLB = m.TLB /\ n.out = m.out
         /\ Phys(n) = Phys(m) /\ n.mem = Phys(m)
         /\ invalidate => n.Lx = Lx!EmptyCache
<1> DEFINE n == FlushLx(m, invalidate)
           mem1 == Lx!FlushedMem(m.Lx, m.mem)
           k1 == Lx!FlushedCache(m.Lx, invalidate)
<1>1. n = [m EXCEPT !.mem = mem1, !.Lx = k1]
  BY DEF FlushLx
<1>2. LxCache!Good(m.Lx) /\ m.mem \in [LxCache!Adrs -> Word]
  BY Geometry DEF Sound, State
<1>3. /\ mem1 = Phys(m) /\ mem1 \in [PhysAdr -> Word] /\ LxCache!Good(k1)
      /\ \A a \in PhysAdr : Lx!WordAt(k1, mem1, a) = Lx!WordAt(m.Lx, m.mem, a)
  <2>1. /\ LxCache!FlushedMem(m.Lx, m.mem) = [a \in PhysAdr |-> LxCache!WordAt(m.Lx, m.mem, a)]
        /\ LxCache!FlushedMem(m.Lx, m.mem) \in [PhysAdr -> Word]
        /\ LxCache!Good(LxCache!FlushedCache(m.Lx, invalidate))
        /\ \A a \in PhysAdr :
             LxCache!WordAt(LxCache!FlushedCache(m.Lx, invalidate), LxCache!FlushedMem(m.Lx, m.mem), a)
               = LxCache!WordAt(m.Lx, m.mem, a)
    BY <1>2, Geometry, LxCache!FlushWord
  <2>2. /\ LxCache!FlushedMem(m.Lx, m.mem) = mem1
        /\ LxCache!FlushedCache(m.Lx, invalidate) = k1
        /\ \A a : /\ LxCache!WordAt(m.Lx, m.mem, a) = Lx!WordAt(m.Lx, m.mem, a)
                  /\ LxCache!WordAt(k1, mem1, a) = Lx!WordAt(k1, mem1, a)
    BY LxOperators
  <2> HIDE DEF mem1, k1
  <2> QED
    BY <2>1, <2>2 DEF Phys
<1>4. k1 \in LxCache!CacheType
  BY <1>3 DEF LxCache!Good
<1>5. invalidate => k1 = Lx!EmptyCache
  BY DEF Lx!FlushedCache
<1>6. /\ n.Lx = k1 /\ n.mem = mem1 /\ n.quit = m.quit /\ n.out = m.out
      /\ n.TLB = m.TLB /\ SameRest(n, m) /\ n \in State
  BY <1>1, <1>3, <1>4 DEF Sound, State, SameRest
<1> QED
  BY <1>3, <1>5, <1>6 DEF Sound, Phys

\* What the TLB holds for a page is its word in g.
Agrees(k, g) == \A v \in LowPage : TLB!InCache(k, v) => TLB!CachedWord(k, v) = g[v]

\* In a TLB that agrees with g, a reader behind it would read g.
LEMMA AgreesWord ==
  ASSUME NEW k, NEW g
  PROVE  Agrees(k, g) <=> \A v \in LowPage : TLBCache!WordAt(k, g, v) = g[v]
<1>1. \A v : /\ TLBCache!InCache(k, v) = TLB!InCache(k, v)
             /\ TLBCache!CachedWord(k, v) = TLB!CachedWord(k, v)
  BY TLBOperators
<1> QED
  BY <1>1 DEF Agrees, TLBCache!WordAt

\* A loaded line with another buffer.
LEMMA BufferReplaced ==
  ASSUME NEW tag, NEW old, NEW buf
  PROVE  [TLBCache!Loaded(tag, old) EXCEPT !.buf = buf] = TLBCache!Loaded(tag, buf)
<1>1. ASSUME NEW V, NEW T, NEW B,
             NEW r \in [valid : V, tag : T, buf : B], NEW q \in [valid : V, tag : T, buf : B],
             r.valid = q.valid, r.tag = q.tag, r.buf = q.buf
      PROVE  r = q
  BY <1>1
<1> DEFINE r == [TLBCache!Loaded(tag, old) EXCEPT !.buf = buf]
           q == TLBCache!Loaded(tag, buf)
<1>2. /\ r \in [valid : {TRUE}, tag : {tag}, buf : {buf}]
      /\ q \in [valid : {TRUE}, tag : {tag}, buf : {buf}]
      /\ r.valid = q.valid /\ r.tag = q.tag /\ r.buf = q.buf
  BY DEF TLBCache!Loaded
<1> HIDE DEF r, q
<1>3. r = q
  BY <1>1, <1>2
<1> QED
  BY <1>3 DEF r, q

\* Under NULL a line is loaded with 0 and over g with a word of g, but then the
\* whole one-word line is overwritten.
LEMMA NullMemory ==
  ASSUME NEW k, TLBCache!Good(k), NEW g \in [LowPage -> Word], NEW v \in LowPage,
         NEW w \in Word, NEW r \in TLBCache!WriteToCache(k, TLBCache!NULL, v, w)
  PROVE  \E q \in TLBCache!WriteToCache(k, g, v, w) : q.c = r.c /\ q.quit = r.quit
<1> DEFINE null == TLBCache!NULL
           zero == [b \in LowPage |-> 0]
           s == TLBCache!SetOf(v)
           tag == TLBCache!LoadTag(v)
           Line(x) == TLBCache!Loaded(tag, [o \in TLBCache!Offset |-> x])
           Repl(x, i) == [k EXCEPT ![s][i] = Line(x)]
<1>1. PICK l \in TLBCache!LoadCacheLine(k, null, v) : r = TLBCache!WriteLoaded(l, v, w)
  BY DEF TLBCache!WriteToCache
<1>2. CASE TLBCache!InCache(k, v)
  <2>1. /\ l = [c |-> k, mem |-> null]
        /\ [c |-> k, mem |-> g] \in TLBCache!LoadCacheLine(k, g, v)
    BY <1>1, <1>2 DEF TLBCache!LoadCacheLine
  <2>2. TLBCache!WriteLoaded([c |-> k, mem |-> g], v, w) \in TLBCache!WriteToCache(k, g, v, w)
    BY <2>1 DEF TLBCache!WriteToCache
  <2> QED
    BY <1>1, <1>2, <2>1, <2>2 DEF TLBCache!WriteLoaded
<1>3. CASE ~ TLBCache!InCache(k, v)
  <2>1. PICK i \in TLBCache!Victims(k, s) : l = TLBCache!ReplaceLine(k, null, v, i)
    BY <1>1, <1>3 DEF TLBCache!LoadCacheLine
  <2>2. i \in TLBCache!Line /\ v \in TLBCache!Adrs /\ s \in TLBCache!Set /\ k \in TLBCache!CacheType
    BY <2>1, Geometry, TLBCache!AddressParts DEF TLBCache!Victims, TLBCache!Good
  <2> DEFINE lg == TLBCache!ReplaceLine(k, g, v, i)
             lz == TLBCache!ReplaceLine(k, zero, v, i)
  <2>3. TLBCache!Offset = {0}
    BY DEF TLBCache!Offset
  <2>4. TLBCache!WriteBack(null, s, k[s][i]) = null
    BY DEF TLBCache!WriteBack, TLBCache!NULL
  <2>5. TLBCache!ReadBlock(null, v) = [o \in TLBCache!Offset |-> 0]
    BY DEF TLBCache!ReadBlock
  <2>6. l.c = Repl(0, i)
    BY <2>1, <2>4, <2>5, Zenon DEF TLBCache!ReplaceLine
  <2>7. PICK x : lg.c = Repl(x, i)
    BY <2>3 DEF TLBCache!ReplaceLine, TLBCache!ReadBlock
  <2>8. TLBCache!Good(lg.c) /\ TLBCache!InCache(lg.c, v)
    BY <1>3, <2>2, Geometry, TLBCache!ReplaceWord
  <2>9. /\ \A y : Repl(y, i)[s][i] = Line(y)
        /\ \A y : \A j \in TLBCache!Line : j # i => Repl(y, i)[s][j] = k[s][j]
        /\ \A y : Line(y).valid = TRUE /\ Line(y).tag = tag
    BY <2>2 DEF TLBCache!CacheType, TLBCache!Loaded
  <2>10. TLBCache!FindCacheLine(lg.c, v) = i
    <3>1. TLBCache!Holds(lg.c, v, i)
      <4>1. lg.c[s][i] = Line(x) /\ Line(x).valid = TRUE /\ Line(x).tag = tag
        BY <2>7, <2>9
      <4> HIDE DEF lg, Line
      <4> QED
        BY <4>1 DEF TLBCache!Holds
    <3> HIDE DEF lg
    <3> QED
      BY <2>2, <2>8, <3>1, Geometry, TLBCache!FoundLine
  <2>11. TLBCache!Hits(l.c, v) = TLBCache!Hits(lg.c, v)
    <3>1. ASSUME NEW j \in TLBCache!Line
          PROVE  TLBCache!Matches(l.c[s][j], v) = TLBCache!Matches(lg.c[s][j], v)
      <4>1. CASE j = i
        <5>1. /\ l.c[s][j] = Line(0) /\ lg.c[s][j] = Line(x)
              /\ Line(x).valid = Line(0).valid /\ Line(x).tag = Line(0).tag
          BY <2>6, <2>7, <2>9, <4>1
        <5> HIDE DEF lg, Line, s
        <5> QED
          BY <5>1 DEF TLBCache!Matches
      <4>2. CASE j # i
        BY <2>6, <2>7, <2>9, <4>2
      <4> QED
        BY <4>1, <4>2
    <3> HIDE DEF lg, s
    <3> QED
      BY <3>1 DEF TLBCache!Hits, s
  <2>12. TLBCache!InCache(l.c, v) /\ TLBCache!FindCacheLine(l.c, v) = i
    BY <2>8, <2>10, <2>11 DEF TLBCache!InCache, TLBCache!FindCacheLine
  <2>13. TLBCache!OffsetOf(v) = 0
    BY <2>2, <2>3, Geometry, TLBCache!AddressParts
  <2>14. \A y : [Repl(y, i) EXCEPT ![s][i].buf[0] = w] = Repl(w, i)
    <3>1. SUFFICES ASSUME NEW y PROVE [Repl(y, i) EXCEPT ![s][i].buf[0] = w] = Repl(w, i)
      OBVIOUS
    <3>2. [Line(y) EXCEPT !.buf[0] = w] = Line(w)
      <4>1. [Line(y) EXCEPT !.buf[0] = w] = [Line(y) EXCEPT !.buf = [Line(y).buf EXCEPT ![0] = w]]
        BY DEF TLBCache!Loaded
      <4>2. [Line(y).buf EXCEPT ![0] = w] = [o \in TLBCache!Offset |-> w]
        BY <2>3 DEF TLBCache!Loaded
      <4>3. \A b : [Line(y) EXCEPT !.buf = b] = TLBCache!Loaded(tag, b)
        BY BufferReplaced
      <4> QED
        BY <4>1, <4>2, <4>3, Zenon
    <3> HIDE DEF Line
    <3> QED
      BY <2>2, <3>2 DEF TLBCache!CacheType
  <2>15. TLBCache!UpdateLine(l.c, v, w) = TLBCache!UpdateLine(lg.c, v, w)
    <3>1. /\ TLBCache!UpdateLine(l.c, v, w) = [Repl(0, i) EXCEPT ![s][i].buf[0] = w]
          /\ TLBCache!UpdateLine(lg.c, v, w) = [Repl(x, i) EXCEPT ![s][i].buf[0] = w]
      BY <2>6, <2>7, <2>10, <2>12, <2>13, Zenon DEF TLBCache!UpdateLine
    <3> HIDE DEF Repl
    <3> QED
      BY <2>14, <3>1
  <2>16. lg \in TLBCache!LoadCacheLine(k, g, v)
    BY <1>3, <2>1 DEF TLBCache!LoadCacheLine
  <2>17. TLBCache!WriteLoaded(lg, v, w) \in TLBCache!WriteToCache(k, g, v, w)
    BY <2>16 DEF TLBCache!WriteToCache
  <2> QED
    BY <1>1, <2>8, <2>12, <2>15, <2>17 DEF TLBCache!WriteLoaded
<1> QED
  BY <1>2, <1>3

\* TLB k agrees with g, once w is written for page v.
TLBGets(k, g, v, w) == Agrees(k, [g EXCEPT ![v] = w])

\* A PTE written to the TLB.
LEMMA TLBWritten ==
  ASSUME NEW m, Sound(m), NEW g \in [LowPage -> Word], Agrees(m.TLB, g),
         NEW v \in LowPage, NEW w \in Word, NEW n \in WriteToTLB(m, v, w)
  PROVE  /\ Sound(n) /\ SameRest(n, m) /\ n.out = m.out
         /\ n.Lx = m.Lx /\ n.mem = m.mem /\ Phys(n) = Phys(m)
         /\ TLBGets(n.TLB, g, v, w)
<1>1. PICK r \in TLB!WriteToCache(m.TLB, TLB!NULL, v, w) :
        n = [m EXCEPT !.TLB = r.c, !.quit = r.quit]
  BY DEF WriteToTLB
<1>2. r \in TLBCache!WriteToCache(m.TLB, TLBCache!NULL, v, w)
  BY TLBOperators
<1>3. PICK q \in TLBCache!WriteToCache(m.TLB, g, v, w) : q.c = r.c /\ q.quit = r.quit
  BY <1>2, NullMemory DEF Sound
<1>4. TLBCache!Stores(q, m.TLB, g, v, w)
  BY Geometry, TLBCache!WriteToCacheWord DEF Sound
<1>5. ~ r.quit /\ TLBCache!Good(r.c)
  BY <1>3, <1>4 DEF TLBCache!Stores
<1>6. r.c \in TLBCache!CacheType /\ r.quit \in BOOLEAN
  <2>1. r.quit \in BOOLEAN
    <3>1. PICK l \in TLBCache!LoadCacheLine(m.TLB, TLBCache!NULL, v) :
            r = TLBCache!WriteLoaded(l, v, w)
      BY <1>2 DEF TLBCache!WriteToCache
    <3>2. r.quit = FALSE \/ r.quit = TRUE
      BY <3>1 DEF TLBCache!WriteLoaded
    <3> QED
      BY <3>2
  <2> QED
    BY <1>5, <2>1 DEF TLBCache!Good
<1>7. /\ n.TLB = r.c /\ n.quit = r.quit /\ n.out = m.out /\ n.Lx = m.Lx /\ n.mem = m.mem
      /\ SameRest(n, m) /\ n \in State
  BY <1>1, <1>6 DEF Sound, State, SameRest
<1>8. \A b \in LowPage : TLBCache!WordAt(q.c, q.mem, b) = [g EXCEPT ![v] = w][b]
  BY <1>4, AgreesWord, Geometry DEF TLBCache!Stores
<1>9. \A b \in LowPage : TLB!InCache(q.c, b) => TLB!CachedWord(q.c, b) = [g EXCEPT ![v] = w][b]
  <2>1. \A b : /\ TLBCache!InCache(q.c, b) = TLB!InCache(q.c, b)
               /\ TLBCache!CachedWord(q.c, b) = TLB!CachedWord(q.c, b)
    BY TLBOperators
  <2> QED
    BY <1>8, <2>1 DEF TLBCache!WordAt
<1> QED
  BY <1>3, <1>5, <1>7, <1>9 DEF Sound, Phys, Agrees, TLBGets

\* The TLB after it has been flushed holds nothing.
LEMMA TLBFlushed ==
  ASSUME NEW m, Sound(m)
  PROVE  LET n == FlushTLB(m) IN
         /\ Sound(n) /\ SameRest(n, m) /\ n.out = m.out
         /\ n.Lx = m.Lx /\ n.mem = m.mem /\ Phys(n) = Phys(m)
         /\ \A g : Agrees(n.TLB, g)
<1> DEFINE n == FlushTLB(m)
<1>1. n = [m EXCEPT !.TLB = TLBCache!EmptyCache]
  BY TLBOperators DEF FlushTLB, TLB!FlushedCache
<1>2. /\ TLBCache!Good(TLBCache!EmptyCache)
      /\ \A a \in LowPage : ~ TLBCache!InCache(TLBCache!EmptyCache, a)
  BY Geometry, TLBCache!EmptyGood
<1>3. TLBCache!EmptyCache \in TLBCache!CacheType
  BY <1>2 DEF TLBCache!Good
<1>4. /\ n.TLB = TLBCache!EmptyCache /\ n.quit = m.quit /\ n.out = m.out /\ n.Lx = m.Lx
      /\ n.mem = m.mem /\ SameRest(n, m) /\ n \in State
  BY <1>1, <1>3 DEF Sound, State, SameRest
<1>5. \A a : TLBCache!InCache(TLBCache!EmptyCache, a) = TLB!InCache(TLBCache!EmptyCache, a)
  BY TLBOperators
<1> QED
  BY <1>2, <1>4, <1>5 DEF Sound, Phys, Agrees

-----------------------------------------------------------------------------
(* Page tables and frames *)

\* Division with remainder, and the only numbers of that form.
LEMMA DivMod ==
  ASSUME NEW a \in Nat, NEW m \in Nat \ {0}
  PROVE  /\ a \div m \in Nat
         /\ a % m \in 0..m-1
         /\ a = (a \div m) * m + (a % m)
OBVIOUS

\* Quotient and remainder are unique.
LEMMA DivModUnique ==
  ASSUME NEW m \in Nat \ {0}, NEW q \in Nat, NEW r \in 0..m-1
  PROVE  (q * m + r) \div m = q /\ (q * m + r) % m = r
OBVIOUS

\* A number below a product, from its quotient and remainder.
LEMMA MulLess ==
  ASSUME NEW a \in Nat, NEW m \in Nat \ {0}, NEW k \in Nat, NEW r \in 0..m-1, a < k
  PROVE  a * m + r < k * m
OBVIOUS

\* The quotient of a number below a product.
LEMMA DivLess ==
  ASSUME NEW a \in Nat, NEW m \in Nat \ {0}, NEW k \in Nat, a < k * m
  PROVE  a \div m < k
OBVIOUS

\* Products keep the order.
LEMMA MulMono ==
  ASSUME NEW a \in Nat, NEW k \in Nat, NEW m \in Nat, a <= k
  PROVE  a * m <= k * m
OBVIOUS

\* The page tables fill the first frames.
LEMMA Tables ==
  /\ TableFrames \in Nat /\ TableFrames < NFrames
  /\ TableFrames * PageWords = MaxProcess * NPages
  /\ MaxProcess * NPages \in Nat /\ NFrames * PageWords \in Nat
  /\ MaxProcess * NPages < NFrames * PageWords
<1>1. /\ NFrames \in Nat /\ PageWords \in Nat \ {0} /\ MaxProcess \in Nat \ {0}
      /\ NPages \in Nat \ {0}
  BY Numbers
<1>2. (NPages \div PageWords) * PageWords = NPages /\ NPages \div PageWords \in Nat \ {0}
  BY <1>1, MemSystemAssumption, DivExact
<1> DEFINE e == NPages \div PageWords
<1> HIDE DEF e
<1>3. e * PageWords = NPages /\ e \in Nat
  BY <1>2 DEF e
<1>4. MaxProcess * e \in Nat /\ MaxProcess * NPages \in Nat /\ NFrames * PageWords \in Nat
  BY <1>1, <1>2, <1>3, MulPos DEF e
<1>5. (MaxProcess * e) * PageWords = MaxProcess * NPages
  BY <1>1, <1>3, MulAssoc
<1>6. 0 \in 0..PageWords-1
  BY <1>1
<1>7. ((MaxProcess * e) * PageWords + 0) \div PageWords = MaxProcess * e
  BY <1>1, <1>4, <1>6, DivModUnique
<1>8. TableFrames = MaxProcess * e
  BY <1>4, <1>5, <1>7 DEF TableFrames
<1>9. TableFrames < NFrames
  BY MemSystemAssumption, <1>1, <1>4, <1>8
<1> DEFINE t == MaxProcess * e
<1> HIDE DEF t
<1>10. t \in Nat /\ t < NFrames
  BY <1>4, <1>8, <1>9 DEF t
<1>11. t * PageWords + 0 < NFrames * PageWords
  BY <1>1, <1>6, <1>10, MulLess
<1> QED
  BY <1>4, <1>5, <1>8, <1>9, <1>11 DEF t

\* An entry of a page table, and the process and the page it is about.
LEMMA Entries ==
  /\ Entry \subseteq PhysAdr /\ LowPage \subseteq Page
  /\ \A pid \in Pid, v \in Page :
       /\ Table(pid) + v \in Entry /\ Table(pid) \in Nat
       /\ (Table(pid) + v) \div NPages = pid /\ (Table(pid) + v) % NPages = v
  /\ \A pid \in Pid : Table(pid) \div NPages = pid
  /\ \A t \in Entry : t \div NPages \in Pid /\ t % NPages \in Page
                      /\ t = Table(t \div NPages) + (t % NPages)
<1>1. NPages \in Nat \ {0} /\ MaxProcess \in Nat /\ NPages \div 2 \in Nat /\ NPages \div 2 <= NPages
  BY Numbers
<1>2. Entry \subseteq PhysAdr /\ LowPage \subseteq Page
  BY <1>1, Tables DEF Entry, PhysAdr, LowPage, Page
<1>3. ASSUME NEW pid \in Pid, NEW v \in Page
      PROVE  /\ Table(pid) + v \in Entry /\ Table(pid) \in Nat
             /\ (Table(pid) + v) \div NPages = pid /\ (Table(pid) + v) % NPages = v
  <2>1. pid \in Nat /\ pid < MaxProcess /\ v \in 0..NPages-1 /\ pid * NPages \in Nat
    BY <1>1 DEF Pid, Page
  <2>2. /\ (pid * NPages + v) \div NPages = pid /\ (pid * NPages + v) % NPages = v
        /\ pid * NPages + v < MaxProcess * NPages
    BY <2>1, <1>1, DivModUnique, MulLess
  <2> QED
    BY <1>1, <2>1, <2>2, Tables DEF Table, Entry
<1>4. ASSUME NEW pid \in Pid PROVE Table(pid) \div NPages = pid
  <2>1. 0 \in Page
    BY <1>1 DEF Page
  <2> QED
    BY <1>3, <2>1
<1>5. ASSUME NEW t \in Entry
      PROVE  /\ t \div NPages \in Pid /\ t % NPages \in Page
             /\ t = Table(t \div NPages) + (t % NPages)
  <2>1. t \in Nat /\ t < MaxProcess * NPages
    BY Tables DEF Entry
  <2>2. t \div NPages \in Nat /\ t % NPages \in 0..NPages-1 /\ t = (t \div NPages) * NPages + (t % NPages)
    BY <1>1, <2>1, DivMod
  <2>3. t \div NPages < MaxProcess
    BY <1>1, <2>1, DivLess
  <2> QED
    BY <1>1, <2>2, <2>3 DEF Pid, Page, Table
<1> QED
  BY <1>2, <1>3, <1>4, <1>5

\* A word of a frame; no data frame contains an entry.
LEMMA Frames ==
  /\ DataFrame \subseteq Frame /\ Frame \subseteq Nat
  /\ \A fn \in Frame, o \in Offset :
       /\ PhysAdrs(fn, o) \in PhysAdr
       /\ PhysAdrs(fn, o) \div PageWords = fn /\ PhysAdrs(fn, o) % PageWords = o
  /\ \A a \in PhysAdr :
       /\ a \div PageWords \in Frame /\ a % PageWords \in Offset
       /\ a = PhysAdrs(a \div PageWords, a % PageWords)
       /\ a \in Entry <=> a \div PageWords \notin DataFrame
<1>1. PageWords \in Nat \ {0} /\ NFrames \in Nat \ {0}
  BY Numbers
<1>2. DataFrame \subseteq Frame /\ Frame \subseteq Nat
  BY <1>1, Tables DEF DataFrame, Frame
<1>3. ASSUME NEW fn \in Frame, NEW o \in Offset
      PROVE  /\ PhysAdrs(fn, o) \in PhysAdr
             /\ PhysAdrs(fn, o) \div PageWords = fn /\ PhysAdrs(fn, o) % PageWords = o
  <2>1. fn \in Nat /\ fn < NFrames /\ o \in 0..PageWords-1 /\ fn * PageWords \in Nat
    BY <1>1 DEF Frame, Offset
  <2>2. /\ (fn * PageWords + o) \div PageWords = fn /\ (fn * PageWords + o) % PageWords = o
        /\ fn * PageWords + o < NFrames * PageWords
    BY <2>1, <1>1, DivModUnique, MulLess
  <2> QED
    BY <1>1, <2>1, <2>2, Tables DEF PhysAdrs, PhysAdr
<1>4. ASSUME NEW a \in PhysAdr
      PROVE  /\ a \div PageWords \in Frame /\ a % PageWords \in Offset
             /\ a = PhysAdrs(a \div PageWords, a % PageWords)
             /\ a \in Entry <=> a \div PageWords \notin DataFrame
  <2>1. a \in Nat /\ a < NFrames * PageWords
    BY Tables DEF PhysAdr
  <2> DEFINE f == a \div PageWords
             o == a % PageWords
  <2>2. f \in Nat /\ o \in 0..PageWords-1 /\ a = f * PageWords + o
    BY <1>1, <2>1, DivMod
  <2>3. f < NFrames
    BY <1>1, <2>1, DivLess
  <2>4. a < TableFrames * PageWords => f < TableFrames
    BY <1>1, <2>1, Tables, DivLess
  <2> HIDE DEF f, o
  <2>5. f < TableFrames => a < TableFrames * PageWords
    BY <1>1, <2>2, Tables, MulLess
  <2>6. a \in Entry <=> a < TableFrames * PageWords
    BY <2>1, Tables DEF Entry
  <2>7. f \notin DataFrame <=> f < TableFrames
    BY <2>2, <2>3, Tables, <1>1 DEF DataFrame
  <2> QED
    BY <1>1, <2>2, <2>3, <2>4, <2>5, <2>6, <2>7 DEF Frame, Offset, PhysAdrs, f, o
<1> QED
  BY <1>2, <1>3, <1>4

\* A PTE names its frame, and no other word of a table is one.
LEMMA PTEs ==
  /\ \A fn \in Frame : Valid(PTE(fn)) /\ PFN(PTE(fn)) = fn /\ PTE(fn) # 0
  /\ \A fn \in DataFrame : PTE(fn) \in Word
  /\ ~ Valid(0) /\ 0 \in Word /\ Data \subseteq Word
<1>1. NFrames \in Nat \ {0}
  BY Numbers
<1>2. ASSUME NEW fn \in Frame PROVE Valid(PTE(fn)) /\ PFN(PTE(fn)) = fn /\ PTE(fn) # 0
  <2>1. fn \in 0..NFrames-1
    BY DEF Frame
  <2>2. (2 * NFrames + fn) % NFrames = fn
    BY <1>1, <2>1, DivModUnique
  <2> QED
    BY <1>1, <2>1, <2>2 DEF Valid, PTE, PFN, VPNVALID
<1>3. ~ Valid(0)
  BY <1>1 DEF Valid, VPNVALID
<1> QED
  BY <1>2, <1>3 DEF Word

\* The PTEs of the low pages of the process that runs.
PTEsOf(m) == [v \in LowPage |-> Phys(m)[PTEAdrs(m, v)]]

Coherent(m) == Agrees(m.TLB, PTEsOf(m))

\* The entries that a process uses are in its page table.
LEMMA PTEAdrsType ==
  ASSUME NEW m, Sound(m), NEW v \in LowPage
  PROVE  /\ PTEAdrs(m, v) \in Entry /\ PTEAdrs(m, v) \in PhysAdr
         /\ m.PTBR \in Nat /\ m.PTBR \div NPages \in Pid /\ m.PTBR = Table(m.PTBR \div NPages)
<1>1. PICK pid \in Pid : m.PTBR = Table(pid)
  BY DEF Sound, State
<1> QED
  BY <1>1, Entries DEF PTEAdrs

\* They are words.
LEMMA PTEsType ==
  ASSUME NEW m, Sound(m)
  PROVE  PTEsOf(m) \in [LowPage -> Word]
BY PTEAdrsType, PhysType DEF PTEsOf

\* readPTE returns the entry, whether the TLB holds it or not.
LEMMA PTERead ==
  ASSUME NEW m, Sound(m), Coherent(m), NEW v \in LowPage, NEW n \in ReadPTE(m, v)
  PROVE  /\ Sound(n) /\ SameRest(n, m) /\ Coherent(n)
         /\ Phys(n) = Phys(m) /\ n.out = Phys(m)[PTEAdrs(m, v)]
<1>1. CASE TLB!InCache(m.TLB, v)
  <2>1. n = [m EXCEPT !.out = TLB!CachedWord(m.TLB, v)]
    BY <1>1 DEF ReadPTE
  <2>2. TLB!CachedWord(m.TLB, v) = Phys(m)[PTEAdrs(m, v)]
    BY <1>1 DEF Coherent, Agrees, PTEsOf
  <2>3. Phys(m)[PTEAdrs(m, v)] \in Word
    BY PTEAdrsType, PhysType
  <2>4. /\ n.TLB = m.TLB /\ n.quit = m.quit /\ n.Lx = m.Lx /\ n.mem = m.mem
        /\ n.out = Phys(m)[PTEAdrs(m, v)] /\ SameRest(n, m) /\ n \in State
    BY <2>1, <2>2, <2>3 DEF Sound, State, SameRest
  <2> QED
    BY <2>4 DEF Sound, Phys, Coherent, PTEsOf, PTEAdrs, SameRest
<1>2. CASE ~ TLB!InCache(m.TLB, v)
  <2>1. n \in Then(ReadFromPhysicalMem(m, PTEAdrs(m, v)), LAMBDA k : WriteToTLB(k, v, k.out))
    BY <1>2 DEF ReadPTE
  <2>2. PICK k \in ReadFromPhysicalMem(m, PTEAdrs(m, v)) :
          n \in IF k.quit THEN {k} ELSE WriteToTLB(k, v, k.out)
    BY <2>1 DEF Then
  <2>3. /\ Sound(k) /\ SameRest(k, m) /\ k.TLB = m.TLB /\ Phys(k) = Phys(m)
        /\ k.out = Phys(m)[PTEAdrs(m, v)]
    BY PTEAdrsType, PhysRead
  <2>4. PTEsOf(m) \in [LowPage -> Word] /\ Agrees(k.TLB, PTEsOf(m)) /\ k.out \in Word
    BY <2>3, PTEsType DEF Coherent, Sound, State
  <2>5. n \in WriteToTLB(k, v, k.out)
    BY <2>2, <2>3 DEF Sound
  <2>6. /\ Sound(n) /\ SameRest(n, k) /\ n.out = k.out /\ Phys(n) = Phys(k)
        /\ Agrees(n.TLB, [PTEsOf(m) EXCEPT ![v] = k.out])
    <3> DEFINE g == PTEsOf(m)
               w == k.out
    <3>1. g \in [LowPage -> Word] /\ Agrees(k.TLB, g) /\ w \in Word /\ n \in WriteToTLB(k, v, w)
      BY <2>4, <2>5
    <3> HIDE DEF g, w
    <3>2. /\ Sound(n) /\ SameRest(n, k) /\ n.out = k.out /\ Phys(n) = Phys(k)
          /\ TLBGets(n.TLB, g, v, w)
      BY <2>3, <3>1, TLBWritten
    <3> QED
      BY <3>2 DEF g, w, TLBGets
  <2>7. [PTEsOf(m) EXCEPT ![v] = k.out] = PTEsOf(m)
    BY <2>3 DEF PTEsOf
  <2>8. PTEsOf(n) = PTEsOf(m)
    BY <2>3, <2>6 DEF PTEsOf, SameRest, PTEAdrs
  <2> QED
    BY <2>3, <2>6, <2>7, <2>8 DEF Coherent, SameRest
<1> QED
  BY <1>1, <1>2

\* The words of a frame.
FrameWords(p, fn) == [o \in Offset |-> p[PhysAdrs(fn, o)]]

\* The words of a frame make a page.
LEMMA FrameWordsType ==
  ASSUME NEW p \in [PhysAdr -> Word], NEW fn \in Frame
  PROVE  FrameWords(p, fn) \in [Offset -> Word]
BY Frames DEF FrameWords

\* In n, frame fn of m is also on the disk, as page t.
Saved(n, m, fn, t) ==
  /\ Sound(n) /\ n.rmap = m.rmap /\ n.PTBR = m.PTBR /\ n.TLB = m.TLB
  /\ n.out = m.out /\ Phys(n) = Phys(m)
  /\ n.disk = [m.disk EXCEPT ![t] = FrameWords(Phys(m), fn)]

\* A frame is copied to the disk after a flush.
LEMMA FrameSaved ==
  ASSUME NEW m, Sound(m), NEW fn \in Frame, NEW t \in Entry,
         NEW n \in {CopyToDisk(FlushLx(m, FALSE), fn, t)}
  PROVE  Saved(n, m, fn, t)
<1> DEFINE k == FlushLx(m, FALSE)
           f == FrameWords(Phys(m), fn)
<1>1. /\ Sound(k) /\ SameRest(k, m) /\ k.TLB = m.TLB /\ k.out = m.out /\ Phys(k) = Phys(m)
      /\ k.mem = Phys(m)
  BY LxFlushed
<1>0. n = CopyToDisk(k, fn, t)
  OBVIOUS
<1> HIDE DEF k
<1>2. n = [k EXCEPT !.disk = [k.disk EXCEPT ![t] = f]]
  BY <1>0, <1>1 DEF CopyToDisk, FrameWords
<1>3. f \in [Offset -> Word]
  BY PhysType, FrameWordsType
<1> HIDE DEF f
<1>4. /\ n.TLB = k.TLB /\ n.quit = k.quit /\ n.Lx = k.Lx /\ n.mem = k.mem
      /\ n.out = k.out /\ n.rmap = k.rmap /\ n.PTBR = k.PTBR
      /\ n.disk = [k.disk EXCEPT ![t] = f] /\ n \in State
  BY <1>1, <1>2, <1>3 DEF Sound, State
<1>5. Sound(n) /\ Phys(n) = Phys(k)
  BY <1>1, <1>4 DEF Sound, Phys
<1>6. /\ Sound(n) /\ n.rmap = m.rmap /\ n.PTBR = m.PTBR /\ n.TLB = m.TLB
      /\ n.out = m.out /\ Phys(n) = Phys(m) /\ n.disk = [m.disk EXCEPT ![t] = f]
  BY <1>1, <1>4, <1>5 DEF SameRest
<1> QED
  BY <1>6 DEF Saved, f

\* In n, frame fn holds page t of the disk of m.
Filled(n, m, fn, t) ==
  /\ Sound(n) /\ SameRest(n, m) /\ n.TLB = m.TLB /\ n.out = m.out
  /\ Phys(n) = [a \in PhysAdr |-> IF a \div PageWords = fn
                                    THEN m.disk[t][a % PageWords] ELSE Phys(m)[a]]

\* A page is copied from the disk into a frame.
LEMMA FrameFilled ==
  ASSUME NEW m, Sound(m), NEW fn \in Frame, NEW t \in Entry,
         NEW n \in {CopyFromDisk(FlushLx(m, TRUE), t, fn)}
  PROVE  Filled(n, m, fn, t)
<1> DEFINE k == FlushLx(m, TRUE)
           p == [a \in PhysAdr |-> IF a \div PageWords = fn
                                     THEN m.disk[t][a % PageWords] ELSE Phys(m)[a]]
<1>1. /\ Sound(k) /\ SameRest(k, m) /\ k.TLB = m.TLB /\ k.out = m.out /\ Phys(k) = Phys(m)
      /\ k.mem = Phys(m) /\ k.Lx = Lx!EmptyCache
  BY LxFlushed
<1>0. n = CopyFromDisk(k, t, fn)
  OBVIOUS
<1> HIDE DEF k
<1>2. DOMAIN k.mem = PhysAdr
  BY <1>1 DEF Phys
<1>3. n = [k EXCEPT !.mem = p]
  BY <1>0, <1>1, <1>2 DEF CopyFromDisk, SameRest
<1>4. p \in [PhysAdr -> Word]
  <2>1. ASSUME NEW a \in PhysAdr PROVE m.disk[t][a % PageWords] \in Word /\ Phys(m)[a] \in Word
    BY Frames, PhysType DEF Sound, State
  <2> QED
    BY <2>1
<1>5. \A q, a : a \in PhysAdr => Lx!WordAt(Lx!EmptyCache, q, a) = q[a]
  <2>1. \A a \in PhysAdr : ~ LxCache!InCache(LxCache!EmptyCache, a)
    BY Geometry, LxCache!EmptyGood
  <2>2. \A q, a : a \in PhysAdr => LxCache!WordAt(LxCache!EmptyCache, q, a) = q[a]
    BY <2>1 DEF LxCache!WordAt
  <2> QED
    BY <2>2, LxOperators
<1>6. DOMAIN p = PhysAdr
  OBVIOUS
<1> HIDE DEF p
<1>7. /\ n.TLB = k.TLB /\ n.quit = k.quit /\ n.Lx = k.Lx /\ n.mem = p
      /\ n.out = k.out /\ SameRest(n, k) /\ n \in State
  BY <1>1, <1>3, <1>4 DEF Sound, State, SameRest
<1>8. Phys(n) = p
  BY <1>1, <1>4, <1>5, <1>7 DEF Phys
<1>9. /\ Sound(n) /\ SameRest(n, m) /\ n.TLB = m.TLB /\ n.out = m.out /\ Phys(n) = p
  BY <1>1, <1>7, <1>8 DEF Sound, SameRest
<1> QED
  BY <1>9 DEF Filled, p

\* A page is swapped out: its words are on the disk, its PTE is 0.
SwapsOut(n, m, fn) ==
  /\ Sound(n) /\ Coherent(n) /\ n.rmap = m.rmap /\ n.PTBR = m.PTBR
  /\ n.disk = [m.disk EXCEPT ![m.rmap[fn]] = FrameWords(Phys(m), fn)]
  /\ Phys(n) = [Phys(m) EXCEPT ![m.rmap[fn]] = 0]

\* The swap of allocateFrame does what SwapsOut says.
LEMMA SwappedOut ==
  ASSUME NEW m, Sound(m), NEW fn \in Frame, m.rmap[fn] \in Entry, NEW n \in SwapOut(m, fn)
  PROVE  SwapsOut(n, m, fn)
<1> DEFINE t == m.rmap[fn]
           k == FlushLx(m, FALSE)
           j == CopyToDisk(FlushLx(m, FALSE), fn, t)
<1>1. k.rmap[fn] = t
  BY LxFlushed DEF SameRest
<1>2. PICK i \in WriteToPhysicalMem(j, t, 0) : n = FlushTLB(i)
  BY DEF SwapOut
<1> HIDE DEF t, j
<1>3. /\ Sound(j) /\ j.rmap = m.rmap /\ j.PTBR = m.PTBR /\ Phys(j) = Phys(m)
      /\ j.disk = [m.disk EXCEPT ![t] = FrameWords(Phys(m), fn)]
  <2>1. t \in Entry
    BY DEF t
  <2>2. j \in {CopyToDisk(FlushLx(m, FALSE), fn, t)}
    BY DEF j
  <2>3. Saved(j, m, fn, t)
    BY <2>1, <2>2, FrameSaved
  <2> QED
    BY <2>3 DEF Saved
<1>4. t \in PhysAdr /\ 0 \in Word
  BY Entries, PTEs DEF t
<1>5. Sound(i) /\ SameRest(i, j) /\ Phys(i) = [Phys(j) EXCEPT ![t] = 0]
  BY <1>3, <1>4, PhysWrite
<1>6. Sound(n) /\ SameRest(n, i) /\ Phys(n) = Phys(i) /\ \A g : Agrees(n.TLB, g)
  BY <1>2, <1>5, TLBFlushed
<1>7. /\ Sound(n) /\ Coherent(n) /\ n.rmap = m.rmap /\ n.PTBR = m.PTBR
      /\ n.disk = [m.disk EXCEPT ![t] = FrameWords(Phys(m), fn)]
      /\ Phys(n) = [Phys(m) EXCEPT ![t] = 0]
  BY <1>3, <1>5, <1>6 DEF SameRest, Coherent
<1> QED
  BY <1>7 DEF SwapsOut, t

\* A frame is given to a page of the process that runs.
Maps(n, m, v, fn) ==
  /\ Sound(n) /\ Coherent(n) /\ n.disk = m.disk /\ n.PTBR = m.PTBR
  /\ n.rmap = [m.rmap EXCEPT ![fn] = PTEAdrs(m, v)] /\ n.out = PTE(fn)
  /\ Phys(n) = [Phys(m) EXCEPT ![PTEAdrs(m, v)] = PTE(fn)]

\* The rest of allocateFrame does what Maps says.
LEMMA Mapped ==
  ASSUME NEW m, Sound(m), Coherent(m), NEW v \in LowPage, NEW fn \in DataFrame,
         NEW n \in MapPage(m, v, fn)
  PROVE  Maps(n, m, v, fn)
<1> DEFINE e == PTEAdrs(m, v)
           k == [m EXCEPT !.rmap[fn] = e, !.out = PTE(fn)]
<1>1. e \in Entry /\ e \in PhysAdr /\ fn \in Frame /\ PTE(fn) \in Word
  BY PTEAdrsType, Frames, PTEs
<1>2. k = [[m EXCEPT !.rmap = [m.rmap EXCEPT ![fn] = e]] EXCEPT !.out = PTE(fn)]
  BY DEF Sound, State
<1> HIDE DEF e, k
<1>3. /\ k.TLB = m.TLB /\ k.quit = m.quit /\ k.Lx = m.Lx /\ k.mem = m.mem
      /\ k.out = PTE(fn) /\ k.rmap = [m.rmap EXCEPT ![fn] = e] /\ k.disk = m.disk
      /\ k.PTBR = m.PTBR /\ k \in State
  BY <1>1, <1>2 DEF Sound, State
<1>4. Sound(k) /\ Phys(k) = Phys(m)
  BY <1>3 DEF Sound, Phys
<1>5. PICK j \in WriteToTLB(k, v, PTE(fn)) :
        n \in IF j.quit THEN {j} ELSE WriteToPhysicalMem(j, PTEAdrs(j, v), PTE(fn))
  BY DEF MapPage, Then, k, e
<1>6. PTEsOf(m) \in [LowPage -> Word] /\ Agrees(k.TLB, PTEsOf(m))
  BY <1>3, PTEsType DEF Coherent
<1>7. /\ Sound(j) /\ SameRest(j, k) /\ j.out = k.out /\ Phys(j) = Phys(k)
      /\ Agrees(j.TLB, [PTEsOf(m) EXCEPT ![v] = PTE(fn)])
  <2> DEFINE g == PTEsOf(m)
             w == PTE(fn)
  <2>1. g \in [LowPage -> Word] /\ Agrees(k.TLB, g) /\ w \in Word /\ j \in WriteToTLB(k, v, w)
    BY <1>1, <1>5, <1>6
  <2> HIDE DEF g, w
  <2>2. /\ Sound(j) /\ SameRest(j, k) /\ j.out = k.out /\ Phys(j) = Phys(k)
        /\ TLBGets(j.TLB, g, v, w)
    BY <1>4, <2>1, TLBWritten
  <2> QED
    BY <2>2 DEF g, w, TLBGets
<1>8. PTEAdrs(j, v) = e
  BY <1>3, <1>7 DEF SameRest, PTEAdrs, e
<1>9. n \in WriteToPhysicalMem(j, e, PTE(fn))
  BY <1>5, <1>7, <1>8 DEF Sound
<1>10. /\ Sound(n) /\ SameRest(n, j) /\ n.TLB = j.TLB /\ n.out = j.out
       /\ Phys(n) = [Phys(j) EXCEPT ![e] = PTE(fn)]
  BY <1>1, <1>7, <1>9, PhysWrite
<1>11. /\ Sound(n) /\ n.disk = m.disk /\ n.PTBR = m.PTBR /\ n.TLB = j.TLB
       /\ n.rmap = [m.rmap EXCEPT ![fn] = e] /\ n.out = PTE(fn)
       /\ Phys(n) = [Phys(m) EXCEPT ![e] = PTE(fn)]
  BY <1>3, <1>4, <1>7, <1>10 DEF SameRest
<1>12. PTEsOf(n) = [PTEsOf(m) EXCEPT ![v] = PTE(fn)]
  <2>1. DOMAIN Phys(m) = PhysAdr
    BY DEF Phys
  <2>2. ASSUME NEW u \in LowPage
        PROVE  Phys(n)[PTEAdrs(n, u)] = IF u = v THEN PTE(fn) ELSE Phys(m)[PTEAdrs(m, u)]
    <3>1. PTEAdrs(n, u) = PTEAdrs(m, u)
      BY <1>11 DEF PTEAdrs
    <3>2. u # v => PTEAdrs(m, u) # e
      BY PTEAdrsType DEF PTEAdrs, e, LowPage
    <3> QED
      BY <1>1, <1>11, <2>1, <3>1, <3>2, PTEAdrsType DEF e
  <2> QED
    BY <2>2 DEF PTEsOf
<1>13. Coherent(n)
  BY <1>7, <1>11, <1>12 DEF Coherent
<1> QED
  BY <1>11, <1>13 DEF Maps, e

-----------------------------------------------------------------------------
(* What page tables, frames, rmap and disk say together; p, d and r are the  *)
(* words of the physical memory, the disk and rmap.                           *)

TypesOf(p, d, r) ==
  /\ p \in [PhysAdr -> Word] /\ d \in [Entry -> [Offset -> Word]]
  /\ r \in [Frame -> {Unused, TableMark} \cup Entry]

Tidy(p, d, r) ==
  /\ TypesOf(p, d, r)
  /\ \A t \in Entry : p[t] = 0 \/ \E fn \in DataFrame : p[t] = PTE(fn) /\ r[fn] = t
  /\ \A fn \in DataFrame : r[fn] = Unused \/ (r[fn] \in Entry /\ p[r[fn]] = PTE(fn))
  /\ \A a \in PhysAdr \ Entry : p[a] \in Data \cup {0}
  /\ \A t \in Entry, o \in Offset : d[t][o] \in Data \cup {0}

\* The word at offset o of the page of entry t.
PageWord(p, d, t, o) ==
  IF Valid(p[t]) THEN p[PhysAdrs(PFN(p[t]), o)] ELSE d[t][o]

SamePages(p, d, p1, d1) ==
  \A t \in Entry, o \in Offset : PageWord(p1, d1, t, o) = PageWord(p, d, t, o)

\* An entry is 0, or the PTE of the frame that rmap gives to it.
LEMMA EntryCases ==
  ASSUME NEW p, NEW d, NEW r, Tidy(p, d, r), NEW t \in Entry
  PROVE  \/ p[t] = 0 /\ ~ Valid(p[t])
         \/ /\ PFN(p[t]) \in DataFrame /\ p[t] = PTE(PFN(p[t])) /\ Valid(p[t])
            /\ r[PFN(p[t])] = t /\ p[t] # 0
BY Frames, PTEs DEF Tidy

\* A page holds data, never the entry of a page table.
LEMMA PageWordType ==
  ASSUME NEW p, NEW d, NEW r, Tidy(p, d, r), NEW t \in Entry, NEW o \in Offset
  PROVE  PageWord(p, d, t, o) \in Data \cup {0}
<1>1. CASE ~ Valid(p[t])
  BY <1>1 DEF PageWord, Tidy
<1>2. CASE Valid(p[t])
  <2>1. PFN(p[t]) \in DataFrame
    BY <1>2, EntryCases
  <2>2. PhysAdrs(PFN(p[t]), o) \in PhysAdr \ Entry
    BY <2>1, Frames
  <2> QED
    BY <1>2, <2>2 DEF PageWord, Tidy
<1> QED
  BY <1>1, <1>2

\* The owner of frame fn loses it, its page being copied to the disk.
Evicted(p, d, r, fn, p1, d1, r1) ==
  /\ p1 = [p EXCEPT ![r[fn]] = 0]
  /\ d1 = [d EXCEPT ![r[fn]] = FrameWords(p, fn)]
  /\ r1 = [r EXCEPT ![fn] = Unused]

\* When the page of a frame goes to the disk, no page changes.
LEMMA Eviction ==
  ASSUME NEW p, NEW d, NEW r, Tidy(p, d, r), NEW fn \in DataFrame, r[fn] # Unused,
         NEW p1, NEW d1, NEW r1, Evicted(p, d, r, fn, p1, d1, r1)
  PROVE  Tidy(p1, d1, r1) /\ SamePages(p, d, p1, d1)
<1> DEFINE s == r[fn]
<1>1. s \in Entry /\ s \in PhysAdr /\ fn \in Frame /\ p[s] = PTE(fn)
  BY Entries, Frames DEF Tidy
<1>2. TypesOf(p, d, r)
  BY DEF Tidy
<1>3. /\ DOMAIN p1 = PhysAdr /\ \A a \in PhysAdr : p1[a] = IF a = s THEN 0 ELSE p[a]
      /\ DOMAIN d1 = Entry /\ \A t \in Entry : d1[t] = IF t = s THEN FrameWords(p, fn) ELSE d[t]
      /\ DOMAIN r1 = Frame /\ \A f \in Frame : r1[f] = IF f = fn THEN Unused ELSE r[f]
  BY <1>1, <1>2 DEF Evicted, TypesOf
<1>4. \A o \in Offset : FrameWords(p, fn)[o] \in Data \cup {0}
                        /\ PhysAdrs(fn, o) \notin Entry /\ PhysAdrs(fn, o) \in PhysAdr
  BY <1>1, Frames DEF FrameWords, Tidy
<1>5. TypesOf(p1, d1, r1)
  <2>1. FrameWords(p, fn) \in [Offset -> Word] /\ 0 \in Word
    BY <1>1, <1>2, FrameWordsType, PTEs DEF TypesOf
  <2> QED
    BY <1>2, <1>1, <2>1 DEF Evicted, TypesOf
<1> HIDE DEF s
<1>6. \A t \in Entry : p[t] = PTE(fn) => t = s
  BY <1>1, EntryCases, Frames, PTEs DEF s
<1>7. \A t \in Entry : p1[t] = 0 \/ \E f \in DataFrame : p1[t] = PTE(f) /\ r1[f] = t
  <2>1. SUFFICES ASSUME NEW t \in Entry, p1[t] # 0
                 PROVE  \E f \in DataFrame : p1[t] = PTE(f) /\ r1[f] = t
    OBVIOUS
  <2>2. t # s /\ p1[t] = p[t]
    BY <1>3, <2>1, Entries
  <2>3. PICK f \in DataFrame : p[t] = PTE(f) /\ r[f] = t
    BY <2>1, <2>2 DEF Tidy
  <2>4. f # fn /\ f \in Frame
    BY <1>6, <2>2, <2>3, Frames
  <2> QED
    BY <1>3, <2>2, <2>3, <2>4
<1>8. \A f \in DataFrame : r1[f] = Unused \/ (r1[f] \in Entry /\ p1[r1[f]] = PTE(f))
  <2>1. SUFFICES ASSUME NEW f \in DataFrame, r1[f] # Unused
                 PROVE  r1[f] \in Entry /\ p1[r1[f]] = PTE(f)
    OBVIOUS
  <2>2. f # fn /\ r1[f] = r[f] /\ f \in Frame
    BY <1>3, <2>1, Frames
  <2>3. r[f] \in Entry /\ p[r[f]] = PTE(f)
    BY <2>1, <2>2 DEF Tidy
  <2>4. r[f] # s
    BY <1>1, <2>2, <2>3, Frames, PTEs
  <2> QED
    BY <1>3, <2>2, <2>3, <2>4, Entries
<1>9. \A a \in PhysAdr \ Entry : p1[a] \in Data \cup {0}
  BY <1>3 DEF Tidy
<1>10. \A t \in Entry, o \in Offset : d1[t][o] \in Data \cup {0}
  BY <1>3, <1>4 DEF Tidy
<1>11. ASSUME NEW t \in Entry, NEW o \in Offset
       PROVE  PageWord(p1, d1, t, o) = PageWord(p, d, t, o)
  <2>1. CASE t = s
    <3>1. PageWord(p, d, t, o) = p[PhysAdrs(fn, o)]
      BY <1>1, <2>1, PTEs DEF PageWord
    <3>2. p1[t] = 0 /\ d1[t] = FrameWords(p, fn)
      BY <1>3, <2>1, Entries
    <3>3. PageWord(p1, d1, t, o) = FrameWords(p, fn)[o]
      BY <3>2, PTEs DEF PageWord
    <3> QED
      BY <3>1, <3>3 DEF FrameWords
  <2>2. CASE t # s
    <3>1. p1[t] = p[t] /\ d1[t] = d[t]
      BY <1>3, <2>2, Entries
    <3>2. Valid(p[t]) => /\ PhysAdrs(PFN(p[t]), o) \notin Entry
                         /\ PhysAdrs(PFN(p[t]), o) \in PhysAdr
      <4>1. Valid(p[t]) => PFN(p[t]) \in DataFrame
        BY EntryCases
      <4> QED
        BY <4>1, Frames
    <3>3. Valid(p[t]) => p1[PhysAdrs(PFN(p[t]), o)] = p[PhysAdrs(PFN(p[t]), o)]
      BY <1>1, <1>3, <3>2
    <3> QED
      BY <3>1, <3>3 DEF PageWord
  <2> QED
    BY <2>1, <2>2
<1> QED
  BY <1>5, <1>7, <1>8, <1>9, <1>10, <1>11 DEF Tidy, SamePages

\* Entry e gets the free frame fn.
Given(p, r, e, fn, p1, r1) ==
  /\ p1 = [p EXCEPT ![e] = PTE(fn)] /\ r1 = [r EXCEPT ![fn] = e]

\* And its page is loaded.
Loaded(p1, d, e, fn, p2) ==
  p2 = [a \in PhysAdr |-> IF a \div PageWords = fn THEN d[e][a % PageWords] ELSE p1[a]]

\* When an unused frame is filled with the disk's page and given to its entry, no
\* page changes.
LEMMA Giving ==
  ASSUME NEW p, NEW d, NEW r, Tidy(p, d, r), NEW fn \in DataFrame, r[fn] = Unused,
         NEW e \in Entry, p[e] = 0,
         NEW p1, NEW r1, Given(p, r, e, fn, p1, r1), NEW p2, Loaded(p1, d, e, fn, p2)
  PROVE  /\ Tidy(p2, d, r1) /\ SamePages(p, d, p2, d) /\ p2[e] = PTE(fn)
         /\ \A t \in Entry : t # e => p2[t] = p[t]
         /\ \A t \in Entry : p2[t] = p1[t]
<1>1. TypesOf(p, d, r) /\ e \in PhysAdr /\ fn \in Frame
  BY Entries, Frames DEF Tidy
<1>2. /\ \A a \in PhysAdr : p1[a] = IF a = e THEN PTE(fn) ELSE p[a]
      /\ \A f \in Frame : r1[f] = IF f = fn THEN e ELSE r[f]
      /\ r1 \in [Frame -> {Unused, TableMark} \cup Entry]
  BY <1>1 DEF Given, TypesOf
<1>3. /\ \A t \in Entry : p2[t] = IF t = e THEN PTE(fn) ELSE p[t]
      /\ \A t \in Entry : p2[t] = p1[t]
  <2>1. \A t \in Entry : t \div PageWords # fn /\ t \in PhysAdr
    BY Entries, Frames
  <2> QED
    BY <1>2, <2>1 DEF Loaded
<1>4. \A f \in Frame, o \in Offset : f \in DataFrame =>
        p2[PhysAdrs(f, o)] = IF f = fn THEN d[e][o] ELSE p[PhysAdrs(f, o)]
  <2>1. SUFFICES ASSUME NEW f \in Frame, NEW o \in Offset, f \in DataFrame
                 PROVE  p2[PhysAdrs(f, o)] = IF f = fn THEN d[e][o] ELSE p[PhysAdrs(f, o)]
    OBVIOUS
  <2>2. /\ PhysAdrs(f, o) \in PhysAdr /\ PhysAdrs(f, o) \div PageWords = f
        /\ PhysAdrs(f, o) % PageWords = o /\ PhysAdrs(f, o) \notin Entry
    BY <2>1, Frames
  <2> QED
    BY <1>2, <2>2 DEF Loaded
<1>5. \A a \in PhysAdr \ Entry : p2[a] \in Data \cup {0}
  <2>1. SUFFICES ASSUME NEW a \in PhysAdr, a \notin Entry PROVE p2[a] \in Data \cup {0}
    OBVIOUS
  <2>2. p1[a] \in Data \cup {0} /\ a % PageWords \in Offset
    BY <1>2, <2>1, Frames DEF Tidy
  <2>3. d[e][a % PageWords] \in Data \cup {0}
    BY <2>2 DEF Tidy
  <2> QED
    BY <2>2, <2>3 DEF Loaded
<1>6. TypesOf(p2, d, r1)
  <2>1. ASSUME NEW a \in PhysAdr PROVE p2[a] \in Word
    BY <1>1, <1>3, <1>5, PTEs DEF TypesOf
  <2>2. p2 = [a \in PhysAdr |-> p2[a]]
    BY DEF Loaded
  <2> QED
    BY <1>1, <1>2, <2>1, <2>2 DEF TypesOf
<1>7. \A t \in Entry : p2[t] = 0 \/ \E f \in DataFrame : p2[t] = PTE(f) /\ r1[f] = t
  <2>1. SUFFICES ASSUME NEW t \in Entry, p2[t] # 0
                 PROVE  \E f \in DataFrame : p2[t] = PTE(f) /\ r1[f] = t
    OBVIOUS
  <2>2. CASE t = e
    BY <1>1, <1>2, <1>3, <2>2
  <2>3. CASE t # e
    <3>1. PICK f \in DataFrame : p[t] = PTE(f) /\ r[f] = t
      BY <1>3, <2>1, <2>3 DEF Tidy
    <3>2. f # fn /\ f \in Frame
      BY <3>1, Frames, Entries, Tables DEF Unused, Entry
    <3> QED
      BY <1>2, <1>3, <2>3, <3>1, <3>2
  <2> QED
    BY <2>2, <2>3
<1>8. \A f \in DataFrame : r1[f] = Unused \/ (r1[f] \in Entry /\ p2[r1[f]] = PTE(f))
  <2>1. SUFFICES ASSUME NEW f \in DataFrame, r1[f] # Unused
                 PROVE  r1[f] \in Entry /\ p2[r1[f]] = PTE(f)
    OBVIOUS
  <2>2. CASE f = fn
    BY <1>1, <1>2, <1>3, <2>2
  <2>3. CASE f # fn
    <3>1. r1[f] = r[f] /\ r[f] \in Entry /\ p[r[f]] = PTE(f)
      BY <1>2, <2>1, <2>3, Frames DEF Tidy
    <3>2. r[f] # e
      BY <3>1, Frames, PTEs
    <3> QED
      BY <1>3, <3>1, <3>2
  <2> QED
    BY <2>2, <2>3
<1>9. ASSUME NEW t \in Entry, NEW o \in Offset
      PROVE  PageWord(p2, d, t, o) = PageWord(p, d, t, o)
  <2>1. CASE t = e
    <3>1. PageWord(p, d, t, o) = d[e][o]
      BY <2>1, PTEs DEF PageWord
    <3>2. PageWord(p2, d, t, o) = p2[PhysAdrs(fn, o)]
      BY <1>1, <1>3, <2>1, PTEs DEF PageWord
    <3> QED
      BY <1>1, <1>4, <3>1, <3>2
  <2>2. CASE t # e
    <3>1. p2[t] = p[t]
      BY <1>3, <2>2
    <3>2. Valid(p[t]) => PFN(p[t]) \in DataFrame /\ PFN(p[t]) # fn /\ PFN(p[t]) \in Frame
      <4>1. Valid(p[t]) => PFN(p[t]) \in DataFrame /\ r[PFN(p[t])] = t
        BY EntryCases
      <4>2. t # Unused
        BY Tables DEF Unused, Entry
      <4> QED
        BY <4>1, <4>2, Frames
    <3> QED
      BY <1>4, <3>1, <3>2 DEF PageWord
  <2> QED
    BY <2>1, <2>2
<1> QED
  BY <1>3, <1>5, <1>6, <1>7, <1>8, <1>9 DEF Tidy, SamePages

\* A set of numbers that is not empty has a least one.
LEMMA Least ==
  ASSUME NEW A, A \subseteq Nat, A # {}
  PROVE  \E n \in A : \A m \in A : n <= m
<1> DEFINE R == OpToRel(<, Nat)
<1>1. IsWellFoundedOn(R, Nat)
  BY NatLessThanWellFounded
<1>2. PICK n \in A : \A m \in A : <<m, n>> \notin R
  BY <1>1, WFMin
<1>3. ASSUME NEW m \in A PROVE n <= m
  <2>1. ~ m < n
    BY <1>2, <1>3 DEF OpToRel
  <2> QED
    BY <2>1
<1> QED
  BY <1>3

-----------------------------------------------------------------------------
(* Paging keeps the pages of all processes. *)

TidyState(m) == Sound(m) /\ Coherent(m) /\ Tidy(Phys(m), m.disk, m.rmap)

\* The entries other than e have lost their frame at most; the frames of the
\* page tables keep their marks.
Others(p, r, p1, r1, e) ==
  /\ \A t \in Entry : t # e => p1[t] \in {p[t], 0}
  /\ \A fn \in Frame \ DataFrame : r1[fn] = r[fn]

\* The state n, after a call in m that may give a frame to entry e.
Pages(n, m, e) ==
  /\ TidyState(n) /\ n.PTBR = m.PTBR
  /\ SamePages(Phys(m), m.disk, Phys(n), n.disk)
  /\ Others(Phys(m), m.rmap, Phys(n), n.rmap, e)

\* Frame fn is free in memory p1 with rmap r1 and disk d1, and is given to e in n.
Gives(n, m, e, fn, p1, d1, r1) ==
  /\ Tidy(p1, d1, r1) /\ r1[fn] = Unused /\ p1[e] = 0
  /\ SamePages(Phys(m), m.disk, p1, d1) /\ Others(Phys(m), m.rmap, p1, r1, e)
  /\ Sound(n) /\ Coherent(n) /\ n.disk = d1 /\ n.PTBR = m.PTBR /\ n.out = PTE(fn)
  /\ Given(p1, r1, e, fn, Phys(n), n.rmap)

\* allocateFrame gives the page a frame, free or taken from another page.
LEMMA FrameAllocated ==
  ASSUME NEW m, TidyState(m), NEW v \in LowPage, Phys(m)[PTEAdrs(m, v)] = 0,
         NEW n \in AllocateFrame(m, v)
  PROVE  \E fn \in DataFrame : \E p1, d1, r1 : Gives(n, m, PTEAdrs(m, v), fn, p1, d1, r1)
<1> DEFINE e == PTEAdrs(m, v)
<1>1. e \in Entry /\ Sound(m) /\ Coherent(m) /\ Tidy(Phys(m), m.disk, m.rmap)
  BY PTEAdrsType DEF TidyState
<1>2. CASE FreeFrames(m) # {}
  <2> DEFINE fn == CHOOSE f \in FreeFrames(m) : \A g \in FreeFrames(m) : f <= g
  <2>1. FreeFrames(m) \subseteq DataFrame /\ FreeFrames(m) \subseteq Nat
    BY Frames DEF FreeFrames
  <2>2. \E f \in FreeFrames(m) : \A g \in FreeFrames(m) : f <= g
    BY <1>2, <2>1, Least
  <2>3. fn \in FreeFrames(m)
    BY <2>2
  <2>4. n \in MapPage(m, v, fn)
    BY <1>2 DEF AllocateFrame
  <2> HIDE DEF fn
  <2>5. fn \in DataFrame /\ m.rmap[fn] = Unused
    BY <2>3 DEF FreeFrames
  <2>6. Maps(n, m, v, fn)
    BY <1>1, <2>4, <2>5, Mapped
  <2>7. Given(Phys(m), m.rmap, e, fn, Phys(n), n.rmap)
    BY <2>6 DEF Maps, Given
  <2>8. /\ SamePages(Phys(m), m.disk, Phys(m), m.disk)
        /\ Others(Phys(m), m.rmap, Phys(m), m.rmap, e)
    BY DEF SamePages, Others
  <2>9. Gives(n, m, e, fn, Phys(m), m.disk, m.rmap)
    BY <1>1, <2>5, <2>6, <2>7, <2>8 DEF Gives, Maps
  <2> QED
    BY <2>5, <2>9
<1>3. CASE FreeFrames(m) = {}
  <2>1. PICK fn \in DataFrame : n \in Then(SwapOut(m, fn), LAMBDA k : MapPage(k, v, fn))
    BY <1>3 DEF AllocateFrame
  <2>2. PICK k \in SwapOut(m, fn) : n \in IF k.quit THEN {k} ELSE MapPage(k, v, fn)
    BY <2>1 DEF Then
  <2>3. m.rmap[fn] # Unused /\ m.rmap[fn] \in Entry /\ fn \in Frame
    BY <1>1, <1>3, Frames DEF FreeFrames, Tidy
  <2>4. SwapsOut(k, m, fn)
    BY <1>1, <2>2, <2>3, SwappedOut
  <2>5. n \in MapPage(k, v, fn) /\ Sound(k) /\ Coherent(k)
    BY <2>2, <2>4 DEF SwapsOut, Sound
  <2>6. Maps(n, k, v, fn)
    BY <2>5, Mapped
  <2>7. PTEAdrs(k, v) = e
    BY <2>4 DEF SwapsOut, PTEAdrs
  <2> DEFINE r1 == [m.rmap EXCEPT ![fn] = Unused]
  <2>8. Evicted(Phys(m), m.disk, m.rmap, fn, Phys(k), k.disk, r1)
    BY <2>4 DEF SwapsOut, Evicted
  <2>9. Tidy(Phys(k), k.disk, r1) /\ SamePages(Phys(m), m.disk, Phys(k), k.disk)
    BY <1>1, <2>3, <2>8, Eviction
  <2>10. /\ r1[fn] = Unused /\ \A f \in Frame \ DataFrame : r1[f] = m.rmap[f]
         /\ n.rmap = [r1 EXCEPT ![fn] = e]
    <3>1. m.rmap \in [Frame -> {Unused, TableMark} \cup Entry]
      BY <1>1 DEF Sound, State
    <3>2. n.rmap = [m.rmap EXCEPT ![fn] = e]
      BY <2>4, <2>6, <2>7 DEF SwapsOut, Maps
    <3> QED
      BY <2>3, <3>1, <3>2
  <2>11. \A t \in Entry : Phys(k)[t] \in {Phys(m)[t], 0}
    <3>1. DOMAIN Phys(m) = PhysAdr /\ Entry \subseteq PhysAdr
      BY Entries DEF Phys
    <3> QED
      BY <2>4, <3>1 DEF SwapsOut
  <2>12. Phys(k)[e] = 0
    BY <1>1, <2>11
  <2> HIDE DEF r1
  <2>13. Given(Phys(k), r1, e, fn, Phys(n), n.rmap)
    BY <2>6, <2>7, <2>10 DEF Maps, Given
  <2>14. Others(Phys(m), m.rmap, Phys(k), r1, e)
    BY <2>10, <2>11 DEF Others
  <2>15. /\ Sound(n) /\ Coherent(n) /\ n.disk = k.disk /\ n.PTBR = m.PTBR /\ n.out = PTE(fn)
    BY <2>4, <2>6 DEF Maps, SwapsOut
  <2>16. Gives(n, m, e, fn, Phys(k), k.disk, r1)
    BY <2>9, <2>10, <2>12, <2>13, <2>14, <2>15 DEF Gives
  <2> QED
    BY <2>16
<1> QED
  BY <1>2, <1>3

\* readPageFromDisk brings a page into memory and changes none.
LEMMA PageRead ==
  ASSUME NEW m, TidyState(m), NEW v \in LowPage, ~ Valid(Phys(m)[PTEAdrs(m, v)]),
         NEW n \in ReadPageFromDisk(m, v)
  PROVE  Pages(n, m, PTEAdrs(m, v)) /\ Valid(Phys(n)[PTEAdrs(m, v)])
<1> DEFINE e == PTEAdrs(m, v)
<1>1. /\ e \in Entry /\ e \in PhysAdr /\ Sound(m) /\ Coherent(m)
      /\ Tidy(Phys(m), m.disk, m.rmap) /\ Phys(m)[e] = 0
  BY PTEAdrsType, EntryCases DEF TidyState
<1>2. PICK j \in ReadPTE(m, v) : \E k :
        /\ k \in IF j.quit THEN {j} ELSE IF Valid(j.out) THEN {j} ELSE AllocateFrame(j, v)
        /\ n \in IF k.quit THEN {k}
                 ELSE {CopyFromDisk(FlushLx(k, TRUE), PTEAdrs(k, v), PFN(k.out))}
  BY DEF ReadPageFromDisk, Then
<1>3. PICK k :
        /\ k \in IF j.quit THEN {j} ELSE IF Valid(j.out) THEN {j} ELSE AllocateFrame(j, v)
        /\ n \in IF k.quit THEN {k}
                 ELSE {CopyFromDisk(FlushLx(k, TRUE), PTEAdrs(k, v), PFN(k.out))}
  BY <1>2
<1>4. /\ Sound(j) /\ SameRest(j, m) /\ Coherent(j)
      /\ Phys(j) = Phys(m) /\ j.out = Phys(m)[e]
  BY <1>1, PTERead
<1>5. TidyState(j) /\ PTEAdrs(j, v) = e
  BY <1>1, <1>4 DEF TidyState, SameRest, PTEAdrs
<1>6. k \in AllocateFrame(j, v)
  BY <1>3, <1>4 DEF Sound
<1>7. PICK fn \in DataFrame : \E p1, d1, r1 : Gives(k, j, e, fn, p1, d1, r1)
  BY <1>1, <1>4, <1>5, <1>6, FrameAllocated
<1>8. PICK p1, d1, r1 : Gives(k, j, e, fn, p1, d1, r1)
  BY <1>7
<1>9. /\ Sound(k) /\ PTEAdrs(k, v) = e /\ PFN(k.out) = fn /\ fn \in Frame
      /\ k.disk = d1 /\ k.PTBR = m.PTBR /\ Coherent(k)
  BY <1>4, <1>5, <1>8, Frames, PTEs DEF Gives, SameRest, PTEAdrs
<1>10. n \in {CopyFromDisk(FlushLx(k, TRUE), e, fn)}
  BY <1>3, <1>9 DEF Sound
<1>11. Filled(n, k, fn, e)
  BY <1>1, <1>9, <1>10, FrameFilled
<1>12. Loaded(Phys(k), d1, e, fn, Phys(n)) /\ n.disk = d1 /\ n.rmap = k.rmap /\ n.PTBR = m.PTBR
  BY <1>9, <1>11 DEF Filled, Loaded, SameRest
<1>13. /\ Tidy(p1, d1, r1) /\ r1[fn] = Unused /\ p1[e] = 0
       /\ Given(p1, r1, e, fn, Phys(k), k.rmap)
  BY <1>8 DEF Gives
<1>14. /\ Tidy(Phys(n), d1, n.rmap) /\ SamePages(p1, d1, Phys(n), d1) /\ Phys(n)[e] = PTE(fn)
       /\ \A t \in Entry : t # e => Phys(n)[t] = p1[t]
       /\ \A t \in Entry : Phys(n)[t] = Phys(k)[t]
  BY <1>1, <1>12, <1>13, Giving
<1>15. PTEsOf(n) = PTEsOf(k)
  BY <1>9, <1>12, <1>14, PTEAdrsType DEF PTEsOf, PTEAdrs
<1>16. Sound(n) /\ Coherent(n)
  BY <1>9, <1>11, <1>15 DEF Filled, Coherent
<1>17. SamePages(Phys(m), m.disk, p1, d1) /\ Others(Phys(m), m.rmap, p1, r1, e)
  BY <1>4, <1>8 DEF Gives, SameRest
<1>18. SamePages(Phys(m), m.disk, Phys(n), n.disk)
  BY <1>12, <1>14, <1>17 DEF SamePages
<1>19. Others(Phys(m), m.rmap, Phys(n), n.rmap, e)
  <2>1. \A f \in Frame \ DataFrame : n.rmap[f] = r1[f]
    BY <1>12, <1>13 DEF Given, Tidy, TypesOf
  <2> QED
    BY <1>14, <1>17, <2>1 DEF Others
<1> QED
  BY <1>9, <1>12, <1>14, <1>16, <1>18, <1>19, PTEs DEF Pages, TidyState

\* The address translation returns a valid entry and changes no page.
LEMMA Translated ==
  ASSUME NEW m, TidyState(m), NEW v \in LowPage, NEW n \in Translate(m, v)
  PROVE  /\ Pages(n, m, PTEAdrs(m, v)) /\ PTEAdrs(n, v) = PTEAdrs(m, v)
         /\ n.out = Phys(n)[PTEAdrs(m, v)] /\ Valid(n.out)
<1> DEFINE e == PTEAdrs(m, v)
<1>1. PICK j \in ReadPTE(m, v) :
        n \in IF j.quit THEN {j} ELSE
              IF Valid(j.out) THEN {j}
              ELSE Then(Then(ReadPageFromDisk(j, v),
                             LAMBDA k : ReadFromPhysicalMem(k, PTEAdrs(k, v))),
                        LAMBDA k : Check(Valid(k.out), k))
  BY DEF Translate, Then
<1>2. /\ Sound(j) /\ SameRest(j, m) /\ Coherent(j)
      /\ Phys(j) = Phys(m) /\ j.out = Phys(m)[e]
  BY <1>1, PTERead DEF TidyState
<1>3. TidyState(j) /\ PTEAdrs(j, v) = e /\ ~ j.quit
  BY <1>2 DEF TidyState, SameRest, PTEAdrs, Sound
<1>4. Pages(j, m, e)
  BY <1>2, <1>3 DEF Pages, SameRest, SamePages, Others
<1>5. CASE Valid(j.out)
  BY <1>1, <1>2, <1>3, <1>4, <1>5
<1>6. CASE ~ Valid(j.out)
  <2>1. PICK k \in ReadPageFromDisk(j, v) : \E i :
          /\ i \in IF k.quit THEN {k} ELSE ReadFromPhysicalMem(k, PTEAdrs(k, v))
          /\ n \in IF i.quit THEN {i} ELSE Check(Valid(i.out), i)
    BY <1>1, <1>3, <1>6 DEF Then
  <2>2. PICK i :
          /\ i \in IF k.quit THEN {k} ELSE ReadFromPhysicalMem(k, PTEAdrs(k, v))
          /\ n \in IF i.quit THEN {i} ELSE Check(Valid(i.out), i)
    BY <2>1
  <2>3. Pages(k, j, e) /\ Valid(Phys(k)[e])
    BY <1>2, <1>3, <1>6, PageRead
  <2>4. Sound(k) /\ PTEAdrs(k, v) = e /\ ~ k.quit /\ e \in PhysAdr
    BY <1>3, <2>3, PTEAdrsType DEF Pages, TidyState, PTEAdrs, Sound
  <2>5. /\ Sound(i) /\ SameRest(i, k) /\ i.TLB = k.TLB /\ Phys(i) = Phys(k)
        /\ i.out = Phys(k)[e]
    BY <2>2, <2>4, PhysRead
  <2>6. n = [i EXCEPT !.quit = FALSE] /\ i.quit = FALSE
    BY <2>2, <2>3, <2>5 DEF Check, Sound, State
  <2>7. n = i
    BY <2>5, <2>6 DEF Sound, State
  <2>8. Coherent(n)
    BY <2>3, <2>5, <2>7 DEF Pages, TidyState, Coherent, PTEsOf, SameRest, PTEAdrs
  <2>9. TidyState(n) /\ n.PTBR = m.PTBR
    BY <1>2, <2>3, <2>5, <2>7, <2>8 DEF Pages, TidyState, SameRest
  <2>10. SamePages(Phys(m), m.disk, Phys(n), n.disk)
    BY <1>2, <2>3, <2>5, <2>7 DEF Pages, SameRest
  <2>11. Others(Phys(m), m.rmap, Phys(n), n.rmap, e)
    BY <1>2, <2>3, <2>5, <2>7 DEF Pages, SameRest
  <2> QED
    BY <2>3, <2>5, <2>7, <2>9, <2>10, <2>11 DEF Pages, PTEAdrs
<1> QED
  BY <1>5, <1>6

-----------------------------------------------------------------------------
(* The calls of a client *)

\* The frames of a page table are none of the data frames, nor those of another.
LEMMA TableOfFrames ==
  ASSUME NEW pid \in Pid
  PROVE  /\ TableOf(pid) \subseteq Frame \ DataFrame
         /\ \A q \in Pid : q # pid => TableOf(q) \cap TableOf(pid) = {}
<1>1. ASSUME NEW fn \in TableOf(pid) PROVE fn \in Frame \ DataFrame
  <2> DEFINE a == fn * PageWords
  <2>1. fn \in Frame /\ a \div NPages = pid
    BY DEF TableOf
  <2>2. 0 \in Offset /\ NPages \in Nat \ {0} /\ PageWords \in Nat \ {0}
    BY Numbers DEF Offset
  <2>3. a = PhysAdrs(fn, 0) /\ a \in PhysAdr /\ a \div PageWords = fn
    <3>1. PhysAdrs(fn, 0) = a
      BY <2>1, <2>2, Frames DEF PhysAdrs
    <3> QED
      BY <2>1, <2>2, <3>1, Frames
  <2> HIDE DEF a
  <2>4. a \in Nat
    BY <2>3, Tables DEF PhysAdr
  <2>5. a = pid * NPages + (a % NPages) /\ a % NPages \in 0..NPages-1
    BY <2>1, <2>2, <2>4, DivMod
  <2>6. a \in Entry
    <3>1. a % NPages \in Page
      BY <2>5 DEF Page
    <3> QED
      BY <2>5, <3>1, Entries DEF Table
  <2> QED
    BY <2>1, <2>3, <2>6, Frames
<1>2. \A q \in Pid : q # pid => TableOf(q) \cap TableOf(pid) = {}
  BY DEF TableOf
<1> QED
  BY <1>1, <1>2

\* Only what rmap says of the data frames matters.
LEMMA TidyRmap ==
  ASSUME NEW p, NEW d, NEW r, Tidy(p, d, r), NEW q \in [Frame -> {Unused, TableMark} \cup Entry],
         \A fn \in DataFrame : q[fn] = r[fn]
  PROVE  Tidy(p, d, q)
<1>1. TypesOf(p, d, q)
  BY DEF Tidy, TypesOf
<1> QED
  BY <1>1 DEF Tidy

\* The tables of the processes that have not been created are empty.
Marked(r, pid) == \A fn \in TableOf(pid) : r[fn] = TableMark

TablesOf(p, r) ==
  /\ \A fn \in Frame \ DataFrame : r[fn] \in {Unused, TableMark}
  /\ \A pid \in Pid : ~ Marked(r, pid) => \A v \in Page : p[Table(pid) + v] = 0

\* The state between calls.
Rests(m) == TidyState(m) /\ TablesOf(Phys(m), m.rmap) /\ m.out = 0

Answers ==
  {Spaces!Done, Quit} \cup {Spaces!Got(v, w) : v \in Page \X Offset, w \in Word}
    \cup {Spaces!Wrote(v, w) : v \in Page \X Offset, w \in Data}

\* The inductive invariant.
IInv == Rests(ms) /\ ret \in Answers

\* Tables stay empty while a process that has been created gets a frame.
LEMMA TablesKept ==
  ASSUME NEW m, Rests(m), NEW n, NEW pid \in Pid, m.PTBR = Table(pid), Marked(m.rmap, pid),
         NEW v \in LowPage, Pages(n, m, PTEAdrs(m, v))
  PROVE  TablesOf(Phys(n), n.rmap)
<1> DEFINE e == PTEAdrs(m, v)
<1>1. Others(Phys(m), m.rmap, Phys(n), n.rmap, e) /\ TablesOf(Phys(m), m.rmap)
  BY DEF Rests, Pages
<1>2. \A fn \in Frame \ DataFrame : n.rmap[fn] \in {Unused, TableMark}
  BY <1>1 DEF Others, TablesOf
<1>3. ASSUME NEW q \in Pid, ~ Marked(n.rmap, q), NEW u \in Page
      PROVE  Phys(n)[Table(q) + u] = 0
  <2>1. ~ Marked(m.rmap, q)
    BY <1>1, <1>3, TableOfFrames DEF Marked, Others
  <2>2. Phys(m)[Table(q) + u] = 0 /\ Table(q) + u \in Entry
    BY <1>1, <2>1, Entries DEF TablesOf
  <2>3. q # pid
    BY <2>1
  <2>4. Table(q) + u # e
    <3>1. v \in Page /\ e = Table(pid) + v
      BY Entries DEF PTEAdrs
    <3> QED
      BY <2>3, <3>1, Entries
  <2> QED
    BY <1>1, <2>2, <2>4 DEF Others
<1> QED
  BY <1>2, <1>3 DEF TablesOf

\* The out parameter is none of the memory system's state.
LEMMA OutCleared ==
  ASSUME NEW m, TidyState(m), TablesOf(Phys(m), m.rmap), NEW n \in {[m EXCEPT !.out = 0]}
  PROVE  Rests(n) /\ SameRest(n, m) /\ Phys(n) = Phys(m)
<1>1. /\ n.TLB = m.TLB /\ n.quit = m.quit /\ n.Lx = m.Lx /\ n.mem = m.mem
      /\ n.out = 0 /\ SameRest(n, m) /\ n \in State
  BY PTEs DEF TidyState, Sound, State, SameRest
<1>2. Phys(n) = Phys(m) /\ Sound(n)
  BY <1>1 DEF TidyState, Sound, Phys
<1>3. PTEsOf(n) = PTEsOf(m)
  BY <1>1, <1>2 DEF PTEsOf, PTEAdrs, SameRest
<1> QED
  BY <1>1, <1>2, <1>3 DEF Rests, TidyState, Coherent, SameRest

\* The memory that initMemSystem makes rests.
LEMMA InitRests == Init => IInv
<1> SUFFICES ASSUME Init PROVE IInv
  OBVIOUS
<1> DEFINE zeros == [a \in PhysAdr |-> 0]
           disk0 == [d \in Entry |-> [o \in Offset |-> 0]]
           rmap0 == [fn \in Frame |-> Unused]
<1>1. /\ ms.mem = zeros /\ ms.disk = disk0 /\ ms.Lx = Lx!EmptyCache /\ ms.TLB = TLB!EmptyCache
      /\ ms.rmap = rmap0 /\ ms.PTBR = 0 /\ ms.out = 0 /\ ms.quit = FALSE
      /\ ms = [mem |-> zeros, disk |-> disk0, Lx |-> Lx!EmptyCache, TLB |-> TLB!EmptyCache,
               rmap |-> rmap0, PTBR |-> 0, out |-> 0, quit |-> FALSE]
      /\ ret = Spaces!Done
  BY DEF Init, PhysAdr, Entry
<1>2. 0 \in Word /\ 0 \in Pid /\ Table(0) = 0
  BY PTEs, Numbers DEF Pid, Table
<1>3. /\ LxCache!Good(Lx!EmptyCache) /\ TLBCache!Good(TLB!EmptyCache)
      /\ \A v \in LowPage : ~ TLB!InCache(TLB!EmptyCache, v)
      /\ \A a \in PhysAdr : ~ LxCache!InCache(Lx!EmptyCache, a)
  <2>1. /\ LxCache!Good(LxCache!EmptyCache) /\ TLBCache!Good(TLBCache!EmptyCache)
        /\ \A v \in LowPage : ~ TLBCache!InCache(TLBCache!EmptyCache, v)
        /\ \A a \in PhysAdr : ~ LxCache!InCache(LxCache!EmptyCache, a)
    BY Geometry, LxCache!EmptyGood, TLBCache!EmptyGood
  <2>2. /\ LxCache!EmptyCache = Lx!EmptyCache /\ TLBCache!EmptyCache = TLB!EmptyCache
        /\ \A k, v : TLBCache!InCache(k, v) = TLB!InCache(k, v)
    BY LxOperators, TLBOperators
  <2> QED
    BY <2>1, <2>2
<1>4. ms \in State
  <2>1. /\ zeros \in [PhysAdr -> Word] /\ disk0 \in [Entry -> [Offset -> Word]]
        /\ rmap0 \in [Frame -> {Unused, TableMark} \cup Entry]
        /\ 0 \in {Table(pid) : pid \in Pid}
    BY <1>2
  <2> HIDE DEF zeros, disk0, rmap0
  <2> QED
    BY <1>1, <1>2, <1>3, <2>1 DEF State, LxCache!Good, TLBCache!Good
<1>5. Sound(ms)
  BY <1>1, <1>3, <1>4 DEF Sound
<1>6. \A a \in PhysAdr : Phys(ms)[a] = 0
  <2>1. \A a \in PhysAdr : LxCache!WordAt(Lx!EmptyCache, zeros, a) = 0
    BY <1>3 DEF LxCache!WordAt
  <2> QED
    BY <1>1, <2>1, LxOperators DEF Phys
<1>7. Tidy(Phys(ms), ms.disk, ms.rmap)
  <2>1. TypesOf(Phys(ms), ms.disk, ms.rmap)
    BY <1>5, PhysType DEF TypesOf, Sound, State
  <2>2. \A t \in Entry, o \in Offset : ms.disk[t][o] = 0
    BY <1>1
  <2>3. \A fn \in DataFrame : ms.rmap[fn] = Unused
    BY <1>1, Frames
  <2>4. \A t \in Entry : t \in PhysAdr
    BY Entries
  <2> QED
    BY <1>6, <2>1, <2>2, <2>3, <2>4 DEF Tidy
<1>8. Coherent(ms)
  BY <1>1, <1>3 DEF Coherent, Agrees
<1>9. TablesOf(Phys(ms), ms.rmap)
  BY <1>1, <1>6, Entries DEF TablesOf
<1> QED
  BY <1>1, <1>5, <1>7, <1>8, <1>9 DEF IInv, Rests, TidyState, Answers

\* What a call may do, as AddressSpaces sees it: leave all pages as they are, or
\* write one word of one page of the process that runs.
PagesKept(n, m) == SamePages(Phys(m), m.disk, Phys(n), n.disk)

WordWritten(n, m, e, o, w) ==
  \A t \in Entry, q \in Offset :
    PageWord(Phys(n), n.disk, t, q)
      = IF t = e /\ q = o THEN w ELSE PageWord(Phys(m), m.disk, t, q)

\* A call has returned.
LEMMA Returned ==
  ASSUME NEW m, TidyState(m), TablesOf(Phys(m), m.rmap), NEW r, Return(m, r)
  PROVE  Rests(ms') /\ SameRest(ms', m) /\ Phys(ms') = Phys(m) /\ ret' = r
<1>1. ms' \in {[m EXCEPT !.out = 0]} /\ ret' = r
  BY DEF Return, TidyState, Sound
<1> QED
  BY <1>1, OutCleared

\* initProcess changes no page: the table that it clears was empty.
LEMMA ProcessInited ==
  ASSUME Rests(ms), NEW pid \in Pid, InitProcess(pid)
  PROVE  /\ Rests(ms') /\ ret' = Spaces!Done
         /\ PagesKept(ms', ms) /\ ms'.PTBR = ms.PTBR
<1> DEFINE rmap1 == [fn \in Frame |-> IF fn \in TableOf(pid) THEN TableMark ELSE ms.rmap[fn]]
           mem1 == [a \in PhysAdr |-> IF a \div NPages = pid THEN 0 ELSE ms.mem[a]]
           m == [[ms EXCEPT !.rmap = rmap1] EXCEPT !.mem = mem1]
<1>1. /\ Sound(ms) /\ Coherent(ms) /\ Tidy(Phys(ms), ms.disk, ms.rmap)
      /\ TablesOf(Phys(ms), ms.rmap) /\ ~ Marked(ms.rmap, pid)
  BY DEF Rests, TidyState, InitProcess, Created, Marked
<1>2. Return(m, Spaces!Done)
  <2>1. DOMAIN ms.mem = PhysAdr
    BY <1>1 DEF Sound, State
  <2> QED
    BY <2>1 DEF InitProcess
<1>3. /\ rmap1 \in [Frame -> {Unused, TableMark} \cup Entry]
      /\ \A fn \in DataFrame : rmap1[fn] = ms.rmap[fn]
      /\ \A fn \in TableOf(pid) : rmap1[fn] = TableMark
      /\ \A fn \in Frame \ TableOf(pid) : rmap1[fn] = ms.rmap[fn]
  BY <1>1, Frames, TableOfFrames DEF Sound, State
<1>4. mem1 \in [PhysAdr -> Word] /\ \A a \in PhysAdr : mem1[a] = IF a \div NPages = pid THEN 0 ELSE ms.mem[a]
  BY <1>1, PTEs DEF Sound, State
<1> HIDE DEF rmap1, mem1, m
<1>5. /\ m.TLB = ms.TLB /\ m.quit = ms.quit /\ m.Lx = ms.Lx /\ m.mem = mem1
      /\ m.out = ms.out /\ m.rmap = rmap1 /\ m.disk = ms.disk /\ m.PTBR = ms.PTBR /\ m \in State
  BY <1>1, <1>3, <1>4 DEF Sound, State, m
<1>6. ASSUME NEW a \in PhysAdr, a \div NPages = pid PROVE Phys(ms)[a] = 0
  <2>1. a \in Nat /\ NPages \in Nat \ {0}
    BY Tables, Numbers DEF PhysAdr
  <2>2. a = pid * NPages + (a % NPages) /\ a % NPages \in 0..NPages-1
    BY <1>6, <2>1, DivMod
  <2> QED
    BY <1>1, <2>2 DEF TablesOf, Table, Page
<1>7. Phys(m) = Phys(ms)
  <2>1. ASSUME NEW a \in PhysAdr PROVE Lx!WordAt(m.Lx, mem1, a) = Lx!WordAt(ms.Lx, ms.mem, a)
    <3>1. CASE a \div NPages = pid
      <4>1. Lx!WordAt(ms.Lx, ms.mem, a) = 0
        BY <1>6, <3>1 DEF Phys
      <4> QED
        BY <1>4, <1>5, <3>1, <4>1 DEF Lx!WordAt
    <3>2. CASE a \div NPages # pid
      BY <1>4, <1>5, <3>2 DEF Lx!WordAt
    <3> QED
      BY <3>1, <3>2
  <2> QED
    BY <1>5, <2>1 DEF Phys
<1>8. Sound(m) /\ Tidy(Phys(m), m.disk, m.rmap)
  BY <1>1, <1>3, <1>5, <1>7, TidyRmap DEF Sound
<1>9. Coherent(m)
  BY <1>1, <1>5, <1>7 DEF Coherent, PTEsOf, PTEAdrs
<1>10. TablesOf(Phys(m), m.rmap)
  <2>1. \A fn \in Frame \ DataFrame : rmap1[fn] \in {Unused, TableMark}
    BY <1>1, <1>3 DEF TablesOf
  <2>2. ASSUME NEW q \in Pid, ~ Marked(rmap1, q) PROVE ~ Marked(ms.rmap, q)
    <3>1. q # pid
      BY <1>3, <2>2 DEF Marked
    <3>2. \A fn \in TableOf(q) : rmap1[fn] = ms.rmap[fn]
      BY <1>3, <3>1, TableOfFrames
    <3> QED
      BY <2>2, <3>2 DEF Marked
  <2> QED
    BY <1>1, <1>5, <1>7, <2>1, <2>2 DEF TablesOf
<1>11. TidyState(m)
  BY <1>8, <1>9 DEF TidyState
<1>12. Rests(ms') /\ SameRest(ms', m) /\ Phys(ms') = Phys(m) /\ ret' = Spaces!Done
  BY <1>2, <1>10, <1>11, Returned
<1> QED
  BY <1>5, <1>7, <1>12 DEF SameRest, PagesKept, SamePages

\* switchToProcess changes the process and no page.
LEMMA ProcessSwitched ==
  ASSUME Rests(ms), NEW pid \in Pid, SwitchToProcess(pid)
  PROVE  /\ Rests(ms') /\ ret' = Spaces!Done
         /\ PagesKept(ms', ms) /\ ms'.PTBR = Table(pid)
<1> DEFINE k == FlushTLB(ms)
           m == [k EXCEPT !.PTBR = Table(pid)]
<1>1. Return(m, Spaces!Done)
  BY DEF SwitchToProcess
<1>2. /\ Sound(ms) /\ Tidy(Phys(ms), ms.disk, ms.rmap) /\ TablesOf(Phys(ms), ms.rmap)
  BY DEF Rests, TidyState
<1>3. /\ Sound(k) /\ SameRest(k, ms) /\ Phys(k) = Phys(ms) /\ \A g : Agrees(k.TLB, g)
  BY <1>2, TLBFlushed
<1> HIDE DEF k
<1>4. /\ m.TLB = k.TLB /\ m.quit = k.quit /\ m.Lx = k.Lx /\ m.mem = k.mem
      /\ m.rmap = k.rmap /\ m.disk = k.disk /\ m.PTBR = Table(pid) /\ m \in State
  BY <1>3 DEF Sound, State
<1> HIDE DEF m
<1>5. TidyState(m) /\ Phys(m) = Phys(ms) /\ m.disk = ms.disk /\ m.rmap = ms.rmap
  BY <1>2, <1>3, <1>4 DEF TidyState, Sound, Coherent, Phys, SameRest
<1>6. Rests(ms') /\ SameRest(ms', m) /\ Phys(ms') = Phys(m) /\ ret' = Spaces!Done
  BY <1>1, <1>2, <1>5, Returned
<1> QED
  BY <1>4, <1>5, <1>6 DEF SameRest, PagesKept, SamePages

\* What Translate leaves of a state between calls.
LEMMA TranslatedTables ==
  ASSUME Rests(ms), Running, NEW v \in LowPage, NEW n \in Translate(ms, v)
  PROVE  /\ Pages(n, ms, PTEAdrs(ms, v)) /\ TablesOf(Phys(n), n.rmap)
         /\ PTEAdrs(n, v) = PTEAdrs(ms, v) /\ n.out = Phys(n)[PTEAdrs(ms, v)]
         /\ PFN(n.out) \in DataFrame /\ n.out = PTE(PFN(n.out))
         /\ n.rmap[PFN(n.out)] = PTEAdrs(ms, v) /\ Valid(n.out)
<1>1. PICK pid \in Pid : ms.PTBR = Table(pid) /\ Marked(ms.rmap, pid)
  BY DEF Running, Created, Marked
<1>2. /\ Pages(n, ms, PTEAdrs(ms, v)) /\ PTEAdrs(n, v) = PTEAdrs(ms, v)
      /\ n.out = Phys(n)[PTEAdrs(ms, v)] /\ Valid(n.out)
  BY Translated DEF Rests
<1>3. TablesOf(Phys(n), n.rmap)
  BY <1>1, <1>2, TablesKept
<1>4. Tidy(Phys(n), n.disk, n.rmap) /\ PTEAdrs(ms, v) \in Entry
  BY <1>2, PTEAdrsType DEF Pages, TidyState, Rests
<1>5. /\ PFN(n.out) \in DataFrame /\ n.out = PTE(PFN(n.out))
      /\ n.rmap[PFN(n.out)] = PTEAdrs(ms, v)
  BY <1>2, <1>4, EntryCases
<1> QED
  BY <1>2, <1>3, <1>5

\* readFromVirtualMem returns the word of the page and changes none.
LEMMA WordRead ==
  ASSUME Rests(ms), NEW v \in LowPage, NEW o \in Offset, DoReadFromVirtualMem(v, o)
  PROVE  /\ Rests(ms') /\ PagesKept(ms', ms) /\ ms'.PTBR = ms.PTBR
         /\ ret' = Spaces!Got(<<v, o>>, PageWord(Phys(ms), ms.disk, PTEAdrs(ms, v), o))
<1> DEFINE e == PTEAdrs(ms, v)
<1>1. Running
  BY DEF DoReadFromVirtualMem
<1>2. PICK m \in ReadFromVirtualMem(ms, v, o) : Return(m, Spaces!Got(<<v, o>>, m.out))
  BY DEF DoReadFromVirtualMem
<1>3. PICK n \in Translate(ms, v) :
        m \in IF n.quit THEN {n} ELSE ReadFromPhysicalMem(n, PhysAdrs(PFN(n.out), o))
  BY DEF ReadFromVirtualMem, Then
<1> DEFINE fn == PFN(n.out)
           a == PhysAdrs(fn, o)
<1>4. /\ Pages(n, ms, e) /\ TablesOf(Phys(n), n.rmap) /\ PTEAdrs(n, v) = e
      /\ n.out = Phys(n)[e] /\ fn \in DataFrame /\ Valid(n.out)
  BY <1>1, TranslatedTables
<1>5. TidyState(n) /\ Sound(n) /\ n.PTBR = ms.PTBR /\ PagesKept(n, ms) /\ e \in Entry
  BY <1>4, PTEAdrsType DEF Pages, TidyState, PagesKept, Rests
<1>6. a \in PhysAdr /\ m \in ReadFromPhysicalMem(n, a)
  BY <1>3, <1>4, <1>5, Frames DEF Sound
<1> HIDE DEF a
<1>7. /\ Sound(m) /\ SameRest(m, n) /\ m.TLB = n.TLB
      /\ Phys(m) = Phys(n) /\ m.out = Phys(n)[a]
  BY <1>5, <1>6, PhysRead
<1>8. TidyState(m) /\ TablesOf(Phys(m), m.rmap)
  BY <1>4, <1>5, <1>7 DEF TidyState, Coherent, PTEsOf, PTEAdrs, SameRest
<1>9. /\ Rests(ms') /\ SameRest(ms', m) /\ Phys(ms') = Phys(m)
      /\ ret' = Spaces!Got(<<v, o>>, m.out)
  BY <1>2, <1>8, Returned
<1>10. m.out = PageWord(Phys(n), n.disk, e, o)
  BY <1>4, <1>7 DEF PageWord, a
<1>11. m.out = PageWord(Phys(ms), ms.disk, e, o)
  BY <1>5, <1>10 DEF PagesKept, SamePages
<1> QED
  BY <1>5, <1>7, <1>9, <1>11 DEF SameRest, PagesKept

\* writeToVirtualMem changes that word of the page and no other.
LEMMA WordStored ==
  ASSUME Rests(ms), NEW v \in LowPage, NEW o \in Offset, NEW w \in Data,
         DoWriteToVirtualMem(v, o, w)
  PROVE  /\ Rests(ms') /\ WordWritten(ms', ms, PTEAdrs(ms, v), o, w) /\ ms'.PTBR = ms.PTBR
         /\ ret' = Spaces!Wrote(<<v, o>>, w)
<1> DEFINE e == PTEAdrs(ms, v)
<1>1. Running
  BY DEF DoWriteToVirtualMem
<1>2. PICK m \in WriteToVirtualMem(ms, v, o, w) : Return(m, Spaces!Wrote(<<v, o>>, w))
  BY DEF DoWriteToVirtualMem
<1>3. PICK n \in Translate(ms, v) :
        m \in IF n.quit THEN {n} ELSE WriteToPhysicalMem(n, PhysAdrs(PFN(n.out), o), w)
  BY DEF WriteToVirtualMem, Then
<1> DEFINE fn == PFN(n.out)
           a == PhysAdrs(fn, o)
<1>4. /\ Pages(n, ms, e) /\ TablesOf(Phys(n), n.rmap) /\ PTEAdrs(n, v) = e
      /\ n.out = Phys(n)[e] /\ fn \in DataFrame /\ Valid(n.out)
  BY <1>1, TranslatedTables
<1>5. /\ TidyState(n) /\ Sound(n) /\ n.PTBR = ms.PTBR /\ PagesKept(n, ms) /\ e \in Entry
      /\ Tidy(Phys(n), n.disk, n.rmap)
  BY <1>4, PTEAdrsType DEF Pages, TidyState, PagesKept, Rests
<1>6. a \in PhysAdr /\ a \notin Entry /\ m \in WriteToPhysicalMem(n, a, w) /\ w \in Word
  BY <1>3, <1>4, <1>5, Frames, PTEs DEF Sound
<1> HIDE DEF a
<1>7. /\ Sound(m) /\ SameRest(m, n) /\ m.TLB = n.TLB
      /\ Phys(m) = [Phys(n) EXCEPT ![a] = w]
  BY <1>5, <1>6, PhysWrite
<1>8. /\ \A b \in PhysAdr : Phys(m)[b] = IF b = a THEN w ELSE Phys(n)[b]
      /\ \A t \in Entry : Phys(m)[t] = Phys(n)[t] /\ t \in PhysAdr
  BY <1>6, <1>7, Entries DEF Phys
<1>9. Tidy(Phys(m), m.disk, m.rmap)
  <2>1. TypesOf(Phys(m), m.disk, m.rmap)
    BY <1>5, <1>7, PhysType DEF Tidy, TypesOf, SameRest
  <2>2. m.disk = n.disk /\ m.rmap = n.rmap
    BY <1>7 DEF SameRest
  <2>3. \A b \in PhysAdr \ Entry : Phys(m)[b] \in Data \cup {0}
    BY <1>5, <1>8 DEF Tidy
  <2> QED
    BY <1>5, <1>8, <2>1, <2>2, <2>3 DEF Tidy
<1>10. PTEsOf(m) = PTEsOf(n)
  BY <1>5, <1>7, <1>8, PTEAdrsType DEF PTEsOf, PTEAdrs, SameRest
<1>11. TidyState(m) /\ TablesOf(Phys(m), m.rmap)
  <2>1. TablesOf(Phys(m), m.rmap)
    BY <1>4, <1>7, <1>8, Entries DEF TablesOf, SameRest
  <2> QED
    BY <1>5, <1>7, <1>9, <1>10, <2>1 DEF TidyState, Coherent
<1>12. /\ Rests(ms') /\ SameRest(ms', m) /\ Phys(ms') = Phys(m)
       /\ ret' = Spaces!Wrote(<<v, o>>, w)
  BY <1>2, <1>11, Returned
<1>13. ASSUME NEW t \in Entry, NEW q \in Offset
       PROVE  PageWord(Phys(m), m.disk, t, q)
                = IF t = e /\ q = o THEN w ELSE PageWord(Phys(n), n.disk, t, q)
  <2>1. Phys(m)[t] = Phys(n)[t] /\ m.disk = n.disk
    BY <1>7, <1>8 DEF SameRest
  <2>2. CASE ~ Valid(Phys(n)[t])
    BY <1>4, <2>1, <2>2 DEF PageWord
  <2>3. CASE Valid(Phys(n)[t])
    <3> DEFINE f == PFN(Phys(n)[t])
               b == PhysAdrs(f, q)
    <3>1. f \in DataFrame /\ n.rmap[f] = t
      BY <1>5, <2>3, EntryCases
    <3>2. n.rmap[fn] = e
      BY <1>4, <1>5, EntryCases
    <3>3. /\ b \in PhysAdr /\ b \div PageWords = f /\ b % PageWords = q
          /\ a \div PageWords = fn /\ a % PageWords = o
      BY <1>4, <3>1, Frames DEF a
    <3>4. t = e => f = fn
      BY <1>4
    <3> HIDE DEF f, b, fn
    <3>5. b = a <=> t = e /\ q = o
      <4>1. b = a => t = e /\ q = o
        BY <3>1, <3>2, <3>3
      <4>2. t = e /\ q = o => b = a
        BY <3>4 DEF a, b
      <4> QED
        BY <4>1, <4>2
    <3>6. PageWord(Phys(m), m.disk, t, q) = Phys(m)[b]
      BY <2>1, <2>3 DEF PageWord, b, f
    <3>7. PageWord(Phys(n), n.disk, t, q) = Phys(n)[b]
      BY <2>3 DEF PageWord, b, f
    <3> QED
      BY <1>8, <3>3, <3>5, <3>6, <3>7
  <2> QED
    BY <2>2, <2>3
<1>14. WordWritten(ms', ms, e, o, w)
  <2>1. ms'.disk = m.disk /\ Phys(ms') = Phys(m)
    BY <1>12 DEF SameRest
  <2>2. \A t \in Entry, q \in Offset :
          PageWord(Phys(n), n.disk, t, q) = PageWord(Phys(ms), ms.disk, t, q)
    BY <1>5 DEF PagesKept, SamePages
  <2> QED
    BY <1>13, <2>1, <2>2 DEF WordWritten
<1> QED
  BY <1>5, <1>7, <1>12, <1>14 DEF SameRest

\* writePageToDisk changes no page.
LEMMA PageSaved ==
  ASSUME Rests(ms), NEW v \in LowPage, DoWritePageToDisk(v)
  PROVE  /\ Rests(ms') /\ PagesKept(ms', ms) /\ ms'.PTBR = ms.PTBR
         /\ ret' = Spaces!Done
<1> DEFINE e == PTEAdrs(ms, v)
<1>1. /\ TidyState(ms) /\ Sound(ms) /\ Coherent(ms) /\ e \in Entry /\ e \in PhysAdr
      /\ Tidy(Phys(ms), ms.disk, ms.rmap) /\ TablesOf(Phys(ms), ms.rmap)
  BY PTEAdrsType DEF Rests, TidyState
<1>2. Valid(Phys(ms)[e])
  BY <1>1 DEF DoWritePageToDisk, PhysWord, Phys
<1>3. PICK m \in WritePageToDisk(ms, v) : Return(m, Spaces!Done)
  BY DEF DoWritePageToDisk
<1>4. PICK j \in ReadPTE(ms, v) : \E k :
        /\ k \in IF j.quit THEN {j} ELSE Check(Valid(j.out), j)
        /\ m \in IF k.quit THEN {k}
                 ELSE {CopyToDisk(FlushLx(k, FALSE), PFN(k.out), PTEAdrs(k, v))}
  BY DEF WritePageToDisk, Then
<1>5. PICK k :
        /\ k \in IF j.quit THEN {j} ELSE Check(Valid(j.out), j)
        /\ m \in IF k.quit THEN {k}
                 ELSE {CopyToDisk(FlushLx(k, FALSE), PFN(k.out), PTEAdrs(k, v))}
  BY <1>4
<1>6. /\ Sound(j) /\ SameRest(j, ms) /\ Coherent(j)
      /\ Phys(j) = Phys(ms) /\ j.out = Phys(ms)[e]
  BY <1>1, PTERead
<1>7. k = [j EXCEPT !.quit = FALSE] /\ j.quit = FALSE
  BY <1>2, <1>5, <1>6 DEF Check, Sound, State
<1>8. k = j
  BY <1>6, <1>7 DEF Sound, State
<1> DEFINE fn == PFN(j.out)
<1>9. fn \in DataFrame /\ fn \in Frame
  BY <1>1, <1>2, <1>6, EntryCases, Frames
<1> HIDE DEF fn
<1>10. PTEAdrs(k, v) = e
  BY <1>6, <1>8 DEF PTEAdrs, SameRest
<1>11. m \in {CopyToDisk(FlushLx(j, FALSE), fn, e)}
  BY <1>5, <1>7, <1>8, <1>10 DEF fn
<1>12. Saved(m, j, fn, e)
  BY <1>1, <1>6, <1>9, <1>11, FrameSaved
<1>13. /\ Sound(m) /\ m.rmap = ms.rmap /\ m.PTBR = ms.PTBR /\ m.TLB = j.TLB
       /\ Phys(m) = Phys(ms) /\ m.disk = [ms.disk EXCEPT ![e] = FrameWords(Phys(ms), fn)]
  BY <1>6, <1>12 DEF Saved, SameRest
<1>14. Coherent(m)
  BY <1>6, <1>13 DEF Coherent, PTEsOf, PTEAdrs, SameRest
<1>15. \A t \in Entry : m.disk[t] = IF t = e THEN FrameWords(Phys(ms), fn) ELSE ms.disk[t]
  BY <1>1, <1>13 DEF Sound, State
<1>16. Tidy(Phys(m), m.disk, m.rmap)
  <2>1. TypesOf(Phys(m), m.disk, m.rmap)
    BY <1>13, PhysType DEF Sound, State, TypesOf
  <2>2. \A o \in Offset : FrameWords(Phys(ms), fn)[o] \in Data \cup {0}
    <3>1. \A o \in Offset : PhysAdrs(fn, o) \in PhysAdr \ Entry
      BY <1>9, Frames
    <3> QED
      BY <1>1, <3>1 DEF Tidy, FrameWords
  <2>3. \A t \in Entry, o \in Offset : m.disk[t][o] \in Data \cup {0}
    BY <1>1, <1>15, <2>2 DEF Tidy
  <2> QED
    BY <1>1, <1>13, <2>1, <2>3 DEF Tidy
<1>17. TidyState(m) /\ TablesOf(Phys(m), m.rmap)
  BY <1>1, <1>13, <1>14, <1>16 DEF TidyState
<1>18. /\ Rests(ms') /\ SameRest(ms', m) /\ Phys(ms') = Phys(m) /\ ret' = Spaces!Done
  BY <1>3, <1>17, Returned
<1>19. PagesKept(ms', ms)
  <2>1. ms'.disk = m.disk /\ Phys(ms') = Phys(ms)
    BY <1>13, <1>18 DEF SameRest
  <2> QED
    BY <1>2, <1>15, <2>1 DEF PagesKept, SamePages, PageWord
<1> QED
  BY <1>13, <1>18, <1>19 DEF SameRest

-----------------------------------------------------------------------------
(* The pages are the memories of AddressSpaces. *)

\* The memories of all processes, in state m.
SpaceOf(m) ==
  [p \in Pid |-> [a \in Page \X Offset |->
     PageWord(Phys(m), m.disk, Table(p) + a[1], a[2])]]

\* Pages that are kept are the same memories.
LEMMA SpaceKept ==
  ASSUME NEW n, NEW m, PagesKept(n, m)
  PROVE  SpaceOf(n) = SpaceOf(m)
<1>1. ASSUME NEW p \in Pid, NEW a \in Page \X Offset
      PROVE  PageWord(Phys(n), n.disk, Table(p) + a[1], a[2])
               = PageWord(Phys(m), m.disk, Table(p) + a[1], a[2])
  <2>1. Table(p) + a[1] \in Entry /\ a[2] \in Offset
    BY Entries
  <2> QED
    BY <2>1 DEF PagesKept, SamePages
<1> QED
  BY <1>1 DEF SpaceOf

SpaceGets(n, m, pid, a, w) == SpaceOf(n) = [SpaceOf(m) EXCEPT ![pid][a] = w]

\* One word of one page is one word of one memory.
LEMMA SpaceWritten ==
  ASSUME NEW n, NEW m, NEW pid \in Pid, NEW v \in Page, NEW o \in Offset, NEW w,
         WordWritten(n, m, Table(pid) + v, o, w)
  PROVE  SpaceGets(n, m, pid, <<v, o>>, w)
<1>1. ASSUME NEW p \in Pid, NEW a \in Page \X Offset
      PROVE  PageWord(Phys(n), n.disk, Table(p) + a[1], a[2])
               = IF p = pid /\ a = <<v, o>> THEN w
                 ELSE PageWord(Phys(m), m.disk, Table(p) + a[1], a[2])
  <2>1. Table(p) + a[1] \in Entry /\ a[2] \in Offset
    BY Entries
  <2>2. Table(p) + a[1] = Table(pid) + v <=> p = pid /\ a[1] = v
    BY Entries
  <2>3. a = <<v, o>> <=> a[1] = v /\ a[2] = o
    OBVIOUS
  <2> QED
    BY <2>1, <2>2, <2>3 DEF WordWritten
<1>2. SpaceOf(n) =
        [p \in Pid |-> [a \in Page \X Offset |->
           IF p = pid /\ a = <<v, o>> THEN w
           ELSE PageWord(Phys(m), m.disk, Table(p) + a[1], a[2])]]
  BY <1>1 DEF SpaceOf
<1> QED
  BY <1>2 DEF SpaceOf, SpaceGets

\* VirtualWord, in any state.
WordSeen(m, pid, vpn, vpo) ==
  LET pte == Lx!WordAt(m.Lx, m.mem, Table(pid) + vpn) IN
  IF Valid(pte) THEN Lx!WordAt(m.Lx, m.mem, PhysAdrs(PFN(pte), vpo))
  ELSE m.disk[Table(pid) + vpn][vpo]

\* What a process sees at offset o of page v.
LEMMA SeenIs ==
  ASSUME NEW m, Rests(m), NEW pid \in Pid, NEW v \in Page, NEW o \in Offset
  PROVE  WordSeen(m, pid, v, o) = PageWord(Phys(m), m.disk, Table(pid) + v, o)
<1>1. Table(pid) + v \in Entry /\ Table(pid) + v \in PhysAdr
  BY Entries
<1>2. Tidy(Phys(m), m.disk, m.rmap)
  BY DEF Rests, TidyState
<1>3. Lx!WordAt(m.Lx, m.mem, Table(pid) + v) = Phys(m)[Table(pid) + v]
  BY <1>1 DEF Phys
<1> DEFINE fn == PFN(Phys(m)[Table(pid) + v])
<1>4. Valid(Phys(m)[Table(pid) + v]) => fn \in DataFrame
  BY <1>1, <1>2, EntryCases
<1> HIDE DEF fn
<1>5. Valid(Phys(m)[Table(pid) + v]) => PhysAdrs(fn, o) \in PhysAdr
  BY <1>4, Frames
<1>6. Valid(Phys(m)[Table(pid) + v]) =>
        Lx!WordAt(m.Lx, m.mem, PhysAdrs(fn, o)) = Phys(m)[PhysAdrs(fn, o)]
  BY <1>5 DEF Phys
<1> QED
  BY <1>3, <1>6 DEF WordSeen, PageWord, fn

\* The memories, as processes see them.
LEMMA SpaceSeen ==
  ASSUME NEW m, Rests(m)
  PROVE  [p \in Pid |-> [v \in Page \X Offset |-> WordSeen(m, p, v[1], v[2])]] = SpaceOf(m)
BY SeenIs DEF SpaceOf

\* The refinement mapping gives them.
LEMMA SpaceIs ==
  ASSUME Rests(ms)
  PROVE  [p \in Pid |-> [v \in Page \X Offset |-> VirtualWord(p, v[1], v[2])]] = SpaceOf(ms)
<1>1. \A p, v, o : VirtualWord(p, v, o) = WordSeen(ms, p, v, o)
  BY DEF VirtualWord, PhysWord, WordSeen
<1> QED
  BY <1>1, SpaceSeen

\* One step, as the mapped variables see it.
Steps(n, m, r) ==
  \/ r = Spaces!Done /\ SpaceOf(n) = SpaceOf(m) /\ n.PTBR = m.PTBR
  \/ r = Spaces!Done /\ SpaceOf(n) = SpaceOf(m)
     /\ \E pid \in Pid : n.PTBR = Table(pid)
  \/ /\ SpaceOf(n) = SpaceOf(m) /\ n.PTBR = m.PTBR
     /\ \E a \in Page \X Offset : r = Spaces!Got(a, SpaceOf(m)[m.PTBR \div NPages][a])
  \/ /\ n.PTBR = m.PTBR
     /\ \E a \in Page \X Offset, w \in Data :
          /\ r = Spaces!Wrote(a, w)
          /\ SpaceGets(n, m, m.PTBR \div NPages, a, w)

\* A step keeps the state at rest and is one of the four kinds.
LEMMA StepTaken ==
  ASSUME ClientPages \subseteq LowPage, Rests(ms), Next
  PROVE  Rests(ms') /\ Steps(ms', ms, ret')
<1> DEFINE pid == ms.PTBR \div NPages
<1>1. /\ ClientPages \subseteq Page /\ ClientOffsets \subseteq Offset
      /\ pid \in Pid /\ ms.PTBR = Table(pid)
  BY MemSystemAssumption, Numbers, Entries DEF Rests, TidyState, Sound, State
<1> HIDE DEF pid
<1>2. ASSUME NEW q \in Pid, InitProcess(q)
      PROVE  Rests(ms') /\ Steps(ms', ms, ret')
  BY <1>2, ProcessInited, SpaceKept DEF Steps
<1>3. ASSUME NEW q \in Pid, SwitchToProcess(q)
      PROVE  Rests(ms') /\ Steps(ms', ms, ret')
  BY <1>3, ProcessSwitched, SpaceKept DEF Steps
<1>4. ASSUME NEW v \in ClientPages, DoWritePageToDisk(v)
      PROVE  Rests(ms') /\ Steps(ms', ms, ret')
  BY <1>4, PageSaved, SpaceKept DEF Steps
<1>5. ASSUME NEW v \in ClientPages, NEW o \in ClientOffsets, DoReadFromVirtualMem(v, o)
      PROVE  Rests(ms') /\ Steps(ms', ms, ret')
  <2>1. v \in LowPage /\ v \in Page /\ o \in Offset /\ <<v, o>> \in Page \X Offset
    BY <1>1
  <2>2. /\ Rests(ms') /\ SpaceOf(ms') = SpaceOf(ms) /\ ms'.PTBR = ms.PTBR
        /\ ret' = Spaces!Got(<<v, o>>, PageWord(Phys(ms), ms.disk, Table(pid) + v, o))
    BY <1>1, <1>5, <2>1, WordRead, SpaceKept DEF PTEAdrs
  <2>3. SpaceOf(ms)[pid][<<v, o>>] = PageWord(Phys(ms), ms.disk, Table(pid) + v, o)
    BY <1>1, <2>1 DEF SpaceOf
  <2> QED
    BY <2>1, <2>2, <2>3 DEF Steps, pid
<1>6. ASSUME NEW v \in ClientPages, NEW o \in ClientOffsets, NEW w \in Data,
             DoWriteToVirtualMem(v, o, w)
      PROVE  Rests(ms') /\ Steps(ms', ms, ret')
  <2>1. v \in LowPage /\ v \in Page /\ o \in Offset /\ <<v, o>> \in Page \X Offset
    BY <1>1
  <2>2. /\ Rests(ms') /\ WordWritten(ms', ms, Table(pid) + v, o, w) /\ ms'.PTBR = ms.PTBR
        /\ ret' = Spaces!Wrote(<<v, o>>, w)
    BY <1>1, <1>6, <2>1, WordStored DEF PTEAdrs
  <2>3. SpaceGets(ms', ms, pid, <<v, o>>, w)
    BY <1>1, <2>1, <2>2, SpaceWritten
  <2> QED
    BY <2>1, <2>2, <2>3 DEF Steps, pid
<1> QED
  BY <1>2, <1>3, <1>4, <1>5, <1>6 DEF Next

\* Memories hold data.
LEMMA SpaceType ==
  ASSUME NEW m, Rests(m)
  PROVE  SpaceOf(m) \in [Pid -> [Page \X Offset -> Data \cup {0}]]
<1>1. Tidy(Phys(m), m.disk, m.rmap)
  BY DEF Rests, TidyState
<1>2. ASSUME NEW p \in Pid, NEW a \in Page \X Offset
      PROVE  PageWord(Phys(m), m.disk, Table(p) + a[1], a[2]) \in Data \cup {0}
  BY <1>1, Entries, PageWordType
<1> QED
  BY <1>2 DEF SpaceOf

\* A step keeps the inductive invariant.
LEMMA StepIInv ==
  ASSUME ClientPages \subseteq LowPage, IInv, [Next]_vars
  PROVE  IInv'
<1>1. CASE UNCHANGED vars
  <2>1. ms' = ms /\ ret' = ret
    BY <1>1 DEF vars
  <2>2. Rests(ms') /\ ret' \in Answers
    BY <2>1 DEF IInv
  <2> QED
    BY <2>2 DEF IInv, Answers
<1>2. CASE Next
  <2>1. Rests(ms) /\ Rests(ms') /\ Steps(ms', ms, ret')
    BY <1>2, StepTaken DEF IInv
  <2>2. SpaceOf(ms) \in [Pid -> [Page \X Offset -> Data \cup {0}]] /\ ms.PTBR \div NPages \in Pid
    <3>1. ms.PTBR \div NPages \in Pid
      BY <2>1, Entries DEF Rests, TidyState, Sound, State
    <3> QED
      BY <2>1, <3>1, SpaceType
  <2>3. \A a \in Page \X Offset : SpaceOf(ms)[ms.PTBR \div NPages][a] \in Word
    BY <2>2 DEF Word
  <2>4. ret' \in Answers
    <3>1. CASE ret' = Spaces!Done
      BY <3>1 DEF Answers
    <3>2. CASE \E a \in Page \X Offset : ret' = Spaces!Got(a, SpaceOf(ms)[ms.PTBR \div NPages][a])
      BY <2>3, <3>2 DEF Answers
    <3>3. CASE \E a \in Page \X Offset, w \in Data : ret' = Spaces!Wrote(a, w)
      BY <3>3 DEF Answers
    <3> QED
      BY <2>1, <3>1, <3>2, <3>3 DEF Steps
  <2> QED
    BY <2>1, <2>4 DEF IInv, Answers
<1> QED
  BY <1>1, <1>2

\* What the inductive invariant says of the code.
LEMMA IInvImplies ==
  ASSUME ClientPages \subseteq LowPage, IInv
  PROVE  TypeOK /\ RmapInvertsPageTables /\ TLBCoherent
<1>1. /\ Sound(ms) /\ Coherent(ms) /\ Tidy(Phys(ms), ms.disk, ms.rmap) /\ ms.out = 0
      /\ ret \in Answers
  BY DEF IInv, Rests, TidyState
<1>2. TypeOK
  <2>1. ms.disk \in [Entry -> [Offset -> Data \cup {0}]]
    <3>1. ms.disk \in [Entry -> [Offset -> Word]]
      BY <1>1 DEF Sound, State
    <3>2. \A t \in Entry : ms.disk[t] \in [Offset -> Data \cup {0}]
      BY <1>1, <3>1 DEF Tidy
    <3> QED
      BY <3>1, <3>2
  <2> QED
    BY <1>1, <2>1 DEF TypeOK, NeverQuits, Sound, State, PhysAdr, Entry, Answers
<1>3. \A a \in PhysAdr : PhysWord(a) = Phys(ms)[a]
  BY DEF PhysWord, Phys
<1>4. RmapInvertsPageTables
  <2>1. ASSUME NEW pid \in Pid, NEW v \in Page, Valid(PhysWord(Table(pid) + v))
        PROVE  /\ PFN(PhysWord(Table(pid) + v)) \in DataFrame
               /\ ms.rmap[PFN(PhysWord(Table(pid) + v))] = Table(pid) + v
    <3>1. Table(pid) + v \in Entry /\ PhysWord(Table(pid) + v) = Phys(ms)[Table(pid) + v]
      BY <1>3, Entries
    <3> QED
      BY <1>1, <2>1, <3>1, EntryCases
  <2>2. ASSUME NEW fn \in DataFrame, ms.rmap[fn] # Unused
        PROVE  PhysWord(ms.rmap[fn]) = PTE(fn)
    BY <1>1, <1>3, <2>2, Entries DEF Tidy
  <2> QED
    BY <2>1, <2>2 DEF RmapInvertsPageTables
<1>5. TLBCoherent
  <2>1. ASSUME NEW v \in ClientPages, TLB!InCache(ms.TLB, v)
        PROVE  TLB!CachedWord(ms.TLB, v) = PhysWord(PTEAdrs(ms, v))
    BY <1>1, <1>3, <2>1, PTEAdrsType DEF Coherent, Agrees, PTEsOf
  <2> QED
    BY <2>1 DEF TLBCoherent
<1> QED
  BY <1>2, <1>4, <1>5

\* Between calls the two caches are good, the TLB agrees with the page table of
\* the process that runs, rmap is the inverse of the valid entries, and the page
\* tables of processes not created yet are empty.
THEOREM Invariance ==
  ASSUME ClientPages \subseteq LowPage
  PROVE  Spec => []IInv
<1>1. Init => IInv
  BY InitRests
<1>2. IInv /\ [Next]_vars => IInv'
  BY StepIInv
<1> QED
  BY <1>1, <1>2, PTL DEF Spec

\* The variables keep their types, a page never holds an entry of a page table,
\* and no err_quit of the memory system is reached.
THEOREM TypeCorrect ==
  ASSUME ClientPages \subseteq LowPage
  PROVE  Spec => []TypeOK
<1>1. Spec => []IInv
  BY Invariance
<1>2. IInv => TypeOK
  BY IInvImplies
<1> QED
  BY <1>1, <1>2, PTL

\* rmap and the page tables stay inverses of each other while allocateFrame takes
\* frames from any process for any other.
THEOREM RmapInverse ==
  ASSUME ClientPages \subseteq LowPage
  PROVE  Spec => []RmapInvertsPageTables
<1>1. Spec => []IInv
  BY Invariance
<1>2. IInv => RmapInvertsPageTables
  BY IInvImplies
<1> QED
  BY <1>1, <1>2, PTL

\* The TLB never returns an entry that allocateFrame or switchToProcess outdated.
THEOREM TLBIsCoherent ==
  ASSUME ClientPages \subseteq LowPage
  PROVE  Spec => []TLBCoherent
<1>1. Spec => []IInv
  BY Invariance
<1>2. IInv => TLBCoherent
  BY IInvImplies
<1> QED
  BY <1>1, <1>2, PTL

\* A read returns the last word that the process wrote there, wherever its page has
\* been since: the tests of testVirtualMemory, for all sizes and all choices of rand().
THEOREM ReadsLatest ==
  ASSUME ClientPages \subseteq LowPage
  PROVE  Spec => ReadsLatestWrite
<1> DEFINE Latest ==
      \A v \in Page \X Offset :
        ret'.op = "read" /\ ret' = Spaces!Got(v, ret'.w) =>
          ret'.w = VirtualWord(ms.PTBR \div NPages, v[1], v[2])
<1>1. IInv /\ [Next]_vars => [Latest]_vars
  <2> SUFFICES ASSUME IInv, Next, NEW v \in Page \X Offset,
                      ret'.op = "read", ret' = Spaces!Got(v, ret'.w)
               PROVE  ret'.w = VirtualWord(ms.PTBR \div NPages, v[1], v[2])
    OBVIOUS
  <2>0. ret'.op = "read"
    OBVIOUS
  <2>1. Rests(ms) /\ Steps(ms', ms, ret') /\ ms.PTBR \div NPages \in Pid
    BY StepTaken, Entries DEF IInv, Rests, TidyState, Sound, State
  <2>2. PICK a \in Page \X Offset : ret' = Spaces!Got(a, SpaceOf(ms)[ms.PTBR \div NPages][a])
    <3>1. CASE ret' = Spaces!Done
      BY <2>0, <3>1 DEF Spaces!Done
    <3>2. CASE \E a \in Page \X Offset, w \in Data : ret' = Spaces!Wrote(a, w)
      BY <2>0, <3>2 DEF Spaces!Wrote
    <3> QED
      BY <2>1, <3>1, <3>2 DEF Steps
  <2>3. a = v /\ ret'.w = SpaceOf(ms)[ms.PTBR \div NPages][v]
    BY <2>2 DEF Spaces!Got
  <2> QED
    BY <2>1, <2>3, SpaceIs
<1>2. Spec => []IInv
  BY Invariance
<1> QED
  BY <1>1, <1>2, PTL DEF Spec, ReadsLatestWrite

\* The memory system gives every process a memory of its own: each call is the step
\* of AddressSpaces that its client means, whatever is swapped on the way.
THEOREM Implementation ==
  ASSUME ClientPages \subseteq LowPage
  PROVE  Spec => ImplementsAddressSpaces
<1>1. Init => Spaces!Init
  <2> SUFFICES ASSUME Init PROVE Spaces!Init
    OBVIOUS
  <2>1. Rests(ms) /\ ret = Spaces!Done /\ ms.PTBR \div NPages \in Pid
    BY InitRests, Entries DEF Init, IInv, Rests, TidyState, Sound, State
  <2> QED
    BY <2>1, SpaceIs, SpaceType DEF Spaces!Init
<1>2. IInv /\ IInv' /\ [Next]_vars =>
        [Spaces!Next]_<<[p \in Pid |-> [v \in Page \X Offset |-> VirtualWord(p, v[1], v[2])]],
                        ms.PTBR \div NPages, ret>>
  <2> SUFFICES ASSUME IInv, IInv', [Next]_vars
               PROVE  [Spaces!Next]_<<[p \in Pid |-> [v \in Page \X Offset |-> VirtualWord(p, v[1], v[2])]],
                        ms.PTBR \div NPages, ret>>
    OBVIOUS
  <2>1. CASE UNCHANGED vars
    BY <2>1 DEF vars, VirtualWord, PhysWord
  <2>2. CASE Next
    <3> DEFINE pid == ms.PTBR \div NPages
    <3>1. Rests(ms) /\ Rests(ms') /\ Steps(ms', ms, ret')
      BY <2>2, StepTaken DEF IInv
    <3>2. [p \in Pid |-> [v \in Page \X Offset |-> VirtualWord(p, v[1], v[2])]] = SpaceOf(ms)
      BY <3>1, SpaceIs
    <3>3. [p \in Pid |-> [v \in Page \X Offset |-> VirtualWord(p, v[1], v[2])]]' = SpaceOf(ms')
      <4>1. \A p, v, o : VirtualWord(p, v, o)' = WordSeen(ms', p, v, o)
        BY DEF VirtualWord, PhysWord, WordSeen
      <4> QED
        BY <3>1, <4>1, SpaceSeen
    <3>4. CASE ret' = Spaces!Done /\ SpaceOf(ms') = SpaceOf(ms) /\ ms'.PTBR = ms.PTBR
      BY <3>2, <3>3, <3>4 DEF Spaces!Next, Spaces!Housekeeping
    <3>5. CASE /\ ret' = Spaces!Done /\ SpaceOf(ms') = SpaceOf(ms)
               /\ \E q \in Pid : ms'.PTBR = Table(q)
      BY <3>2, <3>3, <3>5, Entries DEF Spaces!Next, Spaces!Switch
    <3>6. CASE /\ SpaceOf(ms') = SpaceOf(ms) /\ ms'.PTBR = ms.PTBR
               /\ \E a \in Page \X Offset : ret' = Spaces!Got(a, SpaceOf(ms)[pid][a])
      BY <3>2, <3>3, <3>6 DEF Spaces!Next, Spaces!Read
    <3>7. CASE /\ ms'.PTBR = ms.PTBR
               /\ \E a \in Page \X Offset, w \in Data :
                    ret' = Spaces!Wrote(a, w) /\ SpaceGets(ms', ms, pid, a, w)
      BY <3>2, <3>3, <3>7 DEF Spaces!Next, Spaces!Write, SpaceGets
    <3> QED
      BY <3>1, <3>4, <3>5, <3>6, <3>7 DEF Steps
  <2> QED
    BY <2>1, <2>2
<1>3. Spec => []IInv
  BY Invariance
<1> QED
  BY <1>1, <1>2, <1>3, PTL DEF Spec, ImplementsAddressSpaces, Spaces!Spec

=============================================================================
