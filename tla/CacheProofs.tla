---------------------------- MODULE CacheProofs ----------------------------
(***************************************************************************)
(* Proofs about the cache of cache.c, for every geometry and every memory: *)
(* its type invariant, that no block is ever in two lines, that a loaded   *)
(* line is always found again, and that cache and memory together          *)
(* implement a plain memory.                                               *)
(*                                                                         *)
(* The argument has three layers: the arithmetic of addresses, what each   *)
(* operation of CacheOps does to the word that a reader gets at every      *)
(* address, and the steps of module Cache.                                 *)
(***************************************************************************)
EXTENDS Cache, TLAPS

-----------------------------------------------------------------------------
(* Arithmetic of addresses *)

\* Division with remainder.
LEMMA DivMod ==
  ASSUME NEW a \in Nat, NEW m \in Nat \ {0}
  PROVE  /\ a \div m \in Nat
         /\ a % m \in 0..m-1
         /\ a = (a \div m) * m + (a % m)
OBVIOUS

\* Quotient and remainder are the only numbers of this form.
LEMMA DivModUnique ==
  ASSUME NEW m \in Nat \ {0}, NEW q \in Nat, NEW r \in 0..m-1
  PROVE  (q * m + r) \div m = q /\ (q * m + r) % m = r
OBVIOUS

\* The quotient of a number below a multiple.
LEMMA DivLess ==
  ASSUME NEW a \in Nat, NEW m \in Nat \ {0}, NEW k \in Nat, a < k * m
  PROVE  a \div m < k
OBVIOUS

\* A number of this form is below a multiple.
LEMMA MulLess ==
  ASSUME NEW a \in Nat, NEW m \in Nat \ {0}, NEW k \in Nat, NEW r \in 0..m-1, a < k
  PROVE  a * m + r < k * m
OBVIOUS

\* A positive factor cancels.
LEMMA MulCancel ==
  ASSUME NEW a \in Nat, NEW m \in Nat \ {0}, NEW k \in Nat, a * m = k * m
  PROVE  a = k
OBVIOUS

\* Products of the geometry are positive.
LEMMA MulPos ==
  ASSUME NEW a \in Nat \ {0}, NEW b \in Nat \ {0}
  PROVE  a * b \in Nat \ {0}
OBVIOUS

\* The parts of an address are in range, and findCacheLine looks for the tag
\* that loadCacheLine stores.
LEMMA AddressParts ==
  ASSUME NEW a \in Adrs
  PROVE  /\ a \in Nat
         /\ OffsetOf(a) \in Offset
         /\ BlockOf(a) \in Nat
         /\ SetOf(a) \in Set
         /\ LoadTag(a) \in Tag
         /\ TagOf(a) = LoadTag(a)
         /\ a = BlockOf(a) * BlockSize + OffsetOf(a)
         /\ BlockOf(a) = LoadTag(a) * NSets + SetOf(a)
         /\ BlockOf(a) < NTags * NSets
<1> USE GeometryAssumption
<1>1. NTags * NSets \in Nat \ {0}
  BY MulPos
<1>2. NTags * NSets * BlockSize \in Nat
  BY <1>1, MulPos
<1>3. a \in Nat /\ a < (NTags * NSets) * BlockSize
  BY <1>2 DEF Adrs
<1>4. /\ BlockOf(a) \in Nat
      /\ OffsetOf(a) \in Offset
      /\ a = BlockOf(a) * BlockSize + OffsetOf(a)
  BY <1>3, DivMod DEF BlockOf, OffsetOf, Offset
<1>5. BlockOf(a) < NTags * NSets
  BY <1>1, <1>3, DivLess DEF BlockOf
<1>6. /\ LoadTag(a) \in Nat
      /\ SetOf(a) \in Set
      /\ BlockOf(a) = LoadTag(a) * NSets + SetOf(a)
  BY <1>4, DivMod DEF LoadTag, SetOf, Set
<1>7. LoadTag(a) < NTags
  BY <1>4, <1>5, DivLess DEF LoadTag
<1>8. TagOf(a) = LoadTag(a)
  BY <1>6, <1>7 DEF TagOf
<1> QED
  BY <1>3, <1>4, <1>5, <1>6, <1>7, <1>8 DEF Tag

\* A line is written back to the block of an address exactly when it is a line
\* of that address' set and has its tag.
LEMMA CoversIsMatch ==
  ASSUME NEW a \in Adrs, NEW set \in Set, NEW tag \in Tag
  PROVE  LineAdrs(tag, set) = a - OffsetOf(a) <=> set = SetOf(a) /\ tag = LoadTag(a)
<1> USE GeometryAssumption
<1> DEFINE b == tag * NSets + set
<1>1. tag \in Nat /\ set \in 0..NSets-1
  BY DEF Tag, Set
<1>2. b \in Nat
  BY <1>1, MulPos
<1>3. a - OffsetOf(a) = BlockOf(a) * BlockSize
  BY AddressParts DEF Offset
<1>4. b \div NSets = tag /\ b % NSets = set
  BY <1>1, DivModUnique
<1> HIDE DEF b
<1>5. b * BlockSize = BlockOf(a) * BlockSize <=> b = BlockOf(a)
  BY <1>2, AddressParts, MulCancel
<1>6. b = BlockOf(a) => set = SetOf(a) /\ tag = LoadTag(a)
  BY <1>4 DEF SetOf, LoadTag
<1>7. set = SetOf(a) /\ tag = LoadTag(a) => b = BlockOf(a)
  BY AddressParts DEF b
<1> QED
  BY <1>3, <1>5, <1>6, <1>7 DEF LineAdrs, b

\* The words of a block: the address o words into the block of a.
LEMMA BlockWords ==
  ASSUME NEW a \in Adrs, NEW o \in Offset
  PROVE  /\ a - OffsetOf(a) + o \in Adrs
         /\ BlockOf(a - OffsetOf(a) + o) = BlockOf(a)
         /\ OffsetOf(a - OffsetOf(a) + o) = o
<1> USE GeometryAssumption
<1>1. a - OffsetOf(a) + o = BlockOf(a) * BlockSize + o
  BY AddressParts DEF Offset
<1>2. NTags * NSets \in Nat
  BY MulPos
<1>3. BlockOf(a) * BlockSize + o < (NTags * NSets) * BlockSize
  BY <1>2, AddressParts, MulLess DEF Offset
<1>4. BlockOf(a) * BlockSize + o \in Nat
  BY AddressParts, MulPos DEF Offset
<1>5. BlockOf(a) * BlockSize + o \in Adrs
  BY <1>2, <1>3, <1>4 DEF Adrs
<1>6. /\ (BlockOf(a) * BlockSize + o) \div BlockSize = BlockOf(a)
      /\ (BlockOf(a) * BlockSize + o) % BlockSize = o
  BY AddressParts, DivModUnique DEF Offset
<1> QED
  BY <1>1, <1>5, <1>6 DEF BlockOf, OffsetOf

\* Two addresses with the same tag, set and offset are one.
LEMMA SameAddress ==
  ASSUME NEW a \in Adrs, NEW b \in Adrs,
         SetOf(a) = SetOf(b), LoadTag(a) = LoadTag(b)
  PROVE  /\ BlockOf(a) = BlockOf(b)
         /\ a - OffsetOf(a) = b - OffsetOf(b)
         /\ OffsetOf(a) = OffsetOf(b) => a = b
<1>1. BlockOf(a) = BlockOf(b)
  BY AddressParts
<1>2. a - OffsetOf(a) = BlockOf(a) * BlockSize /\ b - OffsetOf(b) = BlockOf(b) * BlockSize
  BY AddressParts, GeometryAssumption DEF Offset
<1> QED
  BY <1>1, <1>2, AddressParts

-----------------------------------------------------------------------------
(* Lines and hits *)

CacheType == [Set -> [Line -> LineType]]

\* A cache that the operations keep: typed, and no block in two lines.
Good(k) == k \in CacheType /\ Unique(k)

\* Line i is the one that holds address a.
Holds(k, a, i) == k[SetOf(a)][i].valid /\ k[SetOf(a)][i].tag = LoadTag(a)

\* What a line is.
LEMMA LineFields ==
  ASSUME NEW line \in LineType
  PROVE  /\ line.valid => /\ line \in LoadedLine
                          /\ line.tag \in Tag
                          /\ line.buf \in [Offset -> Words]
         /\ line \in LoadedLine => line.valid
<1>1. ~ Empty.valid
  BY DEF Empty
<1>2. ASSUME line \in LoadedLine
      PROVE  line.valid /\ line.tag \in Tag /\ line.buf \in [Offset -> Words]
  BY <1>2 DEF LoadedLine
<1> QED
  BY <1>1, <1>2 DEF LineType

\* A loaded line is a line.
LEMMA LoadedType ==
  ASSUME NEW tag \in Tag, NEW buf \in [Offset -> Words]
  PROVE  /\ Loaded(tag, buf) \in LoadedLine
         /\ Loaded(tag, buf).tag = tag
         /\ Loaded(tag, buf).buf = buf
BY DEF Loaded, LoadedLine

\* Writing a word to a loaded line.
LEMMA WrittenLine ==
  ASSUME NEW line \in LoadedLine, NEW o \in Offset, NEW w \in Words
  PROVE  /\ [line EXCEPT !.buf[o] = w] \in LoadedLine
         /\ [line EXCEPT !.buf[o] = w].tag = line.tag
         /\ [line EXCEPT !.buf[o] = w].buf = [line.buf EXCEPT ![o] = w]
BY DEF LoadedLine

\* findCacheLine matches a line exactly when it holds the address, also when
\* there are no tag bits.
LEMMA HitsHold ==
  ASSUME NEW k \in CacheType, NEW a \in Adrs, NEW i \in Line
  PROVE  i \in Hits(k, a) <=> Holds(k, a, i)
<1>1. SetOf(a) \in Set /\ TagOf(a) = LoadTag(a) /\ LoadTag(a) \in Tag
  BY AddressParts
<1>2. k[SetOf(a)][i] \in LineType
  BY <1>1 DEF CacheType
<1>3. k[SetOf(a)][i].valid => k[SetOf(a)][i].tag \in Tag
  BY <1>2, LineFields
<1>4. NTags = 1 => Tag = {0}
  BY DEF Tag
<1> QED
  BY <1>1, <1>3, <1>4 DEF Hits, Matches, Holds

\* In a good cache the line that holds an address is the one found.
LEMMA FoundLine ==
  ASSUME NEW k, Good(k), NEW a \in Adrs, NEW i \in Line, Holds(k, a, i)
  PROVE  InCache(k, a) /\ FindCacheLine(k, a) = i
<1>1. SetOf(a) \in Set
  BY AddressParts
<1>2. \A j \in Line : Holds(k, a, j) => j = i
  BY <1>1 DEF Good, Unique, Holds
<1>3. Hits(k, a) \subseteq Line
  BY DEF Hits
<1>4. Hits(k, a) = {i}
  BY <1>2, <1>3, HitsHold DEF Good
<1>5. i <= i
  BY DEF Line
<1> QED
  BY <1>4, <1>5 DEF InCache, FindCacheLine

\* And a cached address is held by the line found.
LEMMA HitLine ==
  ASSUME NEW k, Good(k), NEW a \in Adrs, InCache(k, a)
  PROVE  /\ FindCacheLine(k, a) \in Line
         /\ Holds(k, a, FindCacheLine(k, a))
         /\ CachedWord(k, a) \in Words
<1>1. PICK i \in Line : Holds(k, a, i)
  BY HitsHold DEF InCache, Hits, Good
<1>2. FindCacheLine(k, a) = i
  BY <1>1, FoundLine
<1>3. k[SetOf(a)][i] \in LineType /\ OffsetOf(a) \in Offset
  BY AddressParts DEF Good, CacheType
<1>4. k[SetOf(a)][i].buf \in [Offset -> Words]
  BY <1>1, <1>3, LineFields DEF Holds
<1> QED
  BY <1>1, <1>2, <1>3, <1>4 DEF CachedWord

\* In particular what a reader gets is a word.
LEMMA WordAtType ==
  ASSUME NEW k, Good(k), NEW m \in [Adrs -> Words], NEW a \in Adrs
  PROVE  WordAt(k, m, a) \in Words
BY HitLine DEF WordAt

\* An empty cache is good and holds nothing.
LEMMA EmptyGood == Good(EmptyCache) /\ \A a \in Adrs : ~ InCache(EmptyCache, a)
<1>1. Empty \in LineType /\ ~ Empty.valid
  BY DEF LineType, Empty
<1>2. \A s \in Set, i \in Line : EmptyCache[s][i] = Empty
  BY DEF EmptyCache
<1>3. EmptyCache \in CacheType
  BY <1>1 DEF EmptyCache, CacheType
<1>4. Unique(EmptyCache)
  BY <1>1, <1>2 DEF Unique
<1>5. Good(EmptyCache)
  BY <1>3, <1>4 DEF Good
<1>6. ASSUME NEW a \in Adrs, InCache(EmptyCache, a)
      PROVE  FALSE
  BY <1>1, <1>2, <1>5, <1>6, HitLine, AddressParts DEF Holds
<1> QED
  BY <1>5, <1>6

\* A line of a good cache covers the addresses that it holds.
LEMMA CoversHeld ==
  ASSUME NEW k, Good(k), NEW a \in Adrs, NEW set \in Set, NEW i \in Line
  PROVE  Covers(k[set][i], set, a) <=> set = SetOf(a) /\ Holds(k, a, i)
<1>1. k[set][i] \in LineType
  BY DEF Good, CacheType
<1>2. k[set][i].valid => k[set][i].tag \in Tag
  BY <1>1, LineFields
<1> QED
  BY <1>2, CoversIsMatch DEF Covers, Holds

-----------------------------------------------------------------------------
(* What the operations do to the word a reader gets *)

\* Updating a line changes the word at one address.
LEMMA UpdateWord ==
  ASSUME NEW k, Good(k), NEW a \in Adrs, InCache(k, a), NEW w \in Words,
         NEW m
  PROVE  /\ Good(UpdateLine(k, a, w))
         /\ \A b \in Adrs : InCache(UpdateLine(k, a, w), b) <=> InCache(k, b)
         /\ \A b \in Adrs : WordAt(UpdateLine(k, a, w), m, b)
                              = IF b = a THEN w ELSE WordAt(k, m, b)
<1> DEFINE s == SetOf(a)
           f == FindCacheLine(k, a)
           old == k[s][f]
           new == [old EXCEPT !.buf[OffsetOf(a)] = w]
           u == UpdateLine(k, a, w)
<1>1. s \in Set /\ f \in Line /\ Holds(k, a, f) /\ OffsetOf(a) \in Offset
  BY AddressParts, HitLine
<1>2. old \in LineType /\ old.valid /\ old.tag = LoadTag(a)
  BY <1>1 DEF Good, CacheType, Holds
<1>3. old \in LoadedLine /\ old.buf \in [Offset -> Words]
  BY <1>2, LineFields
<1>4. u = [k EXCEPT ![s][f] = new]
  BY <1>1 DEF UpdateLine, Good, CacheType
<1>5. /\ new \in LoadedLine /\ new.tag = old.tag
      /\ new.buf = [old.buf EXCEPT ![OffsetOf(a)] = w]
  BY <1>1, <1>3, WrittenLine
<1>6. new \in LineType /\ new.valid
  BY <1>5, LineFields DEF LineType
<1> HIDE DEF new, u
<1>7. /\ u \in CacheType
      /\ \A t \in Set, j \in Line :
           u[t][j] = IF t = s /\ j = f THEN new ELSE k[t][j]
  BY <1>1, <1>4, <1>6 DEF Good, CacheType
<1>8. \A t \in Set, j \in Line : u[t][j].valid <=> k[t][j].valid
  BY <1>2, <1>6, <1>7
<1>9. \A t \in Set, j \in Line : u[t][j].tag = k[t][j].tag
  BY <1>5, <1>7
<1>10. Good(u)
  BY <1>7, <1>8, <1>9 DEF Good, Unique
<1>11. ASSUME NEW b \in Adrs, NEW j \in Line
       PROVE  Holds(u, b, j) <=> Holds(k, b, j)
  BY <1>8, <1>9, AddressParts DEF Holds
<1>12. ASSUME NEW b \in Adrs
       PROVE  InCache(u, b) <=> InCache(k, b)
  BY <1>10, <1>11, FoundLine, HitLine
<1>13. ASSUME NEW b \in Adrs
       PROVE  WordAt(u, m, b) = IF b = a THEN w ELSE WordAt(k, m, b)
  <2>1. CASE ~ InCache(k, b)
    BY <1>12, <2>1 DEF WordAt
  <2>2. CASE InCache(k, b)
    <3> DEFINE j == FindCacheLine(k, b)
    <3>1. j \in Line /\ Holds(k, b, j) /\ Holds(u, b, j) /\ SetOf(b) \in Set
      BY <1>11, <2>2, HitLine, AddressParts
    <3>2. FindCacheLine(u, b) = j
      BY <1>10, <3>1, FoundLine
    <3>3. WordAt(u, m, b) = u[SetOf(b)][j].buf[OffsetOf(b)]
      BY <1>12, <2>2, <3>2 DEF WordAt, CachedWord
    <3>4. WordAt(k, m, b) = k[SetOf(b)][j].buf[OffsetOf(b)]
      BY <2>2 DEF WordAt, CachedWord
    <3>5. CASE SetOf(b) = s /\ j = f
      <4>1. LoadTag(b) = LoadTag(a)
        BY <1>1, <3>1, <3>5 DEF Holds
      <4>2. OffsetOf(b) = OffsetOf(a) <=> b = a
        BY <3>5, <4>1, SameAddress
      <4>3. u[SetOf(b)][j].buf = [old.buf EXCEPT ![OffsetOf(a)] = w]
        BY <1>1, <1>5, <1>7, <3>5
      <4>4. OffsetOf(b) \in Offset
        BY AddressParts
      <4> QED
        BY <1>1, <1>3, <3>3, <3>4, <3>5, <4>2, <4>3, <4>4
    <3>6. CASE ~ (SetOf(b) = s /\ j = f)
      <4>1. u[SetOf(b)][j] = k[SetOf(b)][j]
        BY <1>7, <3>1, <3>6
      <4>2. b # a
        BY <3>6
      <4> QED
        BY <3>3, <3>4, <4>1, <4>2
    <3> QED
      BY <3>5, <3>6
  <2> QED
    BY <2>1, <2>2
<1> QED
  BY <1>10, <1>12, <1>13 DEF u

\* A memory is not NULL.
LEMMA MemNotNull ==
  ASSUME NEW m \in [Adrs -> Words]
  PROVE  m # NULL
<1>1. NTags * NSets * BlockSize \in Nat \ {0}
  BY GeometryAssumption, MulPos
<1>2. 0 \in DOMAIN m
  BY <1>1 DEF Adrs
<1>3. DOMAIN NULL = {}
  BY DEF NULL
<1> QED
  BY <1>2, <1>3

\* Evicting a line writes to its block what a reader got there, and nothing
\* elsewhere.
LEMMA WriteBackWord ==
  ASSUME NEW k, Good(k), NEW m \in [Adrs -> Words],
         NEW s \in Set, NEW i \in Line
  PROVE  /\ WriteBack(m, s, k[s][i]) \in [Adrs -> Words]
         /\ \A b \in Adrs :
              WriteBack(m, s, k[s][i])[b] =
                IF s = SetOf(b) /\ Holds(k, b, i) THEN CachedWord(k, b) ELSE m[b]
<1> DEFINE mm == WriteBack(m, s, k[s][i])
<1>1. ASSUME NEW b \in Adrs
      PROVE  mm[b] = IF s = SetOf(b) /\ Holds(k, b, i) THEN k[s][i].buf[OffsetOf(b)] ELSE m[b]
  BY CoversHeld DEF WriteBack
<1>2. ASSUME NEW b \in Adrs, s = SetOf(b), Holds(k, b, i)
      PROVE  k[s][i].buf[OffsetOf(b)] = CachedWord(k, b) /\ CachedWord(k, b) \in Words
  BY <1>2, FoundLine, HitLine DEF CachedWord
<1>3. \A b \in Adrs : mm[b] = IF s = SetOf(b) /\ Holds(k, b, i) THEN CachedWord(k, b) ELSE m[b]
  BY <1>1, <1>2
<1>4. \A b \in Adrs : mm[b] \in Words
  BY <1>2, <1>3
<1>5. mm = [b \in Adrs |-> mm[b]]
  BY DEF WriteBack
<1> QED
  BY <1>3, <1>4, <1>5

\* Taking a line for a block that is not cached changes no word that a reader
\* gets, and the memory only to words that were cached.
LEMMA ReplaceWord ==
  ASSUME NEW k, Good(k), NEW m \in [Adrs -> Words], NEW a \in Adrs,
         ~ InCache(k, a), NEW i \in Line,
         NEW r, r = ReplaceLine(k, m, a, i)
  PROVE  /\ Good(r.c) /\ r.mem \in [Adrs -> Words] /\ InCache(r.c, a)
         /\ \A b \in Adrs : WordAt(r.c, r.mem, b) = WordAt(k, m, b)
         /\ \A b \in Adrs : r.mem[b] = m[b] \/ (InCache(k, b) /\ r.mem[b] = CachedWord(k, b))
<1> DEFINE s == SetOf(a)
           m1 == IF k[s][i].valid THEN WriteBack(m, s, k[s][i]) ELSE m
           new == Loaded(LoadTag(a), ReadBlock(m1, a))
           u == [k EXCEPT ![s][i] = new]
<1>1. r.c = u /\ r.mem = m1
  BY DEF ReplaceLine
<1>2. s \in Set /\ LoadTag(a) \in Tag
  BY AddressParts
<1>3. /\ m1 \in [Adrs -> Words]
      /\ \A b \in Adrs :
           m1[b] = IF s = SetOf(b) /\ Holds(k, b, i) THEN CachedWord(k, b) ELSE m[b]
  BY <1>2, WriteBackWord DEF Holds
<1> HIDE DEF m1
<1>4. /\ ReadBlock(m1, a) \in [Offset -> Words]
      /\ \A o \in Offset : ReadBlock(m1, a)[o] = m1[a - OffsetOf(a) + o]
  BY <1>3, MemNotNull, BlockWords DEF ReadBlock
<1>5. /\ new \in LineType /\ new.valid /\ new.tag = LoadTag(a)
      /\ new.buf = ReadBlock(m1, a)
  BY <1>2, <1>4, LoadedType, LineFields DEF LineType
<1> HIDE DEF new
<1>6. /\ u \in CacheType
      /\ \A t \in Set, j \in Line :
           u[t][j] = IF t = s /\ j = i THEN new ELSE k[t][j]
  BY <1>2, <1>5 DEF Good, CacheType
<1> HIDE DEF u
<1>7. \A j \in Line : ~ Holds(k, a, j)
  BY HitsHold DEF InCache, Hits, Good
<1>8. Unique(u)
  <2> SUFFICES ASSUME NEW t \in Set, NEW j \in Line, NEW l \in Line,
                      j # l, u[t][j].valid, u[t][l].valid
               PROVE  u[t][j].tag # u[t][l].tag
    BY DEF Unique
  <2>1. CASE t = s /\ j = i
    BY <1>5, <1>6, <1>7, <2>1 DEF Holds
  <2>2. CASE t = s /\ l = i
    BY <1>5, <1>6, <1>7, <2>2 DEF Holds
  <2>3. CASE ~ (t = s /\ j = i) /\ ~ (t = s /\ l = i)
    BY <1>6, <2>3 DEF Good, Unique
  <2> QED
    BY <2>1, <2>2, <2>3
<1>9. Good(u)
  BY <1>6, <1>8 DEF Good
<1>10. InCache(u, a)
  BY <1>2, <1>5, <1>6, <1>9, FoundLine DEF Holds
<1>11. ASSUME NEW b \in Adrs
       PROVE  WordAt(u, m1, b) = WordAt(k, m, b)
  <2>0. SetOf(b) \in Set /\ OffsetOf(b) \in Offset
    BY AddressParts
  <2>1. CASE SetOf(b) = s /\ LoadTag(b) = LoadTag(a)
    <3>1. \A j \in Line : ~ Holds(k, b, j)
      BY <1>7, <2>1 DEF Holds
    <3>2. ~ InCache(k, b)
      BY <3>1, HitLine
    <3>3. InCache(u, b) /\ FindCacheLine(u, b) = i
      BY <1>5, <1>6, <1>9, <2>0, <2>1, FoundLine DEF Holds
    <3>4. WordAt(u, m1, b) = ReadBlock(m1, a)[OffsetOf(b)]
      BY <1>5, <1>6, <2>0, <2>1, <3>3 DEF WordAt, CachedWord
    <3>5. a - OffsetOf(a) + OffsetOf(b) = b
      <4>1. a - OffsetOf(a) = b - OffsetOf(b)
        BY <2>1, SameAddress
      <4>2. b \in Nat /\ a \in Nat /\ OffsetOf(a) \in Nat /\ OffsetOf(b) \in Nat
        BY AddressParts DEF Offset
      <4> QED
        BY <4>1, <4>2
    <3>6. WordAt(u, m1, b) = m1[b]
      BY <1>4, <2>0, <3>4, <3>5
    <3> QED
      BY <1>3, <3>1, <3>2, <3>6 DEF WordAt
  <2>2. CASE SetOf(b) = s /\ LoadTag(b) # LoadTag(a)
    <3>1. \A j \in Line : Holds(u, b, j) <=> Holds(k, b, j) /\ j # i
      BY <1>2, <1>5, <1>6, <2>2 DEF Holds
    <3>2. CASE InCache(k, b)
      <4>1. PICK j \in Line : Holds(k, b, j) /\ FindCacheLine(k, b) = j
        BY <3>2, HitLine
      <4>2. CASE j = i
        <5>1. \A l \in Line : Holds(k, b, l) => l = i
          BY <4>1, <4>2, FoundLine
        <5>2. ~ InCache(u, b)
          BY <1>9, <3>1, <5>1, HitLine
        <5> QED
          BY <1>3, <2>2, <3>2, <4>1, <4>2, <5>2 DEF WordAt
      <4>3. CASE j # i
        <5>1. InCache(u, b) /\ FindCacheLine(u, b) = j
          BY <1>9, <3>1, <4>1, <4>3, FoundLine
        <5>2. u[SetOf(b)][j] = k[SetOf(b)][j]
          BY <1>6, <2>0, <4>3
        <5> QED
          BY <3>2, <4>1, <5>1, <5>2 DEF WordAt, CachedWord
      <4> QED
        BY <4>2, <4>3
    <3>3. CASE ~ InCache(k, b)
      <4>1. \A j \in Line : ~ Holds(k, b, j)
        BY <3>3, FoundLine
      <4>2. ~ InCache(u, b)
        BY <1>9, <3>1, <4>1, HitLine
      <4> QED
        BY <1>3, <3>3, <4>1, <4>2 DEF WordAt
    <3> QED
      BY <3>2, <3>3
  <2>3. CASE SetOf(b) # s
    <3>1. \A j \in Line : u[SetOf(b)][j] = k[SetOf(b)][j]
      BY <1>6, <2>0, <2>3
    <3>2. \A j \in Line : Holds(u, b, j) <=> Holds(k, b, j)
      BY <3>1 DEF Holds
    <3>3. m1[b] = m[b]
      BY <1>3, <2>3
    <3>4. CASE InCache(k, b)
      <4>1. PICK j \in Line : Holds(k, b, j) /\ FindCacheLine(k, b) = j
        BY <3>4, HitLine
      <4>2. InCache(u, b) /\ FindCacheLine(u, b) = j
        BY <1>9, <3>2, <4>1, FoundLine
      <4> QED
        BY <3>1, <3>4, <4>1, <4>2 DEF WordAt, CachedWord
    <3>5. CASE ~ InCache(k, b)
      <4>1. ~ InCache(u, b)
        BY <1>9, <3>2, <3>5, HitLine, FoundLine
      <4> QED
        BY <3>3, <3>5, <4>1 DEF WordAt
    <3> QED
      BY <3>4, <3>5
  <2> QED
    BY <2>1, <2>2, <2>3
<1>12. ASSUME NEW b \in Adrs
       PROVE  m1[b] = m[b] \/ (InCache(k, b) /\ m1[b] = CachedWord(k, b))
  BY <1>3, FoundLine
<1> QED
  BY <1>1, <1>3, <1>9, <1>10, <1>11, <1>12

\* r is an outcome of an operation on the good cache k over memory m: it did
\* not quit, changed the memory by write-backs only, and made the word at `a`
\* that a reader gets w and no other one.
Stores(r, k, m, a, w) ==
  /\ ~ r.quit
  /\ Good(r.c) /\ r.mem \in [Adrs -> Words] /\ InCache(r.c, a)
  /\ \A b \in Adrs : WordAt(r.c, r.mem, b) = IF b = a THEN w ELSE WordAt(k, m, b)
  /\ \A b \in Adrs : r.mem[b] = m[b] \/ (InCache(k, b) /\ r.mem[b] = CachedWord(k, b))

\* loadCacheLine leaves a cache with the block in it and the same words.
LEMMA LoadWord ==
  ASSUME NEW k, Good(k), NEW m \in [Adrs -> Words], NEW a \in Adrs,
         NEW r \in LoadCacheLine(k, m, a)
  PROVE  /\ Good(r.c) /\ r.mem \in [Adrs -> Words] /\ InCache(r.c, a)
         /\ \A b \in Adrs : WordAt(r.c, r.mem, b) = WordAt(k, m, b)
         /\ \A b \in Adrs : r.mem[b] = m[b] \/ (InCache(k, b) /\ r.mem[b] = CachedWord(k, b))
<1>1. CASE InCache(k, a)
  BY <1>1 DEF LoadCacheLine
<1>2. CASE ~ InCache(k, a)
  <2>1. PICK i \in Victims(k, SetOf(a)) : r = ReplaceLine(k, m, a, i)
    BY <1>2 DEF LoadCacheLine
  <2>2. i \in Line
    BY <2>1 DEF Victims
  <2> QED
    BY <1>2, <2>1, <2>2, ReplaceWord
<1> QED
  BY <1>1, <1>2

\* writeToCache never quits: the line it has loaded is found, and updated.
LEMMA WriteToCacheWord ==
  ASSUME NEW k, Good(k), NEW m \in [Adrs -> Words], NEW a \in Adrs,
         NEW w \in Words, NEW r \in WriteToCache(k, m, a, w)
  PROVE  Stores(r, k, m, a, w)
<1>1. PICK l \in LoadCacheLine(k, m, a) : r = WriteLoaded(l, a, w)
  BY DEF WriteToCache
<1>2. /\ Good(l.c) /\ l.mem \in [Adrs -> Words] /\ InCache(l.c, a)
      /\ \A b \in Adrs : WordAt(l.c, l.mem, b) = WordAt(k, m, b)
      /\ \A b \in Adrs : l.mem[b] = m[b] \/ (InCache(k, b) /\ l.mem[b] = CachedWord(k, b))
  BY LoadWord
<1>3. r = [c |-> UpdateLine(l.c, a, w), mem |-> l.mem, quit |-> FALSE]
  BY <1>1, <1>2 DEF WriteLoaded
<1>4. r.c = UpdateLine(l.c, a, w) /\ r.mem = l.mem /\ ~ r.quit
  BY <1>3
<1>5. /\ Good(r.c)
      /\ \A b \in Adrs : InCache(r.c, b) <=> InCache(l.c, b)
      /\ \A b \in Adrs : WordAt(r.c, r.mem, b) = IF b = a THEN w ELSE WordAt(l.c, l.mem, b)
  BY <1>2, <1>4, UpdateWord
<1> QED
  BY <1>2, <1>4, <1>5 DEF Stores

\* readFromPhysicalMem never quits, returns the word at the address and
\* changes no word.
LEMMA ReadPhysicalWord ==
  ASSUME NEW k, Good(k), NEW m \in [Adrs -> Words], NEW a \in Adrs,
         NEW r \in ReadFromPhysicalMem(k, m, a)
  PROVE  Stores(r, k, m, a, WordAt(k, m, a)) /\ r.w = WordAt(k, m, a)
<1>1. CASE InCache(k, a)
  <2>1. /\ r.c = k /\ r.mem = m /\ ~ r.quit /\ r.w = CachedWord(k, a)
    BY <1>1 DEF ReadFromPhysicalMem
  <2> QED
    BY <1>1, <2>1 DEF Stores, WordAt
<1>2. CASE ~ InCache(k, a)
  <2>1. PICK l \in WriteToCache(k, m, a, m[a]) :
          r = [c |-> l.c, mem |-> l.mem, quit |-> l.quit \/ ~ InCache(l.c, a),
               w |-> IF InCache(l.c, a) THEN CachedWord(l.c, a) ELSE 0]
    BY <1>2 DEF ReadFromPhysicalMem
  <2>2. Stores(l, k, m, a, m[a])
    BY WriteToCacheWord
  <2>3. WordAt(k, m, a) = m[a]
    BY <1>2 DEF WordAt
  <2>4. r.c = l.c /\ r.mem = l.mem /\ ~ r.quit /\ r.w = CachedWord(l.c, a)
    BY <2>1, <2>2 DEF Stores
  <2>5. CachedWord(l.c, a) = m[a]
    BY <2>2 DEF Stores, WordAt
  <2> QED
    BY <2>2, <2>3, <2>4, <2>5 DEF Stores
<1> QED
  BY <1>1, <1>2

\* writeToPhysicalMem never quits and changes the word at the address only.
LEMMA WritePhysicalWord ==
  ASSUME NEW k, Good(k), NEW m \in [Adrs -> Words], NEW a \in Adrs,
         NEW w \in Words, NEW r \in WriteToPhysicalMem(k, m, a, w)
  PROVE  Stores(r, k, m, a, w)
<1>1. CASE InCache(k, a)
  <2>1. r.c = UpdateLine(k, a, w) /\ r.mem = m /\ ~ r.quit
    BY <1>1 DEF WriteToPhysicalMem
  <2> QED
    BY <1>1, <2>1, UpdateWord DEF Stores
<1>2. CASE ~ InCache(k, a)
  <2>1. PICK l \in WriteToCache(k, m, a, m[a]) :
          r = [WriteLoaded(l, a, w) EXCEPT !.quit = @ \/ l.quit]
    BY <1>2 DEF WriteToPhysicalMem
  <2>2. Stores(l, k, m, a, m[a])
    BY WriteToCacheWord
  <2>3. WriteLoaded(l, a, w) = [c |-> UpdateLine(l.c, a, w), mem |-> l.mem, quit |-> FALSE]
    BY <2>2 DEF WriteLoaded, Stores
  <2>4. r.c = UpdateLine(l.c, a, w) /\ r.mem = l.mem /\ ~ r.quit
    <3>1. ~ l.quit
      BY <2>2 DEF Stores
    <3>2. r = [c |-> UpdateLine(l.c, a, w), mem |-> l.mem, quit |-> FALSE \/ l.quit]
      BY <2>1, <2>3
    <3>3. r.quit = (FALSE \/ l.quit)
      BY <3>2
    <3> QED
      BY <3>1, <3>2, <3>3
  <2>5. /\ Good(r.c) /\ InCache(r.c, a)
        /\ \A b \in Adrs : WordAt(r.c, r.mem, b) = IF b = a THEN w ELSE WordAt(l.c, l.mem, b)
    BY <2>2, <2>4, UpdateWord DEF Stores
  <2> QED
    BY <2>2, <2>4, <2>5 DEF Stores
<1> QED
  BY <1>1, <1>2

\* A flush makes the memory what a reader got, everywhere, and leaves a good
\* cache that shows the same words.
LEMMA FlushWord ==
  ASSUME NEW k, Good(k), NEW m \in [Adrs -> Words], NEW invalidate \in BOOLEAN
  PROVE  /\ FlushedMem(k, m) = [a \in Adrs |-> WordAt(k, m, a)]
         /\ FlushedMem(k, m) \in [Adrs -> Words]
         /\ Good(FlushedCache(k, invalidate))
         /\ \A a \in Adrs : WordAt(FlushedCache(k, invalidate), FlushedMem(k, m), a)
                              = WordAt(k, m, a)
<1>1. ASSUME NEW a \in Adrs
      PROVE  FlushedMem(k, m)[a] = WordAt(k, m, a)
  <2>0. SetOf(a) \in Set
    BY AddressParts
  <2>1. CASE InCache(k, a)
    <3>1. PICK i \in Line : Holds(k, a, i) /\ FindCacheLine(k, a) = i
      BY <2>1, HitLine
    <3>2. \A t \in Set, j \in Line :
            Covers(k[t][j], t, a) <=> t = SetOf(a) /\ j = i
      BY <3>1, CoversHeld, FoundLine
    <3>3. Copies(k, a) = {<<SetOf(a), i>>}
      BY <2>0, <3>1, <3>2 DEF Copies
    <3>4. (CHOOSE x \in Copies(k, a) : TRUE) = <<SetOf(a), i>>
      BY <3>3
    <3>5. FlushedMem(k, m)[a] = k[SetOf(a)][i].buf[OffsetOf(a)]
      BY <3>3, <3>4 DEF FlushedMem
    <3> QED
      BY <2>1, <3>1, <3>5 DEF WordAt, CachedWord
  <2>2. CASE ~ InCache(k, a)
    <3>1. \A j \in Line : ~ Holds(k, a, j)
      BY <2>2, FoundLine
    <3>2. Copies(k, a) = {}
      BY <3>1, CoversHeld DEF Copies
    <3> QED
      BY <2>2, <3>2 DEF FlushedMem, WordAt
  <2> QED
    BY <2>1, <2>2
<1>2. FlushedMem(k, m) = [a \in Adrs |-> WordAt(k, m, a)]
  <2>1. FlushedMem(k, m) = [a \in Adrs |-> FlushedMem(k, m)[a]]
    BY DEF FlushedMem
  <2> QED
    BY <1>1, <2>1
<1>3. FlushedMem(k, m) \in [Adrs -> Words]
  BY <1>2, WordAtType
<1>4. Good(EmptyCache) /\ \A a \in Adrs : ~ InCache(EmptyCache, a)
  BY EmptyGood
<1> QED
  BY <1>1, <1>2, <1>3, <1>4 DEF FlushedCache, WordAt

-----------------------------------------------------------------------------
(* The steps of module Cache *)

\* The inductive invariant.
IInv == TypeOK /\ UniqueLine /\ NeverQuits

\* The answers of the calls are typed, and none is Quit.
LEMMA Answers ==
  /\ Mem!Missed \in RetType /\ Mem!Missed # Quit
  /\ Mem!Flushed \in RetType /\ Mem!Flushed # Quit
  /\ \A a \in Adrs, w \in Words :
       /\ Mem!Got(a, w) \in RetType /\ Mem!Got(a, w) # Quit
       /\ Mem!Wrote(a, w) \in RetType /\ Mem!Wrote(a, w) # Quit
<1>1. NTags * NSets * BlockSize \in Nat \ {0}
  BY GeometryAssumption, MulPos
<1>2. 0 \in Adrs
  BY <1>1 DEF Adrs
<1> QED
  BY <1>2 DEF RetType, Quit, Mem!Missed, Mem!Flushed, Mem!Got, Mem!Wrote

\* What a step does, as the abstract memory sees it; `a` and `w` are the address
\* and the word of the call.
KeepsWords == \A b \in Adrs : WordAt(c, mem, b)' = WordAt(c, mem, b)

StoresWord(a, w) ==
  \A b \in Adrs : WordAt(c, mem, b)' = IF b = a THEN w ELSE WordAt(c, mem, b)

\* The memory changes by write-backs only.
WritesBack ==
  \A a \in Adrs : mem'[a] = mem[a] \/ (InCache(c, a) /\ mem'[a] = CachedWord(c, a))

Answer ==
  \/ /\ ret' = Mem!Missed /\ KeepsWords /\ WritesBack
  \/ /\ ret' = Mem!Flushed /\ KeepsWords
     /\ mem' = [a \in Adrs |-> WordAt(c, mem, a)]
  \/ \E a \in Adrs : /\ ret' = Mem!Got(a, WordAt(c, mem, a))
                     /\ KeepsWords /\ WritesBack
  \/ \E a \in Adrs, w \in Words : /\ ret' = Mem!Wrote(a, w)
                                  /\ StoresWord(a, w) /\ WritesBack

\* Every call keeps cache and memory good, and answers as a memory would.
LEMMA StepAnswers ==
  ASSUME IInv, Next
  PROVE  Good(c)' /\ mem' \in [Adrs -> Words] /\ Answer
<1>1. Good(c) /\ mem \in [Adrs -> Words]
  BY DEF IInv, TypeOK, UniqueLine, Good, CacheType
<1>2. ClientAdrs \subseteq Adrs
  BY ClientAssumption
<1>3. ASSUME NEW a \in ClientAdrs, TryReadFromCache(a)
      PROVE  Good(c)' /\ mem' \in [Adrs -> Words] /\ Answer
  <2>1. c' = c /\ mem' = mem
    BY <1>3 DEF TryReadFromCache
  <2>2. KeepsWords /\ WritesBack
    BY <2>1 DEF KeepsWords, WritesBack, WordAt, InCache, CachedWord, Hits, FindCacheLine
  <2>3. ret' = Mem!Missed \/ ret' = Mem!Got(a, WordAt(c, mem, a))
    BY <1>3 DEF TryReadFromCache, WordAt
  <2> QED
    BY <1>1, <1>2, <2>1, <2>2, <2>3 DEF Answer, Good, CacheType
<1>4. ASSUME NEW a \in ClientAdrs, DoReadFromPhysicalMem(a)
      PROVE  Good(c)' /\ mem' \in [Adrs -> Words] /\ Answer
  <2>1. PICK r \in ReadFromPhysicalMem(c, mem, a) : Return(r, Mem!Got(a, r.w))
    BY <1>4 DEF DoReadFromPhysicalMem
  <2>2. Stores(r, c, mem, a, WordAt(c, mem, a)) /\ r.w = WordAt(c, mem, a)
    BY <1>1, <1>2, ReadPhysicalWord
  <2>3. c' = r.c /\ mem' = r.mem /\ ret' = Mem!Got(a, WordAt(c, mem, a))
    BY <2>1, <2>2 DEF Return, Stores
  <2>4. KeepsWords /\ WritesBack
    BY <2>2, <2>3 DEF Stores, KeepsWords, WritesBack
  <2>5. Good(c)' /\ mem' \in [Adrs -> Words]
    BY <2>2, <2>3 DEF Stores
  <2> QED
    BY <1>2, <2>3, <2>4, <2>5 DEF Answer
<1>5. ASSUME NEW a \in ClientAdrs, NEW w \in Words, TryWriteToCache(a, w)
      PROVE  Good(c)' /\ mem' \in [Adrs -> Words] /\ Answer
  <2>1. CASE InCache(c, a)
    <3>1. c' = UpdateLine(c, a, w) /\ mem' = mem /\ ret' = Mem!Wrote(a, w)
      BY <1>5, <2>1 DEF TryWriteToCache
    <3>2. Good(c)' /\ StoresWord(a, w)
      BY <1>1, <1>2, <2>1, <3>1, UpdateWord DEF StoresWord
    <3> QED
      BY <1>1, <1>2, <3>1, <3>2 DEF Answer, WritesBack
  <2>2. CASE ~ InCache(c, a)
    <3>1. c' = c /\ mem' = mem /\ ret' = Mem!Missed
      BY <1>5, <2>2 DEF TryWriteToCache
    <3>2. KeepsWords /\ WritesBack
      BY <3>1 DEF KeepsWords, WritesBack
    <3> QED
      BY <1>1, <3>1, <3>2 DEF Answer
  <2> QED
    BY <2>1, <2>2
<1>6. ASSUME NEW a \in ClientAdrs, NEW w \in Words, DoWriteToCache(a, w)
      PROVE  Good(c)' /\ mem' \in [Adrs -> Words] /\ Answer
  <2>1. PICK r \in WriteToCache(c, mem, a, w) : Return(r, Mem!Wrote(a, w))
    BY <1>6 DEF DoWriteToCache
  <2>2. Stores(r, c, mem, a, w)
    BY <1>1, <1>2, WriteToCacheWord
  <2>3. c' = r.c /\ mem' = r.mem /\ ret' = Mem!Wrote(a, w)
    BY <2>1, <2>2 DEF Return, Stores
  <2> QED
    BY <1>2, <2>2, <2>3 DEF Answer, Stores, StoresWord, WritesBack
<1>7. ASSUME NEW a \in ClientAdrs, NEW w \in Words, DoWriteToPhysicalMem(a, w)
      PROVE  Good(c)' /\ mem' \in [Adrs -> Words] /\ Answer
  <2>1. PICK r \in WriteToPhysicalMem(c, mem, a, w) : Return(r, Mem!Wrote(a, w))
    BY <1>7 DEF DoWriteToPhysicalMem
  <2>2. Stores(r, c, mem, a, w)
    BY <1>1, <1>2, WritePhysicalWord
  <2>3. c' = r.c /\ mem' = r.mem /\ ret' = Mem!Wrote(a, w)
    BY <2>1, <2>2 DEF Return, Stores
  <2> QED
    BY <1>2, <2>2, <2>3 DEF Answer, Stores, StoresWord, WritesBack
<1>8. ASSUME NEW invalidate \in BOOLEAN, FlushCache(invalidate)
      PROVE  Good(c)' /\ mem' \in [Adrs -> Words] /\ Answer
  <2>1. /\ mem' = FlushedMem(c, mem) /\ c' = FlushedCache(c, invalidate)
        /\ ret' = Mem!Flushed
    BY <1>8 DEF FlushCache
  <2> QED
    BY <1>1, <2>1, FlushWord DEF Answer, KeepsWords
<1> QED
  BY <1>3, <1>4, <1>5, <1>6, <1>7, <1>8 DEF Next

-----------------------------------------------------------------------------
(* Theorems *)

LEMMA InitIInv == Init => IInv
<1> SUFFICES ASSUME Init PROVE IInv
  OBVIOUS
<1>1. Good(c)
  BY EmptyGood DEF Init
<1>2. mem \in [Adrs -> Words]
  BY ClientAssumption DEF Init
<1>3. ret \in RetType /\ ret # Quit
  BY Answers DEF Init
<1> QED
  BY <1>1, <1>2, <1>3 DEF IInv, TypeOK, UniqueLine, NeverQuits, Good, CacheType

LEMMA StepIInv == IInv /\ [Next]_vars => IInv'
<1> SUFFICES ASSUME IInv, [Next]_vars PROVE IInv'
  OBVIOUS
<1>1. CASE Next
  <2>1. Good(c)' /\ mem' \in [Adrs -> Words] /\ Answer
    BY <1>1, StepAnswers
  <2>2. \A a \in Adrs : WordAt(c, mem, a) \in Words
    BY WordAtType DEF IInv, TypeOK, UniqueLine, Good, CacheType
  <2>3. ret' \in RetType /\ ret' # Quit
    BY <2>1, <2>2, Answers DEF Answer
  <2> QED
    BY <2>1, <2>3 DEF IInv, TypeOK, UniqueLine, NeverQuits, Good, CacheType
<1>2. CASE UNCHANGED vars
  BY <1>2 DEF IInv, TypeOK, UniqueLine, Unique, NeverQuits, vars
<1> QED
  BY <1>1, <1>2

\* The inductive invariant holds in every reachable state.
THEOREM Invariance == Spec => []IInv
BY InitIInv, StepIInv, PTL DEF Spec

\* Every line stays typed, with a tag that findCacheLine looks for: a line is
\* always written back to an address of the memory.
THEOREM TypeCorrect == Spec => []TypeOK
BY Invariance, PTL DEF IInv

\* loadCacheLine never puts a block into a second line of its set.
THEOREM LinesUnique == Spec => []UniqueLine
BY Invariance, PTL DEF IInv

\* The assertions behind err_quit never fail: a line that has just been loaded
\* is found, for every geometry in which addresses have t + s + b bits.
THEOREM LoadedIsFound == Spec => []NeverQuits
BY Invariance, PTL DEF IInv

\* Cache and memory implement a plain memory: whatever rand() evicts, a read
\* returns the last word written to its address.
THEOREM Refinement == Spec => ImplementsMemory
<1>1. Init => Mem!Init
  <2> SUFFICES ASSUME Init PROVE Mem!Init
    OBVIOUS
  <2>1. Good(c) /\ mem \in [Adrs -> Words]
    BY EmptyGood, ClientAssumption DEF Init
  <2>2. View \in [Adrs -> Words]
    BY <2>1, WordAtType DEF View
  <2> QED
    BY <2>2 DEF Init, Mem!Init
<1>2. IInv /\ [Next]_vars => [Mem!Next]_<<View, ret>>
  <2> SUFFICES ASSUME IInv, [Next]_vars PROVE [Mem!Next]_<<View, ret>>
    OBVIOUS
  <2>1. CASE Next
    <3>1. Answer
      BY <2>1, StepAnswers
    <3>2. KeepsWords => View' = View
      BY DEF KeepsWords, View
    <3>3. \A a \in Adrs : View[a] = WordAt(c, mem, a)
      BY DEF View
    <3>4. ASSUME NEW a \in Adrs, NEW w \in Words, StoresWord(a, w)
          PROVE  View' = [View EXCEPT ![a] = w]
      BY <3>4 DEF StoresWord, View
    <3> QED
      BY <3>1, <3>2, <3>3, <3>4
      DEF Answer, Mem!Next, Mem!Read, Mem!Miss, Mem!Write, Mem!Housekeeping
  <2>2. CASE UNCHANGED vars
    BY <2>2 DEF vars, View, WordAt, InCache, CachedWord, Hits, FindCacheLine
  <2> QED
    BY <2>1, <2>2
<1> QED
  BY <1>1, <1>2, Invariance, PTL DEF Spec, ImplementsMemory, Mem!Spec

\* The memory under the cache changes only by write-backs of the latest words.
THEOREM WriteBackOnly == Spec => MemoryChangesByWriteBack
<1> DEFINE A == \A a \in Adrs : mem'[a] # mem[a] =>
                 InCache(c, a) /\ mem'[a] = CachedWord(c, a)
<1>1. IInv /\ [Next]_vars => [A]_vars
  <2> SUFFICES ASSUME IInv, Next PROVE A
    OBVIOUS
  <2>1. Answer
    BY StepAnswers
  <2>2. WritesBack => A
    BY DEF WritesBack
  <2>3. mem' = [a \in Adrs |-> WordAt(c, mem, a)] => A
    BY DEF WordAt
  <2> QED
    BY <2>1, <2>2, <2>3 DEF Answer
<1> QED
  BY <1>1, Invariance, PTL DEF Spec, MemoryChangesByWriteBack

\* After flushCache the memory holds the last word written to every address.
THEOREM FlushWritesAll == Spec => FlushMakesMemoryCurrent
<1> DEFINE A == ret'.op = "flush" => \A a \in Adrs : mem'[a] = View[a]
<1>1. IInv /\ [Next]_vars => [A]_vars
  <2> SUFFICES ASSUME IInv, Next, ret'.op = "flush" PROVE \A a \in Adrs : mem'[a] = View[a]
    OBVIOUS
  <2>1. Answer
    BY StepAnswers
  <2>2. mem' = [a \in Adrs |-> WordAt(c, mem, a)]
    BY <2>1 DEF Answer, Mem!Missed, Mem!Got, Mem!Wrote
  <2> QED
    BY <2>2 DEF View
<1> QED
  BY <1>1, Invariance, PTL DEF Spec, FlushMakesMemoryCurrent
=============================================================================
