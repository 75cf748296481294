------------------------------ MODULE AllocProofs ------------------------------
(***************************************************************************)
(* Proofs about alloc.c, for a memory and requests of any size.            *)
(*                                                                         *)
(* A heap is described by the set S of its blocks' first words and by the  *)
(* word top of its epilog: Heap(m, S, top).  The proof goes up in layers:  *)
(* the walk along the headers finds S (ListIs); tags written for a block,  *)
(* a block cut in two and a heap that grows (Retag, Split, Extend); what   *)
(* Coalesce and Take do to a heap; what the calls of the client do to the  *)
(* invariant, and what they are to the abstract allocator.                 *)
(*                                                                         *)
(* Coalesce has no return statement where it merges (alloc.c, 89-114), and *)
(* ExtendHeap passes on what the register then holds.  The theorems assume *)
(* of a step that extends the heap that this is the block (ReturnsBlock):  *)
(* either the build leaves it in the register (Garbage = {"coalesced"}),   *)
(* or, in any build, the heap ends with a block in use, so that nothing is *)
(* merged.  Of every other step, Free's merges included, nothing is        *)
(* assumed.  Without it the theorems are false: the run AllocExtend.       *)
(***************************************************************************)
EXTENDS Alloc, WellFoundedInduction, TLAPS

\* A set of naturals that is not empty has a least element.
LEMMA Least ==
  ASSUME NEW T \in SUBSET Nat, T # {}
  PROVE  \E t \in T : \A u \in T : t <= u
<1>1. PICK t \in T : \A u \in T : ~ (<<u, t>> \in OpToRel(<, Nat))
  BY NatLessThanWellFounded, WFMin
<1>2. \A u \in T : u < t => <<u, t>> \in OpToRel(<, Nat)
  BY DEF OpToRel
<1>3. \A u \in T : u \in Nat /\ t \in Nat /\ ~ (u < t)
  BY <1>1, <1>2
<1>4. \A u \in T : t <= u
  BY <1>3
<1> QED BY <1>4

\* Induction, stated of a set: one that holds 0 and every successor of its members
\* holds every natural number.
LEMMA Induction ==
  ASSUME NEW T, 0 \in T, \A k \in Nat : k \in T => k + 1 \in T
  PROVE  Nat \subseteq T
<1> SUFFICES ASSUME Nat \ T # {} PROVE FALSE
  OBVIOUS
<1>1. PICK t \in Nat \ T : \A u \in Nat \ T : t <= u
  BY Least
<1>2. t # 0 /\ t - 1 \in Nat
  OBVIOUS
<1>3. t - 1 \in T
  BY <1>1, <1>2
<1> QED BY <1>2, <1>3

\* A function can be iterated.
LEMMA Iteration ==
  ASSUME NEW A, NEW F \in [A -> A], NEW a0 \in A
  PROVE  \E g \in [Nat -> A] :
           g[0] = a0 /\ \A k \in Nat : g[k + 1] = F[g[k]]
<1> DEFINE Runs(n) == {f \in [0..n -> A] :
                         f[0] = a0 /\ \A k \in 1..n : f[k] = F[f[k - 1]]}
<1>1. ASSUME NEW n \in Nat, NEW f \in Runs(n)
      PROVE  [i \in 0..n+1 |-> IF i = n + 1 THEN F[f[n]] ELSE f[i]] \in Runs(n + 1)
  <2> DEFINE h == [i \in 0..n+1 |-> IF i = n + 1 THEN F[f[n]] ELSE f[i]]
  <2>1. h \in [0..n+1 -> A] /\ h[0] = a0
    OBVIOUS
  <2>2. ASSUME NEW k \in 1..n+1 PROVE h[k] = F[h[k - 1]]
    <3>1. CASE k = n + 1
      BY <3>1
    <3>2. CASE k # n + 1
      <4>1. k \in 1..n /\ k \in 0..n+1 /\ k - 1 \in 0..n+1 /\ k - 1 # n + 1
        BY <3>2
      <4> QED BY <4>1
    <3> QED BY <3>1, <3>2
  <2> QED BY <2>1, <2>2
<1>2. ASSUME NEW n \in Nat, NEW h \in Runs(n + 1)
      PROVE  [i \in 0..n |-> h[i]] \in Runs(n)
  <2> DEFINE f == [i \in 0..n |-> h[i]]
  <2>1. f \in [0..n -> A] /\ f[0] = a0
    OBVIOUS
  <2>2. ASSUME NEW k \in 1..n PROVE f[k] = F[f[k - 1]]
    <3>1. k \in 1..n+1 /\ k \in 0..n /\ k - 1 \in 0..n
      OBVIOUS
    <3> QED BY <3>1
  <2> QED BY <2>1, <2>2
<1>3. \A n \in Nat : Runs(n) # {}
  <2> DEFINE T == {n \in Nat : Runs(n) # {}}
  <2>1. [i \in 0..0 |-> a0] \in Runs(0)
    OBVIOUS
  <2>2. 0 \in T
    BY <2>1
  <2>3. ASSUME NEW n \in Nat, n \in T PROVE n + 1 \in T
    <3>1. PICK f \in Runs(n) : TRUE
      BY <2>3
    <3>2. Runs(n + 1) # {}
      <4> HIDE DEF Runs
      <4> QED BY <1>1, <3>1
    <3> QED BY <3>2
  <2>4. Nat \subseteq T
    <3> HIDE DEF T
    <3> QED BY <2>2, <2>3, Induction
  <2> QED BY <2>4
<1>4. \A n \in Nat : \A f, h \in Runs(n) : f[n] = h[n]
  <2> DEFINE T == {n \in Nat : \A f, h \in Runs(n) : f[n] = h[n]}
  <2>1. 0 \in T
    OBVIOUS
  <2>2. ASSUME NEW n \in Nat, n \in T, NEW f \in Runs(n + 1), NEW h \in Runs(n + 1)
        PROVE  f[n + 1] = h[n + 1]
    <3>1. [i \in 0..n |-> f[i]][n] = [i \in 0..n |-> h[i]][n]
      <4> HIDE DEF Runs
      <4> QED BY <1>2, <2>2
    <3>2. n + 1 \in 1..n+1 /\ n \in 0..n /\ (n + 1) - 1 = n
      OBVIOUS
    <3>3. f[n + 1] = F[f[n]] /\ h[n + 1] = F[h[n]]
      BY <3>2
    <3> QED BY <3>1, <3>2, <3>3
  <2>3. Nat \subseteq T
    <3>1. \A n \in Nat : n \in T => n + 1 \in T
      <4> HIDE DEF Runs
      <4> QED BY <2>2
    <3> HIDE DEF T
    <3> QED BY <2>1, <3>1, Induction
  <2> QED BY <2>3
<1> DEFINE g == [n \in Nat |-> (CHOOSE f : f \in Runs(n))[n]]
<1>5. \A n \in Nat : (CHOOSE f : f \in Runs(n)) \in Runs(n)
  <2> HIDE DEF Runs
  <2> QED BY <1>3
<1>6. \A n \in Nat : \A f \in Runs(n) : g[n] = f[n]
  <2> HIDE DEF Runs
  <2> QED BY <1>4, <1>5
<1>7. \A n \in Nat : \E f \in Runs(n) : g[n] = f[n]
  <2> HIDE DEF Runs, g
  <2> QED BY <1>3, <1>6
<1>8. \A n \in Nat : \A f \in Runs(n) : f[n] \in A
  OBVIOUS
<1>9. g \in [Nat -> A]
  <2>1. \A n \in Nat : g[n] \in A
    <3> HIDE DEF Runs, g
    <3> QED BY <1>7, <1>8
  <2>2. g = [n \in Nat |-> g[n]]
    OBVIOUS
  <2> HIDE DEF g
  <2> QED BY <2>1, <2>2
<1>10. g[0] = a0
  <2>1. \A f \in Runs(0) : f[0] = a0
    OBVIOUS
  <2> HIDE DEF Runs, g
  <2> QED BY <1>7, <2>1
<1>11. ASSUME NEW k \in Nat PROVE g[k + 1] = F[g[k]]
  <2>1. PICK f \in Runs(k) : g[k] = f[k]
    <3> HIDE DEF Runs, g
    <3> QED BY <1>7
  <2> DEFINE h == [i \in 0..k+1 |-> IF i = k + 1 THEN F[f[k]] ELSE f[i]]
  <2>2. h \in Runs(k + 1)
    <3> HIDE DEF Runs
    <3> QED BY <1>1
  <2>3. g[k + 1] = h[k + 1]
    <3>1. k + 1 \in Nat
      OBVIOUS
    <3> HIDE DEF Runs, g, h
    <3> QED BY <1>6, <2>2, <3>1
  <2>4. h[k + 1] = F[f[k]]
    OBVIOUS
  <2> HIDE DEF g
  <2> QED BY <2>1, <2>3, <2>4
<1> HIDE DEF g
<1> QED BY <1>9, <1>10, <1>11

-----------------------------------------------------------------------------

\* A boundary tag that is written.
Tag == [size : 0..MemWords, inuse : BOOLEAN]

\* The words m hold the blocks S, which end with the epilog at top.
Heap(m, S, top) ==
  /\ m \in [Word -> Tag]
  /\ top \in Nat /\ top + 1 \in Word /\ m[top + 1] = EPILOG
  /\ S \subseteq 0..top /\ 0 \in S /\ top \in S
  /\ m[1] = HEADER(2, TRUE)
  /\ \A p \in S \ {top} : m[p + 1].size >= 2
  /\ \A p \in S \ {top} : p + m[p + 1].size \in S
  /\ \A p \in S \ {top} : m[p + m[p + 1].size] = m[p + 1]
  /\ \A p, q \in S : p < q => p + m[p + 1].size <= q
  /\ \A q \in S \ {0} : \E p \in S \ {top} : p + m[p + 1].size = q

\* What every header of a heap is.
LEMMA Headers ==
  ASSUME NEW m, NEW S, NEW top, Heap(m, S, top), NEW p \in S
  PROVE  /\ p \in 0..top /\ p \in Word /\ p + 1 \in Word /\ m[p + 1] \in Tag
         /\ m[p + 1].size \in 0..MemWords
         /\ m[p + 1] = EPILOG <=> p = top
<1>1. p \in 0..top /\ p \in Word /\ p + 1 \in Word
  BY AllocAssumption DEF Heap, Word
<1>2. m[p + 1] \in Tag
  BY <1>1 DEF Heap
<1>3. m[p + 1].size \in 0..MemWords
  BY <1>2 DEF Tag
<1>4. p # top => m[p + 1] # EPILOG
  BY DEF Heap, EPILOG, HEADER
<1> QED BY <1>1, <1>2, <1>3, <1>4 DEF Heap

\* One step down the list.
Down(m, X) == {NextBlock(m, p) : p \in {q \in X : Header(m, q) # EPILOG}}

\* The recursive definition of List has a solution.
LEMMA ListRunExists ==
  ASSUME NEW m, NEW g,
         g = [k \in Nat |-> IF k = 0 THEN {0} ELSE Down(m, g[k - 1])]
  PROVE  \E at : /\ at = [k \in Nat |-> IF k = 0 THEN {0} ELSE Down(m, at[k - 1])]
                 /\ List(m) = UNION {at[k] : k \in 0..MaxBlocks}
BY DEF List, Down, blockHead

\* Walking from word 0 by the sizes in the headers finds the blocks and no other word.
LEMMA ListIs ==
  ASSUME NEW m, NEW S, NEW top, Heap(m, S, top)
  PROVE  List(m) = S
<1> DEFINE F == [X \in SUBSET S |-> Down(m, X)]
<1>1. \A X \in SUBSET S : Down(m, X) \in SUBSET S
  BY Headers DEF Down, Heap, NextBlock, Header
<1>2. F \in [SUBSET S -> SUBSET S] /\ {0} \in SUBSET S
  BY <1>1 DEF Heap
<1>3. PICK g \in [Nat -> SUBSET S] :
             g[0] = {0} /\ \A k \in Nat : g[k + 1] = F[g[k]]
  <2> DEFINE A == SUBSET S
  <2> DEFINE a0 == {0}
  <2>1. F \in [A -> A] /\ a0 \in A
    BY <1>2
  <2>2. \E g \in [Nat -> A] : g[0] = a0 /\ \A k \in Nat : g[k + 1] = F[g[k]]
    <3> HIDE DEF F, A, a0
    <3> QED BY <2>1, Iteration, SMTT(30)
  <2> HIDE DEF F
  <2> QED BY <2>2
<1>4. \A k \in Nat : g[k + 1] = Down(m, g[k])
  BY <1>3
<1>5. g = [k \in Nat |-> IF k = 0 THEN {0} ELSE Down(m, g[k - 1])]
  <2>1. \A k \in Nat \ {0} : k - 1 \in Nat /\ g[k] = Down(m, g[k - 1])
    <3>1. \A k \in Nat \ {0} : k - 1 \in Nat /\ (k - 1) + 1 = k
      OBVIOUS
    <3> QED BY <1>4, <3>1
  <2> HIDE DEF F
  <2> QED BY <1>3, <2>1
<1>6. PICK at : /\ at = [k \in Nat |-> IF k = 0 THEN {0} ELSE Down(m, at[k - 1])]
                /\ List(m) = UNION {at[k] : k \in 0..MaxBlocks}
  BY <1>5, ListRunExists
<1>7. at[0] = {0} /\ \A k \in Nat : at[k + 1] = Down(m, at[k])
  <2>1. \A k \in Nat : k + 1 \in Nat /\ k + 1 # 0 /\ (k + 1) - 1 = k
    OBVIOUS
  <2>2. \A k \in Nat : at[k] = IF k = 0 THEN {0} ELSE Down(m, at[k - 1])
    BY <1>6
  <2> QED BY <2>1, <2>2
<1>8. \A k \in Nat : at[k] \in SUBSET S
  <2> DEFINE T == {k \in Nat : at[k] \in SUBSET S}
  <2>1. 0 \in T
    BY <1>7, <1>2
  <2>2. \A k \in Nat : k \in T => k + 1 \in T
    BY <1>7, <1>1
  <2>3. Nat \subseteq T
    <3> HIDE DEF T
    <3> QED BY <2>1, <2>2, Induction
  <2> QED BY <2>3
<1>9. \A p \in S : \E k \in 0..MaxBlocks : p \in at[k]
  <2> DEFINE Reached(p) == \E k \in 0..MaxBlocks : 2 * k <= p /\ p \in at[k]
  <2> DEFINE T == {p \in S : ~ Reached(p)}
  <2> SUFFICES ASSUME T # {} PROVE FALSE
    OBVIOUS
  <2>1. T \in SUBSET Nat
    <3>1. S \subseteq Nat
      BY DEF Heap
    <3> HIDE DEF Reached
    <3> QED BY <3>1
  <2>2. PICK t \in T : \A u \in T : t <= u
    <3> HIDE DEF T
    <3> QED BY <2>1, Least
  <2>0. MaxBlocks \in Nat /\ \A k \in Nat : 2 * k < MemWords => k <= MaxBlocks
    BY AllocAssumption DEF MaxBlocks
  <2>3. t # 0
    <3>1. Reached(0)
      BY <1>7, <2>0
    <3> QED BY <3>1
  <2>4. PICK p \in S \ {top} : p + m[p + 1].size = t
    BY <2>3 DEF Heap
  <2>5. p + 2 <= t /\ p \in Nat /\ t \in Nat /\ t < MemWords
    <3>1. t \in S /\ t \in Word /\ p \in Word /\ m[p + 1].size \in 0..MemWords
      BY <2>2, <2>4, Headers
    <3>2. m[p + 1].size >= 2
      BY <2>4 DEF Heap
    <3> HIDE DEF T
    <3> QED BY <3>1, <3>2, <2>4, AllocAssumption DEF Word
  <2>6. Reached(p)
    BY <2>2, <2>4, <2>5
  <2>7. PICK k \in 0..MaxBlocks : 2 * k <= p /\ p \in at[k]
    BY <2>6
  <2>8. k + 1 \in 0..MaxBlocks /\ 2 * (k + 1) <= t
    <3>1. 2 * (k + 1) <= t /\ 2 * (k + 1) < MemWords /\ k + 1 \in Nat
      BY <2>7, <2>5, <2>0, AllocAssumption
    <3> HIDE DEF T, Reached
    <3> QED BY <3>1, <2>0
  <2>9. t \in at[k + 1]
    <3>1. m[p + 1] # EPILOG
      BY <2>4, Headers
    <3> QED BY <1>7, <2>4, <2>7, <3>1 DEF Down, NextBlock, Header
  <2> QED BY <2>8, <2>9
<1>10. MaxBlocks \in Nat
  BY AllocAssumption DEF MaxBlocks
<1> QED BY <1>6, <1>8, <1>9, <1>10

\* Blocks leaves the epilog out.
LEMMA BlocksAre ==
  ASSUME NEW m, NEW S, NEW top, Heap(m, S, top)
  PROVE  Blocks(m) = S \ {top}
BY ListIs, Headers DEF Blocks, Header

-----------------------------------------------------------------------------

\* What the proofs use of a block.
LEMMA Block ==
  ASSUME NEW m, NEW S, NEW top, Heap(m, S, top), NEW p \in S \ {top}
  PROVE  /\ p \in Nat /\ m[p + 1].size \in Nat
         /\ m[p + 1].size >= 2
         /\ p + m[p + 1].size \in S
         /\ m[p + m[p + 1].size] = m[p + 1]
         /\ \A q \in S : q \in Nat /\ (p < q => p + m[p + 1].size <= q)
<1>1. m[p + 1].size \in 0..MemWords
  BY Headers
<1>2. p \in Nat /\ \A q \in S : q \in Nat
  BY DEF Heap
<1> QED BY <1>1, <1>2, AllocAssumption DEF Heap

\* The words once the tags of a block from a to b are written; a block cut at c;
\* and a heap that ended at top, grown by incr words.
Tagged(m, a, b, t) == [m EXCEPT ![a + 1] = t, ![b] = t]

\* A block from a to b cut at c, with the tags t and r.
Cut(m, a, c, b, t, r) ==
  [m EXCEPT ![a + 1] = t, ![c] = t, ![c + 1] = r, ![b] = r]

\* The heap grown by one free block of incr words.
Grown(m, top, incr) ==
  [m EXCEPT ![top + 1] = HEADER(incr, FALSE), ![top + incr] = HEADER(incr, FALSE),
            ![top + incr + 1] = EPILOG]

\* The blocks once those between a and b are merged into one.
Without(S, a, b) == {x \in S : ~ (a < x /\ x < b)}

\* The blocks S have the same headers in m and n; only the words W differ.
SameHeaders(m, n, S) == \A x \in S : n[x + 1] = m[x + 1]
\* m and n agree outside of W.
SameBut(m, n, W) == \A x \in Word \ W : n[x] = m[x]

\* One block takes the place of those from a to b.
Retags(m, S, top, a, b, t) ==
  /\ Heap(m, S, top)
  /\ a \in S /\ b \in S /\ 0 < a /\ a < b
  /\ t \in Tag /\ t.size = b - a

\* The heap is then a heap of the other blocks and that one.
LEMMA Retag ==
  ASSUME NEW m, NEW S, NEW top, NEW a, NEW b, NEW t, Retags(m, S, top, a, b, t)
  PROVE  /\ Heap(Tagged(m, a, b, t), Without(S, a, b), top)
         /\ Tagged(m, a, b, t)[a + 1] = t
         /\ SameHeaders(m, Tagged(m, a, b, t), Without(S, a, b) \ {a})
         /\ SameBut(m, Tagged(m, a, b, t), {a + 1, b})
<1> USE DEF Without
<1> DEFINE s == Without(S, a, b)
<1> DEFINE n == Tagged(m, a, b, t)
<1>a. Heap(m, S, top) /\ a \in S /\ b \in S /\ 0 < a /\ a < b /\ t \in Tag /\ t.size = b - a
  BY DEF Retags
<1>b. s = {x \in S : ~ (a < x /\ x < b)}
  OBVIOUS
<1>c. n = [m EXCEPT ![a + 1] = t, ![b] = t]
  BY DEF Tagged
<1> HIDE DEF s, n
<1> USE <1>a, <1>b
<1>0. a \in Nat /\ b \in Nat /\ top \in Nat /\ a <= top /\ b <= top /\ a \in S \ {top}
  BY DEF Heap
<1>1. a + 2 <= b /\ b - a \in Nat /\ b - a >= 2
  BY <1>0, Block
<1>2. a + 1 \in Word /\ b \in Word /\ m \in [Word -> Tag]
  BY Headers DEF Heap
<1>3. t \in Tag /\ t.size = b - a
  OBVIOUS
<1>4. /\ n \in [Word -> Tag] /\ n[a + 1] = t /\ n[b] = t
      /\ \A x \in Word \ {a + 1, b} : n[x] = m[x]
  <2>2. a + 1 # b
    BY <1>1, <1>0
  <2> QED BY <1>c, <2>2, <1>2, <1>3
<1>5. \A x \in S : x \in Word /\ x + 1 \in Word
  BY Headers
<1>6. ASSUME NEW x \in s \ {a} PROVE n[x + 1] = m[x + 1]
  <2>1. x + 1 # a + 1 /\ x \in Nat
    BY <1>0 DEF Heap
  <2>2. x + 1 # b
    <3>1. CASE x = top
      BY <3>1, <1>0
    <3>2. CASE x # top
      BY <3>2, Block, <1>0, <1>1
    <3> QED BY <3>1, <3>2
  <2> QED BY <2>1, <2>2, <1>4, <1>5
<1>7. s \subseteq 0..top /\ 0 \in s /\ top \in s /\ a \in s /\ b \in s
  <2>1. S \subseteq 0..top /\ 0 \in S /\ top \in S
    BY DEF Heap
  <2>2. ~ (a < 0 /\ 0 < b) /\ ~ (a < top /\ top < b) /\ ~ (a < a /\ a < b) /\ ~ (a < b /\ b < b)
    BY <1>0
  <2>3. s \subseteq S
    OBVIOUS
  <2>4. 0 \in s /\ top \in s /\ a \in s /\ b \in s
    BY <2>1, <2>2
  <2> QED BY <2>1, <2>3, <2>4
<1>8. n[top + 1] = EPILOG /\ n[1] = HEADER(2, TRUE)
  <2>1. n[top + 1] = m[top + 1] /\ n[0 + 1] = m[0 + 1]
    BY <1>6, <1>7, <1>0
  <2>2. 0 + 1 = 1
    OBVIOUS
  <2> QED BY <2>1, <2>2 DEF Heap
<1>9. ASSUME NEW x \in s \ {top}
      PROVE  /\ n[x + 1].size >= 2
             /\ x + n[x + 1].size \in s
             /\ n[x + n[x + 1].size] = n[x + 1]
             /\ \A q \in s : x < q => x + n[x + 1].size <= q
  <2>1. CASE x = a
    <3>1. a + (b - a) = b
      BY <1>0
    <3>2. \A q \in s : a < q => b <= q
      BY <1>0 DEF Heap
    <3> QED BY <2>1, <3>1, <3>2, <1>3, <1>4, <1>1, <1>7
  <2>2. CASE x # a
    <3>1. n[x + 1] = m[x + 1]
      BY <1>6, <2>2
    <3> DEFINE y == x + m[x + 1].size
    <3>2. /\ y \in S /\ m[y] = m[x + 1] /\ x \in Nat /\ m[x + 1].size \in Nat
          /\ m[x + 1].size >= 2
          /\ \A q \in S : x < q => y <= q
      BY Block
    <3>3. y \in Nat /\ x + 2 <= y
      BY <3>2
    <3> HIDE DEF y
    <3>4. y <= a \/ b < y
      BY <3>2, <3>3, <2>2, <1>0
    <3>5. y \in s /\ y # b
      BY <3>2, <3>3, <3>4, <1>0
    <3>6. y # a + 1
      BY <3>4, <1>0, <1>1, <3>3
    <3>7. n[y] = m[y]
      BY <3>5, <3>6, <1>4, <1>5
    <3> QED BY <3>1, <3>2, <3>5, <3>7 DEF y
  <2> QED BY <2>1, <2>2
<1>10. ASSUME NEW q \in s \ {0} PROVE \E p \in s \ {top} : p + n[p + 1].size = q
  <2>1. CASE q = b
    <3>1. a + (b - a) = b
      BY <1>0
    <3> QED BY <2>1, <3>1, <1>3, <1>4, <1>0, <1>7
  <2>2. CASE q # b
    <3>1. PICK p \in S \ {top} : p + m[p + 1].size = q
      BY DEF Heap
    <3>2. /\ p \in Nat /\ m[p + 1].size \in Nat /\ m[p + 1].size >= 2 /\ q \in Nat
          /\ (p < b => q <= b)
      BY <3>1, Block
    <3>3. ~ (a <= p /\ p < b)
      BY <3>1, <3>2, <2>2, <1>0
    <3>4. p \in s \ {a, top}
      BY <3>3, <3>2, <1>0
    <3> QED BY <3>1, <3>4, <1>6
  <2> QED BY <2>1, <2>2
<1>11. Heap(n, s, top)
  BY <1>0, <1>4, <1>6, <1>7, <1>8, <1>9, <1>10 DEF Heap
<1> QED BY <1>4, <1>6, <1>11 DEF SameHeaders, SameBut, s, n

\* A block is cut in two, each with room for its tags.
Cuts(m, S, top, a, c, b, t, r) ==
  /\ Heap(m, S, top)
  /\ a \in S \ {top} /\ 0 < a /\ b = a + m[a + 1].size
  /\ c \in Nat /\ a + 2 <= c /\ c + 2 <= b
  /\ t \in Tag /\ t.size = c - a /\ r \in Tag /\ r.size = b - c

\* The heap then has one block more.
LEMMA Split ==
  ASSUME NEW m, NEW S, NEW top, NEW a, NEW c, NEW b, NEW t, NEW r,
         Cuts(m, S, top, a, c, b, t, r)
  PROVE  /\ Heap(Cut(m, a, c, b, t, r), S \cup {c}, top)
         /\ Cut(m, a, c, b, t, r)[a + 1] = t /\ Cut(m, a, c, b, t, r)[c + 1] = r
         /\ SameHeaders(m, Cut(m, a, c, b, t, r), S \ {a})
         /\ SameBut(m, Cut(m, a, c, b, t, r), {a + 1, c, c + 1, b})
<1> DEFINE n == Cut(m, a, c, b, t, r)
<1>a. /\ Heap(m, S, top)
      /\ a \in S \ {top} /\ 0 < a /\ b = a + m[a + 1].size
      /\ c \in Nat /\ a + 2 <= c /\ c + 2 <= b
      /\ t \in Tag /\ t.size = c - a /\ r \in Tag /\ r.size = b - c
  BY DEF Cuts
<1>b. n = [m EXCEPT ![a + 1] = t, ![c] = t, ![c + 1] = r, ![b] = r]
  BY DEF Cut
<1> HIDE DEF n
<1> USE <1>a
<1>0. /\ a \in Nat /\ b \in Nat /\ top \in Nat /\ a <= top /\ b <= top /\ b \in S
      /\ c - a \in Nat /\ c - a >= 2 /\ b - c \in Nat /\ b - c >= 2
      /\ \A q \in S : q \in Nat /\ (a < q => b <= q)
  <2>1. a \in Nat /\ b \in Nat /\ b \in S /\ \A q \in S : q \in Nat /\ (a < q => b <= q)
    BY Block
  <2>2. top \in Nat /\ S \subseteq 0..top
    BY DEF Heap
  <2> QED BY <2>1, <2>2
<1>1. a + 1 \in Word /\ b \in Word /\ c \in Word /\ c + 1 \in Word /\ m \in [Word -> Tag]
  <2>1. a + 1 \in Word /\ b \in Word
    BY Headers, <1>0
  <2>2. c \in Word /\ c + 1 \in Word
    BY <2>1, <1>0, AllocAssumption DEF Word
  <2> QED BY <2>1, <2>2 DEF Heap
<1>2. t \in Tag /\ t.size = c - a /\ r \in Tag /\ r.size = b - c
  OBVIOUS
<1>3. /\ n \in [Word -> Tag] /\ n[a + 1] = t /\ n[c] = t /\ n[c + 1] = r /\ n[b] = r
      /\ \A x \in Word \ {a + 1, c, c + 1, b} : n[x] = m[x]
  <2>2. a + 1 # c /\ a + 1 # c + 1 /\ a + 1 # b /\ c # c + 1 /\ c # b /\ c + 1 # b
    BY <1>0
  <2> QED BY <1>b, <2>2, <1>1, <1>2
<1>4. c \notin S
  BY <1>0
<1>5. ASSUME NEW x \in S \ {a} PROVE n[x + 1] = m[x + 1]
  <2>1. x \in Nat /\ x + 1 \in Word /\ x # c
    BY <1>4, Headers, <1>0
  <2>2. x + 1 # a + 1 /\ x + 1 # c + 1
    BY <2>1, <1>0
  <2>3. x + 1 # b
    <3>1. CASE x = top
      BY <3>1, <1>0
    <3>2. CASE x # top
      BY <3>2, Block, <1>0
    <3> QED BY <3>1, <3>2
  <2>4. x + 1 # c
    BY <1>0, <2>1
  <2> QED BY <2>1, <2>2, <2>3, <2>4, <1>3
<1>6. S \cup {c} \subseteq 0..top /\ 0 \in S \cup {c} /\ top \in S \cup {c} /\ c # top
  <2>1. S \subseteq 0..top /\ 0 \in S /\ top \in S
    BY DEF Heap
  <2>2. c \in 0..top
    BY <1>0
  <2> QED BY <2>1, <2>2, <1>4
<1>7. n[top + 1] = EPILOG /\ n[1] = HEADER(2, TRUE)
  <2>0. 0 \in S \ {a} /\ top \in S \ {a}
    BY <1>0 DEF Heap
  <2>1. n[top + 1] = m[top + 1] /\ n[0 + 1] = m[0 + 1]
    BY <1>5, <2>0
  <2>2. 0 + 1 = 1
    OBVIOUS
  <2> QED BY <2>1, <2>2 DEF Heap
<1>8. ASSUME NEW x \in (S \cup {c}) \ {top}
      PROVE  /\ n[x + 1].size >= 2
             /\ x + n[x + 1].size \in S \cup {c}
             /\ n[x + n[x + 1].size] = n[x + 1]
             /\ \A q \in S \cup {c} : x < q => x + n[x + 1].size <= q
  <2>1. CASE x = a
    <3>1. a + (c - a) = c
      BY <1>0
    <3>2. \A q \in S \cup {c} : a < q => c <= q
      BY <1>0
    <3> QED BY <2>1, <3>1, <3>2, <1>0, <1>2, <1>3
  <2>2. CASE x = c
    <3>1. c + (b - c) = b
      BY <1>0
    <3>2. \A q \in S \cup {c} : c < q => b <= q
      BY <1>0
    <3> QED BY <2>2, <3>1, <3>2, <1>0, <1>2, <1>3
  <2>3. CASE x \notin {a, c}
    <3>1. n[x + 1] = m[x + 1]
      BY <1>5, <2>3
    <3> DEFINE y == x + m[x + 1].size
    <3>2. /\ y \in S /\ m[y] = m[x + 1] /\ x \in Nat /\ m[x + 1].size \in Nat
          /\ m[x + 1].size >= 2
          /\ \A q \in S : x < q => y <= q
      BY Block, <2>3
    <3>3. y \in Nat /\ x + 2 <= y /\ x \in S
      BY <3>2, <2>3
    <3> HIDE DEF y
    <3>4. y <= a \/ b < y
      <4>1. x < a \/ b <= x
        BY <1>0, <2>3, <3>3, <3>2
      <4> QED BY <4>1, <3>2, <3>3, <1>0
    <3>5. y # b /\ y # a + 1 /\ y # c /\ y # c + 1
      BY <3>3, <3>4, <1>0
    <3>6. n[y] = m[y]
      BY <3>5, <1>3, Headers, <3>2
    <3>7. \A q \in S \cup {c} : x < q => y <= q
      <4>1. x < c => y <= c
        BY <3>2, <3>3, <3>4, <1>0
      <4> QED BY <3>2, <4>1
    <3> QED BY <3>1, <3>2, <3>6, <3>7 DEF y
  <2> QED BY <2>1, <2>2, <2>3
<1>9. ASSUME NEW q \in (S \cup {c}) \ {0}
      PROVE  \E p \in (S \cup {c}) \ {top} : p + n[p + 1].size = q
  <2>1. CASE q = c
    <3>1. a + (c - a) = c
      BY <1>0
    <3> QED BY <2>1, <3>1, <1>2, <1>3
  <2>2. CASE q = b
    <3>1. c + (b - c) = b
      BY <1>0
    <3> QED BY <2>2, <3>1, <1>2, <1>3, <1>6
  <2>3. CASE q \notin {b, c}
    <3>1. PICK p \in S \ {top} : p + m[p + 1].size = q
      BY <2>3 DEF Heap
    <3>2. p # a
      BY <3>1, <2>3
    <3> QED BY <3>1, <3>2, <1>5
  <2> QED BY <2>1, <2>2, <2>3
<1>10. \A p, q \in S \cup {c} : p < q => p + n[p + 1].size <= q
  <2> SUFFICES ASSUME NEW p \in S \cup {c}, NEW q \in S \cup {c}, p < q
               PROVE  p + n[p + 1].size <= q
    OBVIOUS
  <2>1. p # top
    BY <1>6, <1>0
  <2> QED BY <1>8, <2>1
<1>11. top + 1 \in Word
  BY DEF Heap
<1>12. Heap(n, S \cup {c}, top)
  BY <1>0, <1>3, <1>5, <1>6, <1>7, <1>8, <1>9, <1>10, <1>11 DEF Heap
<1> QED BY <1>3, <1>5, <1>12 DEF SameHeaders, SameBut, n

\* Writing three different words.
LEMMA ThreeWords ==
  ASSUME NEW m \in [Word -> Tag], NEW a \in Word, NEW b \in Word, NEW c \in Word,
         a # b, a # c, b # c, NEW t \in Tag, NEW r \in Tag, NEW n,
         n = [m EXCEPT ![a] = t, ![b] = t, ![c] = r]
  PROVE  /\ n \in [Word -> Tag] /\ n[a] = t /\ n[b] = t /\ n[c] = r
         /\ \A x \in Word \ {a, b, c} : n[x] = m[x]
OBVIOUS

\* The heap grows into words that it has not used.
Grows(m, S, top, incr) ==
  Heap(m, S, top) /\ incr \in Nat /\ 2 <= incr /\ top + incr + 1 \in Word

\* It has then a free block at its end.
LEMMA Extend ==
  ASSUME NEW m, NEW S, NEW top, NEW incr, Grows(m, S, top, incr)
  PROVE  /\ Heap(Grown(m, top, incr), S \cup {top + incr}, top + incr)
         /\ 0 < top
         /\ Grown(m, top, incr)[top + 1] = HEADER(incr, FALSE)
         /\ SameHeaders(m, Grown(m, top, incr), S \ {top})
         /\ SameBut(m, Grown(m, top, incr), {top + 1, top + incr, top + incr + 1})
<1> DEFINE t == HEADER(incr, FALSE)
<1> DEFINE c == top + incr
<1> DEFINE n == Grown(m, top, incr)
<1>a. Heap(m, S, top) /\ incr \in Nat /\ 2 <= incr /\ top + incr + 1 \in Word
  BY DEF Grows
<1>0. /\ top \in Nat /\ c \in Nat /\ top + 2 <= c /\ S \subseteq 0..top /\ 0 < top
      /\ top \in S /\ 0 \in S
  <2>1. top \in Nat /\ S \subseteq 0..top /\ top \in S /\ 0 \in S
    BY <1>a DEF Heap
  <2>2. m[top + 1].size = 0 /\ m[1].size = 2
    BY <1>a DEF Heap, EPILOG, HEADER
  <2>3. top # 0
    BY <2>2
  <2> QED BY <2>1, <2>3, <1>a
<1>1. top + 1 \in Word /\ c \in Word /\ c + 1 \in Word /\ m \in [Word -> Tag]
  <2>1. c \in Word /\ top + 1 \in Word
    BY <1>0, <1>a, AllocAssumption DEF Word
  <2> QED BY <2>1, <1>a DEF Heap
<1>2. t \in Tag /\ t.size = incr /\ EPILOG \in Tag /\ EPILOG.size = 0
  <2>1. incr \in 0..MemWords /\ 0 \in 0..MemWords
    BY <1>0, <1>a, <1>1, AllocAssumption DEF Word
  <2> QED BY <2>1 DEF Tag, HEADER, EPILOG
<1>3. /\ n \in [Word -> Tag] /\ n[top + 1] = t /\ n[c] = t /\ n[c + 1] = EPILOG
      /\ \A x \in Word \ {top + 1, c, c + 1} : n[x] = m[x]
  <2>1. n = [m EXCEPT ![top + 1] = t, ![c] = t, ![c + 1] = EPILOG]
    BY DEF Grown
  <2> HIDE DEF t, c
  <2>2. top + 1 # c /\ top + 1 # c + 1 /\ c # c + 1
    BY <1>0
  <2>3. t \in Tag /\ EPILOG \in Tag
    BY <1>2
  <2>4. top + 1 \in Word /\ c \in Word /\ c + 1 \in Word /\ m \in [Word -> Tag]
    BY <1>1
  <2> HIDE DEF Word
  <2> QED BY ONLY <2>1, <2>2, <2>3, <2>4, ThreeWords
<1> HIDE DEF t, n
<1>4. \A x \in S : x \in Nat /\ x <= top /\ x < c /\ x + 1 \in Word /\ x \in Word
  <2>1. \A x \in S : x \in Nat /\ x <= top /\ x < c
    BY <1>0
  <2> QED BY <2>1, Headers, <1>a
<1> HIDE DEF c
<1>5. ASSUME NEW x \in S \ {top} PROVE n[x + 1] = m[x + 1]
  <2>1. x + 1 # top + 1 /\ x + 1 # c /\ x + 1 # c + 1
    BY <1>4, <1>0
  <2> QED BY <2>1, <1>3, <1>4
<1>6. S \cup {c} \subseteq 0..c
  BY <1>4, <1>0
<1>7. n[1] = HEADER(2, TRUE)
  <2>0. 0 \in S \ {top}
    BY <1>0
  <2>1. n[0 + 1] = m[0 + 1]
    BY <1>5, <2>0
  <2>2. 0 + 1 = 1
    OBVIOUS
  <2> QED BY <2>1, <2>2, <1>a DEF Heap
<1>8. ASSUME NEW x \in S
      PROVE  /\ n[x + 1].size >= 2
             /\ x + n[x + 1].size \in S \cup {c}
             /\ n[x + n[x + 1].size] = n[x + 1]
             /\ \A q \in S \cup {c} : x < q => x + n[x + 1].size <= q
  <2>1. CASE x = top
    <3>1. \A q \in S \cup {c} : top < q => c <= q
      BY <1>4, <1>0
    <3> QED BY <2>1, <3>1, <1>2, <1>3, <1>0, <1>a DEF c
  <2>2. CASE x # top
    <3>1. n[x + 1] = m[x + 1]
      BY <1>5, <2>2
    <3> DEFINE y == x + m[x + 1].size
    <3>2. /\ y \in S /\ m[y] = m[x + 1] /\ x \in Nat /\ m[x + 1].size \in Nat
          /\ m[x + 1].size >= 2
          /\ \A q \in S : x < q => y <= q
      BY Block, <2>2, <1>a
    <3> HIDE DEF y
    <3>3. y # top + 1 /\ y # c /\ y # c + 1
      BY <3>2, <1>4, <1>0
    <3>4. n[y] = m[y]
      BY <3>2, <3>3, <1>3, <1>4
    <3>5. \A q \in S \cup {c} : x < q => y <= q
      BY <3>2, <1>4
    <3> QED BY <3>1, <3>2, <3>4, <3>5 DEF y
  <2> QED BY <2>1, <2>2
<1>9. ASSUME NEW q \in (S \cup {c}) \ {0}
      PROVE  \E p \in S : p + n[p + 1].size = q
  <2>1. CASE q = c
    BY <2>1, <1>0, <1>2, <1>3 DEF c
  <2>2. CASE q # c
    <3>1. PICK p \in S \ {top} : p + m[p + 1].size = q
      BY <2>2, <1>a DEF Heap
    <3> QED BY <3>1, <1>5
  <2> QED BY <2>1, <2>2
<1>10. \A p, q \in S \cup {c} : p < q => p + n[p + 1].size <= q
  <2> SUFFICES ASSUME NEW p \in S \cup {c}, NEW q \in S \cup {c}, p < q
               PROVE  p + n[p + 1].size <= q
    OBVIOUS
  <2>1. p # c
    BY <1>4, <1>0
  <2> QED BY <1>8, <2>1
<1>11. (S \cup {c}) \ {c} = S
  BY <1>4, <1>0
<1>12. Heap(n, S \cup {c}, c)
  BY <1>0, <1>1, <1>3, <1>6, <1>7, <1>8, <1>9, <1>10, <1>11 DEF Heap
<1>13. SameHeaders(m, n, S \ {top}) /\ SameBut(m, n, {top + 1, c, c + 1})
  BY <1>3, <1>5 DEF SameHeaders, SameBut
<1> QED BY <1>0, <1>3, <1>12, <1>13 DEF c, t, n

-----------------------------------------------------------------------------

\* No two free blocks follow each other, but for pairs with curr.
Merged(m, S, top) ==
  \A p \in S \ {top} : ~ m[p + 1].inuse => m[p + m[p + 1].size + 1].inuse

\* No free block other than curr is followed by a free one other than curr.
MergedBut(m, S, top, curr) ==
  \A p \in S \ {top, curr} :
    /\ p + m[p + 1].size # curr
    /\ ~ m[p + 1].inuse
    => m[p + m[p + 1].size + 1].inuse

\* The block curr and its free neighbours are what lies between first and last.
Surrounds(m, S, top, curr, first, last) ==
  /\ first \in S /\ last \in S /\ 0 < first /\ first <= curr /\ curr < last
  /\ \A x \in S : first <= x /\ x < last => ~ m[x + 1].inuse
  /\ m[last + 1].inuse
  /\ \A p \in S \ {top} : p + m[p + 1].size = first => m[p + 1].inuse

\* The caller of Coalesce gets the free block: the register happens to hold it, or
\* nothing is merged and the return statement is reached.
Returned(m, curr) ==
  Garbage = {"coalesced"} \/ (m[curr].inuse /\ m[curr + m[curr + 1].size + 1].inuse)

\* What Coalesce returns and writes.
CoalesceMerges(m, S, top, curr) ==
  \E first, last \in S :
    /\ Surrounds(m, S, top, curr, first, last)
    /\ Returned(m, curr) => Coalesce(m, curr).ret = {first}
    /\ \/ /\ Coalesce(m, curr).m = m
          /\ first = curr /\ last = curr + m[curr + 1].size
       \/ Coalesce(m, curr).m = Tagged(m, first, last, HEADER(last - first, FALSE))

\* The four cases of Coalesce (alloc.c, 89-114): the neighbours on both sides, on one
\* side or on none are free.
LEMMA CoalesceCases ==
  ASSUME NEW m, NEW S, NEW top, Heap(m, S, top),
         NEW curr \in S \ {0, top}, ~ m[curr + 1].inuse,
         MergedBut(m, S, top, curr)
  PROVE  CoalesceMerges(m, S, top, curr)
<1>1. PICK prev \in S \ {top} : prev + m[prev + 1].size = curr
  BY DEF Heap
<1>2. /\ prev \in Nat /\ curr \in Nat /\ m[prev + 1].size \in Nat
      /\ prev < curr /\ m[curr] = m[prev + 1]
  BY <1>1, Block
<1>3. PrevBlock(m, curr) = prev
  BY <1>1, <1>2 DEF PrevBlock
<1> DEFINE next == curr + m[curr + 1].size
<1>4. next \in S /\ next \in Nat /\ curr < next /\ m[curr + 1].size \in Nat
      /\ \A q \in S : q \in Nat /\ (curr < q => next <= q)
  BY Block, <1>2
<1>5. m[next + 1].inuse \/ next # top
  BY DEF Heap, EPILOG, HEADER
<1>6. m[prev + 1].inuse \/ prev # 0
  BY DEF Heap, HEADER
<1>7. \A q \in S : q \in Nat /\ (prev < q => curr <= q)
  BY <1>1, Block
<1>8. \A p \in S \ {top} : p + m[p + 1].size = curr => p = prev
  <2> SUFFICES ASSUME NEW p \in S \ {top}, p + m[p + 1].size = curr PROVE p = prev
    OBVIOUS
  <2>1. p \in Nat /\ p < curr /\ (p < prev => curr <= prev)
    BY Block, <1>2
  <2> QED BY <2>1, <1>2, <1>7
<1> DEFINE first == IF m[prev + 1].inuse THEN curr ELSE prev
<1> DEFINE last == IF m[next + 1].inuse THEN next ELSE next + m[next + 1].size
<1>9. /\ first \in S /\ 0 < first /\ first <= curr
      /\ \A p \in S \ {top} : p + m[p + 1].size = first => m[p + 1].inuse
      /\ \A x \in S : first <= x /\ x < curr => ~ m[x + 1].inuse
  <2>1. CASE m[prev + 1].inuse
    BY <2>1, <1>8, <1>2, <1>7
  <2>2. CASE ~ m[prev + 1].inuse
    <3>1. first = prev /\ 0 < prev
      BY <2>2, <1>6, <1>2
    <3>2. ASSUME NEW p \in S \ {top}, p + m[p + 1].size = prev, ~ m[p + 1].inuse
          PROVE  FALSE
      <4>1. p \in Nat /\ p < prev
        BY Block, <1>2, <3>2
      <4>2. p # curr /\ p + m[p + 1].size # curr
        BY <4>1, <1>2, <3>2
      <4>3. m[p + m[p + 1].size + 1].inuse
        BY <4>2, <3>2 DEF MergedBut
      <4> QED BY <4>3, <3>2, <2>2
    <3>3. \A x \in S : prev <= x /\ x < curr => x = prev
      BY <1>7, <1>2
    <3> QED BY <3>1, <3>2, <3>3, <1>2, <2>2
  <2> QED BY <2>1, <2>2
<1>10. /\ last \in S /\ curr < last /\ m[last + 1].inuse
       /\ \A x \in S : curr <= x /\ x < last => ~ m[x + 1].inuse
       /\ last \in Nat
  <2>0. \A x \in S : curr <= x /\ x < next => x = curr
    BY <1>4, <1>2
  <2>1. CASE m[next + 1].inuse
    BY <2>1, <2>0, <1>4
  <2>2. CASE ~ m[next + 1].inuse
    <3>1. next \in S \ {top}
      BY <2>2, <1>5, <1>4
    <3>2. last = next + m[next + 1].size
      BY <2>2
    <3>3. last \in S /\ last \in Nat /\ next < last
          /\ \A q \in S : q \in Nat /\ (next < q => last <= q)
      BY <3>1, <3>2, Block
    <3>4. m[last + 1].inuse
      <4>1. next # curr /\ next + m[next + 1].size # curr
        BY <3>2, <3>3, <1>4, <1>2
      <4> QED BY <4>1, <3>1, <3>2, <2>2 DEF MergedBut
    <3>5. \A x \in S : curr <= x /\ x < last => x = curr \/ x = next
      BY <3>3, <2>0, <1>4, <1>2
    <3> QED BY <3>3, <3>4, <3>5, <1>4, <1>2, <2>2
  <2> QED BY <2>1, <2>2
<1>11. Surrounds(m, S, top, curr, first, last)
  <2> HIDE DEF first, last
  <2>1. ASSUME NEW x \in S, first <= x, x < last PROVE ~ m[x + 1].inuse
    <3>1. x < curr \/ curr <= x
      BY <1>2, <1>7
    <3> QED BY <3>1, <1>9, <1>10, <2>1
  <2> QED BY <1>9, <1>10, <2>1 DEF Surrounds
<1>12. ASSUME Returned(m, curr) PROVE Coalesce(m, curr).ret = {first}
  <2>1. CASE Garbage = {"coalesced"}
    BY <2>1, <1>2, <1>3 DEF Coalesce, NextBlock, Header
  <2>2. CASE m[curr].inuse /\ m[next + 1].inuse
    BY <2>2, <1>2, <1>3 DEF Coalesce, NextBlock, Header
  <2> QED BY <2>1, <2>2, <1>12 DEF Returned
<1>13. CASE m[prev + 1].inuse /\ m[next + 1].inuse
  <2>1. Coalesce(m, curr).m = m
    BY <1>13, <1>2 DEF Coalesce, NextBlock, Header
  <2> QED BY <1>11, <1>12, <1>13, <2>1, <1>9, <1>10 DEF CoalesceMerges
<1>14. CASE ~ (m[prev + 1].inuse /\ m[next + 1].inuse)
  <2> DEFINE size == (IF m[prev + 1].inuse THEN 0 ELSE m[prev + 1].size) + m[curr + 1].size
                     + (IF m[next + 1].inuse THEN 0 ELSE m[next + 1].size)
  <2>1. Coalesce(m, curr).m = [m EXCEPT ![first + 1] = HEADER(size, FALSE),
                                        ![last] = HEADER(size, FALSE)]
    BY <1>14, <1>2, <1>3 DEF Coalesce, NextBlock, Header
  <2>2. size = last - first
    <3>1. m[next + 1].size \in Nat
      BY <1>4, Headers
    <3> QED BY <3>1, <1>1, <1>2, <1>4
  <2> HIDE DEF size, first, last
  <2>3. Coalesce(m, curr).m = Tagged(m, first, last, HEADER(last - first, FALSE))
    BY <2>1, <2>2 DEF Tagged
  <2> QED BY <1>11, <1>12, <2>3, <1>9, <1>10 DEF CoalesceMerges
<1> QED BY <1>13, <1>14 DEF CoalesceMerges

-----------------------------------------------------------------------------

\* The blocks handed out.
InUse(m, S, top) == {p \in S \ {0, top} : m[p + 1].inuse}

\* What Coalesce does to the heap: the blocks from first to last become one free
\* block, and no block in use is touched.
Merges(m, S, top, curr, h) ==
  \E first, last \in S : \E s \in SUBSET S :
    /\ Heap(h.m, s, top) /\ Merged(h.m, s, top)
    /\ Returned(m, curr) => h.ret = {first}
    /\ first \in s \ {0, top} /\ first <= curr /\ curr < last
    /\ ~ h.m[first + 1].inuse /\ h.m[first + 1].size = last - first
    /\ InUse(h.m, s, top) = InUse(m, S, top)
    /\ \A x \in InUse(m, S, top) :
         /\ h.m[x + 1] = m[x + 1]
         /\ x + m[x + 1].size <= first \/ last <= x
    /\ \A x \in Word \ (first+1..last) : h.m[x] = m[x]

\* In each of them the heap ends without free neighbours.
LEMMA CoalesceDoes ==
  ASSUME NEW m, NEW S, NEW top, Heap(m, S, top),
         NEW curr \in S \ {0, top}, ~ m[curr + 1].inuse,
         MergedBut(m, S, top, curr),
         NEW h, h = Coalesce(m, curr)
  PROVE  Merges(m, S, top, curr, h)
<1>0. CoalesceMerges(m, S, top, curr)
  BY CoalesceCases
<1>1. PICK first \in S, last \in S :
           /\ Surrounds(m, S, top, curr, first, last)
           /\ Returned(m, curr) => h.ret = {first}
           /\ \/ /\ h.m = m
                 /\ first = curr /\ last = curr + m[curr + 1].size
              \/ h.m = Tagged(m, first, last, HEADER(last - first, FALSE))
  BY <1>0 DEF CoalesceMerges
<1> DEFINE n == h.m
<1> DEFINE s == {x \in S : ~ (first < x /\ x < last)}
<1>2. /\ 0 < first /\ first <= curr /\ curr < last
      /\ \A x \in S : first <= x /\ x < last => ~ m[x + 1].inuse
      /\ m[last + 1].inuse
      /\ \A p \in S \ {top} : p + m[p + 1].size = first => m[p + 1].inuse
  BY <1>1 DEF Surrounds
<1>3. /\ first \in Nat /\ last \in Nat /\ top \in Nat /\ curr \in Nat
      /\ \A x \in S : x \in Nat /\ x <= top
      /\ first < last
  BY <1>2 DEF Heap
<1>4. /\ Heap(n, s, top)
      /\ n[first + 1].size = last - first /\ ~ n[first + 1].inuse
      /\ \A x \in s \ {first} : n[x + 1] = m[x + 1]
      /\ \A x \in Word \ {first + 1, last} : n[x] = m[x]
  <2>1. CASE /\ n = m
             /\ first = curr /\ last = curr + m[curr + 1].size
    <3>1. \A x \in S : ~ (first < x /\ x < last)
      BY <2>1, Block, <1>3
    <3>2. s = S
      BY <3>1
    <3>3. m[curr + 1].size \in Nat
      BY Block
    <3>4. m[curr + 1].size = last - first
      BY <2>1, <3>3, <1>3
    <3> HIDE DEF n, s
    <3> QED BY <2>1, <3>2, <3>4
  <2>2. CASE n = Tagged(m, first, last, HEADER(last - first, FALSE))
    <3> DEFINE t == HEADER(last - first, FALSE)
    <3>1. t \in Tag /\ t.size = last - first /\ ~ t.inuse
      <4>1. last \in Word
        BY Headers
      <4>2. last - first \in 0..MemWords
        BY <4>1, <1>3, AllocAssumption DEF Word
      <4> QED BY <4>2 DEF Tag, HEADER
    <3> HIDE DEF n, s, t
    <3>2. s = Without(S, first, last) /\ n = Tagged(m, first, last, t)
      BY <2>2 DEF s, t, Without
    <3>4. Retags(m, S, top, first, last, t)
      BY <3>1, <1>2, <1>3 DEF Retags
    <3>3. /\ Heap(n, s, top)
          /\ n[first + 1] = t
          /\ SameHeaders(m, n, s \ {first})
          /\ SameBut(m, n, {first + 1, last})
      <4>1. /\ Heap(Tagged(m, first, last, t), Without(S, first, last), top)
            /\ Tagged(m, first, last, t)[first + 1] = t
            /\ SameHeaders(m, Tagged(m, first, last, t), Without(S, first, last) \ {first})
            /\ SameBut(m, Tagged(m, first, last, t), {first + 1, last})
        BY ONLY <3>4, Retag
      <4> QED BY ONLY <4>1, <3>2
    <3> QED BY <3>1, <3>3 DEF SameHeaders, SameBut
  <2> QED BY <1>1, <2>1, <2>2
<1>5. first \in s /\ last \in s /\ s \in SUBSET S /\ first # top /\ top \in s
  <2>1. first <= top /\ last <= top /\ ~ (first < top /\ top < last) /\ top \in S
    BY <1>3 DEF Heap
  <2> QED BY <2>1, <1>3
<1>6. \A x \in S : x \in s <=> x <= first \/ last <= x
  BY <1>3
<1> HIDE DEF n, s
<1>7. Merged(n, s, top)
  <2> SUFFICES ASSUME NEW p \in s \ {top}, ~ n[p + 1].inuse
               PROVE  n[p + n[p + 1].size + 1].inuse
    BY DEF Merged
  <2>1. CASE p = first
    <3>1. first + n[first + 1].size = last
      BY <1>4, <1>3
    <3>2. n[last + 1] = m[last + 1]
      BY <1>4, <1>5, <1>3
    <3> QED BY <2>1, <3>1, <3>2, <1>2
  <2>2. CASE p # first
    <3>1. n[p + 1] = m[p + 1] /\ p \in S
      BY <2>2, <1>4, <1>5
    <3> DEFINE y == p + n[p + 1].size
    <3>2. y \in s /\ y = p + m[p + 1].size
      BY <3>1, <1>4, Block
    <3> HIDE DEF y
    <3>3. y # first
      BY <3>2, <1>2, <3>1
    <3>4. n[y + 1] = m[y + 1]
      BY <3>3, <3>2, <1>4
    <3>5. p # curr /\ y # curr
      BY <2>2, <3>2, <3>3, <1>6, <1>2, <1>3
    <3>6. m[y + 1].inuse
      BY <3>5, <3>1, <3>2 DEF MergedBut
    <3> QED BY <3>4, <3>6 DEF y
  <2> QED BY <2>1, <2>2
<1>8. ASSUME NEW x \in InUse(m, S, top)
      PROVE  /\ x \in s \ {first} /\ n[x + 1] = m[x + 1]
             /\ x + m[x + 1].size <= first \/ last <= x
  <2>1. x \in S \ {0, top} /\ m[x + 1].inuse
    BY DEF InUse
  <2>2. ~ (first <= x /\ x < last)
    BY <2>1, <1>2
  <2>3. x \in s \ {first}
    BY <2>1, <2>2, <1>6, <1>3
  <2>4. x < first \/ last <= x
    BY <2>1, <2>2, <1>3
  <2>5. x < first => x + m[x + 1].size <= first
    BY <2>1, Block
  <2> QED BY <2>3, <2>4, <2>5, <1>4
<1>9. InUse(n, s, top) = InUse(m, S, top)
  <2>1. ASSUME NEW x \in InUse(n, s, top) PROVE x \in InUse(m, S, top)
    <3>1. x \in s \ {0, top} /\ n[x + 1].inuse
      BY DEF InUse
    <3>2. x # first
      BY <3>1, <1>4
    <3> QED BY <3>1, <3>2, <1>4, <1>5 DEF InUse
  <2>2. ASSUME NEW x \in InUse(m, S, top) PROVE x \in InUse(n, s, top)
    BY <1>8 DEF InUse
  <2> QED BY <2>1, <2>2
<1>10. \A x \in Word \ (first+1..last) : n[x] = m[x]
  BY <1>4, <1>3
<1>11. first \in s \ {0, top}
  BY <1>5, <1>2, <1>3
<1>12. Returned(m, curr) => h.ret = {first}
  BY <1>1
<1> QED BY <1>2, <1>4, <1>5, <1>7, <1>8, <1>9, <1>10, <1>11, <1>12 DEF n, Merges

\* MEM_ALIGN rounds up to an even number of words.
LEMMA Aligned ==
  ASSUME NEW k \in Nat
  PROVE  MemAlign(k) \in Nat /\ k <= MemAlign(k) /\ MemAlign(k) % 2 = 0
BY DEF MemAlign

\* What Malloc does to the heap with a free block p: its first words are in use
\* and the rest of it, if any, is a free block.
Takes(m, S, top, p, size, w) ==
  \E s : /\ Heap(w, s, top) /\ Merged(w, s, top)
         /\ s \subseteq S \cup {p + size}
         /\ InUse(w, s, top) = InUse(m, S, top) \cup {p}
         /\ p \notin InUse(m, S, top)
         /\ w[p + 1].size = size
         /\ \A x \in InUse(m, S, top) :
              /\ w[x + 1] = m[x + 1]
              /\ x + m[x + 1].size <= p \/ p + m[p + 1].size <= x
         /\ \A x \in Word \ (p+1..p+m[p + 1].size) : w[x] = m[x]

\* A free block is taken: whole, or cut in two.
LEMMA TakeDoes ==
  ASSUME NEW m, NEW S, NEW top, Heap(m, S, top), Merged(m, S, top),
         NEW p \in S \ {0, top}, ~ m[p + 1].inuse,
         NEW size \in Nat, 2 <= size, size <= m[p + 1].size, ~ BadRest(m, p, size),
         NEW w, w = Take(m, p, size)
  PROVE  Takes(m, S, top, p, size, w)
<1> DEFINE b == p + m[p + 1].size
<1> DEFINE c == p + size
<1>1. /\ p \in Nat /\ 0 < p /\ b \in S /\ b \in Nat /\ m[p + 1].size \in Nat
      /\ m[p + 1].size >= 2 /\ p < b
      /\ \A q \in S : q \in Nat /\ (p < q => b <= q)
  BY Block
<1>2. m[b + 1].inuse
  BY DEF Merged
<1>3. p \notin InUse(m, S, top)
  BY DEF InUse
<1>4. \A x \in InUse(m, S, top) : x + m[x + 1].size <= p \/ b <= x
  <2> SUFFICES ASSUME NEW x \in InUse(m, S, top)
               PROVE  x + m[x + 1].size <= p \/ b <= x
    OBVIOUS
  <2>1. x \in S \ {0, top} /\ x # p
    BY <1>3 DEF InUse
  <2>2. x \in Nat /\ (x < p => x + m[x + 1].size <= p)
    BY <2>1, Block
  <2> QED BY <2>1, <2>2, <1>1
<1>7. m[p + 1].size \in 0..MemWords
  BY Headers
<1>5. CASE size = m[p + 1].size
  <2>1. w = Tagged(m, p, b, HEADER(size, TRUE))
    <3>1. b - p = size /\ m[p + 1].size - size = 0 /\ p + size = b
      BY <1>5, <1>1
    <3> QED BY <3>1 DEF Take, Header, Tagged
  <2>2. S = Without(S, p, b)
    <3> HIDE DEF b
    <3> QED BY <1>1 DEF Without
  <2>3. /\ Heap(w, S, top) /\ w[p + 1] = HEADER(size, TRUE)
        /\ \A x \in S \ {p} : w[x + 1] = m[x + 1]
        /\ \A x \in Word \ {p + 1, b} : w[x] = m[x]
    <3> DEFINE t == HEADER(size, TRUE)
    <3>1. t \in Tag /\ t.size = b - p
      BY <1>5, <1>1, <1>7 DEF Tag, HEADER
    <3> HIDE DEF b, t
    <3>2. w = Tagged(m, p, b, t)
      BY <2>1 DEF t
    <3>4. Retags(m, S, top, p, b, t)
      BY <3>1, <1>1 DEF Retags
    <3>3. /\ Heap(w, S, top) /\ w[p + 1] = t
          /\ SameHeaders(m, w, S \ {p}) /\ SameBut(m, w, {p + 1, b})
      <4>1. /\ Heap(Tagged(m, p, b, t), Without(S, p, b), top)
            /\ Tagged(m, p, b, t)[p + 1] = t
            /\ SameHeaders(m, Tagged(m, p, b, t), Without(S, p, b) \ {p})
            /\ SameBut(m, Tagged(m, p, b, t), {p + 1, b})
        BY <3>4, Retag
      <4> QED BY ONLY <4>1, <3>2, <2>2
    <3> QED BY <3>3 DEF SameHeaders, SameBut, t
  <2>4. w[p + 1].size = size /\ w[p + 1].inuse
    BY <2>3, <1>5, <1>1 DEF HEADER
  <2>5. Merged(w, S, top)
    <3> SUFFICES ASSUME NEW x \in S \ {top}, ~ w[x + 1].inuse
                 PROVE  w[x + w[x + 1].size + 1].inuse
      BY DEF Merged
    <3>1. x # p /\ w[x + 1] = m[x + 1]
      BY <2>3, <2>4
    <3>2. x + m[x + 1].size \in S /\ m[x + m[x + 1].size + 1].inuse
      BY <3>1, Block DEF Merged
    <3>3. CASE x + m[x + 1].size = p
      BY <3>1, <3>3, <2>4
    <3>4. CASE x + m[x + 1].size # p
      BY <3>1, <3>2, <3>4, <2>3
    <3> QED BY <3>3, <3>4
  <2>6. InUse(w, S, top) = InUse(m, S, top) \cup {p}
    BY <2>3, <2>4 DEF InUse
  <2>7. \A x \in InUse(m, S, top) : w[x + 1] = m[x + 1]
    BY <2>3, <1>3 DEF InUse
  <2>8. \A x \in Word \ (p+1..b) : w[x] = m[x]
    <3> HIDE DEF b
    <3> QED BY <2>3, <1>1
  <2> QED BY <2>3, <2>4, <2>5, <2>6, <2>7, <2>8, <1>3, <1>4 DEF Takes
<1>6. CASE size # m[p + 1].size
  <2>0. /\ c \in Nat /\ p + 2 <= c /\ c + 2 <= b /\ c - p = size
        /\ m[p + 1].size - size = b - c /\ b - c # 0 /\ c + (b - c) = b
    BY <1>6, <1>1 DEF BadRest, Header
  <2>1. w = Cut(m, p, c, b, HEADER(size, TRUE), HEADER(b - c, FALSE))
    <3> DEFINE rest == Header(m, p).size - size
    <3>1. rest = b - c /\ rest # 0 /\ c + rest = b
      BY <2>0 DEF Header
    <3>2. w = [[m EXCEPT ![p + 1] = HEADER(size, TRUE), ![c] = HEADER(size, TRUE)]
                 EXCEPT ![c + 1] = HEADER(rest, FALSE), ![c + rest] = HEADER(rest, FALSE)]
      BY <3>1 DEF Take
    <3> HIDE DEF rest, b, c
    <3> QED BY <3>1, <3>2, <2>0 DEF Cut
  <2> DEFINE s == S \cup {c}
  <2>2. /\ Heap(w, s, top)
        /\ w[p + 1] = HEADER(size, TRUE) /\ w[c + 1] = HEADER(b - c, FALSE)
        /\ \A x \in S \ {p} : w[x + 1] = m[x + 1]
        /\ \A x \in Word \ {p + 1, c, c + 1, b} : w[x] = m[x]
    <3> DEFINE t == HEADER(size, TRUE)
    <3> DEFINE r == HEADER(b - c, FALSE)
    <3>1. b = p + m[p + 1].size
      OBVIOUS
    <3>2. t \in Tag /\ t.size = c - p /\ r \in Tag /\ r.size = b - c
      <4>1. size \in 0..MemWords /\ b - c \in 0..MemWords
        <5>1. b - c = m[p + 1].size - size
          BY <2>0
        <5> HIDE DEF b, c
        <5> QED BY <5>1, <1>7, AllocAssumption
      <4> QED BY <4>1, <2>0 DEF Tag, HEADER
    <3> HIDE DEF b, c, t, r
    <3>3. w = Cut(m, p, c, b, t, r)
      BY <2>1 DEF t, r
    <3>4. /\ Heap(w, S \cup {c}, top) /\ w[p + 1] = t /\ w[c + 1] = r
          /\ SameHeaders(m, w, S \ {p}) /\ SameBut(m, w, {p + 1, c, c + 1, b})
      <4>1. Cuts(m, S, top, p, c, b, t, r)
        BY <3>1, <3>2, <2>0, <1>1 DEF Cuts
      <4>2. /\ Heap(Cut(m, p, c, b, t, r), S \cup {c}, top)
            /\ Cut(m, p, c, b, t, r)[p + 1] = t /\ Cut(m, p, c, b, t, r)[c + 1] = r
            /\ SameHeaders(m, Cut(m, p, c, b, t, r), S \ {p})
            /\ SameBut(m, Cut(m, p, c, b, t, r), {p + 1, c, c + 1, b})
        BY <4>1, Split
      <4> QED BY ONLY <4>2, <3>3
    <3> QED BY <3>4 DEF SameHeaders, SameBut, t, r
  <2>3. w[p + 1].size = size /\ w[p + 1].inuse /\ w[c + 1].size = b - c /\ ~ w[c + 1].inuse
    BY <2>2, <2>0 DEF HEADER
  <2>4. c \notin S
    BY <1>1, <2>0
  <2>5. Merged(w, s, top)
    <3> SUFFICES ASSUME NEW x \in s \ {top}, ~ w[x + 1].inuse
                 PROVE  w[x + w[x + 1].size + 1].inuse
      BY DEF Merged
    <3>1. CASE x = c
      <4>1. x + w[x + 1].size = b
        BY <3>1, <2>3, <2>0
      <4>2. w[b + 1] = m[b + 1]
        BY <2>2, <1>1
      <4> QED BY <4>1, <4>2, <1>2
    <3>2. CASE x # c
      <4>1. x \in S \ {p, top} /\ w[x + 1] = m[x + 1]
        BY <3>2, <2>2, <2>3
      <4>2. x + m[x + 1].size \in S /\ m[x + m[x + 1].size + 1].inuse
        BY <4>1, Block DEF Merged
      <4>3. CASE x + m[x + 1].size = p
        BY <4>1, <4>3, <2>3
      <4>4. CASE x + m[x + 1].size # p
        BY <4>1, <4>2, <4>4, <2>2
      <4> QED BY <4>3, <4>4
    <3> QED BY <3>1, <3>2
  <2>6. InUse(w, s, top) = InUse(m, S, top) \cup {p}
    <3> HIDE DEF b, c
    <3> QED BY <2>2, <2>3, <2>4 DEF InUse
  <2>7. \A x \in InUse(m, S, top) : w[x + 1] = m[x + 1]
    BY <2>2, <1>3 DEF InUse
  <2>8. \A x \in Word \ (p+1..b) : w[x] = m[x]
    <3> HIDE DEF b, c
    <3> QED BY <2>2, <2>0, <1>1
  <2> QED BY <2>2, <2>3, <2>5, <2>6, <2>7, <2>8, <1>3, <1>4 DEF Takes
<1> QED BY <1>5, <1>6

-----------------------------------------------------------------------------

\* Blocks lie at even words (16 bytes apart), so that no block has an odd size.
Even(S) == \A p \in S : p % 2 = 0

\* What the client holds is what the heap has in use, with room for the tags.
HeldAre(m, S, top, hd) ==
  /\ DOMAIN hd = InUse(m, S, top)
  /\ \A p \in DOMAIN hd : hd[p] \in Sizes /\ m[p + 1].size >= hd[p] + 2

\* The heap as the calls find it and leave it.
HeapIs(m, S, top, hd) ==
  /\ Heap(m, S, top) /\ Merged(m, S, top) /\ Even(S)
  /\ HeldAre(m, S, top, hd)
  /\ top + 2 >= 4

\* The inductive invariant: the words hold a heap of whole blocks, none free beside
\* a free one, and those in use are the ones the client was given.
IInv ==
  /\ HeapIs(word, List(word), brk - 2, held)
  /\ brk \in 4..MemWords-1
  /\ ret \in Word /\ quit \in BOOLEAN

\* It is enough to know the set of blocks.
LEMMA IInvIntro ==
  ASSUME NEW S, HeapIs(word, S, brk - 2, held),
         brk \in Word, ret \in Word, quit \in BOOLEAN
  PROVE  IInv
<1>1. Heap(word, S, brk - 2) /\ brk - 2 + 2 >= 4
  BY DEF HeapIs
<1>2. List(word) = S
  BY <1>1, ListIs
<1>4. brk \in 4..MemWords-1
  BY <1>1, AllocAssumption DEF Word
<1> QED BY <1>2, <1>4 DEF IInv

\* The same of the next state.
LEMMA IInvIntroNext ==
  ASSUME NEW S, HeapIs(word', S, brk' - 2, held'),
         brk' \in Word, ret' \in Word, quit' \in BOOLEAN
  PROVE  IInv'
<1>1. Heap(word', S, brk' - 2) /\ brk' - 2 + 2 >= 4
  BY DEF HeapIs
<1>2. List(word') = S
  BY <1>1, ListIs
<1>4. brk' \in 4..MemWords-1
  <2>1. PICK b \in Word : b = brk'
    OBVIOUS
  <2>2. b - 2 + 2 >= 4
    BY <1>1, <2>1
  <2>3. b \in 4..MemWords-1
    BY <2>2, AllocAssumption DEF Word
  <2> QED BY <2>1, <2>3
<1> QED BY <1>2, <1>4 DEF IInv

\* InitMalloc makes a heap of one block, in use.
LEMMA InitIInv == Init => IInv
<1> SUFFICES ASSUME Init PROVE IInv
  OBVIOUS
<1>1. /\ {0, 1, 2, 3, 4} \subseteq Word /\ brk = 4 /\ brk - 2 = 2 /\ ret \in Word
      /\ \A x \in 0..2 : x \in {0, 1, 2}
  BY AllocAssumption DEF Init, Word, blockHead
<1>2. /\ word \in [Word -> Tag]
      /\ word[1] = HEADER(2, TRUE) /\ word[2] = HEADER(2, TRUE) /\ word[3] = EPILOG
  <2>1. 0 \in 0..MemWords /\ 2 \in 0..MemWords
    BY AllocAssumption
  <2>2. HEADER(2, TRUE) \in Tag /\ HEADER(0, FALSE) \in Tag /\ EPILOG \in Tag
    BY <2>1 DEF HEADER, EPILOG, Tag
  <2> DEFINE t == HEADER(2, TRUE)
  <2> DEFINE z == HEADER(0, FALSE)
  <2>3. word = [a \in Word |-> CASE a \in {1, 2} -> t [] a = 3 -> EPILOG [] OTHER -> z]
    BY DEF Init
  <2>6. t \in Tag /\ z \in Tag
    BY <2>2
  <2> HIDE DEF t, z, Word
  <2>4. ASSUME NEW a \in Word
        PROVE  /\ a \in {1, 2} => word[a] = t
               /\ a = 3 => word[a] = EPILOG
               /\ a \notin {1, 2, 3} => word[a] = z
    <3>1. a \in {1, 2} => word[a] = t
      BY <2>3
    <3>2. a = 3 => word[a] = EPILOG
      BY <2>3
    <3>3. a \notin {1, 2, 3} => word[a] = z
      BY <2>3
    <3> QED BY <3>1, <3>2, <3>3
  <2>5. word \in [Word -> Tag]
    <3>1. \A a \in Word : word[a] \in Tag
      BY <2>2, <2>4, <2>6
    <3>2. word = [a \in Word |-> word[a]]
      BY <2>3
    <3> QED BY <3>1, <3>2
  <2>7. word[1] = t /\ word[2] = t /\ word[3] = EPILOG
    BY <2>4, <1>1
  <2> QED BY <2>5, <2>7 DEF t
<1>3. word[1].size = 2 /\ word[1].inuse /\ word[3].size = 0
  BY <1>2 DEF HEADER, EPILOG
<1>4. Heap(word, {0, 2}, 2)
  <2>1. {0, 2} \ {2} = {0} /\ {0, 2} \ {0} = {2} /\ {0, 2} \subseteq 0..2
        /\ 0 + 1 = 1 /\ 0 + 2 = 2 /\ 2 + 1 = 3 /\ 2 \in Nat /\ ~ (2 < 0) /\ ~ (2 < 2)
    OBVIOUS
  <2>2. \A p \in {0, 2} \ {2} : p = 0
    OBVIOUS
  <2>3. \A p, q \in {0, 2} : p < q => p + word[p + 1].size <= q
    <3>1. 0 + word[0 + 1].size <= 2
      BY <1>3, <2>1
    <3> QED BY <3>1, <2>1
  <2>4. \A q \in {0, 2} \ {0} : \E p \in {0, 2} \ {2} : p + word[p + 1].size = q
    BY <1>3, <2>1
  <2>5. \A p \in {0, 2} \ {2} : /\ word[p + 1].size >= 2 /\ p + word[p + 1].size \in {0, 2}
                               /\ word[p + word[p + 1].size] = word[p + 1]
    <3>1. 0 + word[0 + 1].size = 2 /\ word[0 + 1].size >= 2 /\ 2 \in {0, 2}
      BY <2>1, <1>3
    <3>2. word[0 + word[0 + 1].size] = word[0 + 1]
      BY <3>1, <2>1, <1>2
    <3> QED BY <2>2, <3>1, <3>2
  <2> HIDE DEF EPILOG, HEADER
  <2> QED BY <2>1, <2>3, <2>4, <2>5, <1>1, <1>2 DEF Heap
<1>5. Merged(word, {0, 2}, 2) /\ InUse(word, {0, 2}, 2) = {}
  BY <1>3 DEF Merged, InUse
<1>6. DOMAIN held = {}
  BY DEF Init
<1>7. Even({0, 2})
  BY DEF Even
<1>8. HeapIs(word, {0, 2}, brk - 2, held)
  BY <1>1, <1>4, <1>5, <1>6, <1>7 DEF HeapIs, HeldAre
<1> QED BY <1>1, <1>8, IInvIntro DEF Init

\* Blocks at even words have even sizes,
LEMMA SizesEven ==
  ASSUME NEW m, NEW S, NEW top, Heap(m, S, top), Even(S),
         NEW p \in S \ {top}
  PROVE  m[p + 1].size % 2 = 0
<1>1. p \in Nat /\ m[p + 1].size \in Nat /\ p + m[p + 1].size \in S
  BY Block
<1>2. p % 2 = 0 /\ (p + m[p + 1].size) % 2 = 0
  BY <1>1 DEF Even
<1> QED BY <1>1, <1>2

\* so that a rest is never too small for its tags.
LEMMA NoBadRest ==
  ASSUME NEW m, NEW S, NEW top, Heap(m, S, top), Even(S),
         NEW p \in S \ {top}, NEW k \in Nat
  PROVE  ~ BadRest(m, p, MemAlign(k))
<1>1. m[p + 1].size \in Nat /\ m[p + 1].size % 2 = 0
  BY SizesEven, Block
<1>2. MemAlign(k) \in Nat /\ MemAlign(k) % 2 = 0
  BY Aligned
<1> QED BY <1>1, <1>2 DEF BadRest, Header

-----------------------------------------------------------------------------

\* What a call of Malloc that has chosen block p of heap m does.
Placed(m, S, top, p, n) ==
  /\ ret' = p /\ quit' = quit
  /\ \E s : HeapIs(word', s, top, held')
  /\ p \notin DOMAIN held /\ DOMAIN held' = DOMAIN held \cup {p}
  /\ held'[p] = n /\ word'[p + 1].size = MemAlign(n + 2)
  /\ \A x \in DOMAIN held :
       /\ held'[x] = held[x] /\ word'[x + 1] = m[x + 1]
       /\ x + m[x + 1].size <= p \/ p + m[p + 1].size <= x
  /\ \A a \in Word \ (p+1..p+m[p + 1].size) : word'[a] = m[a]

\* Malloc (alloc.c, 126-147) gives the client a block with room for what it asked.
LEMMA PlaceDoes ==
  ASSUME NEW m, NEW S, NEW top, HeapIs(m, S, top, held),
         NEW p \in S \ {0, top}, ~ m[p + 1].inuse,
         NEW n \in Sizes, MemAlign(n + 2) <= m[p + 1].size,
         Place(m, p, n)
  PROVE  Placed(m, S, top, p, n)
<1> DEFINE size == MemAlign(n + 2)
<1> USE AllocAssumption
<1>1. /\ Heap(m, S, top) /\ Merged(m, S, top) /\ Even(S) /\ HeldAre(m, S, top, held)
      /\ top + 2 >= 4
  BY DEF HeapIs
<1>2. n \in Nat /\ n + 2 \in Nat /\ size \in Nat /\ 2 <= size /\ n + 2 <= size /\ size % 2 = 0
  <2>1. n \in Nat /\ n + 2 \in Nat
    OBVIOUS
  <2>2. MemAlign(n + 2) \in Nat /\ n + 2 <= MemAlign(n + 2) /\ MemAlign(n + 2) % 2 = 0
    BY <2>1, Aligned
  <2> HIDE DEF size
  <2> QED BY <2>1, <2>2 DEF size
<1>3. ~ BadRest(m, p, size)
  BY <1>1, <1>2, NoBadRest
<1>4. /\ word' = Take(m, p, size)
      /\ held' = [q \in DOMAIN held \cup {p} |-> IF q = p THEN n ELSE held[q]]
      /\ ret' = p /\ quit' = quit
  BY <1>3 DEF Place
<1> HIDE DEF size
<1>5. Takes(m, S, top, p, size, word')
  <2>1. size <= m[p + 1].size
    BY DEF size
  <2> QED BY <1>1, <1>2, <1>3, <1>4, <2>1, TakeDoes
<1>6. PICK s : /\ Heap(word', s, top) /\ Merged(word', s, top)
               /\ s \subseteq S \cup {p + size}
               /\ InUse(word', s, top) = InUse(m, S, top) \cup {p}
               /\ p \notin InUse(m, S, top)
               /\ word'[p + 1].size = size
               /\ \A x \in InUse(m, S, top) :
                    /\ word'[x + 1] = m[x + 1]
                    /\ x + m[x + 1].size <= p \/ p + m[p + 1].size <= x
               /\ \A x \in Word \ (p+1..p+m[p + 1].size) : word'[x] = m[x]
  BY <1>5 DEF Takes
<1>7. DOMAIN held = InUse(m, S, top)
  BY <1>1 DEF HeldAre
<1>8. /\ DOMAIN held' = DOMAIN held \cup {p} /\ p \notin DOMAIN held /\ held'[p] = n
      /\ \A x \in DOMAIN held : held'[x] = held[x]
  BY <1>4, <1>6, <1>7
<1>9. HeldAre(word', s, top, held')
  <2>1. \A x \in DOMAIN held : held[x] \in Sizes /\ m[x + 1].size >= held[x] + 2
    BY <1>1 DEF HeldAre
  <2> QED BY <2>1, <1>2, <1>6, <1>7, <1>8 DEF HeldAre
<1>10. Even(s)
  <2>1. p \in Nat /\ p % 2 = 0
    BY <1>1, Block DEF Even
  <2>2. (p + size) % 2 = 0
    BY <2>1, <1>2
  <2> QED BY <2>2, <1>1, <1>6 DEF Even
<1>11. HeapIs(word', s, top, held')
  BY <1>1, <1>6, <1>9, <1>10 DEF HeapIs
<1> QED BY <1>4, <1>6, <1>7, <1>8, <1>11 DEF Placed, size

\* What a successful call of Malloc does, as its client sees it: block p is new,
\* the others stay, and only words from p to hi are written.
Hands(n, p, hi) ==
  /\ p \in Nat /\ 0 < p /\ hi \in Word
  /\ p \notin DOMAIN held /\ DOMAIN held' = DOMAIN held \cup {p} /\ held'[p] = n
  /\ word'[p + 1].size >= n + 2 /\ p + word'[p + 1].size <= hi
  /\ \A x \in DOMAIN held :
       /\ held'[x] = held[x] /\ word'[x + 1] = word[x + 1]
       /\ x + word[x + 1].size <= p \/ hi <= x
  /\ \A a \in Word \ (p+1..hi) : word'[a] = word[a]

\* FindFreeBlock finds a block that fits when there is one.
LEMMA FirstFit ==
  ASSUME NEW size, IInv, Fits(word, size) # {}
  PROVE  FindFreeBlock(word, size) \in Fits(word, size)
<1>1. Fits(word, size) \in SUBSET Nat
  <2>1. Heap(word, List(word), brk - 2)
    BY DEF IInv, HeapIs
  <2>2. Blocks(word) \subseteq List(word) /\ List(word) \subseteq Nat
    BY <2>1 DEF Blocks, Heap
  <2> QED BY <2>2 DEF Fits
<1>2. \E p \in Fits(word, size) : \A q \in Fits(word, size) : p <= q
  BY <1>1, Least
<1> QED BY <1>2 DEF FindFreeBlock

\* A call of Malloc that finds a block hands it out.
LEMMA MallocFitDoes ==
  ASSUME IInv, NEW n \in Sizes, MallocFit(n)
  PROVE  IInv' /\ quit' = quit /\ brk' = brk /\ \E p, hi \in Word : Hands(n, p, hi)
<1> DEFINE size == MemAlign(n + 2)
<1> DEFINE S == List(word)
<1> DEFINE top == brk - 2
<1> DEFINE p == FindFreeBlock(word, size)
<1>1. HeapIs(word, S, top, held) /\ Heap(word, S, top) /\ HeldAre(word, S, top, held)
  BY DEF IInv, HeapIs
<1>2. p \in Blocks(word) /\ ~ word[p + 1].inuse /\ word[p + 1].size >= size
  BY FirstFit DEF Fits, MallocFit, Header
<1>3. p \in S \ {0, top}
  <2>1. p \in S \ {top}
    BY <1>1, <1>2, BlocksAre
  <2>2. word[0 + 1].inuse
    BY <1>1 DEF Heap, HEADER
  <2> QED BY <2>1, <2>2, <1>2
<1>4. Place(word, p, n) /\ brk' = brk
  BY DEF MallocFit
<1> HIDE DEF S, top, p
<1>5. p \in Nat /\ word[p + 1].size \in Nat /\ p + word[p + 1].size \in S
  BY <1>1, <1>3, Block
<1>6. n + 2 \in Nat /\ size \in Nat /\ n + 2 <= size
  BY AllocAssumption, Aligned
<1>7. size <= word[p + 1].size
  BY <1>2, <1>5, <1>6
<1>8. Placed(word, S, top, p, n)
  BY <1>1, <1>2, <1>3, <1>4, <1>7, PlaceDoes
<1> DEFINE hi == p + word[p + 1].size
<1>9. p \in Word /\ hi \in Word
  BY <1>1, <1>3, <1>5, Headers
<1>10. Hands(n, p, hi)
  BY <1>3, <1>5, <1>6, <1>7, <1>8, <1>9 DEF Placed, Hands
<1>11. PICK s : HeapIs(word', s, top, held')
  BY <1>8 DEF Placed
<1>12. IInv'
  <2>1. brk' \in Word /\ quit' \in BOOLEAN /\ ret' \in Word
    <3>1. ret' = p /\ quit' = quit
      BY <1>8 DEF Placed
    <3> QED BY <3>1, <1>4, <1>9, AllocAssumption DEF IInv, Word
  <2>2. HeapIs(word', s, brk' - 2, held')
    BY <1>11, <1>4 DEF top
  <2> QED BY <2>1, <2>2, IInvIntroNext
<1> QED BY <1>4, <1>8, <1>9, <1>10, <1>12 DEF Placed

\* What the theorems ask of a step that extends the heap (see the head).
ReturnsBlock == brk' # brk => Garbage = {"coalesced"} \/ word[brk - 2].inuse

\* One that finds none extends the heap, and hands out the block it then has.
LEMMA MallocExtendDoes ==
  ASSUME IInv, NEW n \in Sizes, MallocExtend(n), ReturnsBlock
  PROVE  IInv' /\ quit' = quit /\ \E p, hi \in Word : Hands(n, p, hi)
<1> DEFINE size == MemAlign(n + 2)
<1> DEFINE incr == Increment(size)
<1> DEFINE S == List(word)
<1> DEFINE top == brk - 2
<1> DEFINE c == top + incr
<1> DEFINE g == Grown(word, top, incr)
<1> DEFINE T == S \cup {c}
<1> DEFINE h == Coalesce(g, top)
<1>1. /\ HeapIs(word, S, top, held) /\ Heap(word, S, top) /\ HeldAre(word, S, top, held)
      /\ Merged(word, S, top) /\ Even(S)
  BY DEF IInv, HeapIs
<1>2. top \in Nat /\ top \in S /\ S \subseteq 0..top /\ 0 \in S
  BY <1>1 DEF Heap
<1>3. /\ n + 2 \in Nat /\ size \in Nat /\ n + 2 <= size /\ 2 <= size /\ size % 2 = 0
      /\ incr \in Nat /\ size <= incr /\ incr % 2 = 0
  <2>1. n \in Nat /\ n + 2 \in Nat /\ size \in Nat /\ n + 2 <= size /\ size % 2 = 0
    BY AllocAssumption, Aligned
  <2> HIDE DEF size
  <2> DEFINE k == IF size > BrkIncr THEN size ELSE BrkIncr
  <2>2. k \in Nat /\ size <= k
    BY <2>1, AllocAssumption
  <2>3. incr = MemAlign(k)
    BY DEF Increment
  <2> HIDE DEF k, incr
  <2>4. incr \in Nat /\ k <= incr /\ incr % 2 = 0
    BY <2>2, <2>3, Aligned
  <2> QED BY <2>1, <2>2, <2>4
<1>4. ~ SbrkFails(incr) /\ brk' = brk + incr
  BY DEF MallocExtend
<1>5. h = ExtendHeap(word, incr) /\ \E p \in h.ret : Place(h.m, p, n)
  <2>1. h = ExtendHeap(word, incr)
    BY DEF ExtendHeap, Grown
  <2> QED BY <2>1 DEF MallocExtend
<1> HIDE DEF incr, S, size
<1>6. brk \in Nat /\ c \in Nat /\ top < c /\ c + 1 \in Word /\ brk' - 2 = c /\ brk' \in Word /\ 4 <= c + 2
      /\ c = top + incr /\ top + incr + 1 \in Word
  BY <1>2, <1>3, <1>4, AllocAssumption DEF SbrkFails, Word, IInv
<1>7. /\ Heap(g, T, c) /\ 0 < top /\ g[top + 1] = HEADER(incr, FALSE)
      /\ SameHeaders(word, g, S \ {top})
      /\ SameBut(word, g, {top + 1, c, c + 1})
  <2> HIDE DEF top, g, c, T
  <2>1. Grows(word, S, top, incr)
    BY <1>1, <1>3, <1>6 DEF Grows
  <2>2. /\ Heap(Grown(word, top, incr), S \cup {top + incr}, top + incr)
        /\ 0 < top
        /\ Grown(word, top, incr)[top + 1] = HEADER(incr, FALSE)
        /\ SameHeaders(word, Grown(word, top, incr), S \ {top})
        /\ SameBut(word, Grown(word, top, incr), {top + 1, top + incr, top + incr + 1})
    BY <2>1, Extend
  <2>3. g = Grown(word, top, incr) /\ T = S \cup {c} /\ c = top + incr
    BY DEF g, T, c
  <2> QED BY ONLY <2>2, <2>3
<1> HIDE DEF g, top, c
<1>8. ~ g[top + 1].inuse /\ g[top + 1].size = incr
  BY <1>7 DEF HEADER
<1>9. c \notin S /\ T \ {c} = S /\ top \in T \ {0, c}
  BY <1>2, <1>6, <1>7
<1>10. MergedBut(g, T, c, top)
  <2> SUFFICES ASSUME NEW x \in T \ {c, top}, x + g[x + 1].size # top, ~ g[x + 1].inuse
               PROVE  g[x + g[x + 1].size + 1].inuse
    BY DEF MergedBut
  <2>1. x \in S \ {top} /\ g[x + 1] = word[x + 1]
    BY <1>7, <1>9 DEF SameHeaders
  <2>2. x + word[x + 1].size \in S \ {top} /\ word[x + word[x + 1].size + 1].inuse
    BY <2>1, <1>1, Block DEF Merged
  <2> QED BY <2>1, <2>2, <1>7 DEF SameHeaders
<1>11. InUse(g, T, c) = InUse(word, S, top) /\ \A x \in InUse(word, S, top) : g[x + 1] = word[x + 1]
  BY <1>7, <1>8, <1>9 DEF InUse, SameHeaders
<1>12. Merges(g, T, c, top, h)
  <2> HIDE DEF h, T
  <2>1. h = Coalesce(g, top)
    BY DEF h
  <2> QED BY <2>1, <1>7, <1>8, <1>9, <1>10, CoalesceDoes
<1> HIDE DEF h
<1>13. PICK first \in T, last \in T, s \in SUBSET T :
    /\ Heap(h.m, s, c) /\ Merged(h.m, s, c)
    /\ Returned(g, top) => h.ret = {first}
    /\ first \in s \ {0, c} /\ first <= top /\ top < last
    /\ ~ h.m[first + 1].inuse /\ h.m[first + 1].size = last - first
    /\ InUse(h.m, s, c) = InUse(g, T, c)
    /\ \A x \in InUse(g, T, c) :
         /\ h.m[x + 1] = g[x + 1]
         /\ x + g[x + 1].size <= first \/ last <= x
    /\ \A x \in Word \ (first+1..last) : h.m[x] = g[x]
  BY <1>12 DEF Merges
<1>14. first \in Nat /\ last = c /\ first \in S
  BY <1>13, <1>2, <1>6, <1>9
<1>15. HeapIs(h.m, s, c, held)
  <2>1. Even(s)
    <3>1. c % 2 = 0
      <4>1. top % 2 = 0
        BY <1>1, <1>2 DEF Even
      <4> QED BY <4>1, <1>2, <1>3, <1>6
    <3> QED BY <3>1, <1>1, <1>13 DEF Even
  <2>2. HeldAre(h.m, s, c, held)
    BY <1>1, <1>11, <1>13 DEF HeldAre
  <2>3. c + 2 >= 4
    BY <1>6
  <2> QED BY <2>1, <2>2, <2>3, <1>13 DEF HeapIs
<1>16. Place(h.m, first, n) /\ first \in s \ {0, c}
  <2>1. CASE Garbage = {"coalesced"}
    BY <2>1, <1>5, <1>13 DEF Returned
  <2>2. CASE Garbage # {"coalesced"}
    <3>1. brk' # brk /\ brk - 2 = top
      BY <1>2, <1>3, <1>4, <1>6 DEF top
    <3>2. word[top].inuse
      BY <2>2, <3>1 DEF ReturnsBlock
    <3>3. g[top] = word[top]
      BY <1>2, <1>6, <1>7, AllocAssumption DEF SameBut, Word
    <3>4. g[top + g[top + 1].size + 1] = EPILOG
      BY <1>6, <1>7, <1>8 DEF Heap
    <3>5. Returned(g, top)
      BY <3>2, <3>3, <3>4 DEF Returned, EPILOG, HEADER
    <3> QED BY <3>5, <1>5, <1>13
  <2> QED BY <2>1, <2>2
<1>17. h.m[first + 1].size = c - first /\ size <= c - first /\ first + (c - first) = c
  BY <1>13, <1>14, <1>6, <1>3, <1>2
<1>18. Placed(h.m, s, c, first, n)
  <2>1. MemAlign(n + 2) <= h.m[first + 1].size
    BY <1>17 DEF size
  <2> QED BY <2>1, <1>13, <1>15, <1>16, PlaceDoes
<1>19. /\ ret' = first /\ quit' = quit
       /\ \E z : HeapIs(word', z, c, held')
       /\ first \notin DOMAIN held /\ DOMAIN held' = DOMAIN held \cup {first}
       /\ held'[first] = n /\ word'[first + 1].size = size
       /\ \A x \in DOMAIN held : held'[x] = held[x] /\ word'[x + 1] = h.m[x + 1]
       /\ \A a \in Word \ (first+1..c) : word'[a] = h.m[a]
  BY <1>17, <1>18 DEF Placed, size
<1>20. DOMAIN held = InUse(word, S, top)
  BY <1>1 DEF HeldAre
<1>21. \A x \in DOMAIN held : word'[x + 1] = word[x + 1] /\ x + word[x + 1].size <= first
  <2> SUFFICES ASSUME NEW x \in DOMAIN held
               PROVE  word'[x + 1] = word[x + 1] /\ x + word[x + 1].size <= first
    OBVIOUS
  <2>1. x \in InUse(g, T, c) /\ g[x + 1] = word[x + 1] /\ x \in S
    BY <1>11, <1>20 DEF InUse
  <2>2. ~ (c <= x)
    BY <2>1, <1>2, <1>6
  <2> QED BY <2>1, <2>2, <1>13, <1>14, <1>19
<1>22. \A a \in Word \ (first+1..c+1) : word'[a] = word[a]
  <2> SUFFICES ASSUME NEW a \in Word \ (first+1..c+1) PROVE word'[a] = word[a]
    OBVIOUS
  <2>1. a \in Nat /\ a \notin first+1..c /\ a \notin {top + 1, c, c + 1}
    BY <1>14, <1>13, <1>6, <1>2, AllocAssumption DEF Word
  <2> QED BY <2>1, <1>19, <1>13, <1>14, <1>7 DEF SameBut
<1>23. first \in Word /\ 0 < first
  BY <1>13, <1>14, <1>1, Headers
<1>24. Hands(n, first, c + 1)
  <2>1. first + size <= c + 1 /\ size >= n + 2
    BY <1>17, <1>14, <1>6, <1>3
  <2> QED BY <2>1, <1>6, <1>14, <1>19, <1>21, <1>22, <1>23 DEF Hands
<1>25. IInv'
  <2>1. PICK z : HeapIs(word', z, brk' - 2, held')
    BY <1>19, <1>6
  <2>2. brk' \in Word /\ ret' \in Word /\ quit' \in BOOLEAN
    BY <1>6, <1>19, <1>23 DEF IInv
  <2> QED BY <2>1, <2>2, IInvIntroNext
<1> QED BY <1>6, <1>19, <1>23, <1>24, <1>25

-----------------------------------------------------------------------------

\* What a call of Free does: of the blocks held only p goes, and only words from
\* lo to hi are written, where the client holds nothing else.
Frees(p, lo, hi) ==
  /\ lo \in Word /\ hi \in Word
  /\ DOMAIN held' = DOMAIN held \ {p}
  /\ \A x \in DOMAIN held' :
       /\ held'[x] = held[x] /\ word'[x + 1] = word[x + 1]
       /\ x + word[x + 1].size <= lo \/ hi <= x
  /\ \A a \in Word \ (lo+1..hi) : word'[a] = word[a]

\* A call of Free takes back that block only.
LEMMA FreeDoes ==
  ASSUME IInv, NEW p \in DOMAIN held, Free(p)
  PROVE  IInv' /\ quit' = quit /\ brk' = brk /\ \E lo, hi \in Word : Frees(p, lo, hi)
<1> DEFINE S == List(word)
<1> DEFINE top == brk - 2
<1> DEFINE size == word[p + 1].size
<1> DEFINE b == p + size
<1> DEFINE t == HEADER(size, FALSE)
<1> DEFINE g == Tagged(word, p, b, t)
<1> DEFINE h == Coalesce(g, p)
<1>1. /\ HeapIs(word, S, top, held) /\ Heap(word, S, top) /\ HeldAre(word, S, top, held)
      /\ Merged(word, S, top) /\ Even(S) /\ top + 2 >= 4
  BY DEF IInv, HeapIs
<1>2. /\ DOMAIN held = InUse(word, S, top)
      /\ p \in S \ {0, top} /\ word[p + 1].inuse
  BY <1>1 DEF HeldAre, InUse
<1>3. /\ word' = h.m /\ held' = [q \in DOMAIN held \ {p} |-> held[q]]
      /\ ret' = 0 /\ brk' = brk /\ quit' = quit
  BY DEF Free, Tagged, Header, blockHead
<1> HIDE DEF S, top
<1>4. /\ p \in Nat /\ size \in Nat /\ size >= 2 /\ b \in S
      /\ \A q \in S : q \in Nat /\ (p < q => b <= q)
  BY <1>1, <1>2, Block
<1>5. 0 < p /\ p < b /\ size = b - p
  BY <1>4, <1>2
<1>6. t \in Tag /\ t.size = size /\ ~ t.inuse
  <2>1. size \in 0..MemWords
    BY <1>1, <1>2, Headers
  <2> QED BY <2>1 DEF Tag, HEADER
<1> HIDE DEF size, b, t, g, h
<1>7. Retags(word, S, top, p, b, t)
  BY <1>1, <1>2, <1>4, <1>5, <1>6 DEF Retags
<1>8. Without(S, p, b) = S
  BY <1>4 DEF Without
<1>9. /\ Heap(g, S, top) /\ g[p + 1] = t
      /\ SameHeaders(word, g, S \ {p}) /\ SameBut(word, g, {p + 1, b})
  <2>1. /\ Heap(Tagged(word, p, b, t), Without(S, p, b), top)
        /\ Tagged(word, p, b, t)[p + 1] = t
        /\ SameHeaders(word, Tagged(word, p, b, t), Without(S, p, b) \ {p})
        /\ SameBut(word, Tagged(word, p, b, t), {p + 1, b})
    BY <1>7, Retag
  <2>2. g = Tagged(word, p, b, t)
    BY DEF g
  <2> QED BY ONLY <2>1, <2>2, <1>8
<1>10. ~ g[p + 1].inuse
  BY <1>6, <1>9
<1>11. MergedBut(g, S, top, p)
  <2> SUFFICES ASSUME NEW x \in S \ {top, p}, x + g[x + 1].size # p, ~ g[x + 1].inuse
               PROVE  g[x + g[x + 1].size + 1].inuse
    BY DEF MergedBut
  <2>1. g[x + 1] = word[x + 1]
    BY <1>9 DEF SameHeaders
  <2>2. x + word[x + 1].size \in S \ {p} /\ word[x + word[x + 1].size + 1].inuse
    BY <2>1, <1>1, Block DEF Merged
  <2> QED BY <2>1, <2>2, <1>9 DEF SameHeaders
<1>12. Merges(g, S, top, p, h)
  <2>1. h = Coalesce(g, p)
    BY DEF h
  <2> QED BY <2>1, <1>2, <1>9, <1>10, <1>11, CoalesceDoes
<1>13. PICK first \in S, last \in S, s \in SUBSET S :
    /\ Heap(h.m, s, top) /\ Merged(h.m, s, top)
    /\ first <= p /\ p < last
    /\ InUse(h.m, s, top) = InUse(g, S, top)
    /\ \A x \in InUse(g, S, top) :
         /\ h.m[x + 1] = g[x + 1]
         /\ x + g[x + 1].size <= first \/ last <= x
    /\ \A x \in Word \ (first+1..last) : h.m[x] = g[x]
  BY <1>12 DEF Merges
<1>14. /\ InUse(g, S, top) = InUse(word, S, top) \ {p}
       /\ \A x \in InUse(g, S, top) : g[x + 1] = word[x + 1]
  BY <1>2, <1>9, <1>10 DEF InUse, SameHeaders
<1>15. /\ DOMAIN held' = DOMAIN held \ {p} /\ DOMAIN held' = InUse(g, S, top)
       /\ \A x \in DOMAIN held' : held'[x] = held[x]
  BY <1>2, <1>3, <1>14
<1>16. HeapIs(word', s, top, held')
  <2>1. Even(s)
    BY <1>1 DEF Even
  <2>2. HeldAre(word', s, top, held')
    BY <1>1, <1>3, <1>13, <1>14, <1>15 DEF HeldAre
  <2> QED BY <1>1, <1>3, <1>13, <2>1, <2>2 DEF HeapIs
<1>17. IInv'
  <2>1. brk' \in Word /\ quit' \in BOOLEAN /\ ret' \in Word
    BY <1>3, AllocAssumption DEF IInv, Word
  <2>2. HeapIs(word', s, brk' - 2, held')
    BY <1>16, <1>3 DEF top
  <2> QED BY <2>1, <2>2, IInvIntroNext
<1>18. first \in Word /\ last \in Word /\ first \in Nat /\ last \in Nat
  BY <1>1, <1>4, Headers
<1>19. \A a \in Word \ (first+1..last) : word'[a] = word[a]
  <2> SUFFICES ASSUME NEW a \in Word \ (first+1..last) PROVE word'[a] = word[a]
    OBVIOUS
  <2>1. a \in Nat /\ a # p + 1 /\ a # b
    <3>1. a \in Nat
      BY AllocAssumption DEF Word
    <3>2. b <= last
      BY <1>4, <1>13
    <3> QED BY <3>1, <3>2, <1>4, <1>5, <1>13, <1>18
  <2> QED BY <2>1, <1>3, <1>9, <1>13 DEF SameBut
<1>20. Frees(p, first, last)
  BY <1>3, <1>13, <1>14, <1>15, <1>18, <1>19 DEF Frees
<1> QED BY <1>3, <1>17, <1>18, <1>20

-----------------------------------------------------------------------------

\* A step that makes no call that returns changes nothing but quit.
Ends == quit' \in BOOLEAN /\ UNCHANGED <<word, brk, held, ret>>

\* Every step: it keeps the invariant, it is one of the abstract allocator's, and it
\* ends the program only for want of memory.
LEMMA Steps ==
  ASSUME IInv, [Next]_vars, [ReturnsBlock]_vars
  PROVE  /\ IInv'
         /\ \/ \E n \in Sizes : \E p, hi \in Word : Hands(n, p, hi)
            \/ \E p \in DOMAIN held : \E lo, hi \in Word : Frees(p, lo, hi)
            \/ Ends
         /\ quit' # quit => \E n \in Sizes : OutOfMemory(n)
<1>1. ASSUME Ends PROVE IInv'
  <2>1. quit' \in BOOLEAN /\ word' = word /\ brk' = brk /\ held' = held /\ ret' = ret
    BY <1>1 DEF Ends
  <2> QED BY <2>1 DEF IInv
<1>2. ASSUME NEW n \in Sizes, MallocFit(n)
      PROVE  IInv' /\ quit' = quit /\ \E p, hi \in Word : Hands(n, p, hi)
  BY <1>2, MallocFitDoes
<1>3. ASSUME NEW n \in Sizes, MallocExtend(n)
      PROVE  IInv' /\ quit' = quit /\ \E p, hi \in Word : Hands(n, p, hi)
  <2>1. ReturnsBlock
    BY DEF ReturnsBlock, vars
  <2> QED BY <1>3, <2>1, MallocExtendDoes
<1>4. ASSUME NEW n \in Sizes, OutOfMemory(n)
      PROVE  Ends
  BY <1>4 DEF OutOfMemory, Ends
<1>5. ASSUME NEW p \in DOMAIN held, Free(p)
      PROVE  IInv' /\ quit' = quit /\ \E lo, hi \in Word : Frees(p, lo, hi)
  BY <1>5, FreeDoes
<1>6. ASSUME UNCHANGED vars
      PROVE  Ends /\ quit' = quit
  BY <1>6 DEF vars, Ends, IInv
<1>7. \/ \E n \in Sizes : MallocFit(n)
      \/ \E n \in Sizes : MallocExtend(n)
      \/ \E n \in Sizes : OutOfMemory(n)
      \/ \E p \in DOMAIN held : Free(p)
      \/ UNCHANGED vars
  BY DEF Next, Malloc, Exited
<1> QED BY <1>1, <1>2, <1>3, <1>4, <1>5, <1>6, <1>7

\* The invariant holds in every reachable state, whatever the size of memory and of
\* the requests.
THEOREM Invariance ==
  Spec /\ [][ReturnsBlock]_vars => []IInv
<1>1. Init => IInv
  BY InitIInv
<1>2. IInv /\ [Next]_vars /\ [ReturnsBlock]_vars => IInv'
  BY Steps
<1> QED BY <1>1, <1>2, PTL DEF Spec

\* Both boundary tags of every block agree, and the blocks fill the heap without gap
\* or overlap.
THEOREM TagsAgree ==
  Spec /\ [][ReturnsBlock]_vars => []BoundaryTagsAgree
<1>1. IInv => BoundaryTagsAgree
  <2> SUFFICES ASSUME IInv PROVE BoundaryTagsAgree
    OBVIOUS
  <2> DEFINE S == List(word)
  <2> DEFINE top == brk - 2
  <2>1. /\ Heap(word, S, top) /\ HeldAre(word, S, top, held)
        /\ DOMAIN held = InUse(word, S, top)
    BY DEF IInv, HeapIs, HeldAre
  <2>2. Blocks(word) = S \ {top}
    BY <2>1, BlocksAre
  <2>3. {p \in List(word) : Header(word, p) = EPILOG} = {brk - 2}
    <3>1. \A p \in S : word[p + 1] = EPILOG <=> p = top
      BY <2>1, Headers
    <3>2. top \in S
      BY <2>1 DEF Heap
    <3> QED BY <3>1, <3>2 DEF Header
  <2> HIDE DEF S, top
  <2>4. TypeOK
    <3>1. DOMAIN held \subseteq Word
      BY <2>1, Headers DEF InUse
    <3>2. word \in [Word -> [size : 0..MemWords, inuse : BOOLEAN]]
      BY <2>1 DEF Heap, Tag
    <3>3. \A p \in DOMAIN held : held[p] \in Sizes
      BY <2>1 DEF HeldAre
    <3> QED BY <3>1, <3>2, <3>3 DEF TypeOK, IInv
  <2>5. \A p \in Blocks(word) : word[NextBlock(word, p)] = Header(word, p)
    BY <2>1, <2>2 DEF Heap, NextBlock, Header
  <2>6. HeldInUse
    BY <2>1, <2>2 DEF HeldInUse, HeldAre, InUse, Header, blockHead
  <2> QED BY <2>3, <2>4, <2>5, <2>6 DEF BoundaryTagsAgree
<1> QED BY <1>1, Invariance, PTL

\* After every call no two free blocks are neighbours: Coalesce misses none.
THEOREM FreeBlocksMerged ==
  Spec /\ [][ReturnsBlock]_vars => []NoAdjacentFree
<1>1. IInv => NoAdjacentFree
  <2> SUFFICES ASSUME IInv PROVE NoAdjacentFree
    OBVIOUS
  <2>1. Heap(word, List(word), brk - 2) /\ Merged(word, List(word), brk - 2)
    BY DEF IInv, HeapIs
  <2>2. Blocks(word) = List(word) \ {brk - 2}
    BY <2>1, BlocksAre
  <2> QED BY <2>1, <2>2 DEF Merged, NoAdjacentFree, NextBlock, Header
<1> QED BY <1>1, Invariance, PTL

\* The client's blocks start after word 0 and have room for what was asked.
LEMMA HeldBlocks ==
  ASSUME IInv, NEW x \in DOMAIN held
  PROVE  /\ x \in Nat /\ held[x] \in Nat /\ word[x + 1].size \in Nat
         /\ held[x] + 2 <= word[x + 1].size
         /\ x + word[x + 1].size \in Word
<1>1. /\ Heap(word, List(word), brk - 2)
      /\ x \in List(word) \ {brk - 2}
      /\ held[x] \in Nat /\ word[x + 1].size >= held[x] + 2
  BY AllocAssumption DEF IInv, HeapIs, HeldAre, InUse
<1>2. x \in Nat /\ word[x + 1].size \in Nat /\ x + word[x + 1].size \in List(word)
  BY <1>1, Block
<1> QED BY <1>1, <1>2, Headers

\* No call writes a word that the client holds, its own block's while it is freed
\* excepted.
THEOREM PayloadKept ==
  Spec /\ [][ReturnsBlock]_vars => PayloadUntouched
<1> DEFINE Kept == \A p \in DOMAIN held \cap DOMAIN held', a \in Word :
                     a \in Payload(p) => word'[a] = word[a]
<1>1. IInv /\ [Next]_vars /\ [ReturnsBlock]_vars => [Kept]_vars
  <2> SUFFICES ASSUME IInv, [Next]_vars, [ReturnsBlock]_vars,
                      NEW p \in DOMAIN held, p \in DOMAIN held',
                      NEW a \in Word, a \in Payload(p)
               PROVE  word'[a] = word[a]
    OBVIOUS
  <2>1. /\ p \in Nat /\ held[p] \in Nat /\ word[p + 1].size \in Nat
        /\ held[p] + 2 <= word[p + 1].size
    BY HeldBlocks
  <2>2. a \in Nat /\ p + 2 <= a /\ a < p + word[p + 1].size
    BY <2>1 DEF Payload
  <2>3. CASE Ends
    BY <2>3 DEF Ends
  <2>4. ASSUME NEW n \in Sizes, NEW q \in Word, NEW hi \in Word, Hands(n, q, hi)
        PROVE  word'[a] = word[a]
    <3>1. /\ q \in Nat /\ hi \in Nat
          /\ p + word[p + 1].size <= q \/ hi <= p
          /\ a \notin q+1..hi => word'[a] = word[a]
      BY <2>4, AllocAssumption DEF Hands, Word
    <3>2. a \notin q+1..hi
      BY <3>1, <2>1, <2>2
    <3> QED BY <3>1, <3>2
  <2>5. ASSUME NEW q \in DOMAIN held, NEW lo \in Word, NEW hi \in Word, Frees(q, lo, hi)
        PROVE  word'[a] = word[a]
    <3>1. /\ lo \in Nat /\ hi \in Nat
          /\ p + word[p + 1].size <= lo \/ hi <= p
          /\ a \notin lo+1..hi => word'[a] = word[a]
      BY <2>5, AllocAssumption DEF Frees, Word
    <3>2. a \notin lo+1..hi
      BY <3>1, <2>1, <2>2
    <3> QED BY <3>1, <3>2
  <2> QED BY <2>3, <2>4, <2>5, Steps
<1> QED BY <1>1, Invariance, PTL DEF Spec, PayloadUntouched

\* The allocator gives up only when no free block fits and the heap cannot grow.
THEOREM ExitsWhenFull ==
  Spec /\ [][ReturnsBlock]_vars => [][quit' # quit => \E n \in Sizes : OutOfMemory(n)]_vars
<1>1. IInv /\ [Next]_vars /\ [ReturnsBlock]_vars => [quit' # quit => \E n \in Sizes : OutOfMemory(n)]_vars
  BY Steps
<1> QED BY <1>1, Invariance, PTL DEF Spec

-----------------------------------------------------------------------------

\* The regions of the blocks H in the words m.
Handed(m, H) == {<<x + 2, m[x + 1].size - 2>> : x \in H}

\* The client's regions are those of the blocks that are in use.
LEMMA RegionsAre ==
  ASSUME NEW m, NEW S, NEW top, NEW hd, HeapIs(m, S, top, hd), List(m) = S
  PROVE  {<<p + 2, Header(m, p).size - 2>> :
             p \in {q \in Blocks(m) \ {blockHead} : Header(m, q).inuse}}
         = Handed(m, DOMAIN hd)
<1>1. Heap(m, S, top) /\ DOMAIN hd = InUse(m, S, top)
  BY DEF HeapIs, HeldAre
<1>2. Blocks(m) = S \ {top}
  BY <1>1, BlocksAre
<1>3. {q \in Blocks(m) \ {blockHead} : Header(m, q).inuse} = DOMAIN hd
  BY <1>1, <1>2 DEF InUse, Header, blockHead
<1> QED BY <1>3 DEF Handed, Header

\* They are the regions of what it holds.
LEMMA RegionsHeld ==
  /\ IInv => Regions = Handed(word, DOMAIN held)
  /\ IInv' => Regions' = Handed(word', DOMAIN held')
<1>1. ASSUME IInv PROVE Regions = Handed(word, DOMAIN held)
  <2>1. HeapIs(word, List(word), brk - 2, held)
    BY <1>1 DEF IInv
  <2> QED BY <2>1, RegionsAre DEF Regions
<1>2. ASSUME IInv' PROVE Regions' = Handed(word', DOMAIN held')
  <2>1. HeapIs(word', List(word'), brk' - 2, held')
    BY <1>2 DEF IInv
  <2> QED BY <2>1, RegionsAre DEF Regions
<1> QED BY <1>1, <1>2

\* Two blocks whose regions start at the same word are one.
LEMMA SameRegion ==
  ASSUME NEW a \in Nat, NEW b \in Nat, NEW k, NEW l, <<a + 2, k>> = <<b + 2, l>>
  PROVE  a = b
OBVIOUS

\* A call of Malloc that returns is a Malloc of the abstract allocator.
LEMMA MallocImplements ==
  ASSUME IInv, IInv', NEW n \in Sizes, NEW p \in Word, NEW hi \in Word, Hands(n, p, hi)
  PROVE  Abstract!Malloc(n)
<1> DEFINE size == word'[p + 1].size
<1> DEFINE new == <<p + 2, size - 2>>
<1> USE AllocAssumption
<1>1. /\ p \in Nat /\ 0 < p /\ hi \in Nat /\ n \in Nat /\ size \in Nat
      /\ p \notin DOMAIN held /\ DOMAIN held' = DOMAIN held \cup {p}
      /\ size >= n + 2 /\ p + size <= hi
  <2>1. word'[p + 1].size \in Nat
    <3>1. HeapIs(word', List(word'), brk' - 2, held') /\ p \in DOMAIN held'
      BY DEF IInv, Hands
    <3>2. Heap(word', List(word'), brk' - 2) /\ p \in List(word') \ {brk' - 2}
      BY <3>1 DEF HeapIs, HeldAre, InUse
    <3> QED BY <3>2, Block
  <2> QED BY <2>1 DEF Hands, Word
<1>2. \A x \in DOMAIN held :
        /\ word'[x + 1] = word[x + 1]
        /\ x + word[x + 1].size <= p \/ hi <= x
  BY DEF Hands
<1>3. /\ Regions = Handed(word, DOMAIN held)
      /\ Regions' = Handed(word', DOMAIN held')
  BY RegionsHeld
<1> HIDE DEF size
<1>4. Handed(word', DOMAIN held') = Handed(word, DOMAIN held) \cup {new}
  <2>1. Handed(word', DOMAIN held) = Handed(word, DOMAIN held)
    BY <1>2 DEF Handed
  <2>2. Handed(word', DOMAIN held') = Handed(word', DOMAIN held) \cup {new}
    BY <1>1 DEF Handed, size
  <2> QED BY <2>1, <2>2
<1>5. new \notin Handed(word, DOMAIN held)
  <2> SUFFICES ASSUME NEW x \in DOMAIN held, <<x + 2, word[x + 1].size - 2>> = new
               PROVE  FALSE
    BY DEF Handed
  <2>1. x \in Nat
    BY HeldBlocks
  <2>2. x = p
    BY <2>1, <1>1, SameRegion
  <2> QED BY <2>2, <1>1
<1>6. new[1] = p + 2 /\ new[2] = size - 2
  OBVIOUS
<1> HIDE DEF new
<1>7. new[2] >= n
  BY <1>1, <1>6
<1>8. Abstract!Region(new) = p+2..p+size-1
  BY <1>1, <1>6 DEF Abstract!Region
<1>9. Abstract!Region(new) \subseteq Word
  BY <1>1, <1>8 DEF Word
<1>10. \A r \in Handed(word, DOMAIN held) : Abstract!Region(r) \cap Abstract!Region(new) = {}
  <2> SUFFICES ASSUME NEW x \in DOMAIN held
               PROVE  Abstract!Region(<<x + 2, word[x + 1].size - 2>>)
                        \cap Abstract!Region(new) = {}
    BY DEF Handed
  <2>1. x \in Nat /\ word[x + 1].size \in Nat
    BY HeldBlocks
  <2>2. Abstract!Region(<<x + 2, word[x + 1].size - 2>>) = x+2..x+word[x + 1].size-1
    BY <2>1 DEF Abstract!Region
  <2> QED BY <2>1, <2>2, <1>1, <1>2, <1>8
<1> QED BY <1>3, <1>4, <1>5, <1>7, <1>9, <1>10 DEF Abstract!Malloc

\* A call of Free is a Free of the abstract allocator.
LEMMA FreeImplements ==
  ASSUME IInv, IInv', NEW p \in DOMAIN held, NEW lo \in Word, NEW hi \in Word,
         Frees(p, lo, hi)
  PROVE  \E r \in Regions : Abstract!Free(r)
<1> DEFINE r == <<p + 2, word[p + 1].size - 2>>
<1>1. /\ Regions = Handed(word, DOMAIN held)
      /\ Regions' = Handed(word', DOMAIN held')
  BY RegionsHeld
<1>2. /\ DOMAIN held' = DOMAIN held \ {p}
      /\ \A x \in DOMAIN held' : word'[x + 1] = word[x + 1]
  BY DEF Frees
<1>3. \A x \in DOMAIN held' : <<x + 2, word[x + 1].size - 2>> # r
  <2> SUFFICES ASSUME NEW x \in DOMAIN held', <<x + 2, word[x + 1].size - 2>> = r
               PROVE  FALSE
    OBVIOUS
  <2>1. x \in Nat /\ p \in Nat
    BY HeldBlocks, <1>2
  <2>2. x = p
    BY <2>1, SameRegion
  <2> QED BY <2>2, <1>2
<1> HIDE DEF r
<1>4. Handed(word', DOMAIN held') = Handed(word, DOMAIN held')
  BY <1>2 DEF Handed
<1>5. Handed(word, DOMAIN held') = Handed(word, DOMAIN held) \ {r}
  <2>1. Handed(word, DOMAIN held) = Handed(word, DOMAIN held') \cup {r}
    BY <1>2 DEF Handed, r
  <2>2. r \notin Handed(word, DOMAIN held')
    BY <1>3 DEF Handed
  <2> QED BY <2>1, <2>2
<1>6. r \in Regions
  BY <1>1 DEF Handed, r
<1> QED BY <1>1, <1>4, <1>5, <1>6 DEF Abstract!Free

\* The allocator implements the abstract one: its regions never overlap, Malloc adds
\* one of at least the size asked for, Free removes exactly the one named.
THEOREM Implementation ==
  Spec /\ [][ReturnsBlock]_vars => ImplementsAllocator
<1>1. Init => Abstract!Init
  <2> SUFFICES ASSUME Init PROVE Regions = {}
    BY DEF Abstract!Init
  <2>1. IInv /\ DOMAIN held = {}
    BY InitIInv DEF Init
  <2> QED BY <2>1, RegionsHeld DEF Handed
<1>2. IInv /\ IInv' /\ [Next]_vars /\ [ReturnsBlock]_vars => [Abstract!Next]_Regions
  <2> SUFFICES ASSUME IInv, IInv', [Next]_vars, [ReturnsBlock]_vars PROVE [Abstract!Next]_Regions
    OBVIOUS
  <2>1. CASE Ends
    BY <2>1, RegionsHeld DEF Ends
  <2>2. ASSUME NEW n \in Sizes, NEW p \in Word, NEW hi \in Word, Hands(n, p, hi)
        PROVE  Abstract!Next
    BY <2>2, MallocImplements DEF Abstract!Next
  <2>3. ASSUME NEW p \in DOMAIN held, NEW lo \in Word, NEW hi \in Word, Frees(p, lo, hi)
        PROVE  Abstract!Next
    BY <2>3, FreeImplements DEF Abstract!Next
  <2> QED BY <2>1, <2>2, <2>3, Steps
<1> QED BY <1>1, <1>2, Invariance, PTL DEF Spec, ImplementsAllocator, Abstract!Spec
=============================================================================
