---------------------------- MODULE ExercisesProofs ----------------------------
(***************************************************************************)
(* Proofs about the five small programs that share no definition:          *)
(*   - philosophers.c: types, the sticks and the semaphores, no circular   *)
(*     wait, for any number of philosophers and meals;                     *)
(*   - linkedlist.c: the two rings stay whole and apart, and reverse gives *)
(*     the word backwards and every node back;                             *)
(*   - printbin.c: the digits printed are those of the number;             *)
(*   - shell_base (1).c: which program a search runs, and which children   *)
(*     still run when the next line is read;                               *)
(*   - parse_expr.c: the code computes the value of the expression.       *)
(* The first lemmas are about numbers and recursive functions; the         *)
(* programs' parts rest on them and on nothing of each other.              *)
(***************************************************************************)
EXTENDS Philosophers, ParseExpr, LinkedList, PrintBin, ShellBase, FiniteSets,
        FiniteSetTheorems, FunctionTheorems, WellFoundedInduction, SequenceTheorems, TLAPS

\* A set of naturals that is not empty has a least element.
LEMMA Least ==
  ASSUME NEW T \in SUBSET Nat, T # {}
  PROVE  \E t \in T : \A u \in T : t <= u
<1>1. PICK t \in T : \A u \in T : ~ (<<u, t>> \in OpToRel(<, Nat))
  BY NatLessThanWellFounded, WFMin
<1>2. \A u \in T : u < t => <<u, t>> \in OpToRel(<, Nat)
  BY DEF OpToRel
<1>3. \A u \in T : u \in Nat /\ t \in Nat /\ ~ (u < t)
  BY <1>1, <1>2
<1>4. \A u \in T : t <= u
  BY <1>3
<1> QED BY <1>4

\* Induction, stated of a set: one that holds 0 and every successor of its members
\* holds every natural number.
LEMMA Induction ==
  ASSUME NEW T, 0 \in T, \A k \in Nat : k \in T => k + 1 \in T
  PROVE  Nat \subseteq T
<1> SUFFICES ASSUME Nat \ T # {} PROVE FALSE
  OBVIOUS
<1>1. PICK t \in Nat \ T : \A u \in Nat \ T : t <= u
  BY Least
<1>2. t # 0 /\ t - 1 \in Nat
  OBVIOUS
<1>3. t - 1 \in T
  BY <1>1, <1>2
<1> QED BY <1>2, <1>3

\* A function on 0..m can be defined by recursion.
Recursive(A, F, a0, m) ==
  F \in [Nat \X A -> A] /\ a0 \in A /\ m \in Nat

\* f is the function that the recursion defines.
Defined(f, A, F, a0, m) ==
  f \in [0..m -> A] /\ f[0] = a0 /\ \A k \in 1..m : f[k] = F[<<k, f[k - 1]>>]

\* Such a function exists.
LEMMA Recursion ==
  ASSUME NEW A, NEW F, NEW a0, NEW m, Recursive(A, F, a0, m)
  PROVE  \E f : Defined(f, A, F, a0, m)
<1> USE DEF Recursive
<1> DEFINE Runs(k) == {f \in [0..k -> A] :
                         f[0] = a0 /\ \A j \in 1..k : f[j] = F[<<j, f[j - 1]>>]}
<1> DEFINE T == {k \in Nat : Runs(k) # {}}
<1>1. 0 \in T
  <2>1. [j \in 0..0 |-> a0] \in Runs(0)
    OBVIOUS
  <2> QED BY <2>1
<1>2. ASSUME NEW k \in Nat, k \in T PROVE k + 1 \in T
  <2>1. PICK f \in Runs(k) : TRUE
    BY <1>2
  <2> DEFINE g == [j \in 0..k+1 |-> IF j = k + 1 THEN F[<<k + 1, f[k]>>] ELSE f[j]]
  <2>2. g \in [0..k+1 -> A] /\ g[0] = a0
    OBVIOUS
  <2>3. ASSUME NEW j \in 1..k+1 PROVE g[j] = F[<<j, g[j - 1]>>]
    <3>1. CASE j = k + 1
      <4>1. g[j] = F[<<k + 1, f[k]>>] /\ g[j - 1] = f[k]
        BY <3>1
      <4> QED BY <4>1, <3>1
    <3>2. CASE j # k + 1
      <4>1. j \in 1..k /\ j \in 0..k+1 /\ j - 1 \in 0..k+1 /\ j - 1 # k + 1
        BY <3>2
      <4>2. f[j] = F[<<j, f[j - 1]>>]
        BY <4>1, <2>1
      <4> QED BY <4>1, <4>2, <3>2
    <3> QED BY <3>1, <3>2
  <2>4. g \in Runs(k + 1)
    BY <2>2, <2>3
  <2>5. Runs(k + 1) # {} /\ k + 1 \in Nat
    <3> HIDE DEF Runs
    <3> QED BY <2>4
  <2> QED BY <2>5
<1>3. m \in T
  <2> HIDE DEF T
  <2> QED BY <1>1, <1>2, Induction
<1> QED BY <1>3 DEF Defined

-----------------------------------------------------------------------------

\* The two sticks of a philosopher are different sticks of the table, and the
\* first one taken is the lower of the two.
LEMMA Hands ==
  ASSUME NEW p \in Phil
  PROVE  /\ Left(p) \in Stick /\ Right(p) \in Stick /\ Left(p) # Right(p)
         /\ First(p) \in Stick /\ Second(p) \in Stick /\ First(p) < Second(p)
         /\ {First(p), Second(p)} = {Left(p), Right(p)}
<1>1. Right(p) = IF p + 1 = N THEN 0 ELSE p + 1
  BY NAssumption DEF Phil, Right
<1>2. Left(p) \in Stick /\ Right(p) \in Stick /\ Left(p) # Right(p)
  BY <1>1, NAssumption DEF Phil, Stick, Left
<1>3. \/ First(p) = Left(p) /\ Second(p) = Right(p) /\ Left(p) < Right(p)
      \/ First(p) = Right(p) /\ Second(p) = Left(p) /\ Right(p) < Left(p)
  BY <1>2, NAssumption DEF First, Second, Order, Stick
<1> QED BY <1>2, <1>3

-----------------------------------------------------------------------------

\* A thread still in its loop has meals left.
MealsLeft ==
  \A p \in Phil : pc[p] # "done" => meals[p] < Rounds

\* What main has joined: the threads below mainI, then all of them.
Joined ==
  /\ mainPc = "join" => \A p \in 0..mainI-1 : pc[p] = "done"
  /\ mainPc \in {"destroy", "exit"} => \A p \in Phil : pc[p] = "done"

\* The inductive invariant.  TypeOK needs StickAccounted (a semaphore that is
\* posted was 0), which needs NoSharedStick (nobody else holds that stick).
TableInv == TypeOK /\ NoSharedStick /\ StickAccounted /\ MealsLeft /\ Joined

\* The table before main has run.
LEMMA InitTableInv == Init => TableInv
<1> SUFFICES ASSUME Init PROVE TableInv
  OBVIOUS
<1> USE NAssumption, RoundsAssumption
<1>1. \A p \in Phil : Holds(p) = {}
  BY DEF Init, Holds
<1>2. TypeOK
  BY DEF Init, TypeOK, Stick, Phil, Locations
<1>3. NoSharedStick /\ StickAccounted
  BY <1>1 DEF Init, NoSharedStick, StickAccounted
<1>4. MealsLeft /\ Joined
  BY DEF Init, MealsLeft, Joined
<1> QED BY <1>2, <1>3, <1>4 DEF TableInv

\* What a step does to the hands and the semaphores, for the four kinds of
\* step of a thread: the others' hands stay as they are.
LEMMA OthersHold ==
  ASSUME TypeOK, NEW p \in Phil, NEW to \in Locations,
         pc' = [pc EXCEPT ![p] = to]
  PROVE  /\ \A q \in Phil \ {p} : Holds(q)' = Holds(q)
         /\ pc' \in [Phil -> Locations]
         /\ pc'[p] = to
         /\ \A q \in Phil \ {p} : pc'[q] = pc[q]
BY DEF TypeOK, Holds

\* Taking a stick whose semaphore is positive keeps hands and semaphores in
\* agreement.
LEMMA TakeKeeps ==
  ASSUME TableInv, NEW p \in Phil, NEW s \in Stick, SemWait(s),
         \A q \in Phil \ {p} : Holds(q)' = Holds(q),
         Holds(p)' = Holds(p) \cup {s}
  PROVE  NoSharedStick' /\ StickAccounted' /\ stick' \in [Stick -> 0..1]
<1>0. stick[s] \in 0..1 /\ stick[s] > 0
  BY DEF SemWait, TableInv, TypeOK
<1>1. stick[s] = 1 /\ stick' = [stick EXCEPT ![s] = 0]
  <2>1. stick[s] = 1
    BY <1>0
  <2> QED BY <2>1 DEF SemWait
<1>2. \A q \in Phil : s \notin Holds(q)
  BY <1>1 DEF TableInv, StickAccounted
<1>3. NoSharedStick'
  BY <1>2 DEF NoSharedStick, TableInv
<1>4. StickAccounted'
  <2> SUFFICES ASSUME NEW t \in Stick
               PROVE  stick'[t] = IF \E q \in Phil : t \in Holds(q)' THEN 0 ELSE 1
    BY DEF StickAccounted
  <2>1. CASE t = s
    BY <2>1, <1>1 DEF TableInv, TypeOK
  <2>2. CASE t # s
    <3>1. stick'[t] = stick[t]
      BY <2>2, <1>1 DEF TableInv, TypeOK
    <3>2. \A q \in Phil : t \in Holds(q)' <=> t \in Holds(q)
      BY <2>2
    <3> QED BY <3>1, <3>2 DEF TableInv, StickAccounted
  <2> QED BY <2>1, <2>2
<1> QED BY <1>1, <1>3, <1>4 DEF TableInv, TypeOK

\* Putting down a stick that is held keeps them in agreement as well.
LEMMA PutKeeps ==
  ASSUME TableInv, NEW p \in Phil, NEW s \in Stick, SemPost(s), s \in Holds(p),
         \A q \in Phil \ {p} : Holds(q)' = Holds(q),
         Holds(p)' = Holds(p) \ {s}
  PROVE  NoSharedStick' /\ StickAccounted' /\ stick' \in [Stick -> 0..1]
<1>1. stick[s] = 0 /\ stick' = [stick EXCEPT ![s] = 1]
  <2>1. stick[s] = 0
    BY DEF TableInv, StickAccounted
  <2> QED BY <2>1 DEF SemPost
<1>2. \A q \in Phil : s \notin Holds(q)'
  BY DEF TableInv, NoSharedStick
<1>3. NoSharedStick'
  BY DEF NoSharedStick, TableInv
<1>4. StickAccounted'
  <2> SUFFICES ASSUME NEW t \in Stick
               PROVE  stick'[t] = IF \E q \in Phil : t \in Holds(q)' THEN 0 ELSE 1
    BY DEF StickAccounted
  <2>1. CASE t = s
    BY <2>1, <1>1, <1>2 DEF TableInv, TypeOK
  <2>2. CASE t # s
    <3>1. stick'[t] = stick[t]
      BY <2>2, <1>1 DEF TableInv, TypeOK
    <3>2. \A q \in Phil : t \in Holds(q)' <=> t \in Holds(q)
      BY <2>2
    <3> QED BY <3>1, <3>2 DEF TableInv, StickAccounted
  <2> QED BY <2>1, <2>2
<1> QED BY <1>1, <1>3, <1>4 DEF TableInv, TypeOK

\* A step of main leaves hands and semaphores alone.
LEMMA MainKeepsHands ==
  ASSUME TableInv, stick' = stick, \A q \in Phil : Holds(q)' = Holds(q)
  PROVE  NoSharedStick' /\ StickAccounted' /\ stick' \in [Stick -> 0..1]
BY DEF TableInv, TypeOK, NoSharedStick, StickAccounted

-----------------------------------------------------------------------------

\* A step of a philosopher keeps the invariant.
LEMMA ThreadKeepsTableInv ==
  ASSUME TableInv, NEW p \in Phil, Thread(p)
  PROVE  TableInv'
<1> USE NAssumption, RoundsAssumption
<1>h. /\ Left(p) \in Stick /\ Right(p) \in Stick /\ Left(p) # Right(p)
      /\ First(p) \in Stick /\ Second(p) \in Stick /\ First(p) # Second(p)
      /\ {First(p), Second(p)} = {Left(p), Right(p)}
  BY Hands DEF Stick
<1>1. CASE TakeFirst(p)
  <2>1. pc[p] = "hungry" /\ pc' = [pc EXCEPT ![p] = "hasFirst"]
    BY <1>1 DEF TakeFirst, Goto
  <2>2. /\ \A q \in Phil \ {p} : Holds(q)' = Holds(q) /\ pc'[q] = pc[q]
        /\ pc' \in [Phil -> Locations] /\ pc'[p] = "hasFirst"
    BY <2>1, OthersHold DEF TableInv, Locations
  <2>3. Holds(p)' = Holds(p) \cup {First(p)}
    BY <2>1, <2>2 DEF Holds, First, Order
  <2>4. NoSharedStick' /\ StickAccounted' /\ stick' \in [Stick -> 0..1]
    BY <1>1, <1>h, <2>2, <2>3, TakeKeeps DEF TakeFirst
  <2>5. meals' = meals /\ mainPc' = mainPc /\ mainI' = mainI
    BY <1>1 DEF TakeFirst
  <2>6. MealsLeft'
    BY <2>1, <2>2, <2>5 DEF TableInv, MealsLeft
  <2>7. Joined'
    BY <2>1, <2>2, <2>5 DEF TableInv, TypeOK, Joined, Phil
  <2>8. TypeOK'
    BY <2>2, <2>4, <2>5 DEF TableInv, TypeOK
  <2> QED BY <2>4, <2>6, <2>7, <2>8 DEF TableInv
<1>2. CASE TakeSecond(p)
  <2>1. pc[p] = "hasFirst" /\ pc' = [pc EXCEPT ![p] = "eating"]
    BY <1>2 DEF TakeSecond, Goto
  <2>2. /\ \A q \in Phil \ {p} : Holds(q)' = Holds(q) /\ pc'[q] = pc[q]
        /\ pc' \in [Phil -> Locations] /\ pc'[p] = "eating"
    BY <2>1, OthersHold DEF TableInv, Locations
  <2>3. Holds(p)' = Holds(p) \cup {Second(p)}
    <3>1. Holds(p) = {First(p)}
      BY <2>1 DEF Holds
    <3>2. Holds(p)' = {Left(p), Right(p)}
      BY <2>2 DEF Holds, Left, Right
    <3> QED BY <3>1, <3>2, <1>h
  <2>4. NoSharedStick' /\ StickAccounted' /\ stick' \in [Stick -> 0..1]
    BY <1>2, <1>h, <2>2, <2>3, TakeKeeps DEF TakeSecond
  <2>5. meals' = meals /\ mainPc' = mainPc /\ mainI' = mainI
    BY <1>2 DEF TakeSecond
  <2>6. MealsLeft'
    BY <2>1, <2>2, <2>5 DEF TableInv, MealsLeft
  <2>7. Joined'
    BY <2>1, <2>2, <2>5 DEF TableInv, TypeOK, Joined, Phil
  <2>8. TypeOK'
    BY <2>2, <2>4, <2>5 DEF TableInv, TypeOK
  <2> QED BY <2>4, <2>6, <2>7, <2>8 DEF TableInv
<1>3. CASE PutLeft(p)
  <2>1. pc[p] = "eating" /\ pc' = [pc EXCEPT ![p] = "hasRight"]
    BY <1>3 DEF PutLeft, Goto
  <2>2. /\ \A q \in Phil \ {p} : Holds(q)' = Holds(q) /\ pc'[q] = pc[q]
        /\ pc' \in [Phil -> Locations] /\ pc'[p] = "hasRight"
    BY <2>1, OthersHold DEF TableInv, Locations
  <2>3. Holds(p)' = Holds(p) \ {Left(p)} /\ Left(p) \in Holds(p)
    BY <1>h, <2>1, <2>2 DEF Holds, Left, Right
  <2>4. NoSharedStick' /\ StickAccounted' /\ stick' \in [Stick -> 0..1]
    BY <1>3, <1>h, <2>2, <2>3, PutKeeps DEF PutLeft
  <2>5. meals' = meals /\ mainPc' = mainPc /\ mainI' = mainI
    BY <1>3 DEF PutLeft
  <2>6. MealsLeft'
    BY <2>1, <2>2, <2>5 DEF TableInv, MealsLeft
  <2>7. Joined'
    BY <2>1, <2>2, <2>5 DEF TableInv, TypeOK, Joined, Phil
  <2>8. TypeOK'
    BY <2>2, <2>4, <2>5 DEF TableInv, TypeOK
  <2> QED BY <2>4, <2>6, <2>7, <2>8 DEF TableInv
<1>4. CASE PutRight(p)
  <2> DEFINE to == IF meals[p] + 1 < Rounds THEN "hungry" ELSE "done"
  <2>1. pc[p] = "hasRight" /\ pc' = [pc EXCEPT ![p] = to]
    BY <1>4 DEF PutRight, Goto
  <2>2. /\ \A q \in Phil \ {p} : Holds(q)' = Holds(q) /\ pc'[q] = pc[q]
        /\ pc' \in [Phil -> Locations] /\ pc'[p] = to
    BY <2>1, OthersHold DEF TableInv, Locations
  <2>3. Holds(p)' = Holds(p) \ {Right(p)} /\ Right(p) \in Holds(p)
    BY <1>h, <2>1, <2>2 DEF Holds, Left, Right
  <2>4. NoSharedStick' /\ StickAccounted' /\ stick' \in [Stick -> 0..1]
    BY <1>4, <1>h, <2>2, <2>3, PutKeeps DEF PutRight
  <2>5. meals[p] \in 0..Rounds /\ meals[p] < Rounds
    BY <2>1 DEF TableInv, TypeOK, MealsLeft
  <2>6. meals' = [meals EXCEPT ![p] = meals[p] + 1] /\ mainPc' = mainPc /\ mainI' = mainI
    BY <1>4 DEF PutRight
  <2>7. MealsLeft' /\ meals' \in [Phil -> 0..Rounds]
    BY <2>2, <2>5, <2>6 DEF TableInv, TypeOK, MealsLeft
  <2>8. Joined'
    <3>1. mainI \in Phil /\ \A q \in 0 .. mainI - 1 : q \in Phil
      BY DEF TableInv, TypeOK, Phil
    <3>2. \A q \in Phil : pc[q] = "done" => pc'[q] = "done"
      BY <2>1, <2>2
    <3> QED BY <2>6, <3>1, <3>2 DEF TableInv, Joined
  <2> QED BY <2>2, <2>4, <2>6, <2>7, <2>8 DEF TableInv, TypeOK
<1> QED BY <1>1, <1>2, <1>3, <1>4 DEF Thread

\* A step of main keeps it.
LEMMA MainKeepsTableInv ==
  ASSUME TableInv, Main
  PROVE  TableInv'
<1> USE NAssumption, RoundsAssumption
<1>1. CASE CreateThread
  <2>1. PICK m \in Phil : m = mainI
    BY DEF TableInv, TypeOK, Phil
  <2>2. pc[m] = "unborn" /\ pc' = [pc EXCEPT ![m] = "hungry"]
    BY <1>1, <2>1 DEF CreateThread, Goto
  <2>3. /\ \A q \in Phil \ {m} : Holds(q)' = Holds(q) /\ pc'[q] = pc[q]
        /\ pc' \in [Phil -> Locations] /\ pc'[m] = "hungry"
    BY <2>1, <2>2, OthersHold DEF TableInv, Locations
  <2>4. Holds(m)' = Holds(m)
    BY <2>2, <2>3 DEF Holds
  <2>5. NoSharedStick' /\ StickAccounted' /\ stick' \in [Stick -> 0..1]
    BY <1>1, <2>3, <2>4, MainKeepsHands DEF CreateThread
  <2>6. MealsLeft' /\ meals' = meals
    BY <1>1, <2>1, <2>2, <2>3 DEF CreateThread, TableInv, MealsLeft
  <2>7. /\ mainI' \in 0..N-1 /\ mainPc' \in {"create", "join"}
        /\ mainPc' = "join" => mainI' = 0
    BY <1>1, <2>1 DEF CreateThread, MainLoop, Phil
  <2>8. Joined'
    <3>1. 0..0-1 = {}
      OBVIOUS
    <3> QED BY <2>7, <3>1 DEF Joined
  <2> QED BY <2>3, <2>5, <2>6, <2>7, <2>8 DEF TableInv, TypeOK
<1>2. CASE JoinThread
  <2>1. UNCHANGED <<stick, pc, meals>>
    BY <1>2 DEF JoinThread
  <2>2. /\ \A q \in Phil : Holds(q)' = Holds(q)
        /\ MealsLeft'
    BY <2>1 DEF Holds, MealsLeft, TableInv
  <2>3. NoSharedStick' /\ StickAccounted' /\ stick' \in [Stick -> 0..1]
    BY <2>1, <2>2, MainKeepsHands
  <2>4. mainI \in Phil /\ mainPc = "join" /\ \A q \in 0..mainI : pc[q] = "done"
    BY <1>2 DEF JoinThread, MainLoop, TableInv, TypeOK, Joined, Phil
  <2>5. \/ mainI' = mainI + 1 /\ mainI + 1 < N /\ mainPc' = "join"
        \/ mainI' = 0 /\ mainI = N - 1 /\ mainPc' = "destroy"
    BY <1>2, <2>4 DEF JoinThread, MainLoop, Phil
  <2>6. Joined'
    BY <2>1, <2>4, <2>5 DEF Joined, Phil
  <2> QED BY <2>1, <2>2, <2>3, <2>4, <2>5, <2>6 DEF TableInv, TypeOK, Phil
<1>3. CASE DestroyStick
  <2>1. UNCHANGED <<stick, pc, meals>>
    BY <1>3 DEF DestroyStick
  <2>2. /\ \A q \in Phil : Holds(q)' = Holds(q)
        /\ MealsLeft'
    BY <2>1 DEF Holds, MealsLeft, TableInv
  <2>3. NoSharedStick' /\ StickAccounted' /\ stick' \in [Stick -> 0..1]
    BY <2>1, <2>2, MainKeepsHands
  <2>4. mainPc = "destroy" /\ mainPc' \in {"destroy", "exit"} /\ mainI' \in 0..N-1
    BY <1>3 DEF DestroyStick, MainLoop, TableInv, TypeOK
  <2>5. Joined'
    BY <2>1, <2>4 DEF Joined, TableInv
  <2> QED BY <2>1, <2>2, <2>3, <2>4, <2>5 DEF TableInv, TypeOK
<1> QED BY <1>1, <1>2, <1>3 DEF Main

\* So does every step.
LEMMA NextKeepsTableInv == TableInv /\ [Next]_vars => TableInv'
<1> SUFFICES ASSUME TableInv, [Next]_vars PROVE TableInv'
  OBVIOUS
<1>1. CASE UNCHANGED vars
  BY <1>1 DEF vars, TableInv, TypeOK, NoSharedStick, StickAccounted, MealsLeft,
              Joined, Holds
<1>2. CASE Main
  BY <1>2, MainKeepsTableInv
<1>3. CASE \E p \in Phil : Thread(p)
  BY <1>3, ThreadKeepsTableInv
<1> QED BY <1>1, <1>2, <1>3 DEF Next, Exited

\* TableInv holds in every reachable state.
THEOREM TableInvariance == Spec => []TableInv
BY InitTableInv, NextKeepsTableInv, PTL DEF Spec

\* The type invariant holds for every N and Rounds.
THEOREM TypeCorrect == Spec => []TypeOK
BY TableInvariance, PTL DEF TableInv

\* No stick is ever in two hands, at tables of every size.
THEOREM SticksNotShared == Spec => []NoSharedStick
BY TableInvariance, PTL DEF TableInv

\* Every semaphore is 0 exactly while its stick is held.
THEOREM SemaphoresAccount == Spec => []StickAccounted
BY TableInvariance, PTL DEF TableInv

\* No stick is destroyed while a thread can still use it.
THEOREM DestroyedLast == Spec => []NoUseAfterDestroy
<1>1. TableInv => NoUseAfterDestroy
  BY DEF TableInv, Joined, NoUseAfterDestroy, Destroyed
<1> QED BY <1>1, TableInvariance, PTL

-----------------------------------------------------------------------------

\* A set of sticks in which every stick has a higher one is empty.
LEMMA HighestStick ==
  ASSUME NEW T \in SUBSET Stick,
         \A s \in T : \E t \in T : t > s
  PROVE  T = {}
<1> SUFFICES ASSUME T # {} PROVE FALSE
  OBVIOUS
<1> DEFINE D == {N - 1 - s : s \in T}
<1>1. D \in SUBSET Nat /\ D # {}
  <2>1. \A s \in T : N - 1 - s \in Nat
    BY NAssumption DEF Stick
  <2> QED BY <2>1
<1>2. PICK d \in D : \A e \in D : ~ (<<e, d>> \in OpToRel(<, Nat))
  <2> HIDE DEF D
  <2> QED BY <1>1, NatLessThanWellFounded, WFMin
<1>3. PICK s \in T : d = N - 1 - s
  OBVIOUS
<1>4. PICK t \in T : t > s
  OBVIOUS
<1>5. N - 1 - t \in D /\ N - 1 - t < d /\ N - 1 - t \in Nat /\ d \in Nat
  BY <1>3, <1>4, NAssumption DEF Stick
<1>6. <<N - 1 - t, d>> \in OpToRel(<, Nat)
  BY <1>5 DEF OpToRel
<1> QED BY <1>2, <1>5, <1>6

\* Every taken stick of a stuck table is the first stick of a philosopher who
\* waits for a higher one, itself taken: there would be no highest taken stick.
LEMMA OrderPreventsCircularWait == TableInv => NoCircularWait
<1> SUFFICES ASSUME TableInv, \A q \in Phil : ~ CanStep(q),
                    NEW p \in Phil, pc[p] \notin {"unborn", "done"}
             PROVE  FALSE
  BY DEF NoCircularWait
<1> DEFINE Taken == {s \in Stick : stick[s] = 0}
<1>1. \A s \in Stick : stick[s] > 0 \/ stick[s] = 0
  BY DEF TableInv, TypeOK
<1>2. ASSUME NEW s \in Taken
      PROVE  \E t \in Taken : t > s
  <2>1. PICK q \in Phil : s \in Holds(q)
    BY DEF TableInv, StickAccounted
  <2>2. pc[q] = "hasFirst"
    BY <2>1 DEF CanStep, Holds
  <2>3. s = First(q)
    BY <2>1, <2>2 DEF Holds
  <2>4. stick[Second(q)] = 0
    BY <1>1, <2>2, Hands DEF CanStep
  <2> QED BY <2>3, <2>4, Hands
<1>3. Taken = {}
  <2>1. Taken \in SUBSET Stick
    OBVIOUS
  <2> HIDE DEF Taken
  <2> QED BY <1>2, <2>1, HighestStick
<1>4. pc[p] \in {"hungry", "hasFirst"}
  BY DEF CanStep, TableInv, TypeOK, Locations
<1>5. stick[First(p)] = 0 \/ stick[Second(p)] = 0
  BY <1>1, <1>4, Hands DEF CanStep
<1> QED BY <1>3, <1>5, Hands

\* However many sit at the table, they never wait for each other in a circle.
THEOREM DeadlockFree == Spec => []NoCircularWait
BY OrderPreventsCircularWait, TableInvariance, PTL

-----------------------------------------------------------------------------

\* The heads of the two rings.
RingHead == {free_head, stackHead}

\* next and prev are inverse on the elements that are linked.
WellLinked(nx, pv) ==
  /\ nx \in [Elem -> Elem \cup {NULL}] /\ pv \in [Elem -> Elem \cup {NULL}]
  /\ \A x \in Elem : nx[x] = NULL <=> pv[x] = NULL
  /\ \A x \in Elem : nx[x] # NULL => pv[nx[x]] = x /\ nx[pv[x]] = x

\* The two rings: no link leads from one to the other.
Apart(nx, ring) ==
  /\ ring \in [Elem -> RingHead]
  /\ ring[free_head] = free_head /\ ring[stackHead] = stackHead
  /\ \A x \in Elem : nx[x] # NULL => ring[nx[x]] = ring[x]

\* nx2 and pv2 are nx and pv with x put in after a, or with x taken out.
PutAfter(nx, pv, a, x, nx2, pv2) ==
  /\ nx2 = [nx EXCEPT ![x] = nx[a], ![a] = x]
  /\ pv2 = [pv EXCEPT ![x] = a, ![nx[a]] = x]

\* x has been taken out from between its neighbours.
Without(nx, pv, x, nx2, pv2) ==
  /\ nx2 = [nx EXCEPT ![pv[x]] = nx[x], ![x] = NULL]
  /\ pv2 = [pv EXCEPT ![nx[x]] = pv[x], ![x] = NULL]

\* In which phase which elements are linked.
LinkedByPhase(nx) ==
  /\ nx[free_head] # NULL
  /\ at = "init" => i \in Nat \ {0} /\ \A x \in Node : x >= i => nx[x] = NULL
  /\ at \in {"init", "scan"} => nx[stackHead] = NULL
  /\ at \in {"push", "pop"} => nx[stackHead] # NULL

\* The invariant of the rings.
RingInv ==
  /\ at \in {"init", "scan", "push", "pop", "done", "exit"}
  /\ WellLinked(next, prev)
  /\ \E ring : Apart(next, ring)
  /\ LinkedByPhase(next)

---------------------------------------------------------------------------

\* The heads and the nodes are different elements, and none is the null pointer.
LEMMA Elements ==
  /\ free_head \in Elem /\ stackHead \in Elem /\ free_head # stackHead
  /\ Node \subseteq Elem /\ NULL \notin Elem
  /\ \A x \in Elem : x \in Node <=> x # free_head /\ x # stackHead
  /\ free_head \in RingHead /\ stackHead \in RingHead
BY ListAssumption DEF Elem, Node, free_head, stackHead, NULL, RingHead

\* x is put between a and its successor.
LEMMA Inserted ==
  ASSUME NEW nx, NEW pv, NEW ring, WellLinked(nx, pv), Apart(nx, ring),
         NEW a \in Elem, nx[a] # NULL, NEW x \in Node, nx[x] = NULL,
         NEW nx2, NEW pv2, PutAfter(nx, pv, a, x, nx2, pv2)
  PROVE  /\ WellLinked(nx2, pv2) /\ \E r : Apart(nx2, r)
         /\ \A y \in Elem : nx2[y] = NULL <=> nx[y] = NULL /\ y # x
<1> DEFINE b == nx[a]
<1>1. /\ x \in Elem /\ x # NULL /\ b \in Elem /\ pv[b] = a /\ pv[x] = NULL /\ a # x
      /\ a # NULL /\ b # NULL
  BY Elements DEF WellLinked
<1>2. b # x
  BY <1>1 DEF WellLinked
<1>3. /\ nx2 \in [Elem -> Elem \cup {NULL}] /\ pv2 \in [Elem -> Elem \cup {NULL}]
      /\ nx2[x] = b /\ nx2[a] = x /\ \A y \in Elem : y # x /\ y # a => nx2[y] = nx[y]
      /\ pv2[x] = a /\ pv2[b] = x /\ \A y \in Elem : y # x /\ y # b => pv2[y] = pv[y]
  BY <1>1, <1>2 DEF WellLinked, PutAfter
<1> HIDE DEF b
<1>4. \A y \in Elem : nx2[y] = NULL <=> pv2[y] = NULL
  BY <1>1, <1>2, <1>3 DEF WellLinked
<1>5. ASSUME NEW y \in Elem, nx2[y] # NULL
      PROVE  pv2[nx2[y]] = y /\ nx2[pv2[y]] = y
  <2>1. CASE y = x
    BY <1>1, <1>3, <2>1
  <2>2. CASE y # x
    <3>1. nx[y] # NULL /\ nx[y] \in Elem /\ pv[y] \in Elem /\ pv[nx[y]] = y /\ nx[pv[y]] = y
      BY <1>1, <1>3, <1>5, <2>2 DEF WellLinked
    <3>2. nx[y] # x /\ pv[y] # x
      BY <1>1, <3>1, Elements
    <3>3. pv2[nx2[y]] = y
      BY <1>1, <1>2, <1>3, <2>2, <3>1, <3>2 DEF b
    <3>4. nx2[pv2[y]] = y
      BY <1>1, <1>2, <1>3, <2>2, <3>1, <3>2 DEF b
    <3> QED BY <3>3, <3>4
  <2> QED BY <2>1, <2>2
<1>6. WellLinked(nx2, pv2)
  BY <1>3, <1>4, <1>5 DEF WellLinked
<1>7. Apart(nx2, [ring EXCEPT ![x] = ring[a]])
  <2> DEFINE r == [ring EXCEPT ![x] = ring[a]]
  <2>1. /\ r \in [Elem -> RingHead] /\ r[x] = ring[a] /\ \A y \in Elem : y # x => r[y] = ring[y]
    BY <1>1 DEF Apart
  <2>2. r[free_head] = free_head /\ r[stackHead] = stackHead
    BY <2>1, Elements DEF Apart
  <2>3. r[b] = ring[a]
    BY <1>1, <1>2, <2>1 DEF Apart, b
  <2> HIDE DEF r
  <2>4. ASSUME NEW y \in Elem, nx2[y] # NULL
        PROVE  r[nx2[y]] = r[y]
    <3>1. CASE y = x \/ y = a
      BY <1>1, <1>3, <2>1, <2>3, <3>1
    <3>2. CASE y # x /\ y # a
      <4>1. nx2[y] = nx[y] /\ nx[y] # NULL /\ nx[y] \in Elem /\ pv[nx[y]] = y
        BY <1>3, <2>4, <3>2 DEF WellLinked
      <4>2. nx[y] # x
        BY <1>1, <4>1, Elements
      <4> QED BY <2>1, <3>2, <4>1, <4>2 DEF Apart
    <3> QED BY <3>1, <3>2
  <2> QED BY <2>1, <2>2, <2>4 DEF Apart, r
<1>8. \A y \in Elem : nx2[y] = NULL <=> nx[y] = NULL /\ y # x
  BY <1>1, <1>3
<1> QED BY <1>6, <1>7, <1>8

\* x is taken out from between its neighbours.
LEMMA TakenOut ==
  ASSUME NEW nx, NEW pv, NEW ring, WellLinked(nx, pv), Apart(nx, ring),
         NEW x \in Node, nx[x] # NULL, nx[x] # x,
         NEW nx2, NEW pv2, Without(nx, pv, x, nx2, pv2)
  PROVE  /\ WellLinked(nx2, pv2) /\ Apart(nx2, ring)
         /\ \A y \in Elem : nx2[y] = NULL <=> nx[y] = NULL \/ y = x
<1> DEFINE a == pv[x]  b == nx[x]
<1>1. /\ x \in Elem /\ x # NULL /\ a \in Elem /\ b \in Elem /\ a # NULL /\ b # NULL
      /\ nx[a] = x /\ pv[b] = x /\ b # x
  BY Elements DEF WellLinked
<1>2. a # x
  BY <1>1
<1>3. /\ nx2 \in [Elem -> Elem \cup {NULL}] /\ pv2 \in [Elem -> Elem \cup {NULL}]
      /\ nx2[a] = b /\ nx2[x] = NULL /\ \A y \in Elem : y # x /\ y # a => nx2[y] = nx[y]
      /\ pv2[b] = a /\ pv2[x] = NULL /\ \A y \in Elem : y # x /\ y # b => pv2[y] = pv[y]
  BY <1>1, <1>2 DEF WellLinked, Without
<1> HIDE DEF a, b
<1>4. \A y \in Elem : nx2[y] = NULL <=> pv2[y] = NULL
  BY <1>1, <1>2, <1>3 DEF WellLinked
<1>5. ASSUME NEW y \in Elem, nx2[y] # NULL
      PROVE  pv2[nx2[y]] = y /\ nx2[pv2[y]] = y
  <2>1. y # x /\ nx[y] # NULL
    BY <1>1, <1>3, <1>5
  <2>2. nx[y] \in Elem /\ pv[y] \in Elem /\ pv[nx[y]] = y /\ nx[pv[y]] = y
    BY <2>1 DEF WellLinked
  <2>3. pv2[nx2[y]] = y
    <3>1. CASE y = a
      BY <1>3, <3>1
    <3>2. CASE y # a
      <4>1. nx[y] # x /\ nx[y] # b
        BY <1>1, <2>1, <2>2, <3>2 DEF a
      <4> QED BY <1>3, <2>1, <2>2, <3>2, <4>1
    <3> QED BY <3>1, <3>2
  <2>4. nx2[pv2[y]] = y
    <3>1. CASE y = b
      BY <1>3, <3>1
    <3>2. CASE y # b
      <4>1. pv[y] # x /\ pv[y] # a
        BY <1>1, <2>1, <2>2, <3>2 DEF b
      <4> QED BY <1>3, <2>1, <2>2, <3>2, <4>1
    <3> QED BY <3>1, <3>2
  <2> QED BY <2>3, <2>4
<1>6. Apart(nx2, ring)
  <2>1. ring[b] = ring[a]
    BY <1>1 DEF Apart, b
  <2>2. ASSUME NEW y \in Elem, nx2[y] # NULL
        PROVE  ring[nx2[y]] = ring[y]
    BY <1>1, <1>3, <2>1, <2>2 DEF Apart
  <2> QED BY <2>2 DEF Apart
<1>7. \A y \in Elem : nx2[y] = NULL <=> nx[y] = NULL \/ y = x
  BY <1>1, <1>3
<1> QED BY <1>3, <1>4, <1>5, <1>6, <1>7 DEF WellLinked

---------------------------------------------------------------------------
(* The list functions.                                                     *)

\* add_to_last puts a free element into a ring, and both rings stay well linked.
LEMMA AddLastInserts ==
  ASSUME NEW l, WellLinked(l.next, l.prev), NEW ring, Apart(l.next, ring),
         NEW h \in RingHead, l.next[h] # NULL, NEW x \in Node, l.next[x] = NULL
  PROVE  LET m == AddToLast(l, h, x) IN
         /\ WellLinked(m.next, m.prev) /\ \E r : Apart(m.next, r)
         /\ \A y \in Elem : m.next[y] = NULL <=> l.next[y] = NULL /\ y # x
<1> DEFINE nx == l.next  pv == l.prev  a == pv[h]
           nx2 == [nx EXCEPT ![x] = h, ![a] = x]  pv2 == [pv EXCEPT ![x] = a, ![h] = x]
<1>1. AddToLast(l, h, x).next = nx2 /\ AddToLast(l, h, x).prev = pv2
  BY DEF AddToLast
<1>2. h \in Elem /\ a \in Elem /\ nx[a] = h /\ nx[a] # NULL
  BY Elements DEF WellLinked, RingHead
<1> HIDE DEF a
<1>3. PutAfter(nx, pv, a, x, nx2, pv2)
  BY <1>2 DEF PutAfter
<1>4. WellLinked(nx, pv) /\ Apart(nx, ring) /\ nx[x] = NULL
  OBVIOUS
<1> HIDE DEF nx, pv, nx2, pv2
<1>5. /\ WellLinked(nx2, pv2) /\ \E r : Apart(nx2, r)
      /\ \A y \in Elem : nx2[y] = NULL <=> nx[y] = NULL /\ y # x
  BY <1>2, <1>3, <1>4, Inserted
<1> QED BY <1>1, <1>5 DEF nx

\* So does add_to_first.
LEMMA AddFirstInserts ==
  ASSUME NEW l, WellLinked(l.next, l.prev), NEW ring, Apart(l.next, ring),
         NEW h \in RingHead, l.next[h] # NULL, NEW x \in Node, l.next[x] = NULL
  PROVE  LET m == AddToFirst(l, h, x) IN
         /\ WellLinked(m.next, m.prev) /\ \E r : Apart(m.next, r)
         /\ \A y \in Elem : m.next[y] = NULL <=> l.next[y] = NULL /\ y # x
<1> DEFINE nx == l.next  pv == l.prev
           nx2 == [nx EXCEPT ![x] = nx[h], ![h] = x]  pv2 == [pv EXCEPT ![nx[h]] = x, ![x] = h]
<1>1. AddToFirst(l, h, x).next = nx2 /\ AddToFirst(l, h, x).prev = pv2
  BY DEF AddToFirst
<1>2. h \in Elem /\ nx[h] \in Elem /\ pv[nx[h]] = h /\ h # x /\ nx[h] # x
  BY Elements DEF WellLinked, RingHead
<1>3. PutAfter(nx, pv, h, x, nx2, pv2)
  BY <1>2, Elements DEF WellLinked, PutAfter
<1>4. WellLinked(nx, pv) /\ Apart(nx, ring) /\ nx[x] = NULL /\ nx[h] # NULL
  OBVIOUS
<1> HIDE DEF nx, pv, nx2, pv2
<1>5. /\ WellLinked(nx2, pv2) /\ \E r : Apart(nx2, r)
      /\ \A y \in Elem : nx2[y] = NULL <=> nx[y] = NULL /\ y # x
  BY <1>2, <1>3, <1>4, Inserted
<1> QED BY <1>1, <1>5 DEF nx

\* remove_first takes the first element out of a ring that has one.
LEMMA RemoveFirstTakesOut ==
  ASSUME NEW l, WellLinked(l.next, l.prev), NEW ring, Apart(l.next, ring),
         NEW h \in RingHead, l.next[h] # NULL, l.next[h] # h
  PROVE  LET m == RemoveFirst(l, h)  x == l.next[h] IN
         /\ x \in Node /\ WellLinked(m.next, m.prev) /\ Apart(m.next, ring)
         /\ \A y \in Elem : m.next[y] = NULL <=> l.next[y] = NULL \/ y = x
<1> DEFINE nx == l.next  pv == l.prev  x == nx[h]
           nx2 == [nx EXCEPT ![h] = nx[x], ![x] = NULL]  pv2 == [pv EXCEPT ![nx[x]] = h, ![x] = NULL]
<1>1. RemoveFirst(l, h).next = nx2 /\ RemoveFirst(l, h).prev = pv2
  BY DEF RemoveFirst
<1>2. h \in Elem /\ x \in Elem /\ pv[x] = h
  BY Elements DEF WellLinked, RingHead
<1>3. nx[x] # NULL
  BY <1>2, Elements DEF WellLinked
<1>4. nx[x] # x
  BY <1>2, <1>3 DEF WellLinked
<1>5. x \in Node
  <2>1. ring[x] = ring[h]
    BY <1>2 DEF Apart
  <2> QED BY <1>2, <2>1, Elements DEF Apart, RingHead
<1>6. Without(nx, pv, x, nx2, pv2)
  BY <1>2 DEF Without
<1>7. WellLinked(nx, pv) /\ Apart(nx, ring)
  OBVIOUS
<1>8. x \in Node /\ x = l.next[h]
  BY <1>5
<1> HIDE DEF nx, pv, x, nx2, pv2
<1>9. /\ WellLinked(nx2, pv2) /\ Apart(nx2, ring)
      /\ \A y \in Elem : nx2[y] = NULL <=> nx[y] = NULL \/ y = x
  BY <1>3, <1>4, <1>5, <1>6, <1>7, TakenOut
<1> QED BY <1>1, <1>8, <1>9 DEF nx

\* remove_last takes out the last one.
LEMMA RemoveLastTakesOut ==
  ASSUME NEW l, WellLinked(l.next, l.prev), NEW ring, Apart(l.next, ring),
         NEW h \in RingHead, l.next[h] # NULL, l.next[h] # h
  PROVE  LET m == RemoveLast(l, h)  x == l.prev[h] IN
         /\ x \in Node /\ WellLinked(m.next, m.prev) /\ Apart(m.next, ring)
         /\ \A y \in Elem : m.next[y] = NULL <=> l.next[y] = NULL \/ y = x
<1> DEFINE nx == l.next  pv == l.prev  x == pv[h]
           nx2 == [nx EXCEPT ![pv[x]] = h, ![x] = NULL]  pv2 == [pv EXCEPT ![h] = pv[x], ![x] = NULL]
<1>1. RemoveLast(l, h).next = nx2 /\ RemoveLast(l, h).prev = pv2
  BY DEF RemoveLast
<1>2. h \in Elem /\ x \in Elem /\ nx[x] = h /\ h # NULL
  BY Elements DEF WellLinked, RingHead
<1>3. x # h
  BY <1>2
<1>4. x \in Node
  <2>1. ring[x] = ring[h]
    BY <1>2 DEF Apart
  <2> QED BY <1>2, <1>3, <2>1, Elements DEF Apart, RingHead
<1>5. Without(nx, pv, x, nx2, pv2)
  BY <1>2 DEF Without
<1>6. WellLinked(nx, pv) /\ Apart(nx, ring) /\ nx[x] # NULL /\ nx[x] # x
  BY <1>2, <1>3
<1>7. x \in Node /\ x = l.prev[h]
  BY <1>4
<1> HIDE DEF nx, pv, x, nx2, pv2
<1>8. /\ WellLinked(nx2, pv2) /\ Apart(nx2, ring)
      /\ \A y \in Elem : nx2[y] = NULL <=> nx[y] = NULL \/ y = x
  BY <1>5, <1>6, <1>7, TakenOut
<1> QED BY <1>1, <1>7, <1>8 DEF nx

---------------------------------------------------------------------------

\* The empty rings.
LEMMA InitRingInv == ListInit => RingInv
<1> SUFFICES ASSUME ListInit PROVE RingInv
  OBVIOUS
<1>1. /\ next = [x \in Elem |-> IF x = free_head THEN free_head ELSE NULL]
      /\ prev = next /\ at = "init" /\ i = 1
  BY DEF ListInit
<1>2. WellLinked(next, prev)
  BY <1>1, Elements DEF WellLinked
<1>3. Apart(next, [x \in Elem |-> IF x = stackHead THEN stackHead ELSE free_head])
  BY <1>1, Elements DEF Apart
<1>4. LinkedByPhase(next)
  BY <1>1, Elements DEF LinkedByPhase
<1> QED BY <1>1, <1>2, <1>3, <1>4 DEF RingInv

\* Each step keeps the invariant: init_free_list links the next node,
LEMMA LinkFreeKeeps == RingInv /\ LinkFree => RingInv'
<1> SUFFICES ASSUME RingInv, LinkFree PROVE RingInv'
  OBVIOUS
<1>1. PICK ring : Apart(next, ring)
  BY DEF RingInv
<1>2. CASE i > Nodes
  BY <1>2, ListAssumption DEF RingInv, LinkFree, LinkedByPhase
<1>3. CASE i <= Nodes
  <2> DEFINE m == AddToLast(Links, free_head, i)
  <2>1. next' = m.next /\ prev' = m.prev /\ i' = i + 1 /\ at' = at /\ at = "init"
    BY <1>3 DEF LinkFree, SetLinks
  <2>2. /\ i \in Nat \ {0} /\ i \in Node /\ next[i] = NULL /\ next[free_head] # NULL
        /\ next[stackHead] = NULL /\ \A x \in Node : x >= i => next[x] = NULL
    BY <1>3, <2>1, ListAssumption DEF RingInv, LinkedByPhase, Node
  <2>3. Links.next = next /\ Links.prev = prev /\ WellLinked(next, prev)
    BY DEF Links, RingInv
  <2>4. /\ WellLinked(m.next, m.prev) /\ \E r : Apart(m.next, r)
        /\ \A y \in Elem : m.next[y] = NULL <=> next[y] = NULL /\ y # i
    BY <1>1, <2>2, <2>3, Elements, AddLastInserts
  <2> HIDE DEF m
  <2>5. i + 1 \in Nat \ {0} /\ \A x \in Node : x >= i + 1 => x >= i /\ x # i
    BY <2>2 DEF Node
  <2>6. LinkedByPhase(next)'
    BY <2>1, <2>2, <2>4, <2>5, Elements DEF LinkedByPhase
  <2> QED BY <2>1, <2>4, <2>6 DEF RingInv
<1>4. i \in Nat
  BY DEF RingInv, LinkFree, LinkedByPhase
<1> QED BY <1>2, <1>3, <1>4, ListAssumption

\* a word is read and the stack's ring is made,
LEMMA ScanWordKeeps == RingInv /\ ScanWord => RingInv'
<1> SUFFICES ASSUME RingInv, ScanWord PROVE RingInv'
  OBVIOUS
<1>1. PICK ring : Apart(next, ring)
  BY DEF RingInv
<1>2. /\ next' = [next EXCEPT ![stackHead] = stackHead]
      /\ prev' = [prev EXCEPT ![stackHead] = stackHead]
      /\ at' = "push" /\ at = "scan"
  BY DEF ScanWord, SetLinks, InitHead, Links
<1>3. next[stackHead] = NULL /\ WellLinked(next, prev) /\ next[free_head] # NULL
  BY <1>2 DEF RingInv, LinkedByPhase
<1>4. WellLinked(next', prev')
  BY <1>2, <1>3, Elements DEF WellLinked
<1>5. Apart(next', ring)
  BY <1>1, <1>2, <1>3, Elements DEF Apart, WellLinked
<1>6. LinkedByPhase(next)'
  BY <1>2, <1>3, Elements DEF LinkedByPhase, WellLinked
<1> QED BY <1>2, <1>4, <1>5, <1>6 DEF RingInv

\* push moves the first free node to the end of the stack,
LEMMA PushCharKeeps == RingInv /\ PushChar => RingInv'
<1> SUFFICES ASSUME RingInv, PushChar PROVE RingInv'
  OBVIOUS
<1>1. PICK ring : Apart(next, ring)
  BY DEF RingInv
<1> DEFINE x == next[free_head]  l == RemoveFirst(Links, free_head)
           m == AddToLast(l, stackHead, x)
<1>2. next' = m.next /\ prev' = m.prev /\ at' = "push" /\ at = "push" /\ x # free_head
  BY DEF PushChar, SetLinks, IsEmpty
<1>3. /\ WellLinked(next, prev) /\ next[free_head] # NULL /\ next[stackHead] # NULL
      /\ Links.next = next /\ Links.prev = prev
  BY <1>2 DEF RingInv, LinkedByPhase, Links
<1>4. /\ x \in Node /\ WellLinked(l.next, l.prev) /\ Apart(l.next, ring)
      /\ \A y \in Elem : l.next[y] = NULL <=> next[y] = NULL \/ y = x
  BY <1>1, <1>2, <1>3, Elements, RemoveFirstTakesOut
<1> HIDE DEF l
<1>5. l.next[stackHead] # NULL /\ l.next[x] = NULL
  BY <1>3, <1>4, Elements
<1>6. /\ WellLinked(m.next, m.prev) /\ \E r : Apart(m.next, r)
      /\ \A y \in Elem : m.next[y] = NULL <=> l.next[y] = NULL /\ y # x
  BY <1>4, <1>5, Elements, AddLastInserts
<1> HIDE DEF m, x
<1>7. LinkedByPhase(next)'
  BY <1>2, <1>3, <1>4, <1>6, Elements DEF LinkedByPhase
<1> QED BY <1>2, <1>6, <1>7 DEF RingInv

\* pop moves the last node of the stack back to the front of the free list.
LEMMA PopCharKeeps == RingInv /\ PopChar => RingInv'
<1> SUFFICES ASSUME RingInv, PopChar PROVE RingInv'
  OBVIOUS
<1>1. PICK ring : Apart(next, ring)
  BY DEF RingInv
<1> DEFINE x == prev[stackHead]  l == RemoveLast(Links, stackHead)
           m == AddToFirst(l, free_head, x)
<1>2. next' = m.next /\ prev' = m.prev /\ at' = "pop" /\ at = "pop" /\ next[stackHead] # stackHead
  BY DEF PopChar, SetLinks, IsEmpty
<1>3. /\ WellLinked(next, prev) /\ next[free_head] # NULL /\ next[stackHead] # NULL
      /\ Links.next = next /\ Links.prev = prev
  BY <1>2 DEF RingInv, LinkedByPhase, Links
<1>4. /\ x \in Node /\ WellLinked(l.next, l.prev) /\ Apart(l.next, ring)
      /\ \A y \in Elem : l.next[y] = NULL <=> next[y] = NULL \/ y = x
  BY <1>1, <1>2, <1>3, Elements, RemoveLastTakesOut
<1> HIDE DEF l
<1>5. l.next[free_head] # NULL /\ l.next[x] = NULL
  BY <1>3, <1>4, Elements
<1>6. /\ WellLinked(m.next, m.prev) /\ \E r : Apart(m.next, r)
      /\ \A y \in Elem : m.next[y] = NULL <=> l.next[y] = NULL /\ y # x
  BY <1>4, <1>5, Elements, AddFirstInserts
<1> HIDE DEF m, x
<1>7. LinkedByPhase(next)'
  BY <1>2, <1>3, <1>4, <1>6, Elements DEF LinkedByPhase
<1> QED BY <1>2, <1>6, <1>7 DEF RingInv

\* The inductive invariant.
THEOREM RingInvariance == ListSpec => []RingInv
<1>1. ListInit => RingInv
  BY InitRingInv
<1>2. RingInv /\ [ListNext]_listVars => RingInv'
  <2>1. CASE UNCHANGED <<at, i, next, prev>>
    BY <2>1 DEF RingInv, LinkedByPhase
  <2>2. CASE OutOfList \/ EndPush \/ EndPop
    BY <2>2 DEF OutOfList, EndPush, EndPop, RingInv, LinkedByPhase
  <2> QED BY <2>1, <2>2, LinkFreeKeeps, ScanWordKeeps, PushCharKeeps, PopCharKeeps DEF ListNext, listVars
<1> QED BY <1>1, <1>2, PTL DEF ListSpec

\* Whatever word is read and however many nodes there are, the links of both rings
\* are whole and no node is in both (linkedlist.c, 13 to 49).
THEOREM WellLinkedRings == ListSpec => []RingsWellLinked
<1>1. RingInv => RingsWellLinked
  <2> SUFFICES ASSUME RingInv PROVE LinksInverse /\ RingsApart
    BY DEF RingsWellLinked
  <2>1. LinksInverse
    BY Elements DEF RingInv, WellLinked, LinksInverse, Linked
  <2>2. RingsApart
    BY DEF RingInv, Apart, RingHead, RingsApart, Linked
  <2> QED BY <2>1, <2>2
<1> QED BY <1>1, RingInvariance, PTL

-----------------------------------------------------------------------------

\* The elements of a ring in their order: those of the head h are F[lo] .. F[hi].
Cyclic(nx, pv, F, lo, hi, h) ==
  /\ lo \in Int /\ hi \in Int /\ lo <= hi + 1
  /\ F \in [Int -> Elem]
  /\ \A k \in Int : IF k \in lo .. hi THEN F[k] \in Node ELSE F[k] = h
  /\ \A k \in lo - 1 .. hi : nx[F[k]] = F[k + 1] /\ pv[F[k + 1]] = F[k]
  /\ \A j, k \in lo .. hi : F[j] = F[k] => j = k

\* The elements of the ring.
In(F, lo, hi) == {F[k] : k \in lo .. hi}

\* Every element has a next and a prev, NULL when it is not linked.
LinkFunctions(nx, pv) ==
  nx \in [Elem -> Elem \cup {NULL}] /\ pv \in [Elem -> Elem \cup {NULL}]

\* A ring whose links are left alone.
LEMMA OtherRing ==
  ASSUME NEW nx, NEW pv, NEW nx2, NEW pv2, NEW F, NEW lo, NEW hi, NEW h \in Elem,
         Cyclic(nx, pv, F, lo, hi, h),
         \A y \in Elem : y = h \/ y \in In(F, lo, hi) => nx2[y] = nx[y] /\ pv2[y] = pv[y]
  PROVE  Cyclic(nx2, pv2, F, lo, hi, h)
<1>1. \A k \in Int : F[k] \in Elem /\ (F[k] = h \/ F[k] \in In(F, lo, hi))
  BY DEF Cyclic, In
<1>2. \A k \in lo - 1 .. hi : k \in Int /\ k + 1 \in Int
  BY DEF Cyclic
<1>3. \A k \in lo - 1 .. hi : nx2[F[k]] = F[k + 1] /\ pv2[F[k + 1]] = F[k]
  BY <1>1, <1>2 DEF Cyclic
<1> QED BY <1>3 DEF Cyclic

\* add_to_last: the order grows by x at its end.
LEMMA AddAtEnd ==
  ASSUME NEW nx, NEW pv, NEW F, NEW lo, NEW hi, NEW h \in RingHead, LinkFunctions(nx, pv),
         Cyclic(nx, pv, F, lo, hi, h), NEW x \in Node, x \notin In(F, lo, hi)
  PROVE  LET a == pv[h] IN
         Cyclic([nx EXCEPT ![x] = h, ![a] = x], [pv EXCEPT ![x] = a, ![h] = x],
                [F EXCEPT ![hi + 1] = x], lo, hi + 1, h)
<1> DEFINE a == pv[h]
           nx2 == [nx EXCEPT ![x] = h, ![a] = x]
           pv2 == [pv EXCEPT ![x] = a, ![h] = x]
           G == [F EXCEPT ![hi + 1] = x]
<1>0. lo \in Int /\ hi \in Int /\ lo <= hi + 1 /\ F \in [Int -> Elem]
  BY DEF Cyclic
<1>1. h \in Elem /\ x \in Elem /\ h # x /\ h \notin Node
  BY Elements DEF RingHead
<1>2. a = F[hi] /\ a \in Elem /\ a # x
  <2>1. hi \in lo - 1 .. hi /\ hi + 1 \notin lo .. hi /\ hi + 1 \in Int
    BY <1>0
  <2>2. F[hi + 1] = h
    BY <2>1 DEF Cyclic
  <2>3. pv[F[hi + 1]] = F[hi]
    BY <2>1 DEF Cyclic
  <2>4. F[hi] = h \/ F[hi] \in In(F, lo, hi)
    BY <1>0 DEF Cyclic, In
  <2> QED BY <2>2, <2>3, <2>4, <1>0, <1>1
<1> HIDE DEF a
<1>3. /\ nx2[x] = h /\ nx2[a] = x /\ \A y \in Elem : y # x /\ y # a => nx2[y] = nx[y]
      /\ pv2[x] = a /\ pv2[h] = x /\ \A y \in Elem : y # x /\ y # h => pv2[y] = pv[y]
  BY <1>1, <1>2 DEF LinkFunctions
<1>4. G \in [Int -> Elem] /\ G[hi + 1] = x /\ \A k \in Int : k # hi + 1 => G[k] = F[k]
  BY <1>0, <1>1
<1> HIDE DEF nx2, pv2, G
<1>5. \A k \in Int : IF k \in lo .. hi + 1 THEN G[k] \in Node ELSE G[k] = h
  BY <1>0, <1>4 DEF Cyclic
<1>6. ASSUME NEW j \in lo .. hi + 1, NEW k \in lo .. hi + 1, G[j] = G[k] PROVE j = k
  <2>1. \A m \in lo .. hi : m # hi + 1 /\ m \in Int /\ G[m] = F[m] /\ G[m] # x
    BY <1>0, <1>4 DEF In
  <2>2. CASE j = hi + 1 \/ k = hi + 1
    BY <1>0, <1>4, <1>6, <2>1, <2>2
  <2>3. CASE j # hi + 1 /\ k # hi + 1
    <3>1. j \in lo .. hi /\ k \in lo .. hi
      BY <1>0, <2>3
    <3> QED BY <1>6, <2>1, <3>1 DEF Cyclic
  <2> QED BY <2>2, <2>3
<1>7. ASSUME NEW k \in lo - 1 .. hi + 1 PROVE nx2[G[k]] = G[k + 1] /\ pv2[G[k + 1]] = G[k]
  <2>1. CASE k = hi + 1
    <3>1. k \in Int /\ k + 1 \in Int /\ k + 1 # hi + 1 /\ k + 1 \notin lo .. hi
      BY <2>1, <1>0
    <3>2. G[k] = x /\ G[k + 1] = h
      BY <2>1, <3>1, <1>4 DEF Cyclic
    <3>3. k = hi + 1 => pv2[h] = x
      BY <1>3
    <3> QED BY <2>1, <3>2, <3>3, <1>3
  <2>2. CASE k = hi
    <3>1. k \in Int /\ k # hi + 1 /\ k + 1 = hi + 1
      BY <2>2, <1>0
    <3>2. G[k] = a /\ G[k + 1] = x
      BY <2>2, <3>1, <1>2, <1>4
    <3> QED BY <3>2, <1>3
  <2>3. CASE k # hi /\ k # hi + 1
    <3>1. k \in lo - 1 .. hi - 1 /\ k \in lo - 1 .. hi /\ k + 1 \in lo .. hi /\ k + 1 \in Int /\ k \in Int
          /\ k + 1 # hi + 1 /\ k # hi + 1
      BY <2>3, <1>0
    <3>2. G[k] = F[k] /\ G[k + 1] = F[k + 1] /\ F[k + 1] \in Node
      BY <3>1, <1>4 DEF Cyclic
    <3>3. nx[F[k]] = F[k + 1] /\ pv[F[k + 1]] = F[k]
      BY <3>1 DEF Cyclic
    <3>4. F[k + 1] # x /\ F[k + 1] # h
      BY <3>1, <3>2, <1>1 DEF In
    <3>5. F[k] # x
      <4>1. k \in lo .. hi \/ k = lo - 1
        BY <3>1, <1>0
      <4>2. k \in lo .. hi => F[k] # x
        BY DEF In
      <4>3. k = lo - 1 => F[k] = h
        BY <3>1, <1>0 DEF Cyclic
      <4> QED BY <4>1, <4>2, <4>3, <1>1
    <3>6. F[k] # a
      <4>1. hi \in lo .. hi
        BY <3>1, <1>0
      <4>2. k \in lo .. hi => F[k] # F[hi]
        BY <4>1, <2>3 DEF Cyclic
      <4>3. F[hi] \in Node
        BY <4>1, <1>0 DEF Cyclic
      <4>4. k = lo - 1 => F[k] = h
        BY <3>1, <1>0 DEF Cyclic
      <4>5. k \in lo .. hi \/ k = lo - 1
        BY <3>1, <1>0
      <4> QED BY <4>2, <4>3, <4>4, <4>5, <1>1, <1>2
    <3>7. F[k] \in Elem /\ F[k + 1] \in Elem
      BY <3>1, <1>0
    <3> QED BY <3>2, <3>3, <3>4, <3>5, <3>6, <3>7, <1>3
  <2> QED BY <1>0, <2>1, <2>2, <2>3
<1>8. Cyclic(nx2, pv2, G, lo, hi + 1, h)
  BY <1>0, <1>4, <1>5, <1>6, <1>7 DEF Cyclic
<1> QED BY <1>8 DEF nx2, pv2, G, a

\* The first element is taken out.
LEMMA TakeFirstOut ==
  ASSUME NEW nx, NEW pv, NEW F, NEW lo, NEW hi, NEW h \in RingHead, LinkFunctions(nx, pv),
         Cyclic(nx, pv, F, lo, hi, h), lo <= hi
  PROVE  LET x == nx[h] IN
         /\ x = F[lo]
         /\ Cyclic([nx EXCEPT ![h] = nx[x], ![x] = NULL], [pv EXCEPT ![nx[x]] = h, ![x] = NULL],
                   [F EXCEPT ![lo] = h], lo + 1, hi, h)
<1> DEFINE x == nx[h]
           b == nx[x]
           nx2 == [nx EXCEPT ![h] = b, ![x] = NULL]
           pv2 == [pv EXCEPT ![b] = h, ![x] = NULL]
           G == [F EXCEPT ![lo] = h]
<1>0. lo \in Int /\ hi \in Int /\ lo <= hi + 1 /\ F \in [Int -> Elem]
  BY DEF Cyclic
<1>1. h \in Elem /\ h \notin Node
  BY Elements DEF RingHead
<1>2. x = F[lo] /\ x \in Node /\ x \in Elem /\ x # h
  <2>1. lo - 1 \in lo - 1 .. hi /\ lo - 1 \notin lo .. hi /\ lo - 1 \in Int /\ (lo - 1) + 1 = lo
        /\ lo \in lo .. hi
    BY <1>0
  <2>2. F[lo - 1] = h
    BY <2>1 DEF Cyclic
  <2>3. nx[F[lo - 1]] = F[lo]
    BY <2>1 DEF Cyclic
  <2>4. F[lo] \in Node
    BY <1>0, <2>1 DEF Cyclic
  <2> QED BY <2>2, <2>3, <2>4, <1>1, Elements
<1>2a. b = F[lo + 1] /\ b \in Elem /\ b # x
  <2>1. lo \in lo - 1 .. hi /\ lo \in lo .. hi /\ lo + 1 \in Int
    BY <1>0
  <2>2. b = F[lo + 1]
    BY <2>1, <1>2 DEF Cyclic
  <2>3. lo + 1 \in lo .. hi => F[lo + 1] # F[lo]
    <3>1. lo + 1 # lo
      BY <1>0
    <3> QED BY <2>1, <3>1 DEF Cyclic
  <2>4. lo + 1 \notin lo .. hi => F[lo + 1] = h
    BY <2>1 DEF Cyclic
  <2> QED BY <2>1, <2>2, <2>3, <2>4, <1>0, <1>2
<1> HIDE DEF x, b
<1>3. /\ nx2[h] = b /\ \A y \in Elem : y # x /\ y # h => nx2[y] = nx[y]
      /\ pv2[b] = h /\ \A y \in Elem : y # x /\ y # b => pv2[y] = pv[y]
  BY <1>1, <1>2, <1>2a DEF LinkFunctions
<1>4. G \in [Int -> Elem] /\ G[lo] = h /\ \A k \in Int : k # lo => G[k] = F[k]
  BY <1>0, <1>1
<1> HIDE DEF nx2, pv2, G
<1>5. \A k \in Int : IF k \in lo + 1 .. hi THEN G[k] \in Node ELSE G[k] = h
  BY <1>0, <1>4 DEF Cyclic
<1>6. \A j, k \in lo + 1 .. hi : G[j] = G[k] => j = k
  <2>1. \A k \in lo + 1 .. hi : k \in lo .. hi /\ G[k] = F[k]
    BY <1>0, <1>4
  <2> QED BY <2>1 DEF Cyclic
<1>7. ASSUME NEW k \in (lo + 1) - 1 .. hi PROVE nx2[G[k]] = G[k + 1] /\ pv2[G[k + 1]] = G[k]
  <2>0. k \in lo .. hi /\ k \in lo - 1 .. hi /\ k \in Int /\ k + 1 \in Int /\ k + 1 # lo
    BY <1>0
  <2>1. CASE k = lo
    <3>1. G[k] = h /\ G[k + 1] = b
      BY <2>0, <2>1, <1>2a, <1>4
    <3> QED BY <3>1, <1>3
  <2>2. CASE k # lo
    <3>1. G[k] = F[k] /\ G[k + 1] = F[k + 1]
      BY <2>0, <2>2, <1>4
    <3>2. nx[F[k]] = F[k + 1] /\ pv[F[k + 1]] = F[k]
      BY <2>0 DEF Cyclic
    <3>3. F[k] \in Node /\ F[k] # h /\ F[k] # x
      <4>1. lo \in lo .. hi
        BY <1>0
      <4> QED BY <2>0, <2>2, <4>1, <1>1, <1>2 DEF Cyclic
    <3>4. F[k + 1] # x /\ F[k + 1] # b
      <4>1. CASE k + 1 \in lo .. hi
        <5>1. lo \in lo .. hi /\ k + 1 # lo + 1
          BY <1>0, <2>2, <2>0
        <5>2. F[k + 1] # F[lo] /\ F[k + 1] \in Node
          BY <4>1, <5>1, <2>0 DEF Cyclic
        <5>3. lo + 1 \in lo .. hi => F[k + 1] # F[lo + 1]
          BY <4>1, <5>1 DEF Cyclic
        <5>4. lo + 1 \notin lo .. hi => F[lo + 1] = h
          BY <1>0 DEF Cyclic
        <5> QED BY <5>2, <5>3, <5>4, <1>1, <1>2, <1>2a
      <4>2. CASE k + 1 \notin lo .. hi
        <5>1. F[k + 1] = h
          BY <2>0, <4>2 DEF Cyclic
        <5>2. lo + 1 \in lo .. hi
          BY <1>0, <2>0, <2>2
        <5>3. F[lo + 1] \in Node
          BY <1>0, <5>2 DEF Cyclic
        <5> QED BY <5>1, <5>3, <1>1, <1>2, <1>2a
      <4> QED BY <4>1, <4>2
    <3>5. F[k] \in Elem /\ F[k + 1] \in Elem
      BY <2>0, <1>0
    <3> QED BY <3>1, <3>2, <3>3, <3>4, <3>5, <1>3
  <2> QED BY <2>1, <2>2
<1>8. lo + 1 <= hi + 1 /\ lo + 1 \in Int
  BY <1>0
<1>9. Cyclic(nx2, pv2, G, lo + 1, hi, h)
  BY <1>0, <1>4, <1>5, <1>6, <1>7, <1>8 DEF Cyclic
<1> QED BY <1>2, <1>9 DEF nx2, pv2, G, x, b

\* Read from the other end, next and prev change places: what is shown of one end
\* of a ring then holds of the other.
Mirrored(F) == [k \in Int |-> F[-k]]

\* Backwards the ring is a ring, next and prev exchanged.
LEMMA Mirror ==
  ASSUME NEW nx, NEW pv, NEW F, NEW lo, NEW hi, NEW h, Cyclic(nx, pv, F, lo, hi, h)
  PROVE  Cyclic(pv, nx, Mirrored(F), -hi, -lo, h)
<1> DEFINE G == Mirrored(F)
<1>0. lo \in Int /\ hi \in Int /\ lo <= hi + 1 /\ F \in [Int -> Elem]
  BY DEF Cyclic
<1>1. /\ -hi \in Int /\ -lo \in Int /\ -hi <= -lo + 1
      /\ \A k \in Int : -k \in Int /\ (k \in -hi .. -lo <=> -k \in lo .. hi)
      /\ \A j, k \in Int : -j = -k => j = k
  BY <1>0
<1>2. G \in [Int -> Elem] /\ \A k \in Int : G[k] = F[-k]
  BY <1>0, <1>1 DEF Mirrored
<1> HIDE DEF G
<1>3. \A k \in Int : IF k \in -hi .. -lo THEN G[k] \in Node ELSE G[k] = h
  BY <1>1, <1>2 DEF Cyclic
<1>4. \A j, k \in -hi .. -lo : G[j] = G[k] => j = k
  <2>1. \A k \in -hi .. -lo : k \in Int
    BY <1>0
  <2> QED BY <1>1, <1>2, <2>1 DEF Cyclic
<1>5. ASSUME NEW k \in -hi - 1 .. -lo PROVE pv[G[k]] = G[k + 1] /\ nx[G[k + 1]] = G[k]
  <2> DEFINE m == -k - 1
  <2>1. k \in Int /\ k + 1 \in Int /\ m \in lo - 1 .. hi /\ m + 1 = -k /\ m = -(k + 1)
    BY <1>0
  <2> HIDE DEF m
  <2>2. G[k] = F[m + 1] /\ G[k + 1] = F[m]
    BY <2>1, <1>2
  <2>3. nx[F[m]] = F[m + 1] /\ pv[F[m + 1]] = F[m]
    BY <2>1 DEF Cyclic
  <2> QED BY <2>2, <2>3
<1> QED BY <1>1, <1>2, <1>3, <1>4, <1>5 DEF Cyclic, G

\* A change of the mirrored order is a change of the order.
LEMMA MirroredBack ==
  ASSUME NEW F \in [Int -> Elem], NEW k \in Int, NEW y \in Elem
  PROVE  /\ Mirrored(F) \in [Int -> Elem]
         /\ Mirrored([Mirrored(F) EXCEPT ![-k] = y]) = [F EXCEPT ![k] = y]
         /\ \A lo, hi \in Int : In(Mirrored(F), -hi, -lo) = In(F, lo, hi)
<1> DEFINE M == Mirrored(F)
<1>1. M \in [Int -> Elem] /\ \A j \in Int : M[j] = F[-j]
  BY DEF Mirrored
<1>2. \A j \in Int : -j \in Int /\ -(-j) = j
  OBVIOUS
<1> HIDE DEF M
<1>3. Mirrored([M EXCEPT ![-k] = y]) = [F EXCEPT ![k] = y]
  <2> DEFINE M2 == [M EXCEPT ![-k] = y]
  <2> DEFINE G == [F EXCEPT ![k] = y]
  <2>1. M2 \in [Int -> Elem] /\ \A j \in Int : M2[j] = IF j = -k THEN y ELSE M[j]
    BY <1>1, <1>2
  <2>2. G = [j \in Int |-> G[j]] /\ \A j \in Int : G[j] = IF j = k THEN y ELSE F[j]
    OBVIOUS
  <2> HIDE DEF M2, G
  <2>3. \A j \in Int : M2[-j] = G[j]
    BY <1>1, <1>2, <2>1, <2>2
  <2>4. [j \in Int |-> M2[-j]] = [j \in Int |-> G[j]]
    BY <2>3
  <2>5. Mirrored(M2) = G
    BY <2>2, <2>4 DEF Mirrored
  <2> QED BY <2>5 DEF M2, G
<1>4. ASSUME NEW lo \in Int, NEW hi \in Int PROVE In(M, -hi, -lo) = In(F, lo, hi)
  <2>1. \A j \in -hi .. -lo : j \in Int /\ -j \in lo .. hi
    OBVIOUS
  <2>2. \A j \in lo .. hi : -j \in -hi .. -lo /\ -j \in Int /\ -(-j) = j
    OBVIOUS
  <2>3. \A j \in -hi .. -lo : M[j] = F[-j]
    BY <1>1, <2>1
  <2>4. \A j \in lo .. hi : M[-j] = F[j]
    BY <1>1, <2>2
  <2> QED BY <2>1, <2>2, <2>3, <2>4 DEF In
<1> QED BY <1>1, <1>3, <1>4 DEF M

\* add_to_first: the order grows by x at its front.
LEMMA AddInFront ==
  ASSUME NEW nx, NEW pv, NEW F, NEW lo, NEW hi, NEW h \in RingHead, LinkFunctions(nx, pv),
         Cyclic(nx, pv, F, lo, hi, h), NEW x \in Node, x \notin In(F, lo, hi)
  PROVE  Cyclic([nx EXCEPT ![x] = nx[h], ![h] = x], [pv EXCEPT ![nx[h]] = x, ![x] = h],
                [F EXCEPT ![lo - 1] = x], lo - 1, hi, h)
<1> DEFINE a == nx[h]
           M == Mirrored(F)
           nx2 == [nx EXCEPT ![x] = a, ![h] = x]
           pv2 == [pv EXCEPT ![x] = h, ![a] = x]
           M2 == [M EXCEPT ![(-lo) + 1] = x]
<1>0. lo \in Int /\ hi \in Int /\ lo <= hi + 1 /\ F \in [Int -> Elem] /\ x \in Elem /\ x # h
  BY Elements DEF Cyclic, RingHead
<1>1. M \in [Int -> Elem] /\ x \notin In(M, -hi, -lo)
  BY <1>0, MirroredBack
<1>2. Cyclic(pv, nx, M, -hi, -lo, h)
  BY Mirror
<1>3. LinkFunctions(pv, nx)
  BY DEF LinkFunctions
<1> HIDE DEF M
<1>4. Cyclic(pv2, nx2, M2, -hi, (-lo) + 1, h)
  BY <1>1, <1>2, <1>3, AddAtEnd
<1>5. Mirrored(M2) = [F EXCEPT ![lo - 1] = x]
  <2>1. lo - 1 \in Int /\ -(lo - 1) = (-lo) + 1
    BY <1>0
  <2>2. Mirrored([M EXCEPT ![-(lo - 1)] = x]) = [F EXCEPT ![lo - 1] = x]
    BY <1>0, <2>1, MirroredBack DEF M
  <2> QED BY <2>1, <2>2
<1> HIDE DEF nx2, pv2, M2
<1>6. Cyclic(nx2, pv2, Mirrored(M2), -((-lo) + 1), -(-hi), h)
  BY <1>4, Mirror
<1>7. -((-lo) + 1) = lo - 1 /\ -(-hi) = hi
  BY <1>0
<1>8. a # x
  <2>1. lo - 1 \in lo - 1 .. hi /\ lo - 1 \notin lo .. hi /\ lo - 1 \in Int /\ (lo - 1) + 1 = lo
        /\ lo \in Int
    BY <1>0
  <2>2. F[lo - 1] = h
    BY <2>1 DEF Cyclic
  <2>3. nx[F[lo - 1]] = F[lo]
    BY <2>1 DEF Cyclic
  <2>4. F[lo] = h \/ F[lo] \in In(F, lo, hi)
    BY <2>1 DEF Cyclic, In
  <2> QED BY <2>2, <2>3, <2>4, <1>0
<1>9. pv2 = [pv EXCEPT ![a] = x, ![x] = h]
  BY <1>8 DEF pv2, LinkFunctions
<1> QED BY <1>5, <1>6, <1>7, <1>9 DEF nx2

\* remove_last: the order loses its last element.
LEMMA TakeLastOut ==
  ASSUME NEW nx, NEW pv, NEW F, NEW lo, NEW hi, NEW h \in RingHead, LinkFunctions(nx, pv),
         Cyclic(nx, pv, F, lo, hi, h), lo <= hi
  PROVE  LET x == pv[h] IN
         /\ x = F[hi]
         /\ Cyclic([nx EXCEPT ![pv[x]] = h, ![x] = NULL], [pv EXCEPT ![h] = pv[x], ![x] = NULL],
                   [F EXCEPT ![hi] = h], lo, hi - 1, h)
<1> DEFINE x == pv[h]
           M == Mirrored(F)
           nx2 == [nx EXCEPT ![pv[x]] = h, ![x] = NULL]
           pv2 == [pv EXCEPT ![h] = pv[x], ![x] = NULL]
           M2 == [M EXCEPT ![-hi] = h]
<1>0. lo \in Int /\ hi \in Int /\ lo <= hi + 1 /\ F \in [Int -> Elem] /\ h \in Elem
  BY Elements DEF Cyclic, RingHead
<1>1. M \in [Int -> Elem] /\ M[-hi] = F[hi]
  <2>1. -hi \in Int /\ -(-hi) = hi
    BY <1>0
  <2> QED BY <1>0, <2>1 DEF Mirrored
<1>2. Cyclic(pv, nx, M, -hi, -lo, h)
  BY Mirror
<1>3. LinkFunctions(pv, nx) /\ -hi <= -lo
  BY <1>0 DEF LinkFunctions
<1> HIDE DEF M
<1>4. x = M[-hi] /\ Cyclic(pv2, nx2, M2, (-hi) + 1, -lo, h)
  BY <1>2, <1>3, TakeFirstOut
<1>5. Mirrored(M2) = [F EXCEPT ![hi] = h]
  BY <1>0, MirroredBack DEF M
<1> HIDE DEF nx2, pv2, M2
<1>6. Cyclic(nx2, pv2, Mirrored(M2), -(-lo), -((-hi) + 1), h)
  BY <1>4, Mirror
<1>7. -((-hi) + 1) = hi - 1 /\ -(-lo) = lo
  BY <1>0
<1> QED BY <1>1, <1>4, <1>5, <1>6, <1>7 DEF nx2, pv2

\* The elements of a ring when one is put in or taken out.
PutIn(U, V, x) == V = U \cup {x}

\* V is U without x.
TakenFrom(U, V, x) == x \in U /\ V = U \ {x}

\* The elements after one is added at an end of the order.
LEMMA ElementsPut ==
  ASSUME NEW F, NEW lo, NEW hi, NEW x, F \in [Int -> Elem], x \in Elem,
         lo \in Int, hi \in Int, lo <= hi + 1, NEW G
  PROVE  /\ G = [F EXCEPT ![hi + 1] = x] => PutIn(In(F, lo, hi), In(G, lo, hi + 1), x)
         /\ G = [F EXCEPT ![lo - 1] = x] => PutIn(In(F, lo, hi), In(G, lo - 1, hi), x)
<1>1. ASSUME G = [F EXCEPT ![hi + 1] = x] PROVE In(G, lo, hi + 1) = In(F, lo, hi) \cup {x}
  <2>1. G[hi + 1] = x /\ \A k \in lo .. hi : G[k] = F[k]
    BY <1>1
  <2>2. lo .. hi + 1 = (lo .. hi) \cup {hi + 1}
    OBVIOUS
  <2> QED BY ONLY <2>1, <2>2 DEF In
<1>2. ASSUME G = [F EXCEPT ![lo - 1] = x] PROVE In(G, lo - 1, hi) = In(F, lo, hi) \cup {x}
  <2>1. G[lo - 1] = x /\ \A k \in lo .. hi : G[k] = F[k]
    BY <1>2
  <2>2. lo - 1 .. hi = (lo .. hi) \cup {lo - 1}
    OBVIOUS
  <2> QED BY ONLY <2>1, <2>2 DEF In
<1> QED BY <1>1, <1>2 DEF PutIn

\* The elements after one is taken from an end of the order.
LEMMA ElementsTaken ==
  ASSUME NEW nx, NEW pv, NEW F, NEW lo, NEW hi, NEW h, Cyclic(nx, pv, F, lo, hi, h), lo <= hi, NEW G
  PROVE  /\ G = [F EXCEPT ![lo] = h] => TakenFrom(In(F, lo, hi), In(G, lo + 1, hi), F[lo])
         /\ G = [F EXCEPT ![hi] = h] => TakenFrom(In(F, lo, hi), In(G, lo, hi - 1), F[hi])
<1>0. /\ lo \in Int /\ hi \in Int /\ F \in [Int -> Elem] /\ lo \in lo .. hi /\ hi \in lo .. hi
      /\ \A j, k \in lo .. hi : F[j] = F[k] => j = k
  BY DEF Cyclic
<1>1. ASSUME G = [F EXCEPT ![lo] = h] PROVE In(G, lo + 1, hi) = In(F, lo, hi) \ {F[lo]}
  <2>1. \A k \in lo + 1 .. hi : G[k] = F[k] /\ k \in lo .. hi /\ k # lo
    BY <1>0, <1>1
  <2>2. \A k \in lo .. hi : k = lo \/ k \in lo + 1 .. hi
    BY <1>0
  <2> QED BY ONLY <2>1, <2>2, <1>0 DEF In
<1>2. ASSUME G = [F EXCEPT ![hi] = h] PROVE In(G, lo, hi - 1) = In(F, lo, hi) \ {F[hi]}
  <2>1. \A k \in lo .. hi - 1 : G[k] = F[k] /\ k \in lo .. hi /\ k # hi
    BY <1>0, <1>2
  <2>2. \A k \in lo .. hi : k = hi \/ k \in lo .. hi - 1
    BY <1>0
  <2> QED BY ONLY <2>1, <2>2, <1>0 DEF In
<1>3. F[lo] \in In(F, lo, hi) /\ F[hi] \in In(F, lo, hi)
  BY <1>0 DEF In
<1> QED BY <1>1, <1>2, <1>3 DEF TakenFrom

\* Links lead from a ring to itself.
LEMMA Neighbours ==
  ASSUME NEW nx, NEW pv, NEW F, NEW lo, NEW hi, NEW h \in Elem, Cyclic(nx, pv, F, lo, hi, h)
  PROVE  /\ \A y \in In(F, lo, hi) \cup {h} :
              nx[y] \in In(F, lo, hi) \cup {h} /\ pv[y] \in In(F, lo, hi) \cup {h} /\ y \in Elem
         /\ In(F, lo, hi) \subseteq Node
<1>0. lo \in Int /\ hi \in Int /\ lo <= hi + 1 /\ F \in [Int -> Elem]
  BY DEF Cyclic
<1>1. \A k \in Int : F[k] \in In(F, lo, hi) \cup {h}
  BY DEF Cyclic, In
<1>2. ASSUME NEW y \in In(F, lo, hi) \cup {h}
      PROVE  nx[y] \in In(F, lo, hi) \cup {h} /\ pv[y] \in In(F, lo, hi) \cup {h}
  <2>1. PICK k \in lo - 1 .. hi : F[k] = y
    <3>1. lo - 1 \in lo - 1 .. hi /\ lo - 1 \in Int /\ lo - 1 \notin lo .. hi
      BY <1>0
    <3>2. F[lo - 1] = h
      BY <3>1 DEF Cyclic
    <3>3. \A k \in lo .. hi : k \in lo - 1 .. hi
      BY <1>0
    <3> QED BY <3>1, <3>2, <3>3 DEF In
  <2>2. PICK j \in lo - 1 .. hi : F[j + 1] = y
    <3>1. hi \in lo - 1 .. hi /\ hi + 1 \in Int /\ hi + 1 \notin lo .. hi
      BY <1>0
    <3>2. F[hi + 1] = h
      BY <3>1 DEF Cyclic
    <3>3. \A q \in lo .. hi : q - 1 \in lo - 1 .. hi /\ (q - 1) + 1 = q
      BY <1>0
    <3> QED BY <3>1, <3>2, <3>3 DEF In
  <2>3. nx[y] = F[k + 1] /\ pv[y] = F[j] /\ k + 1 \in Int /\ j \in Int
    BY <1>0, <2>1, <2>2 DEF Cyclic
  <2> QED BY <1>1, <2>3
<1>3. In(F, lo, hi) \subseteq Node
  BY <1>0 DEF In, Cyclic
<1> QED BY <1>2, <1>3, Elements

\* The free ring and the stack, which share out the nodes.
Two(nx, pv, F, lo, hi, S, m) ==
  /\ LinkFunctions(nx, pv) /\ m \in Nat
  /\ Cyclic(nx, pv, F, lo, hi, free_head) /\ Cyclic(nx, pv, S, 1, m, stackHead)
  /\ In(F, lo, hi) \cap In(S, 1, m) = {}
  /\ Node \subseteq In(F, lo, hi) \cup In(S, 1, m)
  /\ ((hi - lo) + 1) + m = Nodes

\* G differs from F at k only, where it is y.
Changed(G, F, k, y) == G = [F EXCEPT ![k] = y]

\* The links after new_list and add_to_last, and after remove_last and free_list.
Pushed(nx, pv, x, n2, p2) ==
  LET n1 == [nx EXCEPT ![free_head] = nx[x], ![x] = NULL]
      p1 == [pv EXCEPT ![nx[x]] = free_head, ![x] = NULL]
      a  == p1[stackHead]
  IN /\ x = nx[free_head]
     /\ n2 = [n1 EXCEPT ![x] = stackHead, ![a] = x]
     /\ p2 = [p1 EXCEPT ![x] = a, ![stackHead] = x]

\* The links after remove_last from the stack and add_to_first to the free list.
Popped(nx, pv, x, n2, p2) ==
  LET n1 == [nx EXCEPT ![pv[x]] = stackHead, ![x] = NULL]
      p1 == [pv EXCEPT ![stackHead] = pv[x], ![x] = NULL]
  IN /\ x = pv[stackHead]
     /\ n2 = [n1 EXCEPT ![x] = n1[free_head], ![free_head] = x]
     /\ p2 = [p1 EXCEPT ![n1[free_head]] = x, ![x] = free_head]

\* A push takes the first free node and makes it the last of the stack.
LEMMA OnePushed ==
  ASSUME NEW nx, NEW pv, NEW F, NEW lo, NEW hi, NEW S, NEW m, Two(nx, pv, F, lo, hi, S, m), lo <= hi,
         NEW x, NEW n2, NEW p2, Pushed(nx, pv, x, n2, p2),
         NEW F1, Changed(F1, F, lo, free_head), NEW S1, Changed(S1, S, m + 1, x)
  PROVE  Two(n2, p2, F1, lo + 1, hi, S1, m + 1) /\ x \in Node /\ \A k \in 1 .. m : S[k] # x
<1> DEFINE n1 == [nx EXCEPT ![free_head] = nx[x], ![x] = NULL]
           p1 == [pv EXCEPT ![nx[x]] = free_head, ![x] = NULL]
           a == p1[stackHead]
           U == In(F, lo, hi)
           V == In(S, 1, m)
<1>6a. /\ x = nx[free_head]
       /\ n2 = [n1 EXCEPT ![x] = stackHead, ![a] = x]
       /\ p2 = [p1 EXCEPT ![x] = a, ![stackHead] = x]
  BY DEF Pushed
<1>0. /\ lo \in Int /\ hi \in Int /\ F \in [Int -> Elem] /\ S \in [Int -> Elem] /\ m \in Nat
      /\ LinkFunctions(nx, pv) /\ free_head \in Elem /\ stackHead \in Elem /\ free_head # stackHead
      /\ free_head \in RingHead /\ stackHead \in RingHead
      /\ free_head \notin Node /\ stackHead \notin Node /\ Node \subseteq Elem
  BY Elements DEF Two, Cyclic
<1>1. Cyclic(nx, pv, F, lo, hi, free_head) /\ Cyclic(nx, pv, S, 1, m, stackHead)
  BY DEF Two
<1>2. U \subseteq Node /\ V \subseteq Node /\ U \cap V = {} /\ Node \subseteq U \cup V
  BY <1>0, <1>1, Neighbours DEF Two
<1>3. \A y \in U \cup {free_head} : nx[y] \in U \cup {free_head} /\ y \in Elem
  BY <1>0, <1>1, Neighbours
<1>4. F[lo] \in U /\ In(F1, lo + 1, hi) = U \ {F[lo]}
  <2>2. TakenFrom(In(F, lo, hi), In(F1, lo + 1, hi), F[lo])
    BY <1>1, ElementsTaken DEF Changed
  <2> QED BY <2>2 DEF TakenFrom
<1>5. x = F[lo] /\ Cyclic(n1, p1, F1, lo + 1, hi, free_head)
  <2> DEFINE y == nx[free_head]
  <2>1. /\ y = F[lo]
        /\ Cyclic([nx EXCEPT ![free_head] = nx[y], ![y] = NULL],
                  [pv EXCEPT ![nx[y]] = free_head, ![y] = NULL],
                  [F EXCEPT ![lo] = free_head], lo + 1, hi, free_head)
    BY <1>0, <1>1, TakeFirstOut
  <2> HIDE DEF y
  <2>2. x = y
    BY <1>6a DEF y
  <2> QED BY ONLY <2>1, <2>2, Changed(F1, F, lo, free_head) DEF Changed, n1, p1
<1>6. x \in U /\ x \in Node /\ x \in Elem /\ x \notin V /\ nx[x] \in U \cup {free_head} /\ nx[x] \in Elem
  BY <1>0, <1>2, <1>3, <1>4, <1>5
<1>7. LinkFunctions(n1, p1)
  <2>1. nx[x] \in Elem /\ free_head \in Elem
    BY <1>0, <1>6
  <2> QED BY <1>0, <1>6, <2>1 DEF LinkFunctions
<1>8. \A y \in Elem : y \notin U \cup {free_head} => n1[y] = nx[y] /\ p1[y] = pv[y]
  BY <1>0, <1>6 DEF LinkFunctions
<1>9. \A y \in Elem : y = stackHead \/ y \in V => n1[y] = nx[y] /\ p1[y] = pv[y]
  BY <1>0, <1>2, <1>8
<1> HIDE DEF n1, p1, U, V
<1>10. Cyclic(n1, p1, S, 1, m, stackHead)
  BY <1>0, <1>1, <1>9, OtherRing DEF V
<1>11. Cyclic(n2, p2, S1, 1, m + 1, stackHead)
  <2>1. x \notin In(S, 1, m)
    BY <1>6 DEF V
  <2>2. Cyclic([n1 EXCEPT ![x] = stackHead, ![a] = x], [p1 EXCEPT ![x] = a, ![stackHead] = x],
               [S EXCEPT ![m + 1] = x], 1, m + 1, stackHead)
    BY <1>0, <1>6, <1>7, <1>10, <2>1, AddAtEnd
  <2> QED BY <2>2, <1>6a DEF Changed
<1>12. a \in V \cup {stackHead} /\ a \in Elem
  BY <1>0, <1>10, Neighbours DEF V
<1>13. In(S1, 1, m + 1) = V \cup {x}
  <2>1. 1 \in Int /\ m \in Int /\ 1 <= m + 1
    BY <1>0
  <2>2. PutIn(In(S, 1, m), In(S1, 1, m + 1), x)
    BY <1>0, <1>6, <2>1, ElementsPut DEF Changed
  <2> QED BY <2>2 DEF V, PutIn
<1> HIDE DEF a
<1>14. LinkFunctions(n2, p2)
  BY <1>0, <1>6, <1>6a, <1>7, <1>12 DEF LinkFunctions
<1>15. \A y \in Elem : y = free_head \/ y \in U \ {x} => n2[y] = n1[y] /\ p2[y] = p1[y]
  BY <1>0, <1>2, <1>6, <1>6a, <1>7, <1>12 DEF LinkFunctions
<1>16. Cyclic(n2, p2, F1, lo + 1, hi, free_head)
  <2>1. In(F1, lo + 1, hi) = U \ {x}
    BY <1>4, <1>5
  <2> QED BY <1>0, <1>5, <1>15, <2>1, OtherRing
<1>17. ((hi - (lo + 1)) + 1) + (m + 1) = Nodes
  <2>1. ((hi - lo) + 1) + m = Nodes
    BY DEF Two
  <2> QED BY <1>0, <2>1
<1>18. In(F1, lo + 1, hi) \cap In(S1, 1, m + 1) = {} /\ Node \subseteq In(F1, lo + 1, hi) \cup In(S1, 1, m + 1)
  BY <1>2, <1>4, <1>5, <1>6, <1>13
<1>19. Two(n2, p2, F1, lo + 1, hi, S1, m + 1)
  BY <1>0, <1>11, <1>14, <1>16, <1>17, <1>18 DEF Two
<1>20. \A k \in 1 .. m : S[k] # x
  BY <1>6 DEF V, In
<1> QED BY <1>6, <1>19, <1>20

\* A pop takes the last of the stack and makes it the first free node.
LEMMA OnePopped ==
  ASSUME NEW nx, NEW pv, NEW F, NEW lo, NEW hi, NEW S, NEW m, Two(nx, pv, F, lo, hi, S, m), m > 0,
         NEW x, NEW n2, NEW p2, Popped(nx, pv, x, n2, p2),
         NEW F1, Changed(F1, F, lo - 1, x), NEW S1, Changed(S1, S, m, stackHead)
  PROVE  Two(n2, p2, F1, lo - 1, hi, S1, m - 1) /\ x \in Node /\ x = S[m]
<1> DEFINE n1 == [nx EXCEPT ![pv[x]] = stackHead, ![x] = NULL]
           p1 == [pv EXCEPT ![stackHead] = pv[x], ![x] = NULL]
           a == n1[free_head]
           U == In(F, lo, hi)
           V == In(S, 1, m)
<1>6a. /\ x = pv[stackHead]
       /\ n2 = [n1 EXCEPT ![x] = a, ![free_head] = x]
       /\ p2 = [p1 EXCEPT ![a] = x, ![x] = free_head]
  BY DEF Popped
<1>0. /\ lo \in Int /\ hi \in Int /\ F \in [Int -> Elem] /\ S \in [Int -> Elem] /\ m \in Nat
      /\ LinkFunctions(nx, pv) /\ free_head \in Elem /\ stackHead \in Elem /\ free_head # stackHead
      /\ free_head \in RingHead /\ stackHead \in RingHead /\ lo <= hi + 1 /\ 1 <= m
      /\ free_head \notin Node /\ stackHead \notin Node /\ Node \subseteq Elem
  BY Elements DEF Two, Cyclic
<1>1. Cyclic(nx, pv, F, lo, hi, free_head) /\ Cyclic(nx, pv, S, 1, m, stackHead)
  BY DEF Two
<1>2. U \subseteq Node /\ V \subseteq Node /\ U \cap V = {} /\ Node \subseteq U \cup V
  BY <1>0, <1>1, Neighbours DEF Two
<1>3. \A y \in V \cup {stackHead} : pv[y] \in V \cup {stackHead} /\ y \in Elem
  BY <1>0, <1>1, Neighbours
<1>4. S[m] \in V /\ In(S1, 1, m - 1) = V \ {S[m]}
  <2>2. TakenFrom(In(S, 1, m), In(S1, 1, m - 1), S[m])
    BY <1>0, <1>1, ElementsTaken DEF Changed
  <2> QED BY <2>2 DEF TakenFrom
<1>5. x = S[m] /\ Cyclic(n1, p1, S1, 1, m - 1, stackHead)
  <2> DEFINE y == pv[stackHead]
  <2>1. /\ y = S[m]
        /\ Cyclic([nx EXCEPT ![pv[y]] = stackHead, ![y] = NULL],
                  [pv EXCEPT ![stackHead] = pv[y], ![y] = NULL],
                  [S EXCEPT ![m] = stackHead], 1, m - 1, stackHead)
    BY <1>0, <1>1, TakeLastOut
  <2> HIDE DEF y
  <2>2. x = y
    BY <1>6a DEF y
  <2> QED BY ONLY <2>1, <2>2, Changed(S1, S, m, stackHead) DEF Changed, n1, p1
<1>6. x \in V /\ x \in Node /\ x \in Elem /\ x \notin U /\ pv[x] \in V \cup {stackHead} /\ pv[x] \in Elem
  BY <1>0, <1>2, <1>3, <1>4, <1>5
<1>7. LinkFunctions(n1, p1)
  BY <1>0, <1>6 DEF LinkFunctions
<1>8. \A y \in Elem : y \notin V \cup {stackHead} => n1[y] = nx[y] /\ p1[y] = pv[y]
  BY <1>0, <1>6 DEF LinkFunctions
<1>9. \A y \in Elem : y = free_head \/ y \in U => n1[y] = nx[y] /\ p1[y] = pv[y]
  BY <1>0, <1>2, <1>8
<1> HIDE DEF n1, p1, U, V
<1>10. Cyclic(n1, p1, F, lo, hi, free_head)
  BY <1>0, <1>1, <1>9, OtherRing DEF U
<1>11. Cyclic(n2, p2, F1, lo - 1, hi, free_head)
  <2>1. x \notin In(F, lo, hi)
    BY <1>6 DEF U
  <2>2. Cyclic([n1 EXCEPT ![x] = a, ![free_head] = x], [p1 EXCEPT ![a] = x, ![x] = free_head],
               [F EXCEPT ![lo - 1] = x], lo - 1, hi, free_head)
    BY <1>0, <1>6, <1>7, <1>10, <2>1, AddInFront
  <2> QED BY <2>2, <1>6a DEF Changed
<1>12. a \in U \cup {free_head} /\ a \in Elem
  BY <1>0, <1>10, Neighbours DEF U
<1>13. In(F1, lo - 1, hi) = U \cup {x}
  <2>2. PutIn(In(F, lo, hi), In(F1, lo - 1, hi), x)
    BY <1>0, <1>6, ElementsPut DEF Changed
  <2> QED BY <2>2 DEF U, PutIn
<1> HIDE DEF a
<1>14. LinkFunctions(n2, p2)
  BY <1>0, <1>6, <1>6a, <1>7, <1>12 DEF LinkFunctions
<1>15. \A y \in Elem : y = stackHead \/ y \in V \ {x} => n2[y] = n1[y] /\ p2[y] = p1[y]
  BY <1>0, <1>2, <1>6, <1>6a, <1>7, <1>12 DEF LinkFunctions
<1>16. Cyclic(n2, p2, S1, 1, m - 1, stackHead)
  <2>1. In(S1, 1, m - 1) = V \ {x}
    BY <1>4, <1>5
  <2> QED BY <1>0, <1>5, <1>15, <2>1, OtherRing
<1>17. ((hi - (lo - 1)) + 1) + (m - 1) = Nodes /\ m - 1 \in Nat
  <2>1. ((hi - lo) + 1) + m = Nodes
    BY DEF Two
  <2> QED BY <1>0, <2>1
<1>18. In(F1, lo - 1, hi) \cap In(S1, 1, m - 1) = {} /\ Node \subseteq In(F1, lo - 1, hi) \cup In(S1, 1, m - 1)
  BY <1>2, <1>4, <1>5, <1>6, <1>13
<1>19. Two(n2, p2, F1, lo - 1, hi, S1, m - 1)
  BY <1>0, <1>11, <1>14, <1>16, <1>17, <1>18 DEF Two
<1> QED BY <1>5, <1>6, <1>19

\* The invariant.  While free_list is linked, its ring is of the first nodes.
Filling(F, lo, hi) ==
  /\ Cyclic(next, prev, F, lo, hi, free_head) /\ LinkFunctions(next, prev)
  /\ i \in 1 .. Nodes + 1 /\ In(F, lo, hi) = 1 .. i - 1 /\ (hi - lo) + 1 = i - 1

\* The stack has the characters read so far in their order.
Pushing(F, lo, hi, S) ==
  /\ i \in 1 .. Len(input) + 1 /\ word = input
  /\ Two(next, prev, F, lo, hi, S, i - 1)
  /\ \A k \in 1 .. i - 1 : data[S[k]] = input[k]

\* The first i - 1 characters have been replaced by the last ones.
Popping(F, lo, hi, S, m) ==
  /\ i \in 1 .. Len(input) + 1 /\ m = Len(input) - (i - 1)
  /\ word \in [1 .. Len(input) -> Letters]
  /\ Two(next, prev, F, lo, hi, S, m)
  /\ \A k \in 1 .. m : data[S[k]] = input[k]
  /\ \A k \in 1 .. i - 1 : word[k] = input[(Len(input) + 1) - k]

\* The invariant of the order, phase by phase.
OrderInv ==
  /\ at \in {"init", "scan", "push", "pop", "done", "exit"}
  /\ data \in [Node -> Letters \cup {NULL}] /\ input \in Seq(Letters)
  /\ at \in {"init", "scan"} => \E F, lo, hi : Filling(F, lo, hi)
  /\ at = "scan" => i = Nodes + 1
  /\ at = "push" => \E F, lo, hi, S : Pushing(F, lo, hi, S)
  /\ at = "pop" => \E F, lo, hi, S, m : Popping(F, lo, hi, S, m)
  /\ at = "done" => \E F, lo, hi, S : Popping(F, lo, hi, S, 0)

\* A head linked to itself is a ring without elements.
LEMMA EmptyRing ==
  ASSUME NEW nx, NEW pv, NEW h \in Elem, h \notin Node, nx[h] = h, pv[h] = h,
         NEW F, F = [k \in Int |-> h]
  PROVE  Cyclic(nx, pv, F, 1, 0, h) /\ In(F, 1, 0) = {}
<1>1. F \in [Int -> Elem] /\ \A k \in Int : F[k] = h
  OBVIOUS
<1>2. 1 .. 0 = {} /\ \A k \in 1 - 1 .. 0 : k \in Int /\ k + 1 \in Int
  OBVIOUS
<1>3. Cyclic(nx, pv, F, 1, 0, h)
  BY <1>1, <1>2 DEF Cyclic
<1>4. In(F, 1, 0) = {}
  BY <1>2 DEF In
<1> QED BY <1>3, <1>4

\* The empty rings.
LEMMA InitOrder == ListInit => OrderInv
<1> SUFFICES ASSUME ListInit PROVE OrderInv
  OBVIOUS
<1>0. PICK F : F = [k \in Int |-> free_head]
  OBVIOUS
<1>1. /\ next = [x \in Elem |-> IF x = free_head THEN free_head ELSE NULL]
      /\ prev = next /\ at = "init" /\ i = 1
      /\ data = [x \in Node |-> NULL] /\ input = <<>>
  BY DEF ListInit
<1>2. free_head \in Elem /\ free_head \notin Node
  BY Elements
<1>3. next[free_head] = free_head /\ prev[free_head] = free_head
  BY <1>1, <1>2
<1>4. Cyclic(next, prev, F, 1, 0, free_head) /\ In(F, 1, 0) = {}
  BY <1>0, <1>2, <1>3, EmptyRing
<1>5. LinkFunctions(next, prev)
  BY <1>1, <1>2 DEF LinkFunctions
<1>6. i \in 1 .. Nodes + 1 /\ 1 .. i - 1 = {} /\ (0 - 1) + 1 = i - 1
  BY <1>1, ListAssumption
<1>7. Filling(F, 1, 0)
  BY <1>4, <1>5, <1>6 DEF Filling
<1>8. data \in [Node -> Letters \cup {NULL}] /\ input \in Seq(Letters)
  BY <1>1
<1> QED BY <1>1, <1>7, <1>8 DEF OrderInv

\* init_free_list adds the nodes one by one to the end of the free list.
LEMMA LinkFreeOrder ==
  ASSUME OrderInv, LinkFree
  PROVE  OrderInv'
<1>1. at = "init" /\ UNCHANGED <<data, input>>
  BY DEF LinkFree
<1>2. PICK F, lo, hi : Filling(F, lo, hi)
  BY <1>1 DEF OrderInv
<1>3. /\ Cyclic(next, prev, F, lo, hi, free_head) /\ LinkFunctions(next, prev)
      /\ i \in 1 .. Nodes + 1 /\ In(F, lo, hi) = 1 .. i - 1 /\ (hi - lo) + 1 = i - 1
  BY <1>2 DEF Filling
<1>4. CASE ~ (i <= Nodes)
  <2>1. at' = "scan" /\ UNCHANGED <<i, next, prev>>
    BY <1>4 DEF LinkFree
  <2>2. Filling(F, lo, hi)'
    BY <2>1, <1>3 DEF Filling
  <2>3. i = Nodes + 1
    BY <1>3, <1>4, ListAssumption
  <2> QED BY <1>1, <2>1, <2>2, <2>3 DEF OrderInv
<1>5. CASE i <= Nodes
  <2>0. PICK e : e = i
    OBVIOUS
  <2> DEFINE a == prev[free_head]
             n2 == [next EXCEPT ![i] = free_head, ![a] = i]
             p2 == [prev EXCEPT ![i] = a, ![free_head] = i]
             G == [F EXCEPT ![hi + 1] = e]
  <2>1. next' = n2 /\ prev' = p2 /\ i' = i + 1 /\ at' = "init"
    BY <1>1, <1>5 DEF LinkFree, SetLinks, AddToLast, Links
  <2>2. i \in Node /\ i \in Elem /\ i \notin In(F, lo, hi)
    BY <1>3, <1>5, ListAssumption DEF Node, Elem
  <2>3. Cyclic(n2, p2, G, lo, hi + 1, free_head)
    BY <1>3, <2>0, <2>2, Elements, AddAtEnd
  <2>4. lo \in Int /\ hi \in Int /\ lo <= hi + 1 /\ F \in [Int -> Elem]
    BY <1>3 DEF Cyclic
  <2>5. a \in Elem
    BY <1>3, Neighbours, Elements
  <2>6. LinkFunctions(n2, p2)
    <3>1. i \in Elem /\ free_head \in Elem
      BY <2>2, Elements
    <3> HIDE DEF a
    <3> QED BY <1>3, <2>5, <3>1 DEF LinkFunctions
  <2>7. In(G, lo, hi + 1) = 1 .. (i + 1) - 1
    <3>1. G = [F EXCEPT ![hi + 1] = i]
      BY <2>0
    <3> HIDE DEF G
    <3>2. PutIn(In(F, lo, hi), In(G, lo, hi + 1), i)
      BY <2>2, <2>4, <3>1, ElementsPut
    <3>3. (1 .. i - 1) \cup {i} = 1 .. (i + 1) - 1
      BY <1>3
    <3> QED BY <1>3, <3>2, <3>3 DEF PutIn
  <2>8. i + 1 \in 1 .. Nodes + 1 /\ ((hi + 1) - lo) + 1 = (i + 1) - 1
    BY <1>3, <1>5, <2>4, ListAssumption
  <2> HIDE DEF n2, p2, G, a
  <2>9. Filling(G, lo, hi + 1)'
    BY <2>1, <2>3, <2>6, <2>7, <2>8 DEF Filling
  <2> QED BY <1>1, <2>1, <2>9 DEF OrderInv
<1> QED BY <1>4, <1>5

\* A word is read once every node is free.
LEMMA ScanWordOrder ==
  ASSUME OrderInv, ScanWord
  PROVE  OrderInv'
<1>1. PICK k \in 0 .. MaxWord : \E w \in [1 .. k -> Letters] : input' = w /\ word' = w
  BY DEF ScanWord
<1>2. /\ at = "scan" /\ at' = "push" /\ i' = 1 /\ data' = data /\ word' = input'
      /\ next' = [next EXCEPT ![stackHead] = stackHead]
      /\ prev' = [prev EXCEPT ![stackHead] = stackHead]
  BY <1>1 DEF ScanWord, SetLinks, InitHead, Links
<1>3. input' \in Seq(Letters) /\ Len(input') \in Nat
  <2>1. k \in Nat
    BY ListAssumption
  <2>2. \A w \in [1 .. k -> Letters] : w \in Seq(Letters)
    BY <2>1
  <2> QED BY <1>1, <2>2
<1>4. PICK F, lo, hi : Filling(F, lo, hi)
  BY <1>2 DEF OrderInv
<1>5. i = Nodes + 1 /\ Nodes \in Nat
  BY <1>2, ListAssumption DEF OrderInv
<1>6. /\ Cyclic(next, prev, F, lo, hi, free_head) /\ LinkFunctions(next, prev)
      /\ In(F, lo, hi) = Node /\ (hi - lo) + 1 = Nodes
  <2>1. (Nodes + 1) - 1 = Nodes
    BY <1>5
  <2> QED BY <1>4, <1>5, <2>1 DEF Filling, Node
<1>7. stackHead \in Elem /\ stackHead \notin Node /\ free_head # stackHead
  BY Elements
<1>7a. PICK S : S = [k1 \in Int |-> stackHead]
  OBVIOUS
<1>8. LinkFunctions(next', prev') /\ next'[stackHead] = stackHead /\ prev'[stackHead] = stackHead
      /\ \A y \in Elem : y # stackHead => next'[y] = next[y] /\ prev'[y] = prev[y]
  BY <1>2, <1>6, <1>7 DEF LinkFunctions
<1>9. Cyclic(next', prev', S, 1, 0, stackHead) /\ In(S, 1, 0) = {}
  <2>1. PICK u, v : u = next' /\ v = prev'
    OBVIOUS
  <2>2. u[stackHead] = stackHead /\ v[stackHead] = stackHead
    BY <1>8, <2>1
  <2>3. Cyclic(u, v, S, 1, 0, stackHead) /\ In(S, 1, 0) = {}
    BY <1>7, <1>7a, <2>2, EmptyRing
  <2> QED BY <2>1, <2>3
<1>10. Cyclic(next', prev', F, lo, hi, free_head)
  BY <1>6, <1>7, <1>8, OtherRing, Elements
<1>11. ((hi - lo) + 1) + 0 = Nodes
  BY <1>6, <1>5
<1>12. Two(next', prev', F, lo, hi, S, 0)
  BY <1>6, <1>8, <1>9, <1>10, <1>11 DEF Two
<1>13. Pushing(F, lo, hi, S)'
  <2>1. 1 \in 1 .. Len(input') + 1 /\ 1 - 1 = 0 /\ 1 .. 0 = {}
    BY <1>3
  <2> QED BY <1>2, <1>12, <2>1 DEF Pushing
<1> QED BY <1>2, <1>3, <1>13 DEF OrderInv

\* A ring is empty exactly when its head is linked to itself.
LEMMA Emptiness ==
  ASSUME NEW nx, NEW pv, NEW F, NEW lo, NEW hi, NEW h \in RingHead, Cyclic(nx, pv, F, lo, hi, h)
  PROVE  nx[h] = h <=> ~ (lo <= hi)
<1>0. lo \in Int /\ hi \in Int /\ lo <= hi + 1 /\ h \notin Node
  BY Elements DEF Cyclic, RingHead
<1>1. lo - 1 \in lo - 1 .. hi /\ lo - 1 \notin lo .. hi /\ lo - 1 \in Int /\ (lo - 1) + 1 = lo
  BY <1>0
<1>2. F[lo - 1] = h
  BY <1>1 DEF Cyclic
<1>3. nx[h] = F[lo]
  BY <1>1, <1>2 DEF Cyclic
<1>4. lo <= hi => F[lo] \in Node
  BY <1>0 DEF Cyclic
<1>5. ~ (lo <= hi) => F[lo] = h
  BY <1>0 DEF Cyclic
<1> QED BY <1>0, <1>3, <1>4, <1>5

\* A character pushed is the data of the stack's last node.
LEMMA PushCharOrder ==
  ASSUME OrderInv, PushChar
  PROVE  OrderInv'
<1>1. /\ at = "push" /\ at' = "push" /\ i <= Len(word) /\ next[free_head] # free_head
      /\ i' = i + 1 /\ input' = input /\ word' = word
  BY DEF PushChar, IsEmpty
<1>2. PICK x : x = next[free_head]
  OBVIOUS
<1>3. data' = [data EXCEPT ![x] = word[i]]
  BY <1>2 DEF PushChar
<1>4. Pushed(next, prev, x, next', prev')
  BY <1>2 DEF PushChar, SetLinks, AddToLast, RemoveFirst, Links, Pushed
<1>5. PICK F, lo, hi, S : Pushing(F, lo, hi, S)
  BY <1>1 DEF OrderInv
<1>6. /\ i \in 1 .. Len(input) + 1 /\ word = input
      /\ Two(next, prev, F, lo, hi, S, i - 1)
      /\ \A k \in 1 .. i - 1 : data[S[k]] = input[k]
  BY <1>5 DEF Pushing
<1>7. input \in Seq(Letters) /\ data \in [Node -> Letters \cup {NULL}] /\ Len(input) \in Nat
  BY DEF OrderInv
<1>8. PICK e : e = i
  OBVIOUS
<1>8a. e \in 1 .. Len(input) /\ input[e] \in Letters
  BY <1>1, <1>6, <1>7, <1>8
<1>9. lo <= hi
  BY <1>1, <1>6, Emptiness, Elements DEF Two
<1>10. PICK F1, S1 : Changed(F1, F, lo, free_head) /\ Changed(S1, S, e, x)
  BY DEF Changed
<1>11. Two(next', prev', F1, lo + 1, hi, S1, e) /\ x \in Node /\ \A k \in 1 .. e - 1 : S[k] # x
  <2>1. PICK n2, p2 : n2 = next' /\ p2 = prev'
    OBVIOUS
  <2>2. (e - 1) + 1 = e
    BY <1>8a, <1>7
  <2>3. PICK m : m = e - 1
    OBVIOUS
  <2>4. Changed(S1, S, m + 1, x) /\ Two(next, prev, F, lo, hi, S, m) /\ Pushed(next, prev, x, n2, p2)
    BY <1>4, <1>6, <1>8, <1>10, <2>1, <2>2, <2>3
  <2>5. Two(n2, p2, F1, lo + 1, hi, S1, m + 1) /\ x \in Node /\ \A k \in 1 .. m : S[k] # x
    BY <1>9, <1>10, <2>4, OnePushed
  <2> QED BY <2>1, <2>2, <2>3, <2>5
<1>12. S \in [Int -> Elem] /\ \A k \in 1 .. e - 1 : S[k] \in Node
  <2>1. Cyclic(next, prev, S, 1, e - 1, stackHead)
    BY <1>6, <1>8 DEF Two
  <2>2. \A k \in 1 .. e - 1 : k \in Int
    BY <1>8a, <1>7
  <2> QED BY <2>1, <2>2 DEF Cyclic
<1>13. \A k \in 1 .. e : data'[S1[k]] = input[k]
  <2> SUFFICES ASSUME NEW k \in 1 .. e PROVE data'[S1[k]] = input[k]
    OBVIOUS
  <2>1. CASE k = e
    <3>1. S1[k] = x
      BY <2>1, <1>8a, <1>7, <1>10, <1>12 DEF Changed
    <3> QED BY <2>1, <3>1, <1>3, <1>6, <1>7, <1>8, <1>11
  <2>2. CASE k # e
    <3>1. k \in 1 .. e - 1 /\ k \in Int
      BY <2>2, <1>8a, <1>7
    <3>2. S1[k] = S[k] /\ S[k] # x /\ S[k] \in Node
      BY <2>2, <3>1, <1>10, <1>11, <1>12 DEF Changed
    <3> QED BY <3>1, <3>2, <1>3, <1>6, <1>7, <1>8
  <2> QED BY <2>1, <2>2
<1>14. data' \in [Node -> Letters \cup {NULL}]
  BY <1>3, <1>6, <1>7, <1>8, <1>8a
<1>15. Pushing(F1, lo + 1, hi, S1)'
  <2>1. e + 1 \in 1 .. Len(input) + 1 /\ (e + 1) - 1 = e
    BY <1>8a, <1>7
  <2> QED BY <1>1, <1>6, <1>8, <1>11, <1>13, <2>1 DEF Pushing
<1> QED BY <1>1, <1>7, <1>14, <1>15 DEF OrderInv

\* The word is on the stack, or there was no free node for the next character.
LEMMA EndPushOrder ==
  ASSUME OrderInv, EndPush
  PROVE  OrderInv'
<1>1. at = "push" /\ at' = "pop" /\ i > Len(word) /\ i' = 1 /\ UNCHANGED <<next, prev, data, input, word>>
  BY DEF EndPush
<1>2. PICK F, lo, hi, S : Pushing(F, lo, hi, S)
  BY <1>1 DEF OrderInv
<1>3. input \in Seq(Letters) /\ Len(input) \in Nat /\ input \in [1 .. Len(input) -> Letters]
  BY DEF OrderInv
<1>4. i - 1 = Len(input) /\ word = input
  BY <1>1, <1>2, <1>3 DEF Pushing
<1>5. PICK m : m = i - 1
  OBVIOUS
<1>6. Two(next, prev, F, lo, hi, S, m) /\ \A k \in 1 .. m : data[S[k]] = input[k]
  BY <1>2, <1>5 DEF Pushing
<1>7. 1 \in 1 .. Len(input) + 1 /\ m = Len(input) - (1 - 1) /\ 1 .. 1 - 1 = {}
  BY <1>3, <1>4, <1>5
<1>8. Popping(F, lo, hi, S, m)'
  BY <1>1, <1>3, <1>4, <1>6, <1>7 DEF Popping
<1> QED BY <1>1, <1>8 DEF OrderInv

\* A character popped is the one the stack had last: the output is the word's
\* reverse so far.
LEMMA PopCharOrder ==
  ASSUME OrderInv, PopChar
  PROVE  OrderInv'
<1>1. /\ at = "pop" /\ at' = "pop" /\ next[stackHead] # stackHead
      /\ i' = i + 1 /\ input' = input /\ data' = data
  BY DEF PopChar, IsEmpty
<1>2. PICK x : x = prev[stackHead]
  OBVIOUS
<1>3. word' = [word EXCEPT ![i] = data[x]]
  BY <1>2 DEF PopChar
<1>4. Popped(next, prev, x, next', prev')
  BY <1>2 DEF PopChar, SetLinks, AddToFirst, RemoveLast, Links, Popped
<1>5. PICK F, lo, hi, S, m : Popping(F, lo, hi, S, m)
  BY <1>1 DEF OrderInv
<1>6. /\ i \in 1 .. Len(input) + 1 /\ m = Len(input) - (i - 1)
      /\ word \in [1 .. Len(input) -> Letters]
      /\ Two(next, prev, F, lo, hi, S, m)
      /\ \A k \in 1 .. m : data[S[k]] = input[k]
      /\ \A k \in 1 .. i - 1 : word[k] = input[(Len(input) + 1) - k]
  BY <1>5 DEF Popping
<1>7. input \in Seq(Letters) /\ data \in [Node -> Letters \cup {NULL}] /\ Len(input) \in Nat
  BY DEF OrderInv
<1>8. PICK e : e = i
  OBVIOUS
<1>9. m > 0
  <2>1. 1 <= m
    BY <1>1, <1>6, Emptiness, Elements DEF Two
  <2> QED BY <2>1, <1>6 DEF Two
<1>10. e \in 1 .. Len(input) /\ m \in 1 .. Len(input) /\ m = (Len(input) + 1) - e /\ input[m] \in Letters
  BY <1>6, <1>7, <1>8, <1>9
<1>11. PICK F1, S1 : Changed(F1, F, lo - 1, x) /\ Changed(S1, S, m, stackHead)
  BY DEF Changed
<1>12. Two(next', prev', F1, lo - 1, hi, S1, m - 1) /\ x = S[m]
  <2>1. PICK n2, p2 : n2 = next' /\ p2 = prev'
    OBVIOUS
  <2>3. Popped(next, prev, x, n2, p2)
    BY <1>4, <2>1
  <2>4. Two(n2, p2, F1, lo - 1, hi, S1, m - 1) /\ x \in Node /\ x = S[m]
    BY <1>6, <1>9, <1>11, <2>3, OnePopped
  <2> QED BY <2>1, <2>4
<1>13. data[x] = input[m]
  <2>1. m \in 1 .. m
    BY <1>10
  <2> QED BY <2>1, <1>6, <1>12
<1>14. word' = [word EXCEPT ![e] = input[m]]
  BY <1>3, <1>8, <1>13
<1>15. word' \in [1 .. Len(input) -> Letters] /\ \A k \in 1 .. e : word'[k] = input[(Len(input) + 1) - k]
  <2>1. word' \in [1 .. Len(input) -> Letters] /\ word'[e] = input[m]
        /\ \A k \in 1 .. e - 1 : word'[k] = word[k]
    BY <1>6, <1>10, <1>14
  <2>2. \A k \in 1 .. e : k = e \/ k \in 1 .. e - 1
    BY <1>10
  <2> QED BY <2>1, <2>2, <1>6, <1>8, <1>10
<1>16. S \in [Int -> Elem]
  BY <1>6 DEF Two, Cyclic
<1>17. \A k \in 1 .. m - 1 : data[S1[k]] = input[k]
  <2> SUFFICES ASSUME NEW k \in 1 .. m - 1 PROVE data[S1[k]] = input[k]
    OBVIOUS
  <2>1. k \in 1 .. m /\ k # m
    BY <1>10
  <2>2. S1[k] = S[k]
    BY <2>1, <1>16, <1>11 DEF Changed
  <2> QED BY <2>1, <2>2, <1>6
<1>18. e + 1 \in 1 .. Len(input) + 1 /\ m - 1 = Len(input) - ((e + 1) - 1) /\ (e + 1) - 1 = e
  BY <1>10, <1>7
<1>19. Popping(F1, lo - 1, hi, S1, m - 1)'
  BY <1>1, <1>8, <1>12, <1>15, <1>17, <1>18 DEF Popping
<1> QED BY <1>1, <1>7, <1>19 DEF OrderInv

\* The stack is empty, and every node free again.
LEMMA EndPopOrder ==
  ASSUME OrderInv, EndPop
  PROVE  OrderInv'
<1>1. at = "pop" /\ at' = "done" /\ next[stackHead] = stackHead /\ UNCHANGED <<i, next, prev, data, input, word>>
  BY DEF EndPop, IsEmpty
<1>2. PICK F, lo, hi, S, m : Popping(F, lo, hi, S, m)
  BY <1>1 DEF OrderInv
<1>3. m = 0
  <2>1. ~ (1 <= m) /\ m \in Nat
    BY <1>1, <1>2, Emptiness, Elements DEF Popping, Two
  <2> QED BY <2>1
<1>4. Popping(F, lo, hi, S, 0)
  BY <1>2, <1>3
<1>5. Popping(F, lo, hi, S, 0)'
  BY <1>1, <1>4 DEF Popping
<1> QED BY <1>1, <1>5 DEF OrderInv

\* The order of both rings in every reachable state, for any number of nodes and
\* any word: push and pop lose no node and no character.
THEOREM OrderInvariance == ListSpec => []OrderInv
<1>1. ListInit => OrderInv
  BY InitOrder
<1>2. OrderInv /\ [ListNext]_listVars => OrderInv'
  <2> SUFFICES ASSUME OrderInv, [ListNext]_listVars PROVE OrderInv'
    OBVIOUS
  <2>1. CASE UNCHANGED listVars
    BY <2>1 DEF OrderInv, listVars, Filling, Pushing, Popping
  <2>2. CASE OutOfList
    BY <2>2 DEF OrderInv, OutOfList
  <2> QED BY <2>1, <2>2, LinkFreeOrder, ScanWordOrder, PushCharOrder, EndPushOrder, PopCharOrder,
             EndPopOrder DEF ListNext
<1> QED BY <1>1, <1>2, PTL DEF ListSpec

-----------------------------------------------------------------------------

\* v follows next from the head of the free list.
IsWalk(v) == v = [k \in 0 .. Nodes |-> IF k = 0 THEN free_head ELSE next[v[k - 1]]]

\* The walk along next goes through the free ring in its order.
LEMMA WalkAlongRing ==
  ASSUME NEW F, NEW lo, NEW hi, Cyclic(next, prev, F, lo, hi, free_head), (hi - lo) + 1 = Nodes
  PROVE  \A k \in 0 .. Nodes : Walk[k] = F[(lo - 1) + k]
<1>0. lo \in Int /\ hi \in Int /\ Nodes \in Nat
  BY ListAssumption DEF Cyclic
<1> DEFINE f == [k \in 0 .. Nodes |-> F[(lo - 1) + k]]
<1>1. \A k \in 0 .. Nodes : f[k] = F[(lo - 1) + k]
  OBVIOUS
<1>2. f = [k \in 0 .. Nodes |-> f[k]]
  OBVIOUS
<1> HIDE DEF f
<1>3. F[(lo - 1) + 0] = free_head
  <2>1. (lo - 1) + 0 = lo - 1 /\ lo - 1 \in Int /\ lo - 1 \notin lo .. hi
    BY <1>0
  <2> QED BY <2>1 DEF Cyclic
<1>4. \A k \in 1 .. Nodes : F[(lo - 1) + k] = next[F[(lo - 1) + (k - 1)]]
  <2> SUFFICES ASSUME NEW k \in 1 .. Nodes PROVE F[(lo - 1) + k] = next[F[(lo - 1) + (k - 1)]]
    OBVIOUS
  <2>1. (lo - 1) + (k - 1) \in lo - 1 .. hi /\ ((lo - 1) + (k - 1)) + 1 = (lo - 1) + k
    BY <1>0
  <2> QED BY <2>1 DEF Cyclic
<1>5. \A k \in 0 .. Nodes : k = 0 \/ (k # 0 /\ k \in 1 .. Nodes /\ k - 1 \in 0 .. Nodes)
  BY <1>0
<1>6. \A k \in 0 .. Nodes : f[k] = IF k = 0 THEN free_head ELSE next[f[k - 1]]
  <2> SUFFICES ASSUME NEW k \in 0 .. Nodes PROVE f[k] = IF k = 0 THEN free_head ELSE next[f[k - 1]]
    OBVIOUS
  <2>1. CASE k = 0
    BY <2>1, <1>1, <1>3
  <2>2. CASE k # 0
    BY <2>2, <1>1, <1>4, <1>5
  <2> QED BY <2>1, <2>2
<1>7. IsWalk(f)
  BY <1>2, <1>6 DEF IsWalk
<1> DEFINE w == CHOOSE v : IsWalk(v)
<1>8. IsWalk(w)
  BY <1>7
<1>9. Walk = w
  BY DEF Walk, IsWalk
<1> HIDE DEF w
<1>10. \A k \in 0 .. Nodes : w[k] = IF k = 0 THEN free_head ELSE next[w[k - 1]]
  BY <1>8 DEF IsWalk
<1> DEFINE T == {k \in Nat : k <= Nodes => w[k] = f[k]}
<1>11. 0 \in T
  BY <1>0, <1>6, <1>10
<1>12. ASSUME NEW k \in Nat, k \in T PROVE k + 1 \in T
  <2> SUFFICES ASSUME k + 1 <= Nodes PROVE w[k + 1] = f[k + 1]
    OBVIOUS
  <2>1. k + 1 \in 0 .. Nodes /\ k + 1 # 0 /\ (k + 1) - 1 = k /\ k <= Nodes
    BY <1>0
  <2> QED BY <2>1, <1>6, <1>10, <1>12
<1>13. Nat \subseteq T
  <2> HIDE DEF T
  <2> QED BY <1>11, <1>12, Induction
<1>14. \A k \in 0 .. Nodes : w[k] = f[k]
  <2>1. \A k \in 0 .. Nodes : k \in Nat /\ k <= Nodes
    OBVIOUS
  <2> QED BY <2>1, <1>13
<1> QED BY <1>1, <1>9, <1>14

\* The order says what the property asks of the output and of the free list.
LEMMA OrderGivesReversed == OrderInv => Reversed
<1> SUFFICES ASSUME OrderInv, at = "done"
             PROVE  /\ \A k \in DOMAIN input : word[k] = input[Len(input) + 1 - k]
                    /\ Node \subseteq {Walk[k] : k \in 0 .. Nodes}
  BY DEF Reversed
<1>1. PICK F, lo, hi, S : Popping(F, lo, hi, S, 0)
  BY DEF OrderInv
<1>2. input \in Seq(Letters) /\ Len(input) \in Nat /\ DOMAIN input = 1 .. Len(input)
  BY DEF OrderInv
<1>3. i - 1 = Len(input)
  BY <1>1, <1>2 DEF Popping
<1>4. \A k \in DOMAIN input : word[k] = input[Len(input) + 1 - k]
  BY <1>1, <1>2, <1>3 DEF Popping
<1>5. Two(next, prev, F, lo, hi, S, 0)
  BY <1>1 DEF Popping
<1>6. /\ Cyclic(next, prev, F, lo, hi, free_head) /\ lo \in Int /\ hi \in Int
      /\ ((hi - lo) + 1) + 0 = Nodes /\ Node \subseteq In(F, lo, hi) \cup In(S, 1, 0)
  BY <1>5 DEF Two, Cyclic
<1>7. In(S, 1, 0) = {} /\ (hi - lo) + 1 = Nodes
  BY <1>6 DEF In
<1>8. \A k \in 0 .. Nodes : Walk[k] = F[(lo - 1) + k]
  BY <1>6, <1>7, WalkAlongRing
<1>9. \A j \in lo .. hi : (j - lo) + 1 \in 0 .. Nodes /\ (lo - 1) + ((j - lo) + 1) = j
  BY <1>6, <1>7
<1>10. ASSUME NEW x \in Node PROVE \E k \in 0 .. Nodes : Walk[k] = x
  <2>1. PICK j \in lo .. hi : x = F[j]
    BY <1>6, <1>7 DEF In
  <2> QED BY <2>1, <1>8, <1>9
<1>11. Node \subseteq {Walk[k] : k \in 0 .. Nodes}
  BY <1>10
<1> QED BY <1>4, <1>11

\* reverse prints the word backwards and gives every node back to the free list,
\* for any number of nodes and any word.
THEOREM WordReversed == ListSpec => []Reversed
BY OrderInvariance, OrderGivesReversed, PTL

-----------------------------------------------------------------------------

\* A set with one more element has twice as many subsets: 2^(k+1) = 2 * 2^k.
LEMMA Doubled ==
  ASSUME NEW S, NEW x, x \notin S, IsFiniteSet(S)
  PROVE  Cardinality(SUBSET (S \cup {x})) = 2 * Cardinality(SUBSET S)
<1> DEFINE A == SUBSET S
<1> DEFINE B == {U \cup {x} : U \in A}
<1> DEFINE f == [U \in A |-> U \cup {x}]
<1>1. IsFiniteSet(A)
  BY FS_SUBSET
<1>2. f \in Bijection(A, B)
  <2>1. f \in [A -> B] /\ \A b \in B : \E U \in A : f[U] = b
    OBVIOUS
  <2>2. \A U, V \in A : f[U] = f[V] => U = V
    OBVIOUS
  <2> QED BY <2>1, <2>2 DEF Bijection, Injection, Surjection, IsInjective
<1>3. IsFiniteSet(B) /\ Cardinality(B) = Cardinality(A)
  BY <1>1, <1>2, FS_Bijection DEF ExistsBijection
<1>4. A \cap B = {}
  OBVIOUS
<1>5. SUBSET (S \cup {x}) = A \cup B
  <2>1. ASSUME NEW V \in SUBSET (S \cup {x}) PROVE V \in A \cup B
    <3>1. CASE x \in V
      <4>1. V = (V \ {x}) \cup {x} /\ V \ {x} \in A
        BY <3>1
      <4> QED BY <4>1
    <3>2. CASE x \notin V
      BY <3>2
    <3> QED BY <3>1, <3>2
  <2>2. ASSUME NEW V \in A \cup B PROVE V \in SUBSET (S \cup {x})
    OBVIOUS
  <2> QED BY <2>1, <2>2
<1>8. Cardinality(SUBSET S) = Cardinality(A)
  OBVIOUS
<1>9. Cardinality(SUBSET (S \cup {x})) = Cardinality(A \cup B)
  <2> HIDE DEF A, B
  <2> QED BY <1>5, Zenon
<1> HIDE DEF A, B, f
<1>6. Cardinality(A \cup B) = Cardinality(A) + Cardinality(B) - Cardinality({})
  BY <1>1, <1>3, <1>4, FS_Union
<1>7. Cardinality({}) = 0 /\ Cardinality(A) \in Nat
  BY <1>1, FS_EmptySet, FS_CardinalityType
<1> QED BY <1>3, <1>6, <1>7, <1>8, <1>9

\* The powers of two, which BinSpec writes with ^.
LEMMA Powers ==
  ASSUME NEW k \in Nat
  PROVE  2 ^ k \in Nat /\ 2 ^ (k + 1) = 2 * 2 ^ k
<1>1. IsFiniteSet(1..k) /\ Cardinality(1..k) = k
  BY FS_Interval
<1>2. IsFiniteSet(1..k+1) /\ Cardinality(1..k+1) = k + 1
  BY FS_Interval
<1>3. 1..k+1 = (1..k) \cup {k + 1} /\ k + 1 \notin 1..k
  OBVIOUS
<1>4. Cardinality(SUBSET (1..k)) = 2 ^ k /\ Cardinality(SUBSET (1..k)) \in Nat
  BY <1>1, FS_SUBSET, FS_CardinalityType
<1>5. Cardinality(SUBSET (1..k+1)) = 2 ^ (k + 1)
  BY <1>2, FS_SUBSET
<1>6. Cardinality(SUBSET (1..k+1)) = 2 * Cardinality(SUBSET (1..k))
  BY <1>1, <1>3, Doubled
<1> QED BY <1>4, <1>5, <1>6

\* They are at least 1 and never decrease.
LEMMA PowersGrow ==
  ASSUME NEW j \in Nat, NEW k \in Nat, j <= k
  PROVE  2 ^ 0 = 1 /\ 1 <= 2 ^ j /\ 2 ^ j <= 2 ^ k
<1> DEFINE T == {d \in Nat : 2 ^ j <= 2 ^ (j + d)}
<1>1. 0 \in T
  <2>1. 2 ^ j \in Nat /\ j + 0 = j
    BY Powers
  <2> QED BY <2>1
<1>2. ASSUME NEW d \in Nat, d \in T PROVE d + 1 \in T
  <2>1. j + d \in Nat /\ j + (d + 1) = (j + d) + 1
    OBVIOUS
  <2>2. 2 ^ ((j + d) + 1) = 2 * 2 ^ (j + d) /\ 2 ^ (j + d) \in Nat /\ 2 ^ j \in Nat
    BY <2>1, Powers
  <2> QED BY <1>2, <2>1, <2>2
<1>3. Nat \subseteq T
  <2> HIDE DEF T
  <2> QED BY <1>1, <1>2, Induction
<1>4. 2 ^ j <= 2 ^ k
  <2>1. k - j \in T /\ j + (k - j) = k
    <3>1. k - j \in Nat /\ j + (k - j) = k
      OBVIOUS
    <3> HIDE DEF T
    <3> QED BY <1>3, <3>1
  <2> QED BY <2>1
<1> DEFINE R == {d \in Nat : 1 <= 2 ^ d}
<1>5. 2 ^ 0 = 1
  OBVIOUS
<1>6. 0 \in R
  BY <1>5
<1>7. ASSUME NEW d \in Nat, d \in R PROVE d + 1 \in R
  <2>1. 2 ^ (d + 1) = 2 * 2 ^ d /\ 2 ^ d \in Nat
    BY Powers
  <2> QED BY <1>7, <2>1
<1>8. Nat \subseteq R
  <2> HIDE DEF R
  <2> QED BY <1>6, <1>7, Induction
<1> QED BY <1>4, <1>5, <1>8

-----------------------------------------------------------------------------

\* The number of a longer sequence of digits.

\* v holds the numbers of the beginnings of p.
IsNumbering(v, p) ==
  v = [k \in 0 .. Len(p) |-> IF k = 0 THEN 0 ELSE 2 * v[k - 1] + p[k]]

\* Number(p) is the last of them.
LEMMA NumberingExists ==
  ASSUME NEW p \in Seq({0, 1})
  PROVE  \E v : IsNumbering(v, p) /\ Number(p) = v[Len(p)]
<1> DEFINE F == [x \in Nat \X Int |-> IF x[1] \in 1 .. Len(p) THEN 2 * x[2] + p[x[1]] ELSE 0]
<1>1. F \in [Nat \X Int -> Int] /\ 0 \in Int /\ Len(p) \in Nat
  OBVIOUS
<1>2. PICK f \in [0 .. Len(p) -> Int] : f[0] = 0 /\ \A k \in 1 .. Len(p) : f[k] = F[<<k, f[k - 1]>>]
  <2> DEFINE m == Len(p)
  <2>1. F \in [Nat \X Int -> Int] /\ 0 \in Int /\ m \in Nat
    BY <1>1
  <2> HIDE DEF F
  <2>2. \E f : Defined(f, Int, F, 0, m)
    BY <2>1, Recursion DEF Recursive
  <2> QED BY <2>2 DEF Defined
<1>3. \A k \in 1 .. Len(p) : f[k] = 2 * f[k - 1] + p[k]
  <2> SUFFICES ASSUME NEW k \in 1 .. Len(p) PROVE f[k] = 2 * f[k - 1] + p[k]
    OBVIOUS
  <2>1. k \in Nat /\ k - 1 \in 0 .. Len(p) /\ f[k - 1] \in Int
    BY <1>1
  <2>2. <<k, f[k - 1]>> \in Nat \X Int
    BY <2>1
  <2>3. F[<<k, f[k - 1]>>] = 2 * f[k - 1] + p[k]
    BY <2>2
  <2> QED BY <1>2, <2>3
<1>4. IsNumbering(f, p)
  <2> DEFINE g == [k \in 0 .. Len(p) |-> IF k = 0 THEN 0 ELSE 2 * f[k - 1] + p[k]]
  <2>1. \A k \in 0 .. Len(p) : f[k] = g[k]
    <3> SUFFICES ASSUME NEW k \in 0 .. Len(p) PROVE f[k] = g[k]
      OBVIOUS
    <3>1. CASE k = 0
      BY <3>1, <1>2
    <3>2. CASE k # 0
      <4>1. k \in 1 .. Len(p)
        BY <3>2, <1>1
      <4> QED BY <4>1, <3>2, <1>3
    <3> QED BY <3>1, <3>2
  <2>2. f = [k \in 0 .. Len(p) |-> f[k]] /\ g = [k \in 0 .. Len(p) |-> g[k]]
    BY <1>2
  <2>3. f = g
    <3> HIDE DEF g
    <3> QED BY <2>1, <2>2
  <2> QED BY <2>3 DEF IsNumbering
<1> DEFINE w == CHOOSE v : IsNumbering(v, p)
<1>5. IsNumbering(w, p)
  BY <1>4
<1>6. Number(p) = w[Len(p)]
  BY DEF Number, IsNumbering
<1> QED BY <1>5, <1>6

\* No digits are the number 0.
LEMMA NumberEmpty == Number(<<>>) = 0
<1>1. <<>> \in Seq({0, 1}) /\ Len(<<>>) = 0
  OBVIOUS
<1>2. PICK v : IsNumbering(v, <<>>) /\ Number(<<>>) = v[Len(<<>>)]
  BY <1>1, NumberingExists
<1>3. v[0] = 0
  BY <1>1, <1>2 DEF IsNumbering
<1> QED BY <1>1, <1>2, <1>3

\* One digit more doubles the number and adds the digit.
LEMMA NumberingValues ==
  ASSUME NEW v, NEW p, IsNumbering(v, p), Len(p) \in Nat
  PROVE  v[0] = 0 /\ \A k \in 1 .. Len(p) : v[k] = 2 * v[k - 1] + p[k]
<1>1. \A k \in 0 .. Len(p) : v[k] = IF k = 0 THEN 0 ELSE 2 * v[k - 1] + p[k]
  BY DEF IsNumbering
<1>2. \A k \in 1 .. Len(p) : k \in 0 .. Len(p) /\ k # 0
  OBVIOUS
<1>3. 0 \in 0 .. Len(p)
  OBVIOUS
<1> QED BY <1>1, <1>2, <1>3

\* So for a digit appended.
LEMMA NumberAppend ==
  ASSUME NEW p \in Seq({0, 1}), NEW d \in {0, 1}
  PROVE  Number(Append(p, d)) = 2 * Number(p) + d
<1> DEFINE q == Append(p, d)
<1> DEFINE l == Len(p)
<1>1. /\ l \in Nat /\ q \in Seq({0, 1}) /\ Len(q) = l + 1 /\ q[l + 1] = d
      /\ \A k \in 1 .. l : q[k] = p[k]
  OBVIOUS
<1> HIDE DEF q, l
<1>2. PICK v : IsNumbering(v, p) /\ Number(p) = v[l]
  BY NumberingExists DEF l
<1>3. PICK w : IsNumbering(w, q) /\ Number(q) = w[l + 1]
  BY <1>1, NumberingExists
<1>4. v[0] = 0 /\ \A k \in 1 .. l : v[k] = 2 * v[k - 1] + p[k]
  <2>1. Len(p) \in Nat
    BY <1>1 DEF l
  <2> QED BY <1>2, <2>1, NumberingValues DEF l
<1>5. w[0] = 0 /\ \A k \in 1 .. l + 1 : w[k] = 2 * w[k - 1] + q[k]
  <2>1. Len(q) \in Nat /\ Len(q) = l + 1
    BY <1>1
  <2>2. w[0] = 0 /\ \A k \in 1 .. Len(q) : w[k] = 2 * w[k - 1] + q[k]
    BY <1>3, <2>1, NumberingValues
  <2> QED BY <2>1, <2>2
<1> DEFINE T == {k \in Nat : k <= l => w[k] = v[k]}
<1>6. 0 \in T
  BY <1>4, <1>5
<1>7. ASSUME NEW k \in Nat, k \in T PROVE k + 1 \in T
  <2> SUFFICES ASSUME k + 1 <= l PROVE w[k + 1] = v[k + 1]
    OBVIOUS
  <2>1. k + 1 \in 1 .. l /\ k + 1 \in 1 .. l + 1 /\ (k + 1) - 1 = k /\ k <= l
    BY <1>1
  <2> QED BY <1>1, <1>4, <1>5, <1>7, <2>1
<1>8. l \in T
  <2> HIDE DEF T
  <2> QED BY <1>1, <1>6, <1>7, Induction
<1>9. w[l] = v[l]
  BY <1>8, <1>1
<1>10. l + 1 \in 1 .. l + 1 /\ (l + 1) - 1 = l
  BY <1>1
<1>11. w[l + 1] = 2 * w[l] + q[l + 1]
  BY <1>5, <1>10
<1> QED BY <1>1, <1>2, <1>3, <1>9, <1>11 DEF q

-----------------------------------------------------------------------------
\* The invariant.

\* The least number whose printing shifts 1 into the sign bit.
Small == 2 ^ (Width - 2)

\* What the calls down to shift have found.
Descended(m, s) == m < Small => s <= Width - 2 /\ (s > 0 => m >= 2 ^ (s - 1))

\* p is the part of the digits of m that lies above its lowest s bits.
Upper(m, s, p) ==
  /\ m < Small
  /\ s + Len(p) <= Width - 2
  /\ m <= 0 => s = 0 /\ p = <<>>
  /\ m > 0 => /\ s + Len(p) > 0
              /\ 2 ^ ((s + Len(p)) - 1) <= m /\ m < 2 ^ (s + Len(p))
              /\ Number(p) = m \div 2 ^ s
              /\ p # <<>> => p[1] = 1

\* The invariant of printbin, call by call: what has been printed are the digits of n
\* above the lowest shift bits.
BinInv ==
  /\ call \in {"scan", "down", "up", "done", "overflow"}
  /\ n \in IntRange /\ shift \in 0 .. MaxDepth /\ printed \in Seq({0, 1})
  /\ call \in {"scan", "down"} => printed = <<>>
  /\ call = "down" => Descended(n, shift)
  /\ call = "overflow" => n >= Small
  /\ call \in {"up", "done"} => Upper(n, shift, printed)
  /\ call = "done" => shift = 0

\* What the assumption on the word's width gives.
LEMMA WidthFacts ==
  /\ Width \in Nat /\ Width > 2 /\ MaxDepth \in Nat /\ MaxDepth > Width
  /\ Width - 1 \in Nat /\ Width - 2 \in Nat /\ Small \in Nat /\ Small >= 1
  /\ 2 ^ (Width - 1) = 2 * Small
<1>1. Width \in Nat /\ Width > 2 /\ MaxDepth \in Nat /\ MaxDepth > Width
  BY BinAssumption
<1>2. Width - 2 \in Nat /\ Width - 1 \in Nat /\ (Width - 2) + 1 = Width - 1
  BY <1>1
<1>3. 2 ^ (Width - 2) \in Nat /\ 2 ^ ((Width - 2) + 1) = 2 * 2 ^ (Width - 2)
  BY <1>2, Powers
<1>4. 1 <= 2 ^ (Width - 2)
  BY <1>2, PowersGrow
<1> QED BY <1>1, <1>2, <1>3, <1>4 DEF Small

\* 1 << s below the sign bit.
LEMMA Shifted ==
  ASSUME NEW s \in Nat, s <= Width - 2
  PROVE  s % Width = s /\ OneShifted(s) = 2 ^ s
<1>1. Width \in Nat /\ Width > 2
  BY WidthFacts
<1>2. s % Width = s /\ s # Width - 1
  BY <1>1
<1> QED BY <1>2 DEF OneShifted

\* No shifted 1 is greater than 2^(Width - 2).
LEMMA ShiftedBound ==
  ASSUME NEW s \in Nat
  PROVE  OneShifted(s) \in Int /\ OneShifted(s) <= Small
<1> DEFINE k == s % Width
<1>1. Width \in Nat /\ Width > 2 /\ Width - 2 \in Nat /\ Small \in Nat
  BY WidthFacts
<1>2. k \in 0 .. Width - 1
  BY <1>1
<1>3. OneShifted(s) = IF k = Width - 1 THEN -(2 ^ k) ELSE 2 ^ k
  BY DEF OneShifted
<1> HIDE DEF k
<1>4. k \in Nat /\ 2 ^ k \in Nat
  <2>1. k \in Nat
    BY <1>2
  <2> QED BY <2>1, Powers
<1>5. CASE k = Width - 1
  BY <1>1, <1>3, <1>4, <1>5
<1>6. CASE k # Width - 1
  <2>1. k <= Width - 2
    BY <1>1, <1>2, <1>6
  <2>2. 2 ^ k <= 2 ^ (Width - 2)
    BY <1>1, <1>4, <2>1, PowersGrow
  <2> QED BY <1>1, <1>3, <1>4, <1>6, <2>2 DEF Small
<1> QED BY <1>5, <1>6

\* A digit moved from the quotient to the remainder.
LEMMA Halved ==
  ASSUME NEW m \in Nat, NEW k \in Nat, k > 0
  PROVE  m \div k = 2 * (m \div (2 * k)) + ((m \div k) % 2)
<1>1. 2 * k \in Nat /\ 2 * k > 0
  OBVIOUS
<1> DEFINE a == m \div k
<1> DEFINE b == m \div (2 * k)
<1>2. a \in Nat /\ a * k <= m /\ m < a * k + k
  OBVIOUS
<1>3. b \in Nat /\ b * (2 * k) <= m /\ m < b * (2 * k) + 2 * k
  BY <1>1
<1> HIDE DEF a, b
<1>4. (2 * b) * k <= m /\ m < (2 * b + 2) * k
  BY <1>3
<1>5. 2 * b <= a
  <2> SUFFICES ASSUME a + 1 <= 2 * b PROVE FALSE
    BY <1>2, <1>3
  <2>1. (a + 1) * k <= (2 * b) * k
    BY <1>2, <1>3
  <2> QED BY <1>2, <1>3, <1>4, <2>1
<1>6. a < 2 * b + 2
  <2> SUFFICES ASSUME 2 * b + 2 <= a PROVE FALSE
    BY <1>2, <1>3
  <2>1. (2 * b + 2) * k <= a * k
    BY <1>2, <1>3
  <2> QED BY <1>2, <1>3, <1>4, <2>1
<1>7. a = 2 * b + (a % 2)
  BY <1>2, <1>3, <1>5, <1>6
<1> QED BY <1>7 DEF a, b

-----------------------------------------------------------------------------
\* The calls go down as far as the highest digit, and up again.

\* A call that goes further down has found a bit that is there.
LEMMA DescendMore ==
  ASSUME NEW m \in Int, NEW s \in Nat, Descended(m, s), m >= OneShifted(s)
  PROVE  Descended(m, s + 1)
<1> SUFFICES ASSUME m < Small
             PROVE  s + 1 <= Width - 2 /\ (s + 1 > 0 => m >= 2 ^ ((s + 1) - 1))
  BY DEF Descended
<1>1. Width \in Nat /\ Width - 2 \in Nat /\ Small = 2 ^ (Width - 2)
  BY WidthFacts DEF Small
<1>2. s <= Width - 2
  BY DEF Descended
<1>3. OneShifted(s) = 2 ^ s
  BY <1>2, Shifted
<1>4. s # Width - 2
  BY <1>1, <1>3
<1>5. (s + 1) - 1 = s
  OBVIOUS
<1> QED BY <1>1, <1>2, <1>3, <1>4, <1>5

\* A call that finds nothing left: what it found is all the digits.
LEMMA NoMore ==
  ASSUME NEW m \in Int, NEW s \in Nat, Descended(m, s), ~ (m >= OneShifted(s))
  PROVE  Upper(m, s, <<>>)
<1>1. OneShifted(s) \in Int /\ OneShifted(s) <= Small /\ Small \in Nat
  BY ShiftedBound, WidthFacts
<1>2. m < Small
  BY <1>1
<1>3. s <= Width - 2 /\ (s > 0 => m >= 2 ^ (s - 1))
  BY <1>2 DEF Descended
<1>4. OneShifted(s) = 2 ^ s /\ 2 ^ s \in Nat
  BY <1>3, Shifted, Powers
<1>5. m < 2 ^ s
  BY <1>1, <1>4
<1>6. 2 ^ 0 = 1 /\ (s > 0 => 1 <= 2 ^ (s - 1) /\ 2 ^ (s - 1) \in Nat)
  <2>1. 2 ^ 0 = 1
    OBVIOUS
  <2>2. ASSUME s > 0 PROVE 1 <= 2 ^ (s - 1) /\ 2 ^ (s - 1) \in Nat
    <3>1. s - 1 \in Nat
      BY <2>2
    <3> QED BY <3>1, PowersGrow, Powers
  <2> QED BY <2>1, <2>2
<1>7. m <= 0 => s = 0
  BY <1>3, <1>6
<1>8. m > 0 => s > 0
  <2> SUFFICES ASSUME m > 0, s = 0 PROVE FALSE
    OBVIOUS
  <2>1. m < 2 ^ 0
    BY <1>5
  <2> QED BY <1>6, <2>1
<1>9. m > 0 => m \div 2 ^ s = 0
  <2> DEFINE k == 2 ^ s
  <2>1. k \in Nat /\ m < k
    BY <1>4, <1>5
  <2> HIDE DEF k
  <2>2. m > 0 => m \div k = 0
    BY <2>1
  <2> QED BY <2>2 DEF k
<1>10. Len(<<>>) = 0 /\ s + Len(<<>>) = s
  OBVIOUS
<1>11. m > 0 => Number(<<>>) = m \div 2 ^ s
  BY <1>9, NumberEmpty
<1> QED BY <1>2, <1>3, <1>5, <1>7, <1>8, <1>10, <1>11 DEF Upper

\* A call returns and prints its digit.
LEMMA OneDigit ==
  ASSUME NEW m \in Int, NEW s \in Nat, s > 0, NEW p \in Seq({0, 1}), Upper(m, s, p),
         NEW b, b = (m \div (2 ^ ((s - 1) % Width))) % 2
  PROVE  b \in {0, 1} /\ Upper(m, s - 1, Append(p, b))
<1> DEFINE l == Len(p)
<1> DEFINE k == 2 ^ (s - 1)
<1>1. /\ m < Small /\ s + l <= Width - 2 /\ m \in Nat /\ m > 0
      /\ 2 ^ ((s + l) - 1) <= m /\ m < 2 ^ (s + l)
      /\ Number(p) = m \div 2 ^ s /\ (p # <<>> => p[1] = 1)
  <2>1. m > 0
    BY DEF Upper
  <2> QED BY <2>1 DEF Upper
<1>2. l \in Nat /\ s - 1 \in Nat /\ (s - 1) + 1 = s /\ Width - 2 \in Nat
  BY WidthFacts
<1>3. (s - 1) % Width = s - 1
  <2>1. s - 1 <= Width - 2
    BY <1>1, <1>2
  <2> QED BY <1>2, <2>1, Shifted
<1>4. k \in Nat /\ 2 ^ s = 2 * k /\ k > 0
  <2>1. 2 ^ (s - 1) \in Nat /\ 2 ^ ((s - 1) + 1) = 2 * 2 ^ (s - 1)
    BY <1>2, Powers
  <2>2. 1 <= 2 ^ (s - 1)
    BY <1>2, PowersGrow
  <2> QED BY <1>2, <2>1, <2>2
<1>5. b = (m \div k) % 2
  BY <1>3
<1>6. Number(p) = m \div (2 * k)
  BY <1>1, <1>4
<1> DEFINE q == Append(p, b)
<1>7. b \in {0, 1}
  <2> HIDE DEF k
  <2>1. m \div k \in Nat
    BY <1>1, <1>4
  <2> QED BY <1>5, <2>1
<1>8. Number(q) = 2 * Number(p) + b
  BY <1>7, NumberAppend
<1>9. m \div k = 2 * (m \div (2 * k)) + b
  <2> HIDE DEF k
  <2> QED BY <1>1, <1>4, <1>5, Halved
<1>10. Number(q) = m \div k
  <2> HIDE DEF k, q
  <2> QED BY <1>6, <1>8, <1>9
<1>11. /\ q # <<>> /\ Len(q) = l + 1 /\ (p # <<>> => q[1] = p[1]) /\ (p = <<>> => q[1] = b)
       /\ (p = <<>> => l = 0)
  BY <1>7
<1>12. q[1] = 1
  <2>1. CASE p # <<>>
    BY <2>1, <1>1, <1>11
  <2>2. CASE p = <<>>
    <3>1. k <= m
      BY <1>1, <1>11, <2>2
    <3>2. m \div (2 * k) = 0
      BY <1>6, <2>2, NumberEmpty
    <3> HIDE DEF k
    <3>3. m \div k >= 1
      BY <1>1, <1>4, <3>1
    <3>4. b = 1
      BY <1>7, <1>9, <3>2, <3>3
    <3> QED BY <2>2, <3>4, <1>11
  <2> QED BY <2>1, <2>2
<1>13. (s - 1) + Len(q) = s + l
  BY <1>2, <1>11
<1>14. s + l > 0
  BY <1>2
<1> HIDE DEF l, q
<1>15. Upper(m, s - 1, q)
  <2>1. m < Small /\ (s - 1) + Len(q) <= Width - 2
    BY <1>1, <1>13
  <2>2. ~ (m <= 0)
    BY <1>1
  <2>3. /\ (s - 1) + Len(q) > 0
        /\ 2 ^ (((s - 1) + Len(q)) - 1) <= m /\ m < 2 ^ ((s - 1) + Len(q))
    BY <1>1, <1>13, <1>14
  <2> QED BY <2>1, <2>2, <2>3, <1>10, <1>12 DEF Upper
<1> QED BY <1>7, <1>15 DEF q

\* Nothing has been read.
LEMMA InitBinInv == BinInit => BinInv
<1> SUFFICES ASSUME BinInit PROVE BinInv
  OBVIOUS
<1>1. Width - 1 \in Nat /\ 2 ^ (Width - 1) \in Nat /\ 2 ^ (Width - 1) >= 2 /\ MaxDepth \in Nat
  BY WidthFacts
<1>2. 0 \in IntRange /\ 0 \in 0 .. MaxDepth
  BY <1>1 DEF IntRange
<1>3. <<>> \in Seq({0, 1})
  OBVIOUS
<1> QED BY <1>2, <1>3 DEF BinInit, BinInv

\* Every step keeps the invariant.
LEMMA NextBinInv ==
  ASSUME BinInv, [BinNext]_binVars
  PROVE  BinInv'
<1>0. IntRange \subseteq Int /\ MaxDepth \in Nat /\ Small \in Nat /\ Small >= 1
  BY WidthFacts DEF IntRange
<1>1. CASE ScanNumber
  <2>0. 0 <= Width - 2
    BY WidthFacts
  <2>1. Descended(n', shift')
    BY <1>1, <2>0 DEF Descended, ScanNumber
  <2> QED BY <2>1, <1>0, <1>1 DEF BinInv, ScanNumber
<1>2. CASE Recur
  <2>1. n \in Int /\ shift \in Nat /\ Descended(n, shift) /\ n >= OneShifted(shift)
    BY <1>0, <1>2 DEF BinInv, Recur, MoreDigits
  <2>2. Descended(n, shift + 1)
    BY <2>1, DescendMore
  <2>3. shift + 1 \in 0 .. MaxDepth
    BY <1>0, <1>2 DEF BinInv, Recur
  <2> QED BY <2>2, <2>3, <1>2 DEF BinInv, Recur
<1>3. CASE StackOverflow
  <2>1. n >= Small
    <3> SUFFICES ASSUME n < Small PROVE FALSE
      BY <1>0 DEF BinInv
    <3>1. shift <= Width - 2 /\ shift = MaxDepth
      BY <1>3 DEF BinInv, StackOverflow, Descended
    <3> QED BY <3>1, WidthFacts
  <2> QED BY <2>1, <1>3 DEF BinInv, StackOverflow
<1>4. CASE Bottom
  <2>1. n \in Int /\ shift \in Nat /\ Descended(n, shift) /\ ~ (n >= OneShifted(shift))
    BY <1>0, <1>4 DEF BinInv, Bottom, MoreDigits
  <2>2. Upper(n, shift, <<>>)
    BY <2>1, NoMore
  <2> QED BY <2>2, <1>4 DEF BinInv, Bottom
<1>5. CASE PrintDigit
  <2>1. n \in Int /\ shift \in Nat /\ shift > 0 /\ printed \in Seq({0, 1}) /\ Upper(n, shift, printed)
    BY <1>0, <1>5 DEF BinInv, PrintDigit
  <2>2. PICK b : b = Bit(shift - 1)
    OBVIOUS
  <2>3. b = (n \div (2 ^ ((shift - 1) % Width))) % 2
    BY <2>2 DEF Bit
  <2>4. b \in {0, 1} /\ Upper(n, shift - 1, Append(printed, b))
    BY <2>1, <2>3, OneDigit
  <2>5. Append(printed, b) \in Seq({0, 1})
    BY <2>1, <2>4
  <2>6. printed' = Append(printed, b) /\ shift' = shift - 1 /\ n' = n /\ call' = call /\ call = "up"
    BY <1>5, <2>2 DEF PrintDigit
  <2>7. shift - 1 \in 0 .. MaxDepth
    BY <1>0, <2>1 DEF BinInv
  <2> QED BY <2>4, <2>5, <2>6, <2>7 DEF BinInv
<1>6. CASE EndPrint
  BY <1>6 DEF BinInv, EndPrint
<1>7. CASE UNCHANGED binVars
  BY <1>7 DEF BinInv, binVars
<1> QED BY <1>1, <1>2, <1>3, <1>4, <1>5, <1>6, <1>7 DEF BinNext

\* It holds in every reachable state, for every width of a word.
THEOREM BinInvariance == BinSpec => []BinInv
<1>1. BinInit => BinInv
  BY InitBinInv
<1>2. BinInv /\ [BinNext]_binVars => BinInv'
  BY NextBinInv
<1> QED BY <1>1, <1>2, PTL DEF BinSpec

\* The digits of the whole number.
LEMMA AllDigits == BinInv => PrintsBinary
<1> SUFFICES ASSUME BinInv PROVE PrintsBinary
  OBVIOUS
<1>1. n \in Int /\ Small \in Int
  BY WidthFacts DEF BinInv, IntRange
<1>2. ASSUME call = "done"
      PROVE  n < Small /\ IF n > 0 THEN Number(printed) = n /\ printed[1] = 1 ELSE printed = <<>>
  <2>1. Upper(n, 0, printed) /\ printed \in Seq({0, 1})
    BY <1>2 DEF BinInv
  <2>2. CASE n > 0
    <3>1. Number(printed) = n \div 2 ^ 0 /\ 0 + Len(printed) > 0 /\ (printed # <<>> => printed[1] = 1)
      BY <2>1, <2>2 DEF Upper
    <3>2. printed # <<>>
      BY <2>1, <3>1
    <3>3. 2 ^ 0 = 1 /\ n \div 1 = n
      BY <1>1
    <3> QED BY <2>1, <2>2, <3>1, <3>2, <3>3 DEF Upper
  <2>3. CASE ~ (n > 0)
    BY <2>1, <2>3, <1>1 DEF Upper
  <2> QED BY <2>2, <2>3
<1>3. ASSUME call = "overflow" PROVE n >= Small
  BY <1>3 DEF BinInv
<1> QED BY <1>2, <1>3 DEF PrintsBinary, Small

\* A number too small to overflow is printed in full, with no digit too many, for
\* every width of a word.
THEOREM BinaryPrinted == BinSpec => []PrintsBinary
<1> QED BY BinInvariance, AllDigits, PTL

-----------------------------------------------------------------------------

\* What child q finds at place k of its search.
Found(q, k) == fs[Searched[k]][kid[q].name]

\* What a search has seen so far: nothing, or first something that is no program,
\* after which it has lost the name.
Sought(q, d) ==
  IF kid[q].lost
  THEN \E j \in 1 .. d - 1 : Found(q, j) = "refused" /\ \A k \in 1 .. j - 1 : Found(q, k) = "none"
  ELSE \A k \in 1 .. d - 1 : Found(q, k) = "none"

\* A child process.
KidState ==
  [at : {"free", "search", "program", "zombie"}, name : Name \cup {"none"},
   i : Nat, lost : BOOLEAN, bg : BOOLEAN]

\* A command of a line.
BaseCmd == [name : Name \cup {"cd", "exit"}, argc : Nat, token : {";", "&", "EOL"}]

\* The invariant of the first shell: a search stands behind places that held
\* nothing, and a foreground child is the one the shell waits for.
BaseInv ==
  /\ PATH \in Seq(Dir) /\ fs \in [Dir -> [Name -> {"program", "refused", "none"}]]
  /\ rest \in Seq(BaseCmd)
  /\ kid \in [Kid -> KidState]
  /\ \A q \in Kid :
       /\ kid[q].at \in {"search", "program"} =>
            kid[q].name \in Name /\ kid[q].i \in 1 .. Len(Searched) + 1 /\ Sought(q, kid[q].i)
       /\ kid[q].at = "program" =>
            /\ ~ kid[q].lost /\ kid[q].i <= Len(Searched)
            /\ Found(q, kid[q].i) = "program"
       /\ kid[q].at # "free" /\ ~ kid[q].bg => shellAt = "wait" /\ pid = q /\ token # "&"

\* A sequence of one element.
LEMMA One ==
  ASSUME NEW S, NEW x \in S
  PROVE  <<x>> \in Seq(S) /\ Len(<<x>>) = 1 /\ <<x>>[1] = x
OBVIOUS

\* The places the shell searches are those a search should look at, without the
\* last: parse_path loses it.
LEMMA SearchedPlaces ==
  ASSUME PATH \in Seq(Dir)
  PROVE  /\ Searched \in Seq(Dir)
         /\ Len(Searched) \in Nat /\ Len(Searched) >= 1
         /\ \A k \in 1 .. Len(Searched) : Searched[k] = Places[k] /\ Searched[k] \in Dir
         /\ \A k \in DOMAIN Places : k \in Nat /\ 1 <= k /\ (k <= Len(Searched) \/ k = Len(Places))
<1>1. "." \in Dir /\ <<".">> \in Seq(Dir) /\ Len(<<".">>) = 1 /\ <<".">>[1] = "."
  <2>1. "." \in Dir
    BY BaseAssumption
  <2> QED BY ONLY <2>1, One
<1>2. CASE PATH = <<>>
  <2>1. Searched = <<".">> /\ Len(Places) = 1 /\ DOMAIN Places = 1 .. 1 /\ Places[1] = "."
    BY <1>2 DEF Searched, ParsePath, Places
  <2> QED BY <1>1, <2>1
<1>3. CASE PATH # <<>>
  <2> DEFINE l == Len(PATH) - 1
  <2> DEFINE p == SubSeq(PATH, 1, l)
  <2>1. l \in Nat /\ Len(PATH) = l + 1 /\ DOMAIN PATH = 1 .. l + 1
    BY <1>3
  <2>2. p \in Seq(Dir) /\ Len(p) = l /\ \A k \in 1 .. l : p[k] = PATH[k]
    BY <2>1
  <2>3. Searched = <<".">> \o p
    BY <1>3 DEF Searched, ParsePath
  <2> HIDE DEF p, l
  <2>4. Searched \in Seq(Dir) /\ Len(Searched) = l + 1 /\ Searched[1] = "."
        /\ \A k \in 2 .. l + 1 : Searched[k] = p[k - 1]
    BY <1>1, <2>1, <2>2, <2>3
  <2>5. Len(Places) = l + 2 /\ DOMAIN Places = 1 .. l + 2 /\ Places[1] = "."
        /\ \A k \in 2 .. l + 2 : Places[k] = PATH[k - 1]
    BY <1>1, <2>1 DEF Places
  <2>6. ASSUME NEW k \in 1 .. l + 1 PROVE Searched[k] = Places[k] /\ Searched[k] \in Dir
    <3>1. CASE k = 1
      BY <3>1, <2>4, <2>5, <1>1
    <3>2. CASE k # 1
      <4>1. k \in 2 .. l + 1 /\ k \in 2 .. l + 2 /\ k - 1 \in 1 .. l
        BY <3>2, <2>1
      <4>2. Searched[k] = Places[k]
        BY <4>1, <2>2, <2>4, <2>5
      <4> QED BY <4>1, <4>2, <2>4
    <3> QED BY <3>1, <3>2
  <2>7. \A k \in 1 .. l + 2 : k \in Nat /\ 1 <= k /\ (k <= l + 1 \/ k = l + 2)
    BY <2>1
  <2> QED BY <2>1, <2>4, <2>5, <2>6, <2>7
<1> QED BY <1>2, <1>3

\* No child runs yet.
LEMMA BaseInitInv == BaseInit => BaseInv
<1> SUFFICES ASSUME BaseInit PROVE BaseInv
  OBVIOUS
<1>1. NoKid \in KidState /\ NoKid.at = "free"
  BY DEF NoKid, KidState
<1>2. kid \in [Kid -> KidState] /\ \A q \in Kid : kid[q].at = "free"
  BY <1>1 DEF BaseInit
<1>3. rest \in Seq(BaseCmd)
  BY DEF BaseInit
<1>4. PATH \in Seq(Dir)
  BY BaseAssumption DEF BaseInit
<1>5. fs \in [Dir -> [Name -> {"program", "refused", "none"}]]
  BY DEF BaseInit
<1> QED BY <1>2, <1>3, <1>4, <1>5 DEF BaseInv

\* A step of the shell that changes no child.
LEMMA SameKids ==
  ASSUME BaseInv, PATH' = PATH, fs' = fs, kid' = kid, rest' \in Seq(BaseCmd),
         \A q \in Kid : kid[q].at # "free" /\ ~ kid[q].bg => shellAt' = "wait" /\ pid' = q /\ token' # "&"
  PROVE  BaseInv'
<1>1. Searched' = Searched
  BY DEF Searched
<1>2. \A q, k : Found(q, k)' = Found(q, k)
  BY <1>1 DEF Found
<1>3. \A q \in Kid : Sought(q, kid[q].i)' = Sought(q, kid[q].i)
  BY <1>2 DEF Sought
<1> QED BY <1>1, <1>2, <1>3 DEF BaseInv

\* A step that changes one child at most.
LEMMA OneKid ==
  ASSUME BaseInv, PATH' = PATH, fs' = fs, rest' \in Seq(BaseCmd),
         NEW q \in Kid, NEW s \in KidState, kid' = [kid EXCEPT ![q] = s],
         \A r \in Kid \ {q} :
            kid[r].at # "free" /\ ~ kid[r].bg => shellAt' = "wait" /\ pid' = r /\ token' # "&",
         s.at # "free" /\ ~ s.bg => shellAt' = "wait" /\ pid' = q /\ token' # "&",
         s.at \in {"search", "program"} =>
            s.name \in Name /\ s.i \in 1 .. Len(Searched) + 1 /\ Sought(q, s.i)',
         s.at = "program" => ~ s.lost /\ s.i <= Len(Searched) /\ Found(q, s.i)' = "program"
  PROVE  BaseInv'
<1>1. Searched' = Searched
  BY DEF Searched
<1>2. kid' \in [Kid -> KidState] /\ kid'[q] = s /\ \A r \in Kid \ {q} : kid'[r] = kid[r]
  BY DEF BaseInv
<1>3. \A r \in Kid \ {q} : \A k : Found(r, k)' = Found(r, k)
  BY <1>1, <1>2 DEF Found
<1>4. \A r \in Kid \ {q} : \A k : Sought(r, k)' = Sought(r, k)
  BY <1>2, <1>3 DEF Sought
<1>5. ASSUME NEW r \in Kid
      PROVE  (/\ kid[r].at \in {"search", "program"} =>
                   kid[r].name \in Name /\ kid[r].i \in 1 .. Len(Searched) + 1 /\ Sought(r, kid[r].i)
              /\ kid[r].at = "program" =>
                   /\ ~ kid[r].lost /\ kid[r].i <= Len(Searched)
                   /\ Found(r, kid[r].i) = "program"
              /\ kid[r].at # "free" /\ ~ kid[r].bg => shellAt = "wait" /\ pid = r /\ token # "&")'
  <2>1. CASE r = q
    BY <2>1, <1>1, <1>2
  <2>2. CASE r # q
    BY <2>2, <1>1, <1>2, <1>3, <1>4 DEF BaseInv
  <2> QED BY <2>1, <2>2
<1> QED BY <1>2, <1>5 DEF BaseInv

\* A step of the shell that reads a line: the lines are lines.
LEMMA TailsAndLines ==
  /\ BaseInv /\ rest # <<>> => Cmd \in BaseCmd /\ Tail(rest) \in Seq(BaseCmd)
  /\ \A l \in BaseLines : l \in Seq(BaseCmd)
<1>1. ASSUME BaseInv, rest # <<>> PROVE Cmd \in BaseCmd /\ Tail(rest) \in Seq(BaseCmd)
  <2>1. rest \in Seq(BaseCmd)
    BY <1>1 DEF BaseInv
  <2> QED BY <2>1, <1>1 DEF Cmd
<1>2. \A l \in BaseLines : l \in Seq(BaseCmd)
  BY BaseAssumption DEF BaseCmd
<1> QED BY <1>1, <1>2

\* What the invariant says of the children while the shell does not wait.
LEMMA KidRest ==
  ASSUME BaseInv
  PROVE  \A q \in Kid : /\ kid[q] \in KidState
                        /\ shellAt # "wait" => kid[q].at = "free" \/ kid[q].bg
BY DEF BaseInv

\* A free entry is a child process's state.
LEMMA NoKidState == NoKid \in KidState /\ NoKid.at = "free" /\ ~ NoKid.bg
BY DEF NoKid, KidState

\* A command is forked: it begins its search at the first place.
LEMMA RunCmdKeeps ==
  ASSUME BaseInv, RunCmd
  PROVE  BaseInv'
<1>1. /\ PATH' = PATH /\ fs' = fs /\ shellAt = "line" /\ shellAt' = "wait"
      /\ rest # <<>> /\ rest' = Tail(rest) /\ token' = Cmd.token
      /\ ~ QuitsAt /\ Cmd.name # "cd"
  BY DEF RunCmd, environment
<1>2. Cmd \in BaseCmd /\ rest' \in Seq(BaseCmd)
  BY <1>1, TailsAndLines
<1>3. \A r \in Kid : kid[r].at = "free" \/ kid[r].bg
  BY <1>1, KidRest
<1>4. CASE \A q \in Kid : kid[q].at # "free"
  <2>1. kid' = kid
    BY <1>4 DEF RunCmd
  <2> QED BY <2>1, <1>1, <1>2, <1>3, SameKids
<1>5. CASE ~ \A q \in Kid : kid[q].at # "free"
  <2> DEFINE s == [at |-> "search", name |-> Cmd.name, i |-> 1,
                   lost |-> FALSE, bg |-> Cmd.token = "&"]
  <2>1. PICK q \in Kid : pid' = q /\ kid' = [kid EXCEPT ![q] = s]
    BY <1>5 DEF RunCmd
  <2>2. Cmd.name \in Name
    BY <1>1, <1>2 DEF QuitsAt, BaseCmd
  <2>3. s \in KidState /\ s.at = "search" /\ s.name \in Name /\ s.i = 1 /\ ~ s.lost
        /\ (~ s.bg => Cmd.token # "&")
    BY <2>2 DEF KidState
  <2> HIDE DEF s
  <2>4. 1 \in 1 .. Len(Searched) + 1
    BY SearchedPlaces DEF BaseInv
  <2>5. Sought(q, 1)'
    <3>1. kid'[q] = s
      BY <2>1 DEF BaseInv
    <3>2. \A k \in 1 .. 1 - 1 : FALSE
      OBVIOUS
    <3> QED BY <3>1, <3>2, <2>3 DEF Sought
  <2> QED BY <1>1, <1>2, <1>3, <2>1, <2>3, <2>4, <2>5, OneKid
<1> QED BY <1>4, <1>5

\* When the child waited for is reaped, no other is in the foreground.
LEMMA ReapedKeeps ==
  ASSUME BaseInv, NEW q \in Kid, Reaped(q), PATH' = PATH, fs' = fs, rest' = rest,
         \A r \in Kid \ {q} : kid[r].at = "free" \/ kid[r].bg
  PROVE  BaseInv'
<1>1. kid' = [kid EXCEPT ![q] = NoKid] /\ rest' \in Seq(BaseCmd)
  BY DEF Reaped, BaseInv
<1> QED BY <1>1, NoKidState, OneKid

\* waitpid reaps the child the shell waits for.
LEMMA WaitCmdKeeps ==
  ASSUME BaseInv, WaitCmd
  PROVE  BaseInv'
<1> DEFINE awaited == {q \in Kid : kid[q].at # "free" /\ pid \in {-1, q}}
<1>1. /\ PATH' = PATH /\ fs' = fs /\ rest' = rest /\ rest \in Seq(BaseCmd)
      /\ shellAt = "wait" /\ shellAt' = "line" /\ -1 \notin Kid
  BY BaseAssumption DEF WaitCmd, environment, BaseInv
<1>2. \A r \in Kid : kid[r].at # "free" /\ ~ kid[r].bg => pid = r /\ token # "&" /\ r \in awaited
  BY DEF BaseInv
<1>3. CASE (token = "&" \/ awaited = {}) /\ kid' = kid
  <2>1. \A r \in Kid : kid[r].at = "free" \/ kid[r].bg
    BY <1>2, <1>3
  <2> QED BY <2>1, <1>1, <1>3, SameKids
<1>4. CASE token # "&" /\ \E q \in awaited \cap Zombie : Reaped(q)
  <2>1. PICK q \in awaited \cap Zombie : Reaped(q)
    BY <1>4
  <2>2. q \in Kid /\ \A r \in Kid \ {q} : kid[r].at = "free" \/ kid[r].bg
    BY <1>1, <1>2
  <2> QED BY <1>1, <2>1, <2>2, ReapedKeeps
<1> QED BY <1>3, <1>4 DEF WaitCmd

\* The other steps of the shell leave the searches alone.
LEMMA ShellKeeps ==
  ASSUME BaseInv,
         ReadBaseLine \/ EndBaseInput \/ QuitAtCmd \/ Cd \/ EndLine \/ ReapTerminated
  PROVE  BaseInv'
<1>1. PATH' = PATH /\ fs' = fs /\ shellAt # "wait"
  BY DEF ReadBaseLine, EndBaseInput, QuitAtCmd, Cd, EndLine, ReapTerminated, environment
<1>2. \A r \in Kid : kid[r].at = "free" \/ kid[r].bg
  BY <1>1, KidRest
<1>3. rest \in Seq(BaseCmd)
  BY DEF BaseInv
<1>4. CASE ReadBaseLine \/ EndBaseInput \/ QuitAtCmd \/ Cd \/ EndLine
  <2>1. kid' = kid
    BY <1>4 DEF ReadBaseLine, EndBaseInput, QuitAtCmd, Cd, EndLine
  <2>2. rest' \in Seq(BaseCmd)
    BY <1>3, <1>4, TailsAndLines DEF ReadBaseLine, EndBaseInput, QuitAtCmd, Cd, EndLine
  <2> QED BY <1>1, <1>2, <2>1, <2>2, SameKids
<1>5. CASE ReapTerminated
  <2>1. rest' = rest
    BY <1>5 DEF ReapTerminated
  <2>2. CASE kid' = kid
    BY <1>1, <1>2, <1>3, <2>1, <2>2, SameKids
  <2>3. ASSUME NEW q \in Zombie, Reaped(q) PROVE BaseInv'
    <3>1. q \in Kid
      BY DEF Zombie
    <3> QED BY <1>1, <1>2, <2>1, <2>3, <3>1, ReapedKeeps
  <2> QED BY <1>5, <2>2, <2>3 DEF ReapTerminated
<1> QED BY <1>4, <1>5

\* execv fails in one more place, or runs what it finds there.
LEMMA TryDirKeeps ==
  ASSUME BaseInv, NEW q \in Kid, TryDir(q)
  PROVE  BaseInv'
<1> PICK d : d = kid[q].i
  OBVIOUS
<1> DEFINE found == IF kid[q].lost THEN "none" ELSE fs[Searched[d]][kid[q].name]
<1>1. /\ PATH' = PATH /\ fs' = fs /\ rest' = rest /\ shellAt' = shellAt /\ pid' = pid /\ token' = token
      /\ kid[q].at = "search" /\ d <= Len(Searched)
  BY DEF TryDir, environment
<1>2. /\ kid[q] \in KidState /\ rest' \in Seq(BaseCmd) /\ PATH \in Seq(Dir)
      /\ kid[q].name \in Name /\ d \in 1 .. Len(Searched) + 1 /\ Sought(q, d)
      /\ \A r \in Kid : kid[r].at # "free" /\ ~ kid[r].bg => shellAt = "wait" /\ pid = r /\ token # "&"
  BY <1>1 DEF BaseInv
<1>3. d \in 1 .. Len(Searched) /\ d + 1 \in 1 .. Len(Searched) + 1 /\ Searched[d] \in Dir
      /\ d \in Nat
  BY <1>1, <1>2, SearchedPlaces
<1>4. Found(q, d) \in {"program", "refused", "none"}
  BY <1>2, <1>3 DEF BaseInv, Found
<1>5. CASE found = "program"
  <2> DEFINE t == [kid[q] EXCEPT !.at = "program"]
  <2>a. t \in KidState
    BY <1>2 DEF KidState
  <2> PICK s \in KidState : s = t
    BY <2>a
  <2>1. kid' = [kid EXCEPT ![q] = s]
    BY <1>5 DEF TryDir
  <2>2. ~ kid[q].lost /\ Found(q, d) = "program"
    BY <1>5 DEF Found
  <2>3. /\ s \in KidState /\ s.at = "program" /\ s.i = d /\ s.name = kid[q].name
        /\ s.lost = kid[q].lost /\ s.bg = kid[q].bg
    BY <1>2 DEF KidState
  <2> HIDE DEF t
  <2>4. kid'[q] = s
    BY <2>1 DEF BaseInv
  <2>5. Searched' = Searched
    BY <1>1 DEF Searched
  <2>6. \A k : Found(q, k)' = Found(q, k)
    BY <1>1, <2>3, <2>4, <2>5 DEF Found
  <2>7. Sought(q, s.i)' /\ Found(q, s.i)' = "program"
    BY <1>2, <2>2, <2>3, <2>4, <2>6 DEF Sought
  <2> HIDE DEF found
  <2>8. s.i \in 1 .. Len(Searched) + 1 /\ s.i <= Len(Searched) /\ s.name \in Name /\ ~ s.lost
    BY <1>1, <1>2, <2>2, <2>3
  <2> QED BY <1>1, <1>2, <2>1, <2>2, <2>3, <2>7, <2>8, OneKid
<1>6. CASE found # "program"
  <2> DEFINE t == [kid[q] EXCEPT !.i = d + 1, !.lost = (kid[q].lost \/ found = "refused")]
  <2>a. t \in KidState
    <3>1. d + 1 \in Nat /\ (kid[q].lost \/ found = "refused") \in BOOLEAN
      BY <1>3
    <3> HIDE DEF found
    <3> QED BY <1>2, <3>1 DEF KidState
  <2> PICK s \in KidState : s = t
    BY <2>a
  <2>1. kid' = [kid EXCEPT ![q] = s]
    BY <1>6 DEF TryDir
  <2>2. kid[q].lost \/ Found(q, d) \in {"refused", "none"}
    BY <1>6, <1>4 DEF Found
  <2>3. /\ s \in KidState /\ s.at = "search" /\ s.i = d + 1 /\ s.name = kid[q].name
        /\ s.lost = (kid[q].lost \/ found = "refused") /\ s.bg = kid[q].bg
    BY <1>1, <1>2 DEF KidState
  <2> HIDE DEF t
  <2>4. kid'[q] = s
    BY <2>1 DEF BaseInv
  <2>5. Searched' = Searched
    BY <1>1 DEF Searched
  <2>6. \A k : Found(q, k)' = Found(q, k)
    BY <1>1, <2>3, <2>4, <2>5 DEF Found
  <2>7. Sought(q, d + 1)'
    <3>1. CASE kid[q].lost
      <4>1. PICK j \in 1 .. d - 1 : Found(q, j) = "refused" /\ \A k \in 1 .. j - 1 : Found(q, k) = "none"
        BY <1>2, <3>1 DEF Sought
      <4>2. j \in 1 .. (d + 1) - 1
        BY <1>3
      <4> QED BY <3>1, <4>1, <4>2, <2>3, <2>4, <2>6 DEF Sought
    <3>2. CASE ~ kid[q].lost /\ Found(q, d) = "refused"
      <4>1. s.lost
        BY <2>3, <3>2 DEF Found
      <4>2. \A k \in 1 .. d - 1 : Found(q, k) = "none"
        BY <1>2, <3>2 DEF Sought
      <4>3. d \in 1 .. (d + 1) - 1
        BY <1>3
      <4> QED BY <3>2, <4>1, <4>2, <4>3, <2>4, <2>6 DEF Sought
    <3>3. CASE ~ kid[q].lost /\ Found(q, d) = "none"
      <4>1. ~ s.lost
        BY <2>3, <3>3 DEF Found
      <4>2. \A k \in 1 .. d - 1 : Found(q, k) = "none"
        BY <1>2, <3>3 DEF Sought
      <4>3. \A k \in 1 .. (d + 1) - 1 : k = d \/ k \in 1 .. d - 1
        BY <1>3
      <4> QED BY <3>3, <4>1, <4>2, <4>3, <2>4, <2>6 DEF Sought
    <3> QED BY <2>2, <3>1, <3>2, <3>3
  <2> HIDE DEF found
  <2> QED BY <1>1, <1>2, <1>3, <2>1, <2>3, <2>7, OneKid
<1> QED BY <1>5, <1>6

\* A child that ends is still to be reaped.
LEMMA EndKidKeeps ==
  ASSUME BaseInv, NEW q \in Kid, EndKid(q)
  PROVE  BaseInv'
<1> DEFINE s == [kid[q] EXCEPT !.at = "zombie"]
<1>1. /\ PATH' = PATH /\ fs' = fs /\ rest' = rest /\ shellAt' = shellAt /\ pid' = pid /\ token' = token
      /\ kid[q].at # "free" /\ kid' = [kid EXCEPT ![q] = s]
  BY DEF EndKid, environment
<1>2. /\ kid[q] \in KidState /\ rest' \in Seq(BaseCmd)
      /\ \A r \in Kid : kid[r].at # "free" /\ ~ kid[r].bg => shellAt = "wait" /\ pid = r /\ token # "&"
  BY <1>1 DEF BaseInv
<1>3. s \in KidState /\ s.at = "zombie" /\ s.bg = kid[q].bg
  BY <1>2 DEF KidState
<1> HIDE DEF s
<1> QED BY <1>1, <1>2, <1>3, OneKid

\* The invariant holds in every reachable state.
THEOREM BaseInvariance == BaseSpec => []BaseInv
<1>1. BaseInv /\ [BaseNext]_baseVars => BaseInv'
  <2> SUFFICES ASSUME BaseInv, [BaseNext]_baseVars PROVE BaseInv'
    OBVIOUS
  <2>1. CASE UNCHANGED baseVars
    <3>1. PATH' = PATH /\ fs' = fs /\ kid' = kid /\ rest' \in Seq(BaseCmd)
          /\ shellAt' = shellAt /\ pid' = pid /\ token' = token
      BY <2>1 DEF baseVars, BaseInv
    <3> QED BY <3>1, SameKids DEF BaseInv
  <2>2. CASE BaseNext
    BY <2>2, ShellKeeps, RunCmdKeeps, WaitCmdKeeps, TryDirKeeps, EndKidKeeps DEF BaseNext
  <2> QED BY <2>1, <2>2
<1> QED BY <1>1, BaseInitInv, PTL DEF BaseSpec

\* A program runs only from the first place that has it, and the shell reads the
\* next command only when nothing runs in the foreground.
THEOREM SearchesAndWaits == BaseSpec => []SearchAndWait
<1>1. ASSUME BaseInv, NEW q \in Kid PROVE FirstIsRun(q)
  <2>1. PATH \in Seq(Dir)
    BY <1>1 DEF BaseInv
  <2>2. /\ Len(Searched) \in Nat /\ Len(Searched) >= 1
        /\ \A k \in 1 .. Len(Searched) : Searched[k] = Places[k]
        /\ \A k \in DOMAIN Places : k \in Nat /\ 1 <= k /\ (k <= Len(Searched) \/ k = Len(Places))
    BY <2>1, SearchedPlaces
  <2>3. \A w : \A k \in 1 .. Len(Searched) : IsAt(q, k, w) <=> Found(q, k) = w
    BY <2>2 DEF IsAt, Found
  <2>4. ASSUME kid[q].at = "program"
        PROVE  IsAt(q, kid[q].i, "program") /\ \A k \in 1 .. kid[q].i - 1 : IsAt(q, k, "none")
    <3>1. /\ kid[q].i \in Nat /\ kid[q].i \in 1 .. Len(Searched)
          /\ Found(q, kid[q].i) = "program" /\ \A k \in 1 .. kid[q].i - 1 : Found(q, k) = "none"
      BY <1>1, <2>2, <2>4 DEF BaseInv, Sought
    <3>2. \A k \in 1 .. kid[q].i - 1 : k \in 1 .. Len(Searched)
      BY <3>1, <2>2
    <3> QED BY <2>3, <3>1, <3>2
  <2>5. ASSUME kid[q].at = "search", kid[q].i > Len(Searched),
               NEW k \in DOMAIN Places, IsAt(q, k, "program"), k # Len(Places)
        PROVE  \E j \in 1 .. k - 1 : IsAt(q, j, "refused")
    <3>1. k \in 1 .. Len(Searched) /\ k \in Nat
      BY <2>2, <2>5
    <3>2. kid[q].i \in Nat /\ kid[q].i = Len(Searched) + 1 /\ Sought(q, kid[q].i)
      BY <1>1, <2>2, <2>5 DEF BaseInv
    <3>3. k \in 1 .. kid[q].i - 1 /\ Found(q, k) = "program"
      BY <2>3, <2>5, <3>1, <3>2, <2>2
    <3>4. PICK j \in 1 .. kid[q].i - 1 : Found(q, j) = "refused" /\ \A m \in 1 .. j - 1 : Found(q, m) = "none"
      BY <3>2, <3>3 DEF Sought
    <3>5. j # k /\ ~ (k < j)
      BY <3>1, <3>3, <3>4
    <3>6. j \in 1 .. k - 1 /\ j \in 1 .. Len(Searched)
      BY <3>1, <3>2, <3>4, <3>5, <2>2
    <3> QED BY <2>3, <3>4, <3>6
  <2> QED BY <2>4, <2>5 DEF FirstIsRun
<1>2. BaseInv => SearchAndWait
  BY <1>1 DEF SearchAndWait, BaseInv
<1> QED BY <1>2, BaseInvariance, PTL

---------------------------------------------------------------------------
(* parse_expr.c: from the machine, over the pieces of code the parser      *)
(* prints, to the parser and the run.  Three facts carry the proof: a      *)
(* piece computes its value in whatever program it stands (Computes); the  *)
(* place where the parser splits an expression is the one where Value      *)
(* does (JoinsSplits); and the parser's recursion has one solution, which  *)
(* is sound (ParserExists, ParserUnique).                                  *)

\* What a remainder is.
LEMMA Remainder ==
  ASSUME NEW x \in Int, NEW m \in Nat \ {0}
  PROVE  x % m \in 0 .. m - 1 /\ x \div m \in Int /\ x = m * (x \div m) + (x % m)
OBVIOUS

\* And that there is only one.
LEMMA RemainderUnique ==
  ASSUME NEW x \in Int, NEW m \in Nat \ {0}, NEW q \in Int, NEW r \in 0 .. m - 1, x = m * q + r
  PROVE  x % m = r
<1> DEFINE q2 == x \div m
<1> DEFINE r2 == x % m
<1>1. r2 \in 0 .. m - 1 /\ q2 \in Int /\ x = m * q2 + r2
  BY Remainder
<1>2. m * (q - q2) = r2 - r /\ q - q2 \in Int
  <2> HIDE DEF q2, r2
  <2> QED BY <1>1
<1>3. \A z \in Int : z >= 1 => m * z >= m
  OBVIOUS
<1>4. \A z \in Int : z <= -1 => m * z <= -m
  OBVIOUS
<1>5. q - q2 = 0
  <2> HIDE DEF q2, r2
  <2> QED BY <1>1, <1>2, <1>3, <1>4
<1> HIDE DEF q2, r2
<1>6. r2 = r
  BY <1>1, <1>2, <1>5
<1> QED BY <1>6 DEF r2

\* The remainder of a sum, a difference, a product and a negative number, from
\* those of the operands.
LEMMA RemainderOf ==
  ASSUME NEW x \in Int, NEW y \in Int, NEW m \in Nat \ {0}
  PROVE  /\ ((x % m) + (y % m)) % m = (x + y) % m
         /\ ((x % m) - (y % m)) % m = (x - y) % m
         /\ ((x % m) * (y % m)) % m = (x * y) % m
         /\ (-(x % m)) % m = (-x) % m
<1> DEFINE qx == x \div m
<1> DEFINE rx == x % m
<1> DEFINE qy == y \div m
<1> DEFINE ry == y % m
<1>1. /\ rx \in 0 .. m - 1 /\ qx \in Int /\ x = m * qx + rx
      /\ ry \in 0 .. m - 1 /\ qy \in Int /\ y = m * qy + ry
  BY Remainder
<1>2. ASSUME NEW a \in Int, NEW b \in Int, NEW q \in Int, a = m * q + b
      PROVE  b % m = a % m
  <2> DEFINE p == b \div m
  <2> DEFINE r == b % m
  <2>1. r \in 0 .. m - 1 /\ p \in Int /\ b = m * p + r
    BY Remainder
  <2> HIDE DEF p, r
  <2>2. a = m * (q + p) + r /\ q + p \in Int
    BY <1>2, <2>1
  <2>3. a % m = r
    BY <2>1, <2>2, RemainderUnique
  <2> QED BY <2>3 DEF r
<1> HIDE DEF qx, rx, qy, ry
<1>3. x + y = m * (qx + qy) + (rx + ry)
  BY <1>1
<1>4. x - y = m * (qx - qy) + (rx - ry)
  BY <1>1
<1>5. x * y = m * (m * (qx * qy) + qx * ry + qy * rx) + (rx * ry)
  BY <1>1
<1>6. -x = m * (-qx) + (-rx)
  BY <1>1
<1>7. (rx + ry) % m = (x + y) % m
  <2>1. rx + ry \in Int /\ x + y \in Int /\ qx + qy \in Int
    BY <1>1
  <2> QED BY <1>2, <1>3, <2>1
<1>8. (rx - ry) % m = (x - y) % m
  <2>1. rx - ry \in Int /\ x - y \in Int /\ qx - qy \in Int
    BY <1>1
  <2> QED BY <1>2, <1>4, <2>1
<1>9. (rx * ry) % m = (x * y) % m
  <2>1. /\ rx * ry \in Int /\ x * y \in Int
        /\ m * (qx * qy) + qx * ry + qy * rx \in Int
    BY <1>1
  <2> QED BY <1>2, <1>5, <2>1
<1>10. (-rx) % m = (-x) % m
  <2>1. -rx \in Int /\ -x \in Int /\ -qx \in Int
    BY <1>1
  <2> QED BY <1>2, <1>6, <2>1
<1> QED BY <1>7, <1>8, <1>9, <1>10 DEF rx, ry

\* A number of the range is its own remainder.
LEMMA RemainderSmall ==
  ASSUME NEW m \in Nat \ {0}, NEW x \in 0 .. m - 1
  PROVE  x % m = x
BY RemainderUnique, x = m * 0 + x

\* A quotient is not larger than what is divided.
LEMMA Quotient ==
  ASSUME NEW x \in Nat, NEW d \in Nat \ {0}
  PROVE  x \div d \in 0 .. x
<1> DEFINE q == x \div d
<1> DEFINE r == x % d
<1>1. r \in 0 .. d - 1 /\ q \in Int /\ x = d * q + r
  BY Remainder
<1> HIDE DEF q, r
<1>2. \A z \in Int : z <= -1 => d * z <= -d
  OBVIOUS
<1>3. \A z \in Int : z >= 0 => d * z >= z
  OBVIOUS
<1>4. q \in 0 .. x
  BY <1>1, <1>2, <1>3
<1> QED BY <1>4 DEF q

-----------------------------------------------------------------------------
\* The machine, in a state of its own: a program, the next instruction and a stack.

Words  == 0 .. Word - 1
\* What the machine computes with, and the instructions that the parser prints.
Values == [val : Int, plain : BOOLEAN]

Ops == {"push", "neg", "add", "sub", "mul", "div", "jz", "jmp", "else", "end", "footer"}
Instrs == [op : Ops, arg : Nat]

\* Where a label is, the last word of a stack, and a stack without its last words.
Labelled(c, label, q) == CHOOSE k \in DOMAIN c : c[k] = Instr(label, q)

LastOf(s) == s[Len(s)]
Beneath(s, d) == SubSeq(s, 1, Len(s) - d)

\* One step of program c, from instruction a with stack s to b with t.
Moves(c, a, s, b, t) ==
  \/ c[a].op = "push" /\ b = a + 1 /\ t = Append(s, c[a].arg)
  \/ c[a].op = "neg" /\ b = a + 1 /\ t = Append(Beneath(s, 1), (-LastOf(s)) % Word)
  \/ /\ c[a].op \in {"add", "sub", "mul", "div"} /\ ~ (c[a].op = "div" /\ LastOf(s) = 0)
     /\ b = a + 1
     /\ t = Append(Beneath(s, 2), Result(c[a].op, s[Len(s) - 1], LastOf(s)))
  \/ /\ c[a].op = "jz" /\ t = Beneath(s, 1)
     /\ b = IF LastOf(s) = 0 THEN Labelled(c, "else", c[a].arg) ELSE a + 1
  \/ c[a].op = "jmp" /\ b = Labelled(c, "end", c[a].arg) /\ t = s
  \/ c[a].op \in {"else", "end"} /\ b = a + 1 /\ t = s

\* c comes from <<a, s>> to <<b, t>>: a set that holds the one and is closed under
\* the steps holds the other.
Closed(c, W) ==
  \A a, s, b, t : <<a, s>> \in W /\ Moves(c, a, s, b, t) => <<b, t>> \in W

Leads(c, a, s, b, t) ==
  \A W : <<a, s>> \in W /\ Closed(c, W) => <<b, t>> \in W

\* A division by zero ends the run.
Traps(c, a, s) == c[a].op = "div" /\ LastOf(s) = 0

\* From instruction a with stack s, c comes to b with a word for the value V on top,
\* or is stopped, which it is only if V is not plain.
Yields(c, a, s, b, V) ==
  \/ \E w \in Words : (V.plain => w = V.val % Word) /\ Leads(c, a, s, b, Append(s, w))
  \/ ~ V.plain /\ \E e, t : Traps(c, e, t) /\ Leads(c, a, s, e, t)

\* The piece L stands in program c from a on, and its labels are not elsewhere in c.
Embeds(c, a, L) ==
  \A k \in 1 .. Len(L) :
    /\ c[a + k - 1] = L[k]
    /\ L[k].op \in {"else", "end"} => Labelled(c, L[k].op, L[k].arg) = a + k - 1

\* The piece L computes V, in whatever program it stands and whatever is on the stack.
Computes(L, V) ==
  \A c, a, s : a \in Nat /\ s \in Seq(Words) /\ Embeds(c, a, L)
                => Yields(c, a, s, a + Len(L), V)

\* A word has values.
LEMMA WordPositive == Word \in Nat \ {0}
BY ExprAssumption

\* A step leads on.
LEMMA LeadsStep ==
  ASSUME NEW c, NEW a, NEW s, NEW b, NEW t, Moves(c, a, s, b, t)
  PROVE  Leads(c, a, s, b, t)
BY DEF Leads, Closed

\* What leads on leads on from there.
LEMMA LeadsTrans ==
  ASSUME NEW c, NEW a, NEW s, NEW b, NEW t, NEW d, NEW u,
         Leads(c, a, s, b, t), Leads(c, b, t, d, u)
  PROVE  Leads(c, a, s, d, u)
BY DEF Leads

\* The machine has one next state.
LEMMA Deterministic ==
  ASSUME NEW c, NEW a, NEW s, NEW b, NEW t, NEW d, NEW u,
         Moves(c, a, s, b, t), Moves(c, a, s, d, u)
  PROVE  b = d /\ t = u
BY DEF Moves

\* What leads to V after a step, or after steps that come to b, t.
LEMMA YieldsAfter ==
  ASSUME NEW c, NEW a, NEW s, NEW b, NEW t, NEW e, NEW w, NEW V,
         Leads(c, a, s, b, t),
         Leads(c, b, t, e, Append(s, w)), w \in Words, V.plain => w = V.val % Word
  PROVE  Yields(c, a, s, e, V)
<1>1. Leads(c, a, s, e, Append(s, w))
  BY LeadsTrans
<1> QED BY <1>1 DEF Yields

\* The stack with a word or two put on it.
LEMMA WordPushed ==
  ASSUME NEW s \in Seq(Words), NEW w \in Words
  PROVE  /\ Append(s, w) \in Seq(Words) /\ LastOf(Append(s, w)) = w
         /\ Beneath(Append(s, w), 1) = s
<1> DEFINE u == Append(s, w)
<1>1. u \in Seq(Words) /\ Len(u) = Len(s) + 1 /\ u[Len(s) + 1] = w
  OBVIOUS
<1>2. \A k \in 1 .. Len(s) : u[k] = s[k]
  OBVIOUS
<1>3. SubSeq(u, 1, Len(s)) = s
  BY <1>1, <1>2
<1>4. Len(u) - 1 = Len(s)
  BY <1>1
<1> QED BY <1>1, <1>3, <1>4 DEF LastOf, Beneath

\* The same of two words.
LEMMA WordsPushed ==
  ASSUME NEW s \in Seq(Words), NEW w \in Words, NEW x \in Words
  PROVE  LET u == Append(Append(s, w), x) IN
         /\ u \in Seq(Words) /\ LastOf(u) = x /\ u[Len(u) - 1] = w /\ Beneath(u, 2) = s
<1> DEFINE u == Append(Append(s, w), x)
<1>1. u \in Seq(Words) /\ Len(u) = Len(s) + 2 /\ u[Len(s) + 1] = w /\ u[Len(s) + 2] = x
  OBVIOUS
<1>2. \A k \in 1 .. Len(s) : u[k] = s[k]
  OBVIOUS
<1>3. SubSeq(u, 1, Len(s)) = s
  BY <1>1, <1>2
<1>4. Len(u) - 2 = Len(s) /\ Len(u) - 1 = Len(s) + 1
  BY <1>1
<1> QED BY <1>1, <1>3, <1>4 DEF LastOf, Beneath

\* The two halves of a piece stand one behind the other.
LEMMA EmbedsBoth ==
  ASSUME NEW c, NEW a \in Nat, NEW K \in Seq(Instrs), NEW L \in Seq(Instrs), Embeds(c, a, K \o L)
  PROVE  Embeds(c, a, K) /\ Embeds(c, a + Len(K), L)
<1>1. Len(K \o L) = Len(K) + Len(L) /\ Len(K) \in Nat /\ Len(L) \in Nat
  OBVIOUS
<1>2. Embeds(c, a, K)
  <2>1. ASSUME NEW k \in 1 .. Len(K)
        PROVE k \in 1 .. Len(K \o L) /\ (K \o L)[k] = K[k]
    BY <1>1
  <2> QED BY <2>1 DEF Embeds
<1>3. Embeds(c, a + Len(K), L)
  <2>1. ASSUME NEW k \in 1 .. Len(L)
        PROVE /\ Len(K) + k \in 1 .. Len(K \o L) /\ (K \o L)[Len(K) + k] = L[k]
              /\ a + (Len(K) + k) - 1 = a + Len(K) + k - 1
    BY <1>1
  <2> QED BY <2>1 DEF Embeds
<1> QED BY <1>2, <1>3

\* An instruction of a piece of one.
LEMMA EmbedsOne ==
  ASSUME NEW c, NEW a \in Nat, NEW x, Embeds(c, a, <<x>>)
  PROVE  /\ c[a] = x
         /\ x.op \in {"else", "end"} => Labelled(c, x.op, x.arg) = a
<1>1. Len(<<x>>) = 1 /\ <<x>>[1] = x /\ a + 1 - 1 = a
  OBVIOUS
<1> QED BY <1>1 DEF Embeds

\* A piece and what stands behind it: it yields its word, or has trapped.
LEMMA ComputesAt ==
  ASSUME NEW c, NEW a \in Nat, NEW s \in Seq(Words), NEW L, NEW V, Computes(L, V), Embeds(c, a, L)
  PROVE  Yields(c, a, s, a + Len(L), V)
BY DEF Computes

\* What comes after steps.
LEMMA YieldsLater ==
  ASSUME NEW c, NEW a, NEW s, NEW b, NEW t, NEW e, NEW V, NEW w,
         Leads(c, a, s, b, t), Yields(c, b, t, e, V),
         t = s
  PROVE  Yields(c, a, s, e, V)
<1>1. CASE \E x \in Words : (V.plain => x = V.val % Word) /\ Leads(c, b, t, e, Append(t, x))
  <2>1. PICK x \in Words : (V.plain => x = V.val % Word) /\ Leads(c, b, t, e, Append(t, x))
    BY <1>1
  <2>2. Leads(c, a, s, e, Append(s, x))
    BY <2>1, LeadsTrans
  <2> QED BY <2>1, <2>2 DEF Yields
<1>2. CASE ~ V.plain /\ \E f, u : Traps(c, f, u) /\ Leads(c, b, t, f, u)
  <2>1. PICK f, u : Traps(c, f, u) /\ Leads(c, b, t, f, u)
    BY <1>2
  <2>2. Leads(c, a, s, f, u)
    BY <2>1, LeadsTrans
  <2> QED BY <1>2, <2>1, <2>2 DEF Yields
<1> QED BY <1>1, <1>2 DEF Yields

\* Steps that come to a trap.
LEMMA TrapLater ==
  ASSUME NEW c, NEW a, NEW s, NEW b, NEW t, NEW e, NEW V,
         Leads(c, a, s, b, t), \E f, u : Traps(c, f, u) /\ Leads(c, b, t, f, u), ~ V.plain
  PROVE  Yields(c, a, s, e, V)
<1>1. PICK f, u : Traps(c, f, u) /\ Leads(c, b, t, f, u)
  OBVIOUS
<1>2. Leads(c, a, s, f, u)
  BY <1>1, LeadsTrans
<1> QED BY <1>1, <1>2 DEF Yields

\* A digit is pushed.
LEMMA PushComputes ==
  ASSUME NEW d \in Words
  PROVE  Computes(<<Instr("push", d)>>, Computed(d, TRUE))
<1> DEFINE V == Computed(d, TRUE)
<1> DEFINE x == Instr("push", d)
<1> SUFFICES ASSUME NEW c, NEW a, NEW s, a \in Nat, s \in Seq(Words), Embeds(c, a, <<x>>)
             PROVE  Yields(c, a, s, a + Len(<<x>>), V)
  BY DEF Computes
<1>1. c[a] = x /\ x.op = "push" /\ x.arg = d
  BY EmbedsOne DEF Instr
<1>2. Moves(c, a, s, a + 1, Append(s, d))
  BY <1>1 DEF Moves
<1>3. Leads(c, a, s, a + 1, Append(s, d))
  BY <1>2, LeadsStep
<1>4. V.val % Word = d
  BY WordPositive, RemainderSmall DEF Words, Computed
<1>5. a + Len(<<x>>) = a + 1
  OBVIOUS
<1> QED BY <1>3, <1>4, <1>5 DEF Yields

\* A word is negated.
LEMMA NegComputes ==
  ASSUME NEW L \in Seq(Instrs), NEW V \in Values, Computes(L, V)
  PROVE  Computes(L \o <<Instr("neg", 0)>>, Computed(-V.val, V.plain))
<1> DEFINE x == Instr("neg", 0)
<1> DEFINE N2 == Computed(-V.val, V.plain)
<1>0. N2.plain = V.plain /\ N2.val = -V.val /\ V.val \in Int /\ x.op = "neg"
  BY DEF Computed, Values, Instr
<1>x. <<x>> \in Seq(Instrs)
  BY DEF Instr, Instrs, Ops
<1> HIDE DEF N2
<1> SUFFICES ASSUME NEW c, NEW a, NEW s, a \in Nat, s \in Seq(Words), Embeds(c, a, L \o <<x>>)
             PROVE  Yields(c, a, s, a + Len(L \o <<x>>), N2)
  BY DEF Computes, N2
<1>1. Embeds(c, a, L) /\ Embeds(c, a + Len(L), <<x>>)
  BY <1>x, EmbedsBoth
<1>2. Len(L \o <<x>>) = Len(L) + 1 /\ a + Len(L) \in Nat
  OBVIOUS
<1> DEFINE b == a + Len(L)
<1>3. c[b] = x
  BY <1>1, <1>2, EmbedsOne
<1>4. Yields(c, a, s, b, V)
  BY <1>1, ComputesAt
<1>5. CASE \E w \in Words : (V.plain => w = V.val % Word) /\ Leads(c, a, s, b, Append(s, w))
  <2>1. PICK w \in Words : (V.plain => w = V.val % Word) /\ Leads(c, a, s, b, Append(s, w))
    BY <1>5
  <2> DEFINE y == (-w) % Word
  <2>2. Moves(c, b, Append(s, w), b + 1, Append(s, y))
    BY <1>0, <1>3, WordPushed DEF Moves
  <2>3. y \in Words
    <3>1. -w \in Int
      BY DEF Words
    <3> QED BY <3>1, WordPositive, Remainder DEF Words
  <2>4. N2.plain => y = N2.val % Word
    BY <1>0, <2>1, WordPositive, RemainderOf
  <2> HIDE DEF y
  <2>5. Leads(c, b, Append(s, w), b + 1, Append(s, y))
    BY <2>2, LeadsStep
  <2>6. a + Len(L \o <<x>>) = b + 1
    BY <1>2
  <2> HIDE DEF b
  <2> QED BY <2>1, <2>3, <2>4, <2>5, <2>6, YieldsAfter
<1>6. CASE ~ V.plain /\ \E e, t : Traps(c, e, t) /\ Leads(c, a, s, e, t)
  BY <1>0, <1>6 DEF Yields
<1> QED BY <1>4, <1>5, <1>6 DEF Yields

\* The operators that become an instruction.
Arithmetic == {"+", "-", "*", "/"}

\* A word is what the value is in the machine.
Stands(w, V) == w \in Words /\ (V.plain => w = V.val % Word)

\* C's division of numbers that are not negative.
LEMMA DivideInt ==
  ASSUME NEW x \in Int, NEW y \in Int \ {0}
  PROVE  /\ Divide(x, y) \in Int
         /\ x >= 0 /\ y > 0 => Divide(x, y) = x \div y
<1>1. Abs(x) \in Nat /\ Abs(y) \in Nat \ {0} /\ Sign(x) \in {1, -1} /\ Sign(y) \in {1, -1}
  BY DEF Abs, Sign
<1>2. Abs(x) \div Abs(y) \in Nat
  BY <1>1, Quotient
<1>3. ASSUME NEW p \in {1, -1}, NEW q \in {1, -1}, NEW z \in Nat PROVE p * q * z \in Int
  OBVIOUS
<1>4. Divide(x, y) \in Int
  BY <1>1, <1>2, <1>3 DEF Divide
<1>5. ASSUME x >= 0, y > 0 PROVE Divide(x, y) = x \div y
  <2>1. Sign(x) = 1 /\ Sign(y) = 1 /\ Abs(x) = x /\ Abs(y) = y
    BY <1>5 DEF Sign, Abs
  <2>2. x \div y \in Nat
    BY <1>5, Quotient
  <2>3. \A z \in Nat : 1 * 1 * z = z
    OBVIOUS
  <2> QED BY <2>1, <2>2, <2>3 DEF Divide
<1> QED BY <1>4, <1>5

\* What an operation makes of two words is a word, and stands for the value.
LEMMA ResultStands ==
  ASSUME NEW V \in Values, NEW W \in Values, NEW o \in Arithmetic,
         NEW x, NEW y, Stands(x, V), Stands(y, W)
  PROVE  /\ Combine(o, V, W) \in Values
         /\ o = "/" /\ y = 0 => ~ Combine(o, V, W).plain
         /\ ~ (o = "/" /\ y = 0) => Stands(Result(OpOf(o), x, y), Combine(o, V, W))
<1>0. /\ V.val \in Int /\ W.val \in Int /\ V.plain \in BOOLEAN /\ W.plain \in BOOLEAN
      /\ x \in Words /\ y \in Words /\ x \in Int /\ y \in Int /\ Word \in Nat \ {0}
  BY WordPositive DEF Values, Stands, Words
<1>r. ASSUME V.plain, W.plain
      PROVE  /\ (x + y) % Word = (V.val + W.val) % Word
             /\ (x - y) % Word = (V.val - W.val) % Word
             /\ (x * y) % Word = (V.val * W.val) % Word
  <2>1. x = V.val % Word /\ y = W.val % Word
    BY <1>r DEF Stands
  <2> DEFINE p == V.val
  <2> DEFINE q == W.val
  <2>2. p \in Int /\ q \in Int /\ x = p % Word /\ y = q % Word
    BY <1>0, <2>1
  <2> HIDE DEF p, q
  <2>3. /\ ((p % Word) + (q % Word)) % Word = (p + q) % Word
        /\ ((p % Word) - (q % Word)) % Word = (p - q) % Word
        /\ ((p % Word) * (q % Word)) % Word = (p * q) % Word
    BY <2>2, WordPositive, RemainderOf
  <2>4. /\ (x + y) % Word = (p + q) % Word
        /\ (x - y) % Word = (p - q) % Word
        /\ (x * y) % Word = (p * q) % Word
    BY <2>2, <2>3
  <2> QED BY <2>4 DEF p, q
<1>1. CASE o = "+"
  <2>1. Combine(o, V, W) = Computed(V.val + W.val, V.plain /\ W.plain)
    BY <1>1 DEF Combine
  <2>2. Result(OpOf(o), x, y) = (x + y) % Word
    BY <1>1 DEF OpOf, Result
  <2>3. (x + y) % Word \in Words
    BY <1>0, Remainder DEF Words
  <2>4. V.plain /\ W.plain => (x + y) % Word = (V.val + W.val) % Word
    BY <1>r
  <2> QED BY <2>1, <2>2, <2>3, <2>4, <1>0, <1>1 DEF Computed, Values, Stands
<1>2. CASE o = "-"
  <2>1. Combine(o, V, W) = Computed(V.val - W.val, V.plain /\ W.plain)
    BY <1>2 DEF Combine
  <2>2. Result(OpOf(o), x, y) = (x - y) % Word
    BY <1>2 DEF OpOf, Result
  <2>3. (x - y) % Word \in Words
    BY <1>0, Remainder DEF Words
  <2>4. V.plain /\ W.plain => (x - y) % Word = (V.val - W.val) % Word
    BY <1>r
  <2> QED BY <2>1, <2>2, <2>3, <2>4, <1>0, <1>2 DEF Computed, Values, Stands
<1>3. CASE o = "*"
  <2>1. Combine(o, V, W) = Computed(V.val * W.val, V.plain /\ W.plain)
    BY <1>3 DEF Combine
  <2>2. Result(OpOf(o), x, y) = (x * y) % Word
    BY <1>3 DEF OpOf, Result
  <2>3. (x * y) % Word \in Words /\ V.val * W.val \in Int
    BY <1>0, Remainder DEF Words
  <2>4. V.plain /\ W.plain => (x * y) % Word = (V.val * W.val) % Word
    BY <1>r
  <2> QED BY <2>1, <2>2, <2>3, <2>4, <1>0, <1>3 DEF Computed, Values, Stands
<1>4. CASE o = "/"
  <2> DEFINE P == /\ V.plain /\ W.plain
                  /\ V.val \in 0 .. Word - 1 /\ W.val \in 1 .. Word - 1
  <2>1. CASE W.val = 0
    <3>1. Combine(o, V, W) = Computed(0, FALSE)
      BY <1>4, <2>1 DEF Combine
    <3>2. y # 0 => Result(OpOf(o), x, y) \in Words
      <4> SUFFICES ASSUME y # 0 PROVE Result(OpOf(o), x, y) \in Words
        OBVIOUS
      <4>1. x \in Nat /\ y \in Nat \ {0}
        BY <1>0 DEF Words
      <4>2. x \div y \in 0 .. x
        BY <4>1, Quotient
      <4> QED BY <1>4, <1>0, <4>2 DEF OpOf, Result, Words
    <3> QED BY <3>1, <3>2, <1>4 DEF Computed, Values, Stands
  <2>2. CASE W.val # 0
    <3>1. Combine(o, V, W) = Computed(Divide(V.val, W.val), P)
      BY <1>4, <2>2 DEF Combine
    <3>2. Divide(V.val, W.val) \in Int
      BY <1>0, <2>2, DivideInt
    <3>3. P => x = V.val /\ y = W.val /\ y # 0
      BY <1>0, RemainderSmall DEF Stands
    <3>4. ASSUME y # 0 PROVE Result(OpOf(o), x, y) \in Words
      <4>1. x \in Nat /\ y \in Nat \ {0}
        BY <1>0, <3>4 DEF Words
      <4>2. x \div y \in 0 .. x
        BY <4>1, Quotient
      <4> QED BY <1>4, <1>0, <4>2 DEF OpOf, Result, Words
    <3>5. ASSUME P PROVE Result(OpOf(o), x, y) = Divide(V.val, W.val) % Word
      <4>1. Result(OpOf(o), x, y) = x \div y
        BY <1>4 DEF OpOf, Result
      <4>2. Divide(V.val, W.val) = x \div y
        <5>1. V.val \in Int /\ W.val \in Int \ {0} /\ V.val >= 0 /\ W.val > 0
          BY <1>0, <3>5
        <5>2. Divide(V.val, W.val) = V.val \div W.val
          BY <5>1, DivideInt
        <5> QED BY <3>3, <3>5, <5>2
      <4>3. y # 0
        BY <3>3, <3>5
      <4>4. Result(OpOf(o), x, y) \in Words
        BY <3>4, <4>3
      <4>5. x \div y \in Words
        BY <4>1, <4>4
      <4> QED BY <4>1, <4>2, <4>5, <1>0, RemainderSmall DEF Words
    <3>6. P \in BOOLEAN
      BY <1>0
    <3> HIDE DEF P
    <3> QED BY <3>1, <3>2, <3>3, <3>4, <3>5, <3>6, <1>4 DEF Computed, Values, Stands
  <2> QED BY <2>1, <2>2
<1> QED BY <1>1, <1>2, <1>3, <1>4 DEF Arithmetic

\* Two pieces and an operation.
LEMMA BinaryComputes ==
  ASSUME NEW K \in Seq(Instrs), NEW L \in Seq(Instrs), NEW V \in Values, NEW W \in Values,
         NEW o \in Arithmetic, Computes(K, V), Computes(L, W)
  PROVE  Computes((K \o L) \o <<Instr(OpOf(o), 0)>>, Combine(o, V, W))
<1> DEFINE x == Instr(OpOf(o), 0)
<1> DEFINE C == Combine(o, V, W)
<1>0. /\ x.op = OpOf(o) /\ x.op \in {"add", "sub", "mul", "div"}
      /\ x.op = "div" <=> o = "/"
  BY DEF Instr, OpOf, Arithmetic
<1>x. <<x>> \in Seq(Instrs) /\ K \o L \in Seq(Instrs)
  <2>1. x \in Instrs
    BY <1>0 DEF Instr, Instrs, Ops
  <2> QED BY <2>1
<1>p. C.plain => V.plain /\ W.plain
  BY DEF Combine, Computed, Arithmetic
<1> HIDE DEF C
<1> SUFFICES ASSUME NEW c, NEW a, NEW s, a \in Nat, s \in Seq(Words),
                    Embeds(c, a, (K \o L) \o <<x>>)
             PROVE  Yields(c, a, s, a + Len((K \o L) \o <<x>>), C)
  BY DEF Computes, C
<1> HIDE DEF x
<1>1. /\ Embeds(c, a, K) /\ Embeds(c, a + Len(K), L)
      /\ Embeds(c, a + Len(K \o L), <<x>>)
  BY <1>x, EmbedsBoth
<1>2. /\ Len((K \o L) \o <<x>>) = Len(K) + Len(L) + 1 /\ Len(K) \in Nat /\ Len(L) \in Nat
      /\ a + Len(K \o L) = a + Len(K) + Len(L)
  BY <1>x
<1> DEFINE b == a + Len(K)
<1> DEFINE d == b + Len(L)
<1>3. c[d] = x /\ b \in Nat /\ d \in Nat /\ d + 1 = a + Len((K \o L) \o <<x>>)
  BY <1>1, <1>2, EmbedsOne
<1>4. Yields(c, a, s, b, V)
  BY <1>1, ComputesAt
<1>e. Embeds(c, b, L)
  BY <1>1
<1> HIDE DEF b
<1>5. ASSUME NEW w \in Words PROVE Yields(c, b, Append(s, w), d, W)
  BY <1>3, <1>e, ComputesAt, WordPushed
<1> HIDE DEF d
<1>6. CASE ~ V.plain /\ \E e, t : Traps(c, e, t) /\ Leads(c, a, s, e, t)
  BY <1>p, <1>6 DEF Yields
<1>7. CASE \E w \in Words : (V.plain => w = V.val % Word) /\ Leads(c, a, s, b, Append(s, w))
  <2>1. PICK w \in Words : (V.plain => w = V.val % Word) /\ Leads(c, a, s, b, Append(s, w))
    BY <1>7
  <2>2. CASE ~ W.plain /\ \E e, t : Traps(c, e, t) /\ Leads(c, b, Append(s, w), e, t)
    BY <2>1, <2>2, <1>p, TrapLater
  <2>3. CASE \E y \in Words : /\ W.plain => y = W.val % Word
                              /\ Leads(c, b, Append(s, w), d, Append(Append(s, w), y))
    <3>1. PICK y \in Words : /\ W.plain => y = W.val % Word
                             /\ Leads(c, b, Append(s, w), d, Append(Append(s, w), y))
      BY <2>3
    <3> DEFINE u == Append(Append(s, w), y)
    <3>2. Leads(c, a, s, d, u)
      BY <2>1, <3>1, LeadsTrans
    <3>3. /\ LastOf(u) = y /\ u[Len(u) - 1] = w /\ Beneath(u, 2) = s
      BY WordsPushed
    <3>4. Stands(w, V) /\ Stands(y, W)
      BY <2>1, <3>1 DEF Stands
    <3> HIDE DEF u
    <3>5. CASE o = "/" /\ y = 0
      <4>1. Traps(c, d, u)
        BY <1>0, <1>3, <3>3, <3>5 DEF Traps
      <4>2. ~ C.plain
        BY <3>4, <3>5, ResultStands DEF C
      <4> QED BY <3>2, <4>1, <4>2 DEF Yields
    <3>6. CASE ~ (o = "/" /\ y = 0)
      <4> DEFINE r == Result(OpOf(o), w, y)
      <4>1. Stands(r, C)
        BY <3>4, <3>6, ResultStands DEF C
      <4>2. Moves(c, d, u, d + 1, Append(s, r))
        BY <1>0, <1>3, <3>3, <3>6 DEF Moves
      <4> HIDE DEF r
      <4>3. Leads(c, d, u, d + 1, Append(s, r))
        BY <4>2, LeadsStep
      <4> QED BY <1>3, <3>2, <4>1, <4>3, YieldsAfter DEF Stands
    <3> QED BY <3>5, <3>6
  <2> QED BY <2>1, <2>2, <2>3, <1>5 DEF Yields
<1> QED BY <1>4, <1>6, <1>7 DEF Yields

\* What parse_cond_exp prints around its three parts.
CondCode(K, L, M, q) ==
  K \o (<<Instr("jz", q)>> \o (L \o (<<Instr("jmp", q)>> \o (<<Instr("else", q)>>
    \o (M \o <<Instr("end", q)>>)))))

\* What is chosen: the operand that the test names, of which the other is nothing.
LEMMA Chosen ==
  ASSUME NEW V \in Values, NEW W \in Values, NEW X \in Values, NEW w, Stands(w, V)
  PROVE  LET C == Choose(V, W, X) IN
         /\ C \in Values
         /\ C.plain => V.plain
         /\ C.plain /\ w = 0 => C.val = X.val /\ X.plain
         /\ C.plain /\ w # 0 => C.val = W.val /\ W.plain
<1> DEFINE Y == IF V.val # 0 THEN W ELSE X
<1>1. Y \in Values /\ V.val \in Int /\ V.plain \in BOOLEAN /\ Y.plain \in BOOLEAN /\ Y.val \in Int
  BY DEF Values
<1>2. Choose(V, W, X) = Computed(Y.val, Y.plain /\ V.plain /\ Abs(V.val) < Word)
  BY DEF Choose
<1>3. ASSUME V.plain, Abs(V.val) < Word PROVE w = 0 <=> V.val = 0
  <2> DEFINE p == V.val
  <2>1. w = p % Word /\ p \in Int /\ Abs(p) < Word
    BY <1>1, <1>3 DEF Stands
  <2> HIDE DEF p
  <2>2. -Word < p /\ p < Word
    BY <2>1, WordPositive DEF Abs, Sign
  <2>3. ASSUME p >= 0 PROVE w = 0 <=> p = 0
    BY <2>1, <2>2, <2>3, WordPositive, RemainderSmall
  <2>4. ASSUME p < 0 PROVE w = 0 <=> p = 0
    <3>1. p + Word \in 0 .. Word - 1 /\ p + Word # 0 /\ p = Word * (-1) + (p + Word)
      BY <2>1, <2>2, <2>4, WordPositive
    <3>2. p % Word = p + Word
      BY <3>1, <2>1, WordPositive, RemainderUnique
    <3> QED BY <2>1, <2>4, <3>1, <3>2
  <2>5. w = 0 <=> p = 0
    BY <2>1, <2>3, <2>4
  <2> QED BY <2>5 DEF p
<1>4. (Y.plain /\ V.plain /\ Abs(V.val) < Word) \in BOOLEAN
  OBVIOUS
<1> DEFINE C == Choose(V, W, X)
<1>5. /\ C.val = Y.val /\ C.plain = (Y.plain /\ V.plain /\ Abs(V.val) < Word)
      /\ C \in Values
  BY <1>1, <1>2, <1>4 DEF Computed, Values
<1> HIDE DEF C
<1>6. C.plain => V.plain /\ Y.plain /\ (w = 0 <=> V.val = 0)
  BY <1>3, <1>5
<1>7. /\ C.plain => V.plain
      /\ C.plain /\ w = 0 => C.val = X.val /\ X.plain
      /\ C.plain /\ w # 0 => C.val = W.val /\ W.plain
  BY <1>5, <1>6
<1> QED BY <1>5, <1>7 DEF C

\* What is computed from values is a value.
LEMMA ChosenValue ==
  ASSUME NEW V \in Values, NEW W \in Values, NEW X \in Values
  PROVE  Choose(V, W, X) \in Values
<1> DEFINE w == V.val % Word
<1>1. Stands(w, V)
  BY WordPositive, Remainder DEF Stands, Words, Values
<1> QED BY <1>1, Chosen

\* Two values combine to a value.
LEMMA CombinedValue ==
  ASSUME NEW V \in Values, NEW W \in Values, NEW o \in Arithmetic
  PROVE  Combine(o, V, W) \in Values
<1> DEFINE x == V.val % Word
<1> DEFINE y == W.val % Word
<1>1. Stands(x, V) /\ Stands(y, W)
  BY WordPositive, Remainder DEF Stands, Words, Values
<1> QED BY <1>1, ResultStands

\* A test, a jump, the one operand and the other.
LEMMA CondComputes ==
  ASSUME NEW K \in Seq(Instrs), NEW L \in Seq(Instrs), NEW M \in Seq(Instrs),
         NEW V \in Values, NEW W \in Values, NEW X \in Values, NEW q \in Nat,
         Computes(K, V), Computes(L, W), Computes(M, X)
  PROVE  Computes(CondCode(K, L, M, q), Choose(V, W, X))
<1> DEFINE jz == Instr("jz", q)
<1> DEFINE jmp == Instr("jmp", q)
<1> DEFINE els == Instr("else", q)
<1> DEFINE end == Instr("end", q)
<1> DEFINE C == Choose(V, W, X)
<1>0. /\ jz.op = "jz" /\ jmp.op = "jmp" /\ els.op = "else" /\ end.op = "end"
      /\ jz.arg = q /\ jmp.arg = q /\ els.arg = q /\ end.arg = q
      /\ jz \in Instrs /\ jmp \in Instrs /\ els \in Instrs /\ end \in Instrs
  BY DEF Instr, Instrs, Ops
<1>c. CondCode(K, L, M, q)
        = K \o (<<jz>> \o (L \o (<<jmp>> \o (<<els>> \o (M \o <<end>>)))))
  BY DEF CondCode
<1> HIDE DEF jz, jmp, els, end, C
<1> DEFINE t5 == M \o <<end>>
<1> DEFINE t4 == <<els>> \o t5
<1> DEFINE t3 == <<jmp>> \o t4
<1> DEFINE t2 == L \o t3
<1> DEFINE t1 == <<jz>> \o t2
<1>t. /\ t5 \in Seq(Instrs) /\ t4 \in Seq(Instrs) /\ t3 \in Seq(Instrs) /\ t2 \in Seq(Instrs)
      /\ t1 \in Seq(Instrs) /\ <<jz>> \in Seq(Instrs) /\ <<jmp>> \in Seq(Instrs)
      /\ <<els>> \in Seq(Instrs) /\ <<end>> \in Seq(Instrs)
  BY <1>0
<1>n. /\ Len(t5) = Len(M) + 1 /\ Len(t4) = Len(M) + 2 /\ Len(t3) = Len(M) + 3
      /\ Len(t2) = Len(L) + Len(M) + 3 /\ Len(t1) = Len(L) + Len(M) + 4
      /\ Len(K \o t1) = Len(K) + Len(L) + Len(M) + 4
      /\ Len(K) \in Nat /\ Len(L) \in Nat /\ Len(M) \in Nat
      /\ Len(<<jz>>) = 1 /\ Len(<<jmp>>) = 1 /\ Len(<<els>>) = 1
  <2>1. Len(t5) = Len(M) + 1
    OBVIOUS
  <2>2. Len(t4) = 1 + Len(t5)
    BY <1>t
  <2>3. Len(t3) = 1 + Len(t4)
    BY <1>t
  <2>4. Len(t2) = Len(L) + Len(t3)
    BY <1>t
  <2>5. Len(t1) = 1 + Len(t2)
    BY <1>t
  <2>6. Len(K \o t1) = Len(K) + Len(t1)
    BY <1>t
  <2>7. /\ Len(K) \in Nat /\ Len(L) \in Nat /\ Len(M) \in Nat
        /\ Len(<<jz>>) = 1 /\ Len(<<jmp>>) = 1 /\ Len(<<els>>) = 1
    OBVIOUS
  <2> HIDE DEF t1, t2, t3, t4, t5
  <2> QED BY <2>1, <2>2, <2>3, <2>4, <2>5, <2>6, <2>7
<1> SUFFICES ASSUME NEW c, NEW a, NEW s, a \in Nat, s \in Seq(Words), Embeds(c, a, K \o t1)
             PROVE  Yields(c, a, s, a + Len(K \o t1), C)
  BY <1>c DEF Computes, C
<1> DEFINE b == a + Len(K)
<1> DEFINE d == b + 1 + Len(L)
<1> DEFINE f == d + 2 + Len(M)
<1>1. /\ b \in Nat /\ d \in Nat /\ f \in Nat /\ f + 1 = a + Len(K \o t1)
      /\ d = b + 1 + Len(L) /\ f = d + 2 + Len(M)
      /\ a + Len(K) = b
  BY <1>n
<1> HIDE DEF b, d, f
<1>2. Embeds(c, a, K) /\ Embeds(c, b, t1)
  <2> HIDE DEF t1
  <2>1. Embeds(c, a, K) /\ Embeds(c, a + Len(K), t1)
    BY <1>t, EmbedsBoth
  <2> QED BY <1>1, <2>1
<1>3. Embeds(c, b, <<jz>>) /\ Embeds(c, b + 1, t2)
  <2> HIDE DEF t2
  <2>1. Embeds(c, b, <<jz>>) /\ Embeds(c, b + Len(<<jz>>), t2)
    BY <1>1, <1>2, <1>t, EmbedsBoth
  <2> QED BY <1>n, <2>1
<1>4. Embeds(c, b + 1, L) /\ Embeds(c, d, t3)
  <2> HIDE DEF t3
  <2>1. b + 1 \in Nat
    BY <1>1
  <2>2. Embeds(c, b + 1, L) /\ Embeds(c, (b + 1) + Len(L), t3)
    BY <1>3, <1>t, <2>1, EmbedsBoth
  <2> QED BY <1>1, <2>2
<1>5. Embeds(c, d, <<jmp>>) /\ Embeds(c, d + 1, t4)
  <2> HIDE DEF t4
  <2>1. Embeds(c, d, <<jmp>>) /\ Embeds(c, d + Len(<<jmp>>), t4)
    BY <1>1, <1>4, <1>t, EmbedsBoth
  <2> QED BY <1>n, <2>1
<1>6. Embeds(c, d + 1, <<els>>) /\ Embeds(c, d + 2, t5)
  <2> HIDE DEF t5
  <2>1. d + 1 \in Nat /\ d + 1 + 1 = d + 2
    BY <1>1
  <2>2. Embeds(c, d + 1, <<els>>) /\ Embeds(c, (d + 1) + Len(<<els>>), t5)
    BY <2>1, <1>5, <1>t, EmbedsBoth
  <2> QED BY <2>1, <2>2, <1>n
<1>7. Embeds(c, d + 2, M) /\ Embeds(c, f, <<end>>)
  <2>1. d + 2 \in Nat
    BY <1>1
  <2>2. Embeds(c, d + 2, M) /\ Embeds(c, (d + 2) + Len(M), <<end>>)
    BY <1>6, <1>t, <2>1, EmbedsBoth
  <2>3. (d + 2) + Len(M) = f
    BY <1>1, <1>n
  <2> QED BY <2>2, <2>3
<1> HIDE DEF t1, t2, t3, t4, t5
<1>8. /\ c[b] = jz /\ c[d] = jmp /\ c[d + 1] = els /\ c[f] = end
      /\ Labelled(c, "else", q) = d + 1 /\ Labelled(c, "end", q) = f
  <2>1. d + 1 \in Nat
    BY <1>1
  <2>2. c[b] = jz
    BY <1>1, <1>3, EmbedsOne
  <2>3. c[d] = jmp
    BY <1>1, <1>5, EmbedsOne
  <2>4. c[d + 1] = els /\ Labelled(c, els.op, els.arg) = d + 1
    BY <2>1, <1>0, <1>6, EmbedsOne
  <2>5. c[f] = end /\ Labelled(c, end.op, end.arg) = f
    BY <1>0, <1>1, <1>7, EmbedsOne
  <2> QED BY <1>0, <2>2, <2>3, <2>4, <2>5
<1>9. Yields(c, a, s, b, V)
  BY <1>1, <1>2, ComputesAt
<1>10. Yields(c, b + 1, s, d, W)
  <2>1. b + 1 \in Nat
    BY <1>1
  <2> QED BY <2>1, <1>1, <1>4, ComputesAt
<1>11. Yields(c, d + 2, s, f, X)
  <2>1. d + 2 \in Nat
    BY <1>1
  <2> QED BY <2>1, <1>1, <1>7, ComputesAt
\* Behind an operand: to the end.
<1>12. ASSUME NEW w \in Words
       PROVE  /\ Leads(c, d, Append(s, w), f + 1, Append(s, w))
              /\ Leads(c, f, Append(s, w), f + 1, Append(s, w))
  <2> DEFINE u == Append(s, w)
  <2>1. Moves(c, d, u, f, u) /\ Moves(c, f, u, f + 1, u)
    BY <1>0, <1>8 DEF Moves
  <2> HIDE DEF u
  <2>2. Leads(c, d, u, f + 1, u) /\ Leads(c, f, u, f + 1, u)
    BY <2>1, LeadsStep, LeadsTrans
  <2> QED BY <2>2 DEF u
<1>13. CASE ~ V.plain /\ \E e, t : Traps(c, e, t) /\ Leads(c, a, s, e, t)
  <2>1. ~ C.plain
    <3>1. Choose(V, W, X).plain => V.plain
      BY DEF Choose, Computed, Values
    <3> QED BY <1>13, <3>1 DEF C
  <2> QED BY <1>13, <2>1 DEF Yields
<1>14. CASE \E w \in Words : (V.plain => w = V.val % Word) /\ Leads(c, a, s, b, Append(s, w))
  <2>1. PICK w \in Words : (V.plain => w = V.val % Word) /\ Leads(c, a, s, b, Append(s, w))
    BY <1>14
  <2>2. Stands(w, V)
    BY <2>1 DEF Stands
  <2>3. /\ C \in Values
        /\ C.plain /\ w = 0 => C.val = X.val /\ X.plain
        /\ C.plain /\ w # 0 => C.val = W.val /\ W.plain
    BY <2>2, Chosen DEF C
  <2>4. CASE w = 0
    <3>1. Moves(c, b, Append(s, w), d + 1, s)
      BY <1>0, <1>8, <2>4, WordPushed DEF Moves
    <3>2. Moves(c, d + 1, s, d + 2, s)
      <4>1. c[d + 1].op = "else"
        BY <1>0, <1>8
      <4>2. d + 2 = (d + 1) + 1
        BY <1>1
      <4> QED BY <4>1, <4>2 DEF Moves
    <3>3. Leads(c, a, s, d + 2, s)
      BY <2>1, <3>1, <3>2, LeadsStep, LeadsTrans
    <3>4. Yields(c, a, s, f, X)
      BY <1>11, <3>3, YieldsLater
    <3>5. CASE ~ X.plain /\ \E e, t : Traps(c, e, t) /\ Leads(c, a, s, e, t)
      BY <2>3, <2>4, <3>5 DEF Yields
    <3>6. CASE \E y \in Words : (X.plain => y = X.val % Word) /\ Leads(c, a, s, f, Append(s, y))
      <4>1. PICK y \in Words : (X.plain => y = X.val % Word) /\ Leads(c, a, s, f, Append(s, y))
        BY <3>6
      <4>2. Leads(c, a, s, f + 1, Append(s, y))
        BY <1>12, <4>1, LeadsTrans
      <4>3. C.plain => y = C.val % Word
        BY <2>3, <2>4, <4>1
      <4> QED BY <1>1, <4>1, <4>2, <4>3 DEF Yields
    <3> QED BY <3>4, <3>5, <3>6 DEF Yields
  <2>5. CASE w # 0
    <3>1. Moves(c, b, Append(s, w), b + 1, s)
      BY <1>0, <1>8, <2>5, WordPushed DEF Moves
    <3>2. Leads(c, a, s, b + 1, s)
      BY <2>1, <3>1, LeadsStep, LeadsTrans
    <3>3. Yields(c, a, s, d, W)
      BY <1>10, <3>2, YieldsLater
    <3>4. CASE ~ W.plain /\ \E e, t : Traps(c, e, t) /\ Leads(c, a, s, e, t)
      BY <2>3, <2>5, <3>4 DEF Yields
    <3>5. CASE \E y \in Words : (W.plain => y = W.val % Word) /\ Leads(c, a, s, d, Append(s, y))
      <4>1. PICK y \in Words : (W.plain => y = W.val % Word) /\ Leads(c, a, s, d, Append(s, y))
        BY <3>5
      <4>2. Leads(c, a, s, f + 1, Append(s, y))
        BY <1>12, <4>1, LeadsTrans
      <4>3. C.plain => y = C.val % Word
        BY <2>3, <2>5, <4>1
      <4> QED BY <1>1, <4>1, <4>2, <4>3 DEF Yields
    <3> QED BY <3>3, <3>4, <3>5 DEF Yields
  <2> QED BY <2>4, <2>5
<1> QED BY <1>9, <1>13, <1>14 DEF Yields

-----------------------------------------------------------------------------
\* The labels of a piece.

Labels(h, j) == [op : {"else", "end"}, arg : h .. j]

\* The labels of L are among T, and none stands twice.
Fresh(L, T) ==
  \A k \in 1 .. Len(L) : L[k].op \in {"else", "end"} =>
    L[k] \in T /\ \A m \in 1 .. Len(L) : L[m] = L[k] => m = k

\* Labels that are among S are among more.
LEMMA FreshMore ==
  ASSUME NEW L, NEW S, NEW T, Fresh(L, S), S \subseteq T
  PROVE  Fresh(L, T)
BY DEF Fresh

\* A piece of one instruction has at most that label.
LEMMA FreshOne ==
  ASSUME NEW x
  PROVE  /\ Fresh(<<x>>, {x})
         /\ x.op \notin {"else", "end"} => Fresh(<<x>>, {})
<1>1. Len(<<x>>) = 1 /\ <<x>>[1] = x
  OBVIOUS
<1> HIDE DEF Instr
<1> QED BY <1>1 DEF Fresh

\* Two pieces with different labels have each label once.
LEMMA FreshBoth ==
  ASSUME NEW K \in Seq(Instrs), NEW L \in Seq(Instrs), NEW S, NEW T,
         Fresh(K, S), Fresh(L, T), S \cap T = {}
  PROVE  Fresh(K \o L, S \cup T)
<1> DEFINE J == K \o L
<1>1. /\ Len(J) = Len(K) + Len(L) /\ Len(K) \in Nat /\ Len(L) \in Nat
      /\ \A k \in 1 .. Len(K) : J[k] = K[k]
      /\ \A k \in 1 .. Len(L) : J[Len(K) + k] = L[k]
  OBVIOUS
<1>2. ASSUME NEW k \in 1 .. Len(J), k > Len(K)
      PROVE  k - Len(K) \in 1 .. Len(L) /\ J[k] = L[k - Len(K)]
  <2>1. k - Len(K) \in 1 .. Len(L) /\ Len(K) + (k - Len(K)) = k
    BY <1>1, <1>2
  <2> QED BY <1>1, <2>1
<1> HIDE DEF J
<1>3. ASSUME NEW k \in 1 .. Len(J), J[k].op \in {"else", "end"}
      PROVE  J[k] \in S \cup T /\ \A m \in 1 .. Len(J) : J[m] = J[k] => m = k
  <2>1. CASE k \in 1 .. Len(K)
    <3>1. J[k] = K[k] /\ K[k] \in S
      BY <1>1, <1>3, <2>1 DEF Fresh
    <3>2. ASSUME NEW m \in 1 .. Len(J), J[m] = J[k] PROVE m = k
      <4>1. CASE m \in 1 .. Len(K)
        BY <1>1, <1>3, <2>1, <3>1, <3>2, <4>1 DEF Fresh
      <4>2. CASE m > Len(K)
        <5>1. m - Len(K) \in 1 .. Len(L) /\ J[m] = L[m - Len(K)]
          BY <1>2, <4>2
        <5>2. L[m - Len(K)] \in T
          BY <5>1, <1>3, <3>2 DEF Fresh
        <5> QED BY <3>1, <3>2, <5>1, <5>2
      <4> QED BY <1>1, <4>1, <4>2
    <3> QED BY <3>1, <3>2
  <2>2. CASE k > Len(K)
    <3>1. k - Len(K) \in 1 .. Len(L) /\ J[k] = L[k - Len(K)]
      BY <1>2, <2>2
    <3>2. L[k - Len(K)] \in T
      BY <3>1, <1>3 DEF Fresh
    <3>3. ASSUME NEW m \in 1 .. Len(J), J[m] = J[k] PROVE m = k
      <4>1. CASE m \in 1 .. Len(K)
        <5>1. J[m] = K[m] /\ K[m] \in S
          BY <1>1, <1>3, <3>3, <4>1 DEF Fresh
        <5> QED BY <3>1, <3>2, <3>3, <5>1
      <4>2. CASE m > Len(K)
        <5>1. m - Len(K) \in 1 .. Len(L) /\ J[m] = L[m - Len(K)]
          BY <1>2, <4>2
        <5>2. m - Len(K) = k - Len(K)
          BY <3>1, <5>1, <1>3, <3>3 DEF Fresh
        <5> QED BY <5>2, <1>1
      <4> QED BY <1>1, <4>1, <4>2
    <3> QED BY <3>1, <3>2, <3>3
  <2> QED BY <1>1, <2>1, <2>2
<1> QED BY <1>3 DEF Fresh, J

\* A program whose labels stand once stands in itself.
LEMMA EmbedsAll ==
  ASSUME NEW L \in Seq(Instrs), NEW T, Fresh(L, T)
  PROVE  Embeds(L, 1, L)
<1> SUFFICES ASSUME NEW k \in 1 .. Len(L), L[k].op \in {"else", "end"}
             PROVE  Labelled(L, L[k].op, L[k].arg) = k
  BY DEF Embeds
<1>1. L[k] \in Instrs /\ DOMAIN L = 1 .. Len(L)
  OBVIOUS
<1>2. L[k] = Instr(L[k].op, L[k].arg)
  BY <1>1 DEF Instr, Instrs
<1>3. \A m \in DOMAIN L : L[m] = Instr(L[k].op, L[k].arg) => m = k
  BY <1>1, <1>2 DEF Fresh
<1> QED BY <1>1, <1>2, <1>3 DEF Labelled

\* The labels of an operation are those of its operands.
LEMMA BinaryFresh ==
  ASSUME NEW K \in Seq(Instrs), NEW L \in Seq(Instrs), NEW o \in Arithmetic,
         NEW h \in Nat, NEW m \in Nat, NEW j \in Nat, h <= m, m <= j,
         Fresh(K, Labels(h, m - 1)), Fresh(L, Labels(m + 1, j))
  PROVE  Fresh((K \o L) \o <<Instr(OpOf(o), 0)>>, Labels(h, j))
<1> DEFINE x == Instr(OpOf(o), 0)
<1>1. x \in Instrs /\ x.op \notin {"else", "end"}
  BY DEF Instr, Instrs, Ops, OpOf, Arithmetic
<1>2. Labels(h, m - 1) \cap Labels(m + 1, j) = {}
  BY DEF Labels
<1>3. Fresh(K \o L, Labels(h, m - 1) \cup Labels(m + 1, j)) /\ K \o L \in Seq(Instrs)
  BY <1>2, FreshBoth
<1> HIDE DEF x
<1>4. Fresh(<<x>>, {}) /\ <<x>> \in Seq(Instrs)
  <2>1. Fresh(<<x>>, {})
    BY <1>1, FreshOne
  <2>2. <<x>> \in Seq(Instrs)
    BY <1>1
  <2> QED BY <2>1, <2>2
<1> DEFINE S == Labels(h, m - 1) \cup Labels(m + 1, j)
<1>5. S \subseteq Labels(h, j)
  BY DEF Labels
<1> HIDE DEF S
<1>6. Fresh((K \o L) \o <<x>>, S \cup {})
  BY <1>3, <1>4, FreshBoth DEF S
<1> QED BY <1>5, <1>6, FreshMore DEF x

\* Those of a test are those of its operands and its own two.
LEMMA CondFresh ==
  ASSUME NEW K \in Seq(Instrs), NEW L \in Seq(Instrs), NEW M \in Seq(Instrs),
         NEW h \in Nat, NEW q \in Nat, NEW m \in Nat, NEW j \in Nat, h <= q, q < m, m <= j,
         Fresh(K, Labels(h, q - 1)), Fresh(L, Labels(q + 1, m - 1)), Fresh(M, Labels(m + 1, j))
  PROVE  Fresh(CondCode(K, L, M, q), Labels(h, j)) /\ CondCode(K, L, M, q) \in Seq(Instrs)
<1> DEFINE jz == Instr("jz", q)
<1> DEFINE jmp == Instr("jmp", q)
<1> DEFINE els == Instr("else", q)
<1> DEFINE end == Instr("end", q)
<1>0. /\ jz.op = "jz" /\ jmp.op = "jmp" /\ els.op = "else" /\ end.op = "end"
      /\ jz.arg = q /\ jmp.arg = q /\ els.arg = q /\ end.arg = q
      /\ jz \in Instrs /\ jmp \in Instrs /\ els \in Instrs /\ end \in Instrs
  BY DEF Instr, Instrs, Ops
<1>c. CondCode(K, L, M, q)
        = K \o (<<jz>> \o (L \o (<<jmp>> \o (<<els>> \o (M \o <<end>>)))))
  BY DEF CondCode
<1> DEFINE A == Labels(h, q - 1)
<1> DEFINE B == Labels(q + 1, m - 1)
<1> DEFINE C == Labels(m + 1, j)
<1>d. /\ A \cap B = {} /\ A \cap C = {} /\ B \cap C = {}
      /\ \A y \in A \cup B \cup C : y.arg # q
      /\ A \cup B \cup C \subseteq Labels(h, j)
  BY DEF Labels
<1>e. els \in Labels(h, j) /\ end \in Labels(h, j)
  BY DEF Labels, Instr
<1> HIDE DEF jz, jmp, els, end, A, B, C
<1>s. /\ <<jz>> \in Seq(Instrs) /\ <<jmp>> \in Seq(Instrs)
      /\ <<els>> \in Seq(Instrs) /\ <<end>> \in Seq(Instrs)
  BY <1>0
<1>1. /\ Fresh(<<jz>>, {}) /\ Fresh(<<jmp>>, {})
      /\ Fresh(<<els>>, {els}) /\ Fresh(<<end>>, {end})
  BY <1>0, FreshOne
<1> DEFINE t5 == M \o <<end>>
<1> DEFINE t4 == <<els>> \o t5
<1> DEFINE t3 == <<jmp>> \o t4
<1> DEFINE t2 == L \o t3
<1> DEFINE t1 == <<jz>> \o t2
<1>t. /\ t5 \in Seq(Instrs) /\ t4 \in Seq(Instrs) /\ t3 \in Seq(Instrs) /\ t2 \in Seq(Instrs)
      /\ t1 \in Seq(Instrs) /\ K \o t1 \in Seq(Instrs)
  BY <1>s
<1>5. Fresh(t5, C \cup {end})
  <2>1. C \cap {end} = {}
    BY <1>0, <1>d
  <2> QED BY <2>1, <1>1, <1>s, FreshBoth DEF C
<1>4. Fresh(t4, {els} \cup (C \cup {end}))
  <2> HIDE DEF t5
  <2>1. {els} \cap (C \cup {end}) = {}
    BY <1>0, <1>d
  <2> QED BY <2>1, <1>1, <1>5, <1>s, <1>t, FreshBoth
<1>3. Fresh(t3, {} \cup ({els} \cup (C \cup {end})))
  <2> HIDE DEF t4
  <2> QED BY <1>1, <1>4, <1>s, <1>t, FreshBoth
<1>2. Fresh(t2, B \cup ({} \cup ({els} \cup (C \cup {end}))))
  <2> HIDE DEF t3
  <2>1. B \cap ({} \cup ({els} \cup (C \cup {end}))) = {}
    BY <1>0, <1>d
  <2> QED BY <2>1, <1>3, <1>t, FreshBoth DEF B
<1> DEFINE S2 == B \cup ({} \cup ({els} \cup (C \cup {end})))
<1>6. A \cap S2 = {} /\ A \cup S2 \subseteq Labels(h, j)
  BY <1>0, <1>d, <1>e
<1> HIDE DEF S2
<1>7. Fresh(t1, {} \cup S2)
  <2> HIDE DEF t2
  <2> QED BY <1>1, <1>2, <1>s, <1>t, FreshBoth DEF S2
<1>8. Fresh(K \o t1, A \cup ({} \cup S2))
  <2> HIDE DEF t1
  <2>1. A \cap ({} \cup S2) = {}
    BY <1>6
  <2> QED BY <2>1, <1>7, <1>t, FreshBoth DEF A
<1>9. A \cup ({} \cup S2) \subseteq Labels(h, j)
  BY <1>6
<1> HIDE DEF t1
<1>10. Fresh(K \o t1, Labels(h, j))
  BY <1>8, <1>9, FreshMore
<1> QED BY <1>c, <1>10, <1>t DEF t1

-----------------------------------------------------------------------------
\* The parentheses of a string.

\* How often x is among the first k of s.
Count(s, x, k) == Cardinality({m \in 1 .. k : s[m] = x})

\* How deep the parentheses are behind the first k characters.
Level(s, k) == Count(s, "(", k) - Count(s, ")", k)

\* Counting one character more.
LEMMA CountOne ==
  ASSUME NEW s, NEW x, NEW k \in Nat \ {0}
  PROVE  /\ Count(s, x, k) \in Nat /\ Count(s, x, k - 1) \in Nat
         /\ Count(s, x, k) = Count(s, x, k - 1) + (IF s[k] = x THEN 1 ELSE 0)
<1> DEFINE A == {m \in 1 .. k - 1 : s[m] = x}
<1> DEFINE B == {m \in 1 .. k : s[m] = x}
<1>1. IsFiniteSet(1 .. k - 1)
  BY FS_Interval
<1>2. IsFiniteSet(A) /\ Cardinality(A) \in Nat
  BY <1>1, FS_Subset, FS_CardinalityType
<1>3. CASE s[k] = x
  <2>1. B = A \cup {k} /\ k \notin A
    BY <1>3
  <2> HIDE DEF A, B
  <2>2. Cardinality(B) = Cardinality(A) + 1
    BY <1>2, <2>1, FS_AddElement
  <2> QED BY <1>2, <1>3, <2>2 DEF Count, A, B
<1>4. CASE s[k] # x
  <2>1. B = A
    BY <1>4
  <2> HIDE DEF A, B
  <2> QED BY <1>2, <1>4, <2>1 DEF Count, A, B
<1> QED BY <1>3, <1>4

\* The depth of a character is the level before and behind it, whichever is less.
LEMMA Levels ==
  ASSUME NEW s, NEW k \in Nat \ {0}
  PROVE  /\ Level(s, k) \in Int /\ Level(s, k - 1) \in Int /\ Depth(s, k) \in Int
         /\ s[k] = "(" => Level(s, k) = Level(s, k - 1) + 1 /\ Depth(s, k) = Level(s, k - 1)
         /\ s[k] = ")" => Level(s, k) = Level(s, k - 1) - 1 /\ Depth(s, k) = Level(s, k)
         /\ s[k] \notin {"(", ")"} => Level(s, k) = Level(s, k - 1) /\ Depth(s, k) = Level(s, k)
<1> DEFINE oo == Count(s, "(", k - 1)
<1> DEFINE o == Count(s, "(", k)
<1> DEFINE cc == Count(s, ")", k - 1)
<1> DEFINE c == Count(s, ")", k)
<1>1. /\ oo \in Nat /\ o \in Nat /\ o = oo + (IF s[k] = "(" THEN 1 ELSE 0)
      /\ cc \in Nat /\ c \in Nat /\ c = cc + (IF s[k] = ")" THEN 1 ELSE 0)
  BY CountOne
<1>2. Level(s, k) = o - c /\ Level(s, k - 1) = oo - cc
  BY DEF Level
<1>3. Depth(s, k) = oo - c
  BY DEF Depth, Count
<1> HIDE DEF o, oo, c, cc
<1> QED BY <1>1, <1>2, <1>3

\* The characters that an expression begins and ends with.
Begin == DOMAIN Digits \cup {"(", "-"}
Finish == DOMAIN Digits \cup {")"}

\* s[h .. j] is an expression as far as its parentheses and its ends show it.
Whole(s, h, j) ==
  /\ h \in 1 .. Len(s) /\ j \in 1 .. Len(s) /\ h <= j
  /\ Level(s, j) = Level(s, h - 1)
  /\ \A k \in h .. j : Depth(s, k) >= Level(s, h - 1)
  /\ s[h] \in Begin /\ s[j] \in Finish

\* Digits are neither operators nor parentheses.
LEMMA CharsApart ==
  ASSUME NEW x
  PROVE  /\ x \in DOMAIN Digits =>
              x \notin {"+", "-", "*", "/", "?", ":", "(", ")", "null"}
         /\ x \in Begin => x # ")"
         /\ x \in Finish => x # "(" /\ x \notin Operators
         /\ x \in Operators => x \notin {"(", ")"} /\ x \notin Finish /\ x \notin DOMAIN Digits
<1>1. x \in DOMAIN Digits => x \notin {"+", "-", "*", "/", "?", ":", "(", ")", "null"}
  BY ExprAssumption DEF Operators
<1> QED BY <1>1 DEF Begin, Finish, Operators

\* A whole part begins at the level in front of it, and its places are numbers.
LEMMA WholeDepth ==
  ASSUME NEW s, NEW h, NEW j, Whole(s, h, j), Len(s) \in Nat
  PROVE  /\ Depth(s, h) = Level(s, h - 1) /\ Level(s, h - 1) \in Int
         /\ h \in Nat \ {0} /\ j \in Nat \ {0} /\ h <= j /\ j <= Len(s)
<1>1. /\ h \in Nat \ {0} /\ j \in Nat \ {0} /\ h <= j /\ j <= Len(s) /\ s[h] # ")"
  BY CharsApart DEF Whole
<1> QED BY <1>1, Levels

\* Two of them and an operator between.
LEMMA WholeJoin ==
  ASSUME NEW s, NEW h, NEW m, NEW j, Len(s) \in Nat,
         Whole(s, h, m - 1), Whole(s, m + 1, j), m \in Int, s[m] \in Operators
  PROVE  Whole(s, h, j)
<1>1. /\ h \in Nat \ {0} /\ j \in Nat \ {0} /\ j <= Len(s) /\ h <= m - 1 /\ m + 1 <= j
      /\ m \in Nat \ {0} /\ m + 1 - 1 = m
  BY WholeDepth
<1>2. /\ Level(s, m - 1) = Level(s, h - 1) /\ Level(s, j) = Level(s, m)
      /\ Level(s, h - 1) \in Int /\ Level(s, m) \in Int
  BY <1>1, Levels DEF Whole
<1>3. Level(s, m) = Level(s, m - 1) /\ Depth(s, m) = Level(s, m)
  BY <1>1, Levels, CharsApart
<1>4. ASSUME NEW k \in h .. j PROVE Depth(s, k) >= Level(s, h - 1)
  <2>1. CASE k \in h .. m - 1
    BY <2>1 DEF Whole
  <2>2. CASE k = m
    BY <1>2, <1>3, <2>2
  <2>3. CASE k \in m + 1 .. j
    BY <1>1, <1>2, <1>3, <2>3 DEF Whole
  <2> QED BY <1>1, <2>1, <2>2, <2>3
<1> QED BY <1>1, <1>2, <1>3, <1>4 DEF Whole

\* The character m of s, if it is one of A.
Here(s, m, A) == {k \in {m} : s[k] \in A}

\* The operator at m itself.
LEMMA HereIs ==
  ASSUME NEW s, NEW m, NEW A
  PROVE  /\ s[m] \in A => Here(s, m, A) = {m}
         /\ s[m] \notin A => Here(s, m, A) = {}
BY DEF Here

\* The operators outside the parentheses of both, and the one between.
JoinsSplits(s, h, m, j, A) ==
  Splits(s, h, j, A) = Splits(s, h, m - 1, A) \cup Here(s, m, A) \cup Splits(s, m + 1, j, A)

\* The splits of two whole parts with an operator between them.
LEMMA SplitsJoin ==
  ASSUME NEW s, NEW h, NEW m, NEW j, Len(s) \in Nat,
         Whole(s, h, m - 1), Whole(s, m + 1, j), m \in Int, s[m] \in Operators,
         NEW A \in SUBSET Operators
  PROVE  JoinsSplits(s, h, m, j, A)
<1>1. /\ h \in Nat \ {0} /\ j \in Nat \ {0} /\ j <= Len(s) /\ h <= m - 1 /\ m + 1 <= j
      /\ m \in Nat \ {0} /\ m + 1 - 1 = m
  BY WholeDepth
<1>2. /\ Level(s, m - 1) = Level(s, h - 1) /\ Depth(s, h) = Level(s, h - 1)
      /\ Depth(s, m + 1) = Level(s, m)
  <2>1. Level(s, m - 1) = Level(s, h - 1)
    BY DEF Whole
  <2>2. Depth(s, h) = Level(s, h - 1)
    BY WholeDepth
  <2>3. Depth(s, m + 1) = Level(s, (m + 1) - 1)
    BY WholeDepth
  <2> QED BY <1>1, <2>1, <2>2, <2>3
<1>3. Level(s, m) = Level(s, m - 1) /\ Depth(s, m) = Level(s, m)
  BY <1>1, Levels, CharsApart
<1>4. Depth(s, m) = Depth(s, h) /\ Depth(s, m + 1) = Depth(s, h)
  BY <1>2, <1>3
<1>5. s[m - 1] \in DOMAIN Digits \cup {")"} /\ s[m - 1] \notin A
  BY CharsApart DEF Whole, Finish
<1>6. s[m] \notin DOMAIN Digits \cup {")"}
  BY CharsApart DEF Finish
<1>7. ASSUME NEW k
      PROVE  k \in Splits(s, h, j, A) <=>
               \/ k \in Splits(s, h, m - 1, A)
               \/ k = m /\ s[k] \in A
               \/ k \in Splits(s, m + 1, j, A)
  <2>1. CASE k \in Int /\ k < m - 1
    BY <1>1, <2>1 DEF Splits
  <2>2. CASE k = m - 1
    BY <1>1, <1>5, <2>2 DEF Splits
  <2>3. CASE k = m
    BY <1>1, <1>4, <1>5, <2>3 DEF Splits
  <2>4. CASE k = m + 1
    <3>1. s[k - 1] = s[m]
      BY <1>1, <2>4
    <3> QED BY <1>1, <1>6, <2>4, <3>1 DEF Splits
  <2>5. CASE k \in Int /\ k > m + 1
    BY <1>1, <1>4, <2>5 DEF Splits
  <2>6. CASE k \notin Int
    BY <1>1, <2>6 DEF Splits
  <2> QED BY <1>1, <2>1, <2>2, <2>3, <2>4, <2>5, <2>6
<1>8. \A k : k \in Here(s, m, A) <=> k = m /\ s[k] \in A
  BY DEF Here
<1> QED BY <1>7, <1>8 DEF JoinsSplits

\* A digit.
LEMMA WholeDigit ==
  ASSUME NEW s, NEW h \in 1 .. Len(s), Len(s) \in Nat, s[h] \in DOMAIN Digits, NEW A
  PROVE  Whole(s, h, h) /\ Splits(s, h, h, A) = {}
<1>1. h \in Nat \ {0} /\ s[h] \notin {"(", ")"}
  BY CharsApart
<1>2. Level(s, h) = Level(s, h - 1) /\ Depth(s, h) = Level(s, h) /\ Level(s, h) \in Int
  BY <1>1, Levels
<1>3. \A k \in h .. h : k = h
  BY <1>1
<1> QED BY <1>1, <1>2, <1>3 DEF Whole, Splits, Begin, Finish

\* A sign before one.
LEMMA WholeMinus ==
  ASSUME NEW s, NEW h \in Nat \ {0}, NEW j, Len(s) \in Nat, s[h] = "-", Whole(s, h + 1, j),
         NEW A
  PROVE  Whole(s, h, j) /\ Splits(s, h, j, A) = Splits(s, h + 1, j, A)
<1>1. /\ h + 1 <= j /\ h + 1 - 1 = h /\ j \in 1 .. Len(s) /\ h \in 1 .. Len(s)
      /\ h + 1 \in Nat \ {0}
  BY WholeDepth
<1>2. /\ Level(s, h) = Level(s, h - 1) /\ Depth(s, h) = Level(s, h) /\ Level(s, h) \in Int
  BY Levels
<1>3. Depth(s, h + 1) = Level(s, h)
  BY <1>1, WholeDepth
<1>4. \A k \in h .. j : k = h \/ k \in h + 1 .. j
  BY <1>1
<1>5. Whole(s, h, j)
  BY <1>1, <1>2, <1>4 DEF Whole, Begin
<1>6. s[h] \notin DOMAIN Digits \cup {")"}
  BY CharsApart
<1>7. ASSUME NEW k PROVE k \in Splits(s, h, j, A) <=> k \in Splits(s, h + 1, j, A)
  <2>1. CASE k = h + 1
    <3>1. s[k - 1] = s[h]
      BY <1>1, <2>1
    <3> QED BY <1>1, <1>6, <2>1, <3>1 DEF Splits
  <2>2. CASE k # h + 1
    BY <1>1, <1>2, <1>3, <2>2 DEF Splits
  <2> QED BY <2>1, <2>2
<1> QED BY <1>5, <1>7

\* One in parentheses.
LEMMA WholeParen ==
  ASSUME NEW s, NEW h \in Nat \ {0}, NEW j \in 1 .. Len(s), Len(s) \in Nat,
         s[h] = "(", s[j] = ")", Whole(s, h + 1, j - 1), NEW A \in SUBSET Operators
  PROVE  Whole(s, h, j) /\ Splits(s, h, j, A) = {}
<1>1. /\ h + 1 <= j - 1 /\ h + 1 - 1 = h /\ j \in Nat \ {0} /\ h \in 1 .. Len(s)
      /\ h + 1 \in Nat \ {0} /\ j - 1 \in Nat \ {0}
  BY WholeDepth
<1>2. /\ Level(s, h) = Level(s, h - 1) + 1 /\ Depth(s, h) = Level(s, h - 1)
      /\ Level(s, h) \in Int /\ Level(s, h - 1) \in Int
  BY Levels
<1>3. Level(s, j) = Level(s, j - 1) - 1 /\ Depth(s, j) = Level(s, j)
  BY <1>1, Levels
<1>4. Level(s, j - 1) = Level(s, h)
  BY <1>1 DEF Whole
<1>5. ASSUME NEW k \in h + 1 .. j - 1
      PROVE  Depth(s, k) >= Level(s, h - 1) /\ Depth(s, k) # Depth(s, h)
  <2>1. Depth(s, k) >= Level(s, h)
    BY <1>1 DEF Whole
  <2>2. Depth(s, k) \in Int
    <3>1. k \in Nat \ {0}
      BY <1>1
    <3> QED BY <3>1, Levels
  <2> QED BY <1>2, <2>1, <2>2
<1>6. \A k \in h .. j : k = h \/ k = j \/ k \in h + 1 .. j - 1
  BY <1>1
<1>7. Whole(s, h, j)
  BY <1>1, <1>2, <1>3, <1>4, <1>5, <1>6 DEF Whole, Begin, Finish
<1>8. Splits(s, h, j, A) = {}
  BY <1>5 DEF Splits
<1> QED BY <1>7, <1>8 DEF JoinsSplits

-----------------------------------------------------------------------------
\* The values of the parts of a string.

\* A set of naturals that is not empty and has a bound holds its maximum.
LEMMA Greatest ==
  ASSUME NEW S, S # {}, NEW a \in Nat, NEW b \in Nat, S \subseteq a .. b
  PROVE  Max(S) \in S /\ \A y \in S : Max(S) >= y
<1> DEFINE T == {b - y : y \in S}
<1>1. T \in SUBSET Nat /\ T # {}
  OBVIOUS
<1> HIDE DEF T
<1>2. PICK t \in T : \A u \in T : t <= u
  BY <1>1, Least
<1>3. PICK x \in S : t = b - x
  BY <1>2 DEF T
<1>4. \A y \in S : x >= y
  <2> SUFFICES ASSUME NEW y \in S PROVE x >= y
    OBVIOUS
  <2>1. b - y \in T
    BY DEF T
  <2>2. b - x <= b - y
    BY <1>2, <1>3, <2>1
  <2>3. x \in Int /\ y \in Int
    OBVIOUS
  <2> QED BY <2>2, <2>3
<1> QED BY <1>4 DEF Max

\* What is greatest is the maximum.
LEMMA MaxIs ==
  ASSUME NEW S \in SUBSET Int, NEW m \in S, \A y \in S : m >= y
  PROVE  Max(S) = m
<1>1. \E x \in S : \A y \in S : x >= y
  OBVIOUS
<1>2. Max(S) \in S /\ Max(S) >= m
  BY <1>1 DEF Max
<1> DEFINE x == Max(S)
<1>3. x \in S /\ x >= m /\ m >= x /\ x \in Int /\ m \in Int
  BY <1>2
<1> HIDE DEF x
<1>4. x = m
  BY <1>3
<1> QED BY <1>4 DEF x

\* The parts of a string.
Parts(s) == (1 .. Len(s)) \X (1 .. Len(s))

\* v gives the values of the parts of s.
IsValues(s, v) == v = [x \in Parts(s) |-> ValueAt(s, v, x[1], x[2])]

\* The value of a part is made of those of shorter parts.
LEMMA ValueContracts ==
  ASSUME NEW s, Len(s) \in Nat, NEW f, NEW g, NEW h \in 1 .. Len(s), NEW j \in 1 .. Len(s),
         \A a, b \in 1 .. Len(s) : b - a < j - h => f[<<a, b>>] = g[<<a, b>>]
  PROVE  ValueAt(s, f, h, j) = ValueAt(s, g, h, j)
<1>0. h \in Nat /\ j \in Nat /\ h + 1 \in Nat /\ j - 1 \in Int
  OBVIOUS
<1>1. ASSUME NEW A, Splits(s, h, j, A) # {}
      PROVE  /\ Max(Splits(s, h, j, A)) \in h + 1 .. j - 1
             /\ Max(Splits(s, h, j, A)) \in Splits(s, h, j, A)
  <2>1. Splits(s, h, j, A) \subseteq h + 1 .. j - 1
    BY DEF Splits
  <2>2. j - 1 \in Nat
    BY <1>1, <2>1
  <2> QED BY <1>0, <1>1, <2>1, <2>2, Greatest
<1>2. ASSUME NEW k \in h + 1 .. j - 1
      PROVE  /\ f[<<h, k - 1>>] = g[<<h, k - 1>>]
             /\ f[<<k + 1, j>>] = g[<<k + 1, j>>]
  <2>1. h \in 1 .. Len(s) /\ k - 1 \in 1 .. Len(s) /\ (k - 1) - h < j - h
    OBVIOUS
  <2>2. k + 1 \in 1 .. Len(s) /\ j \in 1 .. Len(s) /\ j - (k + 1) < j - h
    OBVIOUS
  <2> QED BY <2>1, <2>2
<1> DEFINE test == Splits(s, h, j, {"?"})
<1> DEFINE sums == Splits(s, h, j, {"+", "-"})
<1> DEFINE products == Splits(s, h, j, {"*", "/"})
<1> DEFINE q == Max(test)
<1> DEFINE colons == Splits(s, q + 1, j, {":"})
<1> DEFINE c == Max(colons)
<1>3. CASE test # {}
  <2>1. q \in h + 1 .. j - 1
    BY <1>1, <1>3
  <2> HIDE DEF q
  <2>2. CASE colons # {}
    <3>1. colons \subseteq q + 2 .. j - 1
      BY <2>1 DEF Splits
    <3>2. q + 2 \in Nat /\ j - 1 \in Nat
      BY <2>1, <1>0
    <3> HIDE DEF colons
    <3>3. c \in q + 2 .. j - 1
      BY <2>2, <3>1, <3>2, Greatest
    <3> HIDE DEF c
    <3>4. f[<<q + 1, c - 1>>] = g[<<q + 1, c - 1>>]
      <4>1. q + 1 \in 1 .. Len(s) /\ c - 1 \in 1 .. Len(s) /\ (c - 1) - (q + 1) < j - h
        BY <2>1, <3>3
      <4> QED BY <4>1
    <3>5. f[<<c + 1, j>>] = g[<<c + 1, j>>]
      <4>1. c \in h + 1 .. j - 1
        BY <2>1, <3>3
      <4> QED BY <4>1, <1>2
    <3>6. f[<<h, q - 1>>] = g[<<h, q - 1>>]
      BY <1>2, <2>1
    <3>7. /\ ValueAt(s, f, h, j) = Choose(f[<<h, q - 1>>], f[<<q + 1, c - 1>>], f[<<c + 1, j>>])
          /\ ValueAt(s, g, h, j) = Choose(g[<<h, q - 1>>], g[<<q + 1, c - 1>>], g[<<c + 1, j>>])
      BY <1>3, <2>2 DEF ValueAt, q, c, colons
    <3> QED BY <3>4, <3>5, <3>6, <3>7
  <2>3. CASE colons = {}
    <3>1. ValueAt(s, f, h, j) = Computed(0, FALSE) /\ ValueAt(s, g, h, j) = Computed(0, FALSE)
      BY <1>3, <2>3 DEF ValueAt, q
    <3> QED BY <3>1
  <2> QED BY <2>2, <2>3
<1>4. CASE test = {} /\ sums # {}
  <2> DEFINE k == Max(sums)
  <2>1. k \in h + 1 .. j - 1
    BY <1>1, <1>4
  <2>2. /\ ValueAt(s, f, h, j) = Combine(s[k], f[<<h, k - 1>>], f[<<k + 1, j>>])
        /\ ValueAt(s, g, h, j) = Combine(s[k], g[<<h, k - 1>>], g[<<k + 1, j>>])
    BY <1>4 DEF ValueAt
  <2> HIDE DEF k
  <2> QED BY <2>1, <2>2, <1>2
<1>5. CASE test = {} /\ sums = {} /\ products # {}
  <2> DEFINE k == Max(products)
  <2>1. k \in h + 1 .. j - 1
    BY <1>1, <1>5
  <2>2. /\ ValueAt(s, f, h, j) = Combine(s[k], f[<<h, k - 1>>], f[<<k + 1, j>>])
        /\ ValueAt(s, g, h, j) = Combine(s[k], g[<<h, k - 1>>], g[<<k + 1, j>>])
    BY <1>5 DEF ValueAt
  <2> HIDE DEF k
  <2> QED BY <2>1, <2>2, <1>2
<1>6. CASE test = {} /\ sums = {} /\ products = {}
  <2>1. h < j => f[<<h + 1, j>>] = g[<<h + 1, j>>]
    <3>1. h < j => h + 1 \in 1 .. Len(s) /\ j - (h + 1) < j - h
      OBVIOUS
    <3> QED BY <3>1
  <2>2. h + 1 < j => f[<<h + 1, j - 1>>] = g[<<h + 1, j - 1>>]
    <3>1. h + 1 < j => h + 1 \in 1 .. Len(s) /\ j - 1 \in 1 .. Len(s) /\ (j - 1) - (h + 1) < j - h
      OBVIOUS
    <3> QED BY <3>1
  <2>3. /\ ValueAt(s, f, h, j) =
             IF s[h] = "-" /\ h < j THEN Computed(-f[<<h + 1, j>>].val, f[<<h + 1, j>>].plain)
             ELSE IF s[h] = "(" /\ h + 1 < j THEN f[<<h + 1, j - 1>>]
             ELSE IF s[h] \in DOMAIN Digits THEN Computed(Digits[s[h]], TRUE)
             ELSE Computed(0, FALSE)
        /\ ValueAt(s, g, h, j) =
             IF s[h] = "-" /\ h < j THEN Computed(-g[<<h + 1, j>>].val, g[<<h + 1, j>>].plain)
             ELSE IF s[h] = "(" /\ h + 1 < j THEN g[<<h + 1, j - 1>>]
             ELSE IF s[h] \in DOMAIN Digits THEN Computed(Digits[s[h]], TRUE)
             ELSE Computed(0, FALSE)
    BY <1>6 DEF ValueAt
  <2>4. CASE s[h] = "-" /\ h < j
    BY <2>1, <2>3, <2>4
  <2>5. CASE ~ (s[h] = "-" /\ h < j) /\ s[h] = "(" /\ h + 1 < j
    BY <2>2, <2>3, <2>5
  <2>6. CASE ~ (s[h] = "-" /\ h < j) /\ ~ (s[h] = "(" /\ h + 1 < j)
    <3>1. CASE s[h] \in DOMAIN Digits
      BY <2>3, <2>6, <3>1
    <3>2. CASE s[h] \notin DOMAIN Digits
      BY <2>3, <2>6, <3>2
    <3> QED BY <3>1, <3>2
  <2> QED BY <2>4, <2>5, <2>6
<1> QED BY <1>3, <1>4, <1>5, <1>6

\* So they exist.
LEMMA ValuesExist ==
  ASSUME NEW s, Len(s) \in Nat
  PROVE  \E v : IsValues(s, v)
<1> DEFINE l == Len(s)
\* v is right for the parts that are short enough.
<1> DEFINE GoodUpTo(v, k) ==
      \A a, b \in 1 .. l : (b - a) + l < k => v[<<a, b>>] = ValueAt(s, v, a, b)
<1> DEFINE Improved(v) == [x \in Parts(s) |-> ValueAt(s, v, x[1], x[2])]
<1> DEFINE T == {k \in Nat : \E v : GoodUpTo(v, k)}
<1>0. l \in Nat
  OBVIOUS
<1>a. ASSUME NEW v, NEW a \in 1 .. l, NEW b \in 1 .. l PROVE Improved(v)[<<a, b>>] = ValueAt(s, v, a, b)
  <2>1. <<a, b>> \in Parts(s) /\ <<a, b>>[1] = a /\ <<a, b>>[2] = b
    BY DEF Parts
  <2> QED BY <2>1
<1> HIDE DEF Improved
<1>b. ASSUME NEW v, NEW k \in Nat, GoodUpTo(v, k), NEW a \in 1 .. l, NEW b \in 1 .. l, (b - a) + l < k + 1
      PROVE  ValueAt(s, Improved(v), a, b) = ValueAt(s, v, a, b)
  <2>1. ASSUME NEW d \in 1 .. l, NEW e \in 1 .. l, e - d < b - a
        PROVE Improved(v)[<<d, e>>] = v[<<d, e>>]
    <3>1. (e - d) + l < k
      BY <1>b, <2>1, <1>0
    <3> QED BY <1>a, <1>b, <3>1
  <2> QED BY <2>1, ValueContracts
<1>1. 0 \in T
  <2>1. GoodUpTo(0, 0)
    OBVIOUS
  <2> QED BY <2>1
<1>2. ASSUME NEW k \in Nat, k \in T PROVE k + 1 \in T
  <2>1. PICK v : GoodUpTo(v, k)
    BY <1>2
  <2>2. ASSUME NEW a \in 1 .. l, NEW b \in 1 .. l, (b - a) + l < k + 1
        PROVE  Improved(v)[<<a, b>>] = ValueAt(s, Improved(v), a, b)
    <3>1. Improved(v)[<<a, b>>] = ValueAt(s, v, a, b)
      BY <1>a
    <3>2. ValueAt(s, Improved(v), a, b) = ValueAt(s, v, a, b)
      BY <1>b, <2>1, <2>2
    <3> QED BY <3>1, <3>2
  <2>3. GoodUpTo(Improved(v), k + 1)
    BY <2>2
  <2> HIDE DEF GoodUpTo
  <2> QED BY <2>3
<1>3. 2 * l \in T
  <2> HIDE DEF T
  <2> QED BY <1>1, <1>2, Induction
<1>4. PICK v : GoodUpTo(v, 2 * l)
  BY <1>3
<1>5. ASSUME NEW a \in 1 .. l, NEW b \in 1 .. l PROVE v[<<a, b>>] = ValueAt(s, v, a, b)
  <2>1. (b - a) + l < 2 * l
    BY <1>0
  <2> QED BY <1>4, <2>1
<1>6. ASSUME NEW a \in 1 .. l, NEW b \in 1 .. l
      PROVE  ValueAt(s, Improved(v), a, b) = ValueAt(s, v, a, b)
  <2>1. \A d, e \in 1 .. l : Improved(v)[<<d, e>>] = v[<<d, e>>]
    BY <1>a, <1>5
  <2> QED BY <2>1, ValueContracts
<1>7. ASSUME NEW x \in Parts(s)
      PROVE  ValueAt(s, v, x[1], x[2]) = ValueAt(s, Improved(v), x[1], x[2])
  BY <1>6 DEF Parts
<1>8. Improved(v) = [x \in Parts(s) |-> ValueAt(s, Improved(v), x[1], x[2])]
  <2>1. Improved(v) = [x \in Parts(s) |-> ValueAt(s, v, x[1], x[2])]
    BY DEF Improved
  <2> DEFINE w == Improved(v)
  <2>2. w = [x \in Parts(s) |-> ValueAt(s, v, x[1], x[2])]
        /\ \A x \in Parts(s) : ValueAt(s, v, x[1], x[2]) = ValueAt(s, w, x[1], x[2])
    BY <2>1, <1>7
  <2> HIDE DEF w
  <2>3. w = [x \in Parts(s) |-> ValueAt(s, w, x[1], x[2])]
    BY <2>2
  <2> QED BY <2>3 DEF w
<1> QED BY <1>8 DEF IsValues

\* The values of the parts of s that the definition takes.
ValuesOf(s) == CHOOSE v : IsValues(s, v)

\* There are values of the parts, and that of the whole is Value.
LEMMA ValuesOfParts ==
  ASSUME NEW s, Len(s) \in Nat
  PROVE  /\ \A a, b \in 1 .. Len(s) : ValuesOf(s)[<<a, b>>] = ValueAt(s, ValuesOf(s), a, b)
         /\ Value(s) = ValuesOf(s)[<<1, Len(s)>>]
<1> DEFINE v == ValuesOf(s)
<1>1. IsValues(s, v)
  BY ValuesExist DEF ValuesOf
<1>2. Value(s) = v[<<1, Len(s)>>]
  BY DEF Value, ValuesOf, IsValues, Parts
<1> HIDE DEF v
<1>3. ASSUME NEW a \in 1 .. Len(s), NEW b \in 1 .. Len(s) PROVE v[<<a, b>>] = ValueAt(s, v, a, b)
  <2>1. <<a, b>> \in Parts(s) /\ <<a, b>>[1] = a /\ <<a, b>>[2] = b
    BY DEF Parts
  <2> QED BY <1>1, <2>1 DEF IsValues
<1> QED BY <1>2, <1>3 DEF v

-----------------------------------------------------------------------------
\* The pieces the parser prints, beside the definition of the value.

Tests == {"?", ":"}
Sums  == {"?", ":", "+", "-"}

\* L is the code of the part s[h .. j], which has none of the operators A outside its
\* parentheses: its labels are those of the part, and it computes the value.
Piece(s, h, j, A, L) ==
  /\ Whole(s, h, j) /\ Splits(s, h, j, A) = {}
  /\ L \in Seq(Instrs) /\ Fresh(L, Labels(h, j))
  /\ ValuesOf(s)[<<h, j>>] \in Values
  /\ Computes(L, ValuesOf(s)[<<h, j>>])

\* A piece without the operators A is one without fewer.
LEMMA PieceWeaker ==
  ASSUME NEW s, NEW h, NEW j, NEW A, NEW B, NEW L, Piece(s, h, j, A, L), B \subseteq A
  PROVE  Piece(s, h, j, B, L)
<1>1. Splits(s, h, j, B) \subseteq Splits(s, h, j, A)
  BY DEF Splits
<1> QED BY <1>1 DEF Piece

\* None of more operators is none of fewer.
LEMMA NoSplits ==
  ASSUME NEW s, NEW h, NEW j, NEW A, NEW B, Splits(s, h, j, A) = {}, B \subseteq A
  PROVE  Splits(s, h, j, B) = {}
BY DEF Splits

\* A digit is a piece.
LEMMA DigitPiece ==
  ASSUME NEW s, Len(s) \in Nat, NEW h \in 1 .. Len(s), s[h] \in DOMAIN Digits
  PROVE  Piece(s, h, h, Operators, <<Instr("push", Digits[s[h]])>>)
<1> DEFINE d == Digits[s[h]]
<1>1. d \in Words /\ d \in Nat
  <2>1. d \in 0 .. Half - 1 /\ Half \in Nat \ {0} /\ Word \in Nat \ {0} /\ Word % Half = 0
    BY ExprAssumption
  <2>2. Half <= Word
    <3> SUFFICES ASSUME Word < Half PROVE FALSE
      BY <2>1
    <3>1. Word \in 0 .. Half - 1
      BY <2>1
    <3>2. Word % Half = Word
      BY <2>1, <3>1, RemainderSmall
    <3> QED BY <2>1, <3>2
  <2> QED BY <2>1, <2>2 DEF Words
<1>2. Whole(s, h, h) /\ \A A : Splits(s, h, h, A) = {}
  BY WholeDigit
<1>3. ValuesOf(s)[<<h, h>>] = Computed(d, TRUE)
  <2>1. ValuesOf(s)[<<h, h>>] = ValueAt(s, ValuesOf(s), h, h)
    BY ValuesOfParts
  <2>2. s[h] # "-" /\ s[h] # "("
    BY CharsApart
  <2> QED BY <1>2, <2>1, <2>2 DEF ValueAt
<1> DEFINE x == Instr("push", d)
<1> HIDE DEF d
<1>4. Computes(<<x>>, Computed(d, TRUE)) /\ Computed(d, TRUE) \in Values
  BY <1>1, PushComputes DEF Computed, Values
<1>5. x.op \notin {"else", "end"} /\ x \in Instrs
  BY <1>1 DEF Instr, Instrs, Ops
<1> HIDE DEF x
<1>6. Fresh(<<x>>, Labels(h, h)) /\ <<x>> \in Seq(Instrs)
  <2>1. Fresh(<<x>>, {}) /\ {} \subseteq Labels(h, h)
    BY <1>5, FreshOne
  <2>2. <<x>> \in Seq(Instrs)
    BY <1>5
  <2> QED BY <2>1, <2>2, FreshMore
<1> QED BY <1>2, <1>3, <1>4, <1>6 DEF Piece, x, d

\* So is one in parentheses, whatever is in them.
LEMMA ParenPiece ==
  ASSUME NEW s, Len(s) \in Nat, NEW h \in Nat \ {0}, NEW j \in 1 .. Len(s), NEW L,
         s[h] = "(", s[j] = ")", Piece(s, h + 1, j - 1, {}, L)
  PROVE  Piece(s, h, j, Operators, L)
<1>1. Whole(s, h + 1, j - 1)
  BY DEF Piece
<1>2. Whole(s, h, j) /\ \A A \in SUBSET Operators : Splits(s, h, j, A) = {}
  BY <1>1, WholeParen
<1>3. ValuesOf(s)[<<h, j>>] = ValuesOf(s)[<<h + 1, j - 1>>]
  <2>1. h \in 1 .. Len(s) /\ h + 1 < j
    BY <1>1, WholeDepth
  <2>2. ValuesOf(s)[<<h, j>>] = ValueAt(s, ValuesOf(s), h, j)
    BY <2>1, ValuesOfParts
  <2>3. /\ Splits(s, h, j, {"?"}) = {} /\ Splits(s, h, j, {"+", "-"}) = {}
        /\ Splits(s, h, j, {"*", "/"}) = {}
    BY <1>2 DEF Operators
  <2> QED BY <2>1, <2>2, <2>3 DEF ValueAt
<1>4. Labels(h + 1, j - 1) \subseteq Labels(h, j)
  BY DEF Labels
<1> QED BY <1>2, <1>3, <1>4, FreshMore DEF Piece

\* The value behind a sign.
LEMMA MinusValue ==
  ASSUME NEW s, Len(s) \in Nat, NEW h \in Nat \ {0}, NEW j, s[h] = "-",
         Whole(s, h + 1, j), Splits(s, h + 1, j, Operators) = {}
  PROVE  /\ Whole(s, h, j) /\ Splits(s, h, j, Operators) = {}
         /\ ValuesOf(s)[<<h, j>>]
              = Computed(-ValuesOf(s)[<<h + 1, j>>].val, ValuesOf(s)[<<h + 1, j>>].plain)
<1>1. Whole(s, h, j) /\ Splits(s, h, j, Operators) = {}
  BY WholeMinus
<1>2. h \in 1 .. Len(s) /\ j \in 1 .. Len(s) /\ h < j
  BY WholeDepth
<1>3. ValuesOf(s)[<<h, j>>] = ValueAt(s, ValuesOf(s), h, j)
  BY <1>2, ValuesOfParts
<1>4. /\ Splits(s, h, j, {"?"}) = {} /\ Splits(s, h, j, {"+", "-"}) = {}
      /\ Splits(s, h, j, {"*", "/"}) = {}
  BY <1>1, NoSplits DEF Operators
<1> QED BY <1>1, <1>2, <1>3, <1>4 DEF ValueAt

\* The part s[h .. j] has none of the operators A, and its value is that of the two
\* sides of the operator at m; or of the three of a conditional.
IsSplit(s, h, m, j, A) ==
  /\ Whole(s, h, j) /\ Splits(s, h, j, A) = {}
  /\ ValuesOf(s)[<<h, j>>] = Combine(s[m], ValuesOf(s)[<<h, m - 1>>], ValuesOf(s)[<<m + 1, j>>])

IsChoice(s, h, q, m, j) ==
  /\ Whole(s, h, j)
  /\ ValuesOf(s)[<<h, j>>]
       = Choose(ValuesOf(s)[<<h, q - 1>>], ValuesOf(s)[<<q + 1, m - 1>>], ValuesOf(s)[<<m + 1, j>>])

\* The value of a product, which is split at its last operator.
LEMMA ProductValue ==
  ASSUME NEW s, Len(s) \in Nat, NEW h, NEW m \in Int, NEW j, s[m] \in {"*", "/"},
         Whole(s, h, m - 1), Splits(s, h, m - 1, Sums) = {},
         Whole(s, m + 1, j), Splits(s, m + 1, j, Operators) = {}
  PROVE  IsSplit(s, h, m, j, Sums)
<1>0. s[m] \in Operators
  BY DEF Operators
<1>1. Whole(s, h, j)
  BY <1>0, WholeJoin
<1>2. \A A \in SUBSET Operators : Splits(s, h, j, A) =
        Splits(s, h, m - 1, A) \cup Here(s, m, A) \cup Splits(s, m + 1, j, A)
  <2>1. \A A \in SUBSET Operators : JoinsSplits(s, h, m, j, A)
    BY <1>0, SplitsJoin
  <2> QED BY <2>1 DEF JoinsSplits
<1>3. \A A \in SUBSET Operators : Splits(s, m + 1, j, A) = {}
  BY NoSplits
<1>4. ASSUME NEW A, A \subseteq Sums PROVE Splits(s, h, j, A) = {}
  <2>1. A \in SUBSET Operators /\ s[m] \notin A
    BY <1>4 DEF Sums, Operators
  <2>2. Splits(s, h, m - 1, A) = {}
    BY <1>4, NoSplits
  <2> QED BY <2>1, <2>2, <1>2, <1>3, HereIs
<1> DEFINE P == Splits(s, h, j, {"*", "/"})
<1>5. P = Splits(s, h, m - 1, {"*", "/"}) \cup {m}
  <2>1. {"*", "/"} \in SUBSET Operators
    BY DEF Operators
  <2> QED BY <2>1, <1>2, <1>3, HereIs
<1>6. h \in Nat \ {0} /\ h \in 1 .. Len(s) /\ j \in 1 .. Len(s) /\ h <= m - 1
  BY <1>1, WholeDepth
<1>7. Max(P) = m
  <2>1. \A y \in Splits(s, h, m - 1, {"*", "/"}) : y \in Int /\ y <= m
    BY <1>6 DEF Splits
  <2> HIDE DEF P
  <2>2. P \in SUBSET Int /\ m \in P /\ \A y \in P : m >= y
    BY <1>5, <2>1
  <2> QED BY <2>2, MaxIs
<1>8. ValuesOf(s)[<<h, j>>] = ValueAt(s, ValuesOf(s), h, j)
  BY <1>6, ValuesOfParts
<1>9. Splits(s, h, j, {"?"}) = {} /\ Splits(s, h, j, {"+", "-"}) = {}
  BY <1>4 DEF Sums
<1>10. P # {}
  BY <1>5
<1>11. ValueAt(s, ValuesOf(s), h, j) = Combine(s[Max(P)], ValuesOf(s)[<<h, Max(P) - 1>>],
                                               ValuesOf(s)[<<Max(P) + 1, j>>])
  BY <1>9, <1>10 DEF ValueAt
<1>12. Splits(s, h, j, Sums) = {}
  BY <1>4
<1> HIDE DEF P
<1> QED BY <1>1, <1>7, <1>8, <1>11, <1>12 DEF IsSplit

\* The value of a sum.
LEMMA SumValue ==
  ASSUME NEW s, Len(s) \in Nat, NEW h, NEW m \in Int, NEW j, s[m] \in {"+", "-"},
         Whole(s, h, m - 1), Splits(s, h, m - 1, Tests) = {},
         Whole(s, m + 1, j), Splits(s, m + 1, j, Sums) = {}
  PROVE  IsSplit(s, h, m, j, Tests)
<1>0. s[m] \in Operators
  BY DEF Operators
<1>1. Whole(s, h, j)
  BY <1>0, WholeJoin
<1>2. \A A \in SUBSET Operators : Splits(s, h, j, A) =
        Splits(s, h, m - 1, A) \cup Here(s, m, A) \cup Splits(s, m + 1, j, A)
  <2>1. \A A \in SUBSET Operators : JoinsSplits(s, h, m, j, A)
    BY <1>0, SplitsJoin
  <2> QED BY <2>1 DEF JoinsSplits
<1>3. \A A \in SUBSET Sums : Splits(s, m + 1, j, A) = {}
  BY NoSplits
<1>4. ASSUME NEW A, A \subseteq Tests PROVE Splits(s, h, j, A) = {}
  <2>1. A \in SUBSET Operators /\ A \in SUBSET Sums /\ s[m] \notin A
    BY <1>4 DEF Sums, Tests, Operators
  <2>2. Splits(s, h, m - 1, A) = {}
    BY <1>4, NoSplits
  <2> QED BY <2>1, <2>2, <1>2, <1>3, HereIs
<1> DEFINE P == Splits(s, h, j, {"+", "-"})
<1>5. P = Splits(s, h, m - 1, {"+", "-"}) \cup {m}
  <2>1. {"+", "-"} \in SUBSET Operators /\ {"+", "-"} \in SUBSET Sums
    BY DEF Operators, Sums
  <2> QED BY <2>1, <1>2, <1>3, HereIs
<1>6. h \in Nat \ {0} /\ h \in 1 .. Len(s) /\ j \in 1 .. Len(s) /\ h <= m - 1
  BY <1>1, WholeDepth
<1>7. Max(P) = m
  <2>1. \A y \in Splits(s, h, m - 1, {"+", "-"}) : y \in Int /\ y <= m
    BY <1>6 DEF Splits
  <2> HIDE DEF P
  <2>2. P \in SUBSET Int /\ m \in P /\ \A y \in P : m >= y
    BY <1>5, <2>1
  <2> QED BY <2>2, MaxIs
<1>8. ValuesOf(s)[<<h, j>>] = ValueAt(s, ValuesOf(s), h, j)
  BY <1>6, ValuesOfParts
<1>9. Splits(s, h, j, {"?"}) = {}
  BY <1>4 DEF Tests
<1>10. P # {}
  BY <1>5
<1>11. ValueAt(s, ValuesOf(s), h, j) = Combine(s[Max(P)], ValuesOf(s)[<<h, Max(P) - 1>>],
                                               ValuesOf(s)[<<Max(P) + 1, j>>])
  BY <1>9, <1>10 DEF ValueAt
<1>12. Splits(s, h, j, Tests) = {}
  BY <1>4
<1> HIDE DEF P
<1> QED BY <1>1, <1>7, <1>8, <1>11, <1>12 DEF IsSplit

\* The value of a test, which is split at the question mark and at the colon.
LEMMA CondValue ==
  ASSUME NEW s, Len(s) \in Nat, NEW h, NEW q \in Int, NEW m \in Int, NEW j,
         s[q] = "?", s[m] = ":",
         Whole(s, h, q - 1), Splits(s, h, q - 1, Tests) = {},
         Whole(s, q + 1, m - 1), Splits(s, q + 1, m - 1, Tests) = {},
         Whole(s, m + 1, j), Splits(s, m + 1, j, Tests) = {}
  PROVE  IsChoice(s, h, q, m, j)
<1>0. /\ s[q] \in Operators /\ s[m] \in Operators /\ {"?"} \in SUBSET Operators
      /\ {":"} \in SUBSET Operators
  BY DEF Operators
<1>1. Whole(s, q + 1, j)
  BY <1>0, WholeJoin
<1>2. Whole(s, h, j)
  BY <1>0, <1>1, WholeJoin
<1>n. /\ Splits(s, h, q - 1, {"?"}) = {}
      /\ Splits(s, q + 1, m - 1, {"?"}) = {} /\ Splits(s, q + 1, m - 1, {":"}) = {}
      /\ Splits(s, m + 1, j, {"?"}) = {} /\ Splits(s, m + 1, j, {":"}) = {}
  <2>1. {"?"} \subseteq Tests /\ {":"} \subseteq Tests
    BY DEF Tests
  <2> QED BY <2>1, NoSplits
<1>3. Splits(s, q + 1, j, {":"}) = {m}
  <2>1. Splits(s, q + 1, j, {":"}) = Splits(s, q + 1, m - 1, {":"})
          \cup Here(s, m, {":"}) \cup Splits(s, m + 1, j, {":"})
    <3>1. JoinsSplits(s, q + 1, m, j, {":"})
      BY <1>0, SplitsJoin
    <3> QED BY <3>1 DEF JoinsSplits
  <2> QED BY <2>1, <1>n, HereIs
<1>4. Splits(s, q + 1, j, {"?"}) = {}
  <2>1. Splits(s, q + 1, j, {"?"}) = Splits(s, q + 1, m - 1, {"?"})
          \cup Here(s, m, {"?"}) \cup Splits(s, m + 1, j, {"?"})
    <3>1. JoinsSplits(s, q + 1, m, j, {"?"})
      BY <1>0, SplitsJoin
    <3> QED BY <3>1 DEF JoinsSplits
  <2> QED BY <2>1, <1>n, HereIs
<1>5. Splits(s, h, j, {"?"}) = {q}
  <2>1. Splits(s, h, j, {"?"}) = Splits(s, h, q - 1, {"?"})
          \cup Here(s, q, {"?"}) \cup Splits(s, q + 1, j, {"?"})
    <3>1. JoinsSplits(s, h, q, j, {"?"})
      BY <1>0, <1>1, SplitsJoin
    <3> QED BY <3>1 DEF JoinsSplits
  <2> QED BY <2>1, <1>n, <1>4, HereIs
<1>6. Max({q}) = q /\ Max({m}) = m
  <2>1. ASSUME NEW x \in Int PROVE Max({x}) = x
    <3>1. {x} \in SUBSET Int /\ x \in {x} /\ \A y \in {x} : x >= y
      OBVIOUS
    <3> QED BY <3>1, MaxIs
  <2> QED BY <2>1
<1>7. h \in 1 .. Len(s) /\ j \in 1 .. Len(s)
  BY <1>2 DEF Whole
<1>8. ValuesOf(s)[<<h, j>>] = ValueAt(s, ValuesOf(s), h, j)
  BY <1>7, ValuesOfParts
<1>9. {q} # {} /\ {m} # {}
  OBVIOUS
<1>10. ValueAt(s, ValuesOf(s), h, j)
         = Choose(ValuesOf(s)[<<h, q - 1>>], ValuesOf(s)[<<q + 1, m - 1>>],
                  ValuesOf(s)[<<m + 1, j>>])
  BY <1>3, <1>5, <1>6, <1>9 DEF ValueAt
<1> QED BY <1>2, <1>8, <1>10 DEF IsChoice

\* Two factors and the instruction behind them are the piece of the product.
LEMMA ProductPiece ==
  ASSUME NEW s, Len(s) \in Nat, NEW h, NEW m \in Int, NEW j, s[m] \in {"*", "/"}, NEW K, NEW L,
         Piece(s, h, m - 1, Sums, K), Piece(s, m + 1, j, Operators, L)
  PROVE  Piece(s, h, j, Sums, (K \o L) \o <<Instr(OpOf(s[m]), 0)>>)
<1> DEFINE J == (K \o L) \o <<Instr(OpOf(s[m]), 0)>>
<1> DEFINE V == ValuesOf(s)[<<h, m - 1>>]
<1> DEFINE W == ValuesOf(s)[<<m + 1, j>>]
<1>0. s[m] \in Arithmetic
  BY DEF Arithmetic
<1>1. /\ Whole(s, h, j) /\ Splits(s, h, j, Sums) = {}
      /\ ValuesOf(s)[<<h, j>>] = Combine(s[m], V, W)
  <2>1. /\ Whole(s, h, m - 1) /\ Splits(s, h, m - 1, Sums) = {}
        /\ Whole(s, m + 1, j) /\ Splits(s, m + 1, j, Operators) = {}
    BY DEF Piece
  <2>2. IsSplit(s, h, m, j, Sums)
    BY <2>1, ProductValue
  <2> QED BY <2>2 DEF IsSplit
<1>2. /\ K \in Seq(Instrs) /\ L \in Seq(Instrs) /\ V \in Values /\ W \in Values
      /\ Computes(K, V) /\ Computes(L, W)
      /\ Fresh(K, Labels(h, m - 1)) /\ Fresh(L, Labels(m + 1, j))
  BY DEF Piece
<1> HIDE DEF V, W
<1>3. Computes(J, Combine(s[m], V, W))
  BY <1>0, <1>2, BinaryComputes
<1>4. Combine(s[m], V, W) \in Values
  BY <1>0, <1>2, CombinedValue
<1>5. /\ h \in Nat /\ m \in Nat /\ j \in Nat /\ h <= m /\ m <= j
  <2>1. h \in Nat \ {0} /\ h <= m - 1 /\ m + 1 <= j /\ j \in Nat \ {0}
    BY WholeDepth DEF Piece
  <2> QED BY <2>1
<1>6. Fresh(J, Labels(h, j))
  BY <1>0, <1>2, <1>5, BinaryFresh
<1>7. J \in Seq(Instrs)
  <2>1. Instr(OpOf(s[m]), 0) \in Instrs
    BY <1>0 DEF Instr, Instrs, Ops, OpOf, Arithmetic
  <2> QED BY <1>2, <2>1
<1> HIDE DEF J
<1> QED BY <1>1, <1>3, <1>4, <1>6, <1>7 DEF Piece, J

\* Two summands and the instruction behind them are the piece of the sum.
LEMMA SumPiece ==
  ASSUME NEW s, Len(s) \in Nat, NEW h, NEW m \in Int, NEW j, s[m] \in {"+", "-"}, NEW K, NEW L,
         Piece(s, h, m - 1, Tests, K), Piece(s, m + 1, j, Sums, L)
  PROVE  Piece(s, h, j, Tests, (K \o L) \o <<Instr(OpOf(s[m]), 0)>>)
<1> DEFINE J == (K \o L) \o <<Instr(OpOf(s[m]), 0)>>
<1> DEFINE V == ValuesOf(s)[<<h, m - 1>>]
<1> DEFINE W == ValuesOf(s)[<<m + 1, j>>]
<1>0. s[m] \in Arithmetic
  BY DEF Arithmetic
<1>1. /\ Whole(s, h, j) /\ Splits(s, h, j, Tests) = {}
      /\ ValuesOf(s)[<<h, j>>] = Combine(s[m], V, W)
  <2>1. /\ Whole(s, h, m - 1) /\ Splits(s, h, m - 1, Tests) = {}
        /\ Whole(s, m + 1, j) /\ Splits(s, m + 1, j, Sums) = {}
    BY DEF Piece
  <2>2. IsSplit(s, h, m, j, Tests)
    BY <2>1, SumValue
  <2> QED BY <2>2 DEF IsSplit
<1>2. /\ K \in Seq(Instrs) /\ L \in Seq(Instrs) /\ V \in Values /\ W \in Values
      /\ Computes(K, V) /\ Computes(L, W)
      /\ Fresh(K, Labels(h, m - 1)) /\ Fresh(L, Labels(m + 1, j))
  BY DEF Piece
<1> HIDE DEF V, W
<1>3. Computes(J, Combine(s[m], V, W))
  BY <1>0, <1>2, BinaryComputes
<1>4. Combine(s[m], V, W) \in Values
  BY <1>0, <1>2, CombinedValue
<1>5. /\ h \in Nat /\ m \in Nat /\ j \in Nat /\ h <= m /\ m <= j
  <2>1. h \in Nat \ {0} /\ h <= m - 1 /\ m + 1 <= j /\ j \in Nat \ {0}
    BY WholeDepth DEF Piece
  <2> QED BY <2>1
<1>6. Fresh(J, Labels(h, j))
  BY <1>0, <1>2, <1>5, BinaryFresh
<1>7. J \in Seq(Instrs)
  <2>1. Instr(OpOf(s[m]), 0) \in Instrs
    BY <1>0 DEF Instr, Instrs, Ops, OpOf, Arithmetic
  <2> QED BY <1>2, <2>1
<1> HIDE DEF J
<1> QED BY <1>1, <1>3, <1>4, <1>6, <1>7 DEF Piece, J

\* Three parts with the jumps between them are the piece of the conditional.
LEMMA CondPiece ==
  ASSUME NEW s, Len(s) \in Nat, NEW h, NEW q \in Int, NEW m \in Int, NEW j,
         s[q] = "?", s[m] = ":", NEW K, NEW L, NEW M,
         Piece(s, h, q - 1, Tests, K), Piece(s, q + 1, m - 1, Tests, L),
         Piece(s, m + 1, j, Tests, M)
  PROVE  Piece(s, h, j, {}, CondCode(K, L, M, q))
<1> DEFINE J == CondCode(K, L, M, q)
<1> DEFINE V == ValuesOf(s)[<<h, q - 1>>]
<1> DEFINE W == ValuesOf(s)[<<q + 1, m - 1>>]
<1> DEFINE X == ValuesOf(s)[<<m + 1, j>>]
<1>1. /\ Whole(s, h, j) /\ ValuesOf(s)[<<h, j>>] = Choose(V, W, X)
  <2>1. /\ Whole(s, h, q - 1) /\ Splits(s, h, q - 1, Tests) = {}
        /\ Whole(s, q + 1, m - 1) /\ Splits(s, q + 1, m - 1, Tests) = {}
        /\ Whole(s, m + 1, j) /\ Splits(s, m + 1, j, Tests) = {}
    BY DEF Piece
  <2>2. IsChoice(s, h, q, m, j)
    BY <2>1, CondValue
  <2> QED BY <2>2 DEF IsChoice
<1>2. /\ K \in Seq(Instrs) /\ L \in Seq(Instrs) /\ M \in Seq(Instrs)
      /\ V \in Values /\ W \in Values /\ X \in Values
      /\ Computes(K, V) /\ Computes(L, W) /\ Computes(M, X)
      /\ Fresh(K, Labels(h, q - 1)) /\ Fresh(L, Labels(q + 1, m - 1))
      /\ Fresh(M, Labels(m + 1, j))
  BY DEF Piece
<1>3. /\ h \in Nat /\ q \in Nat /\ m \in Nat /\ j \in Nat /\ h <= q /\ q < m /\ m <= j
  <2>1. h \in Nat \ {0} /\ h <= q - 1 /\ m + 1 <= j /\ j \in Nat \ {0} /\ q + 1 <= m - 1
    BY WholeDepth DEF Piece
  <2> QED BY <2>1
<1> HIDE DEF V, W, X
<1>4. Computes(J, Choose(V, W, X))
  BY <1>2, <1>3, CondComputes
<1>5. Choose(V, W, X) \in Values
  BY <1>2, ChosenValue
<1>6. Fresh(J, Labels(h, j)) /\ J \in Seq(Instrs)
  BY <1>2, <1>3, CondFresh
<1>7. Splits(s, h, j, {}) = {}
  BY DEF Splits
<1> HIDE DEF J
<1> QED BY <1>1, <1>4, <1>5, <1>6, <1>7 DEF Piece, J

\* An even number of signs is none.
LEMMA SignsPiece ==
  ASSUME NEW s, Len(s) \in Nat, NEW h \in Nat \ {0}, NEW k \in Nat, h <= k, NEW j, NEW L,
         \A y \in h .. k - 1 : s[y] = "-", Piece(s, k, j, Operators, L)
  PROVE  Piece(s, h, j, Operators, IF (k - h) % 2 = 1 THEN L \o <<Instr("neg", 0)>> ELSE L)
<1> DEFINE V == ValuesOf(s)[<<k, j>>]
<1> DEFINE Signed(d) == IF d % 2 = 1 THEN Computed(-V.val, V.plain) ELSE V
<1> DEFINE T == {d \in Nat : d <= k - h =>
                   /\ Whole(s, k - d, j) /\ Splits(s, k - d, j, Operators) = {}
                   /\ ValuesOf(s)[<<k - d, j>>] = Signed(d)}
<1>v. V \in Values
  BY DEF Piece
<1>1. 0 \in T
  <2>1. k - 0 = k /\ 0 % 2 = 0
    OBVIOUS
  <2> QED BY <2>1 DEF Piece
<1>2. ASSUME NEW d \in Nat, d \in T PROVE d + 1 \in T
  <2> SUFFICES ASSUME d + 1 <= k - h
               PROVE  /\ Whole(s, k - (d + 1), j) /\ Splits(s, k - (d + 1), j, Operators) = {}
                      /\ ValuesOf(s)[<<k - (d + 1), j>>] = Signed(d + 1)
    OBVIOUS
  <2> DEFINE e == k - (d + 1)
  <2>1. e \in h .. k - 1 /\ e \in Nat \ {0} /\ e + 1 = k - d /\ d <= k - h
    OBVIOUS
  <2>2. /\ Whole(s, e + 1, j) /\ Splits(s, e + 1, j, Operators) = {}
        /\ ValuesOf(s)[<<e + 1, j>>] = Signed(d) /\ s[e] = "-"
    BY <1>2, <2>1
  <2> DEFINE S == Signed(d)
  <2> HIDE DEF e
  <2>3. /\ Whole(s, e, j) /\ Splits(s, e, j, Operators) = {}
        /\ ValuesOf(s)[<<e, j>>] = Computed(-S.val, S.plain)
    <3> HIDE DEF S
    <3>1. ValuesOf(s)[<<e + 1, j>>] = S
      BY <2>2 DEF S
    <3>2. /\ Whole(s, e, j) /\ Splits(s, e, j, Operators) = {}
          /\ ValuesOf(s)[<<e, j>>]
               = Computed(-ValuesOf(s)[<<e + 1, j>>].val, ValuesOf(s)[<<e + 1, j>>].plain)
      BY <2>1, <2>2, MinusValue
    <3> QED BY <3>1, <3>2
  <2>4. Computed(-S.val, S.plain) = Signed(d + 1)
    <3>1. CASE d % 2 = 1
      <4>1. (d + 1) % 2 # 1
        BY <3>1
      <4>2. S = Computed(-V.val, V.plain) /\ Signed(d + 1) = V
        BY <3>1, <4>1
      <4> HIDE DEF S, V
      <4>3. S.val = -V.val /\ S.plain = V.plain /\ V.val \in Int
        BY <4>2, <1>v DEF Computed, Values
      <4>4. -S.val = V.val
        BY <4>3
      <4>5. Computed(V.val, V.plain) = V
        BY <1>v DEF Computed, Values
      <4> QED BY <4>2, <4>3, <4>4, <4>5
    <3>2. CASE d % 2 # 1
      <4>1. (d + 1) % 2 = 1
        BY <3>2
      <4> QED BY <3>2, <4>1
    <3> QED BY <3>1, <3>2
  <2> QED BY <2>3, <2>4 DEF e
<1>3. k - h \in Nat
  OBVIOUS
<1>4. k - h \in T
  <2> HIDE DEF T
  <2> QED BY <1>1, <1>2, <1>3, Induction
<1>5. /\ Whole(s, h, j) /\ Splits(s, h, j, Operators) = {}
      /\ ValuesOf(s)[<<h, j>>] = Signed(k - h)
  <2>1. k - (k - h) = h
    OBVIOUS
  <2> QED BY <1>4, <2>1
<1>6. /\ L \in Seq(Instrs) /\ Fresh(L, Labels(k, j)) /\ Computes(L, V)
      /\ Labels(k, j) \subseteq Labels(h, j)
  BY DEF Piece, Labels
<1>7. CASE (k - h) % 2 = 1
  <2> DEFINE x == Instr("neg", 0)
  <2>1. Computes(L \o <<x>>, Computed(-V.val, V.plain))
    BY <1>6, <1>v, NegComputes
  <2>2. x.op \notin {"else", "end"} /\ x \in Instrs
    BY DEF Instr, Instrs, Ops
  <2>3. Computed(-V.val, V.plain) \in Values
    BY <1>v DEF Computed, Values
  <2> HIDE DEF x, V
  <2>4. <<x>> \in Seq(Instrs) /\ L \o <<x>> \in Seq(Instrs)
    BY <2>2, <1>6
  <2>5. Fresh(<<x>>, {})
    BY <2>2, FreshOne
  <2>6. Fresh(L \o <<x>>, Labels(k, j) \cup {})
    BY <1>6, <2>4, <2>5, FreshBoth
  <2>7. Fresh(L \o <<x>>, Labels(h, j))
    <3>1. Labels(k, j) \cup {} \subseteq Labels(h, j)
      BY <1>6
    <3> QED BY <2>6, <3>1, FreshMore
  <2> QED BY <1>5, <1>7, <2>1, <2>3, <2>4, <2>7 DEF Piece, x
<1>8. CASE (k - h) % 2 # 1
  <2>1. Fresh(L, Labels(h, j))
    BY <1>6, FreshMore
  <2> QED BY <1>5, <1>6, <1>8, <1>v, <2>1 DEF Piece
<1> QED BY <1>7, <1>8

-----------------------------------------------------------------------------
\* The parser.

Results == [ok : BOOLEAN, at : Nat, code : Seq(Instrs)]

\* The operators that are not outside the parentheses of what a nonterminal reads.
Bans(what) ==
  CASE what = "cond" -> {}
    [] what = "add"  -> Tests
    [] what = "mul"  -> Sums
    [] what \in {"uminus", "factor"} -> Operators

\* r is a right result of a nonterminal at h: a piece; and of the rest of a sum or a
\* product, what makes a piece of the piece before it.
Sound(s, what, h, r) ==
  /\ r \in Results /\ r.at \in h .. Len(s) + 1
  /\ r.ok /\ what \in {"cond", "add", "mul", "uminus", "factor"}
       => Piece(s, h, r.at - 1, Bans(what), r.code)
  /\ r.ok /\ what = "addLoop"
       => \A g, K : Piece(s, g, h - 1, Tests, K) => Piece(s, g, r.at - 1, Tests, K \o r.code)
  /\ r.ok /\ what = "mulLoop"
       => \A g, K : Piece(s, g, h - 1, Sums, K) => Piece(s, g, r.at - 1, Sums, K \o r.code)

\* Every nonterminal is sound wherever it starts.
AllSound(s, p) ==
  \A what \in Nonterminals : \A h \in 1 .. Len(s) + 1 : Sound(s, what, h, p[<<what, h>>])

\* What one thing after the other comes back with.
LEMMA AfterIs ==
  ASSUME NEW r \in Results, NEW t \in Results
  PROVE  /\ After(r, t) \in Results /\ After(r, t).at \in {r.at, t.at}
         /\ After(r, t).ok <=> r.ok /\ t.ok
         /\ After(r, t).ok => After(r, t).at = t.at /\ After(r, t).code = r.code \o t.code
<1>1. CASE ~ r.ok
  BY <1>1 DEF After, Results
<1>2. CASE r.ok
  <2> DEFINE a == [t EXCEPT !.code = r.code \o @]
  <2>1. a \in Results /\ a.at = t.at /\ a.ok = t.ok /\ a.code = r.code \o t.code
    <3>1. r.code \in Seq(Instrs) /\ t.code \in Seq(Instrs)
      BY DEF Results
    <3>2. r.code \o t.code \in Seq(Instrs)
      BY <3>1
    <3> DEFINE K == r.code \o t.code
    <3> HIDE DEF K
    <3>3. K \in Seq(Instrs)
      BY <3>2 DEF K
    <3>4. LET b == [t EXCEPT !.code = K] IN
          b \in Results /\ b.at = t.at /\ b.ok = t.ok /\ b.code = K
      BY <3>3 DEF Results
    <3>5. a = [t EXCEPT !.code = K]
      BY DEF K
    <3> QED BY <3>4, <3>5 DEF K
  <2>2. After(r, t) = a
    BY <1>2 DEF After
  <2>3. r.ok \in BOOLEAN /\ t.ok \in BOOLEAN
    BY DEF Results
  <2> HIDE DEF a
  <2> QED BY <1>2, <2>1, <2>2, <2>3
<1> QED BY <1>1, <1>2

\* What Parsed and Stop come back with.
LEMMA PlainResults ==
  ASSUME NEW k \in Nat, NEW K \in Seq(Instrs)
  PROVE  /\ Parsed(k, K) \in Results /\ Parsed(k, K).ok /\ Parsed(k, K).at = k
         /\ Parsed(k, K).code = K
         /\ Stop(k) \in Results /\ ~ Stop(k).ok /\ Stop(k).at = k
BY DEF Parsed, Stop, Results

\* A character that is read is one of the string, except for the last.
LEMMA CharRead ==
  ASSUME NEW s, Len(s) \in Nat, NEW h \in 1 .. Len(s) + 1, CharAt(s, h) # "null"
  PROVE  h \in 1 .. Len(s) /\ CharAt(s, h) = s[h] /\ h + 1 \in 1 .. Len(s) + 1
BY DEF CharAt

\* What a match of a character comes back with.
LEMMA MatchIs ==
  ASSUME NEW s, Len(s) \in Nat, NEW h \in 1 .. Len(s) + 1, NEW c, c # "null"
  PROVE  /\ Match(s, h, c) \in Results /\ Match(s, h, c).at \in h .. Len(s) + 1
         /\ Match(s, h, c).ok => /\ h \in 1 .. Len(s) /\ s[h] = c
                                 /\ Match(s, h, c).at = h + 1 /\ Match(s, h, c).code = <<>>
<1>1. CASE CharAt(s, h) = c
  <2>1. h \in 1 .. Len(s) /\ CharAt(s, h) = s[h] /\ h + 1 \in 1 .. Len(s) + 1
    BY <1>1, CharRead
  <2>2. Match(s, h, c) = Parsed(h + 1, <<>>)
    BY <1>1 DEF Match
  <2>3. h + 1 \in Nat /\ <<>> \in Seq(Instrs)
    BY <2>1
  <2>4. Parsed(h + 1, <<>>) \in Results /\ Parsed(h + 1, <<>>).at = h + 1 /\ Parsed(h + 1, <<>>).code = <<>>
    BY <2>3, PlainResults
  <2> QED BY <1>1, <2>1, <2>2, <2>4
<1>2. CASE CharAt(s, h) # c
  <2>1. Match(s, h, c) = Stop(h)
    BY <1>2 DEF Match
  <2>2. Stop(h) \in Results /\ Stop(h).at = h /\ ~ Stop(h).ok
    BY DEF Stop, Results
  <2> QED BY <2>1, <2>2
<1> QED BY <1>1, <1>2

\* A nonterminal that has read something.
LEMMA SoundPiece ==
  ASSUME NEW s, Len(s) \in Nat, NEW p, AllSound(s, p), NEW h \in 1 .. Len(s) + 1,
         NEW what \in {"cond", "add", "mul", "uminus", "factor"}
  PROVE  /\ p[<<what, h>>] \in Results /\ p[<<what, h>>].at \in h .. Len(s) + 1
         /\ p[<<what, h>>].ok =>
              /\ Piece(s, h, p[<<what, h>>].at - 1, Bans(what), p[<<what, h>>].code)
              /\ p[<<what, h>>].at \in h + 1 .. Len(s) + 1
<1>1. Sound(s, what, h, p[<<what, h>>])
  BY DEF AllSound, Nonterminals
<1> DEFINE r == p[<<what, h>>]
<1> HIDE DEF r
<1>2. ASSUME r.ok, Piece(s, h, r.at - 1, Bans(what), r.code), r.at \in h .. Len(s) + 1
      PROVE  r.at \in h + 1 .. Len(s) + 1
  <2>1. h <= r.at - 1
    BY <1>2, WholeDepth DEF Piece
  <2> QED BY <1>2, <2>1
<1> QED BY <1>1, <1>2 DEF Sound, r

\* parse_factor is sound if what it calls is.
LEMMA FactorSound ==
  ASSUME NEW s, Len(s) \in Nat, NEW p, AllSound(s, p), NEW h \in 1 .. Len(s) + 1
  PROVE  Sound(s, "factor", h, Parse(s, p, "factor", h))
<1> DEFINE c == CharAt(s, h)
<1> DEFINE F == Factor(s, p, h)
<1>0. Parse(s, p, "factor", h) = F
  BY DEF Parse
<1>1. CASE c \in DOMAIN Digits
  <2>1. c # "null"
    BY <1>1, CharsApart
  <2>2. h \in 1 .. Len(s) /\ c = s[h] /\ h + 1 \in 1 .. Len(s) + 1
    BY <2>1, CharRead
  <2> DEFINE K == <<Instr("push", Digits[s[h]])>>
  <2>3. Piece(s, h, h, Operators, K)
    BY <1>1, <2>2, DigitPiece
  <2>4. F = Parsed(h + 1, K)
    BY <1>1, <2>2 DEF Factor
  <2>5. K \in Seq(Instrs)
    BY <2>3 DEF Piece
  <2> HIDE DEF K
  <2>6. F \in Results /\ F.at = h + 1 /\ F.code = K
    BY <2>4, <2>5, PlainResults
  <2>7. Bans("factor") = Operators /\ h + 1 - 1 = h
    BY DEF Bans
  <2> QED BY <1>0, <2>2, <2>3, <2>6, <2>7 DEF Sound
<1>2. CASE c \notin DOMAIN Digits /\ c = "("
  <2>1. h \in 1 .. Len(s) /\ c = s[h] /\ h + 1 \in 1 .. Len(s) + 1
    BY <1>2, CharRead
  <2> DEFINE r == p[<<"cond", h + 1>>]
  <2> DEFINE t == Match(s, r.at, ")")
  <2>2. /\ r \in Results /\ r.at \in h + 1 .. Len(s) + 1
        /\ r.ok => Piece(s, h + 1, r.at - 1, {}, r.code) /\ r.at \in h + 1+1 .. Len(s) + 1
    BY <2>1, SoundPiece DEF Bans
  <2>3. F = After(r, t)
    BY <1>2 DEF Factor
  <2> HIDE DEF r
  <2>4. r.at \in 1 .. Len(s) + 1
    BY <2>1, <2>2
  <2>5. /\ t \in Results /\ t.at \in r.at .. Len(s) + 1
        /\ t.ok => /\ r.at \in 1 .. Len(s) /\ s[r.at] = ")" /\ t.at = r.at + 1 /\ t.code = <<>>
    BY <2>4, MatchIs
  <2> HIDE DEF t, F
  <2>6. /\ F \in Results /\ F.at \in {r.at, t.at} /\ (F.ok <=> r.ok /\ t.ok)
        /\ F.ok => F.at = t.at /\ F.code = r.code \o t.code
    <3>1. /\ After(r, t) \in Results /\ After(r, t).at \in {r.at, t.at}
          /\ After(r, t).ok <=> r.ok /\ t.ok
          /\ After(r, t).ok => After(r, t).at = t.at /\ After(r, t).code = r.code \o t.code
      BY <2>2, <2>5, AfterIs
    <3> QED BY <2>3, <3>1
  <2>7. F.at \in h .. Len(s) + 1
    BY <2>1, <2>2, <2>5, <2>6
  <2>8. ASSUME F.ok PROVE Piece(s, h, F.at - 1, Operators, F.code)
    <3>1. F.at - 1 = r.at /\ r.at \in 1 .. Len(s) /\ s[r.at] = ")"
      BY <2>4, <2>5, <2>6, <2>8
    <3>2. Piece(s, h + 1, r.at - 1, {}, r.code)
      BY <2>2, <2>6, <2>8
    <3>3. F.code = r.code
      <4>1. r.code \in Seq(Instrs)
        BY <2>2 DEF Results
      <4>2. r.code \o <<>> = r.code
        BY <4>1
      <4> QED BY <4>2, <2>5, <2>6, <2>8
    <3> QED BY <1>2, <2>1, <3>1, <3>2, <3>3, ParenPiece
  <2> QED BY <1>0, <2>6, <2>7, <2>8 DEF Sound, Bans
<1>3. CASE c \notin DOMAIN Digits /\ c # "("
  <2>1. F = Stop(h)
    BY <1>3 DEF Factor
  <2>2. F \in Results /\ ~ F.ok /\ F.at = h
    BY <2>1 DEF Stop, Results
  <2> HIDE DEF F
  <2> QED BY <1>0, <2>2 DEF Sound
<1> QED BY <1>1, <1>2, <1>3

\* How far the signs go.
SignsEnd(s, h) ==
  CHOOSE k \in h .. Len(s) + 1 : CharAt(s, k) # "-" /\ \A j \in h .. k - 1 : CharAt(s, j) = "-"

\* Up to there are minus signs.
LEMMA SignsEndIs ==
  ASSUME NEW s, Len(s) \in Nat, NEW h \in 1 .. Len(s) + 1
  PROVE  SignsEnd(s, h) \in h .. Len(s) + 1 /\ \A j \in h .. SignsEnd(s, h) - 1 : s[j] = "-"
<1> DEFINE T == {k \in h .. Len(s) + 1 : CharAt(s, k) # "-"}
<1>1. Len(s) + 1 \in T
  BY DEF CharAt
<1>2. T \in SUBSET Nat
  OBVIOUS
<1>3. PICK k \in T : \A u \in T : k <= u
  <2> HIDE DEF T
  <2> QED BY <1>1, <1>2, Least
<1>4. \A j \in h .. k - 1 : CharAt(s, j) = "-"
  <2> SUFFICES ASSUME NEW j \in h .. k - 1, CharAt(s, j) # "-" PROVE FALSE
    OBVIOUS
  <2>1. j \in T
    OBVIOUS
  <2> QED BY <1>3, <2>1
<1>5. \E x \in h .. Len(s) + 1 : CharAt(s, x) # "-" /\ \A j \in h .. x - 1 : CharAt(s, j) = "-"
  BY <1>3, <1>4
<1>6. /\ SignsEnd(s, h) \in h .. Len(s) + 1
      /\ \A j \in h .. SignsEnd(s, h) - 1 : CharAt(s, j) = "-"
  BY <1>5 DEF SignsEnd
<1>7. ASSUME NEW j \in h .. SignsEnd(s, h) - 1 PROVE s[j] = "-"
  <2>1. CharAt(s, j) = "-" /\ j <= Len(s)
    BY <1>6
  <2> QED BY <2>1 DEF CharAt
<1> QED BY <1>6, <1>7

\* parse_uminus_exp is sound if what it calls is.
LEMMA UMinusSound ==
  ASSUME NEW s, Len(s) \in Nat, NEW p, AllSound(s, p), NEW h \in 1 .. Len(s) + 1
  PROVE  Sound(s, "uminus", h, Parse(s, p, "uminus", h))
<1> DEFINE k == SignsEnd(s, h)
<1> DEFINE r == p[<<"factor", k>>]
<1> DEFINE x == Instr("neg", 0)
<1> DEFINE t == Parsed(r.at, <<x>>)
<1> DEFINE F == IF (k - h) % 2 = 1 THEN After(r, t) ELSE r
<1>0. Parse(s, p, "uminus", h) = F
  BY DEF Parse, UMinusExp, SignsEnd
<1>1. k \in h .. Len(s) + 1 /\ \A j \in h .. k - 1 : s[j] = "-"
  BY SignsEndIs
<1>2. k \in 1 .. Len(s) + 1 /\ h \in Nat \ {0} /\ k \in Nat /\ h <= k
  BY <1>1
<1> HIDE DEF k
<1>3. /\ r \in Results /\ r.at \in k .. Len(s) + 1
      /\ r.ok => Piece(s, k, r.at - 1, Operators, r.code)
  BY <1>2, SoundPiece DEF Bans
<1>4. <<x>> \in Seq(Instrs)
  <2>1. x \in Instrs
    BY DEF Instr, Instrs, Ops
  <2> QED BY <2>1
<1> HIDE DEF r
<1>5. t \in Results /\ t.ok /\ t.at = r.at /\ t.code = <<x>>
  <2>1. r.at \in Nat
    BY <1>3 DEF Results
  <2> HIDE DEF x
  <2> QED BY <1>4, <2>1, PlainResults
<1> DEFINE a == After(r, t)
<1> HIDE DEF t
<1>6. /\ a \in Results /\ a.at = r.at /\ (a.ok <=> r.ok)
      /\ a.ok => a.code = r.code \o <<x>>
  BY <1>3, <1>5, AfterIs
<1> DEFINE J == IF (k - h) % 2 = 1 THEN r.code \o <<x>> ELSE r.code
<1>7. r.ok => Piece(s, h, r.at - 1, Operators, J)
  BY <1>1, <1>2, <1>3, SignsPiece
<1> HIDE DEF a, x
<1>8. /\ F \in Results /\ F.at = r.at /\ (F.ok <=> r.ok)
      /\ F.ok => F.code = J
  BY <1>3, <1>6 DEF a
<1> HIDE DEF F, J
<1>9. r.at \in h .. Len(s) + 1
  BY <1>1, <1>3
<1>10. Bans("uminus") = Operators
  BY DEF Bans
<1> QED BY <1>0, <1>7, <1>8, <1>9, <1>10 DEF Sound

\* Four pieces, one behind the other.
InARow(K, L, M, R) == ((K \o L) \o M) \o R = K \o (L \o (M \o R))

\* How they are put together does not matter.
LEMMA FourConcat ==
  ASSUME NEW K \in Seq(Instrs), NEW L \in Seq(Instrs), NEW M \in Seq(Instrs),
         NEW R \in Seq(Instrs)
  PROVE  InARow(K, L, M, R)
<1>1. (K \o L) \o (M \o R) = K \o (L \o (M \o R))
  <2> DEFINE Q == M \o R
  <2>1. Q \in Seq(Instrs)
    OBVIOUS
  <2> HIDE DEF Q
  <2>2. (K \o L) \o Q = K \o (L \o Q)
    BY <2>1
  <2> QED BY <2>2 DEF Q
<1>2. ((K \o L) \o M) \o R = (K \o L) \o (M \o R)
  <2> DEFINE Q == K \o L
  <2>1. Q \in Seq(Instrs)
    OBVIOUS
  <2> HIDE DEF Q
  <2>2. (Q \o M) \o R = Q \o (M \o R)
    BY <2>1
  <2> QED BY <2>2 DEF Q
<1> QED BY <1>1, <1>2 DEF InARow

\* The loop of parse_add_exp is sound if what it calls is.
LEMMA SumRestSound ==
  ASSUME NEW s, Len(s) \in Nat, NEW p, AllSound(s, p), NEW h \in 1 .. Len(s) + 1
  PROVE  Sound(s, "addLoop", h, Parse(s, p, "addLoop", h))
<1> DEFINE F == OpLoop(s, p, h, {"+", "-"}, "mul", "addLoop")
<1>0. Parse(s, p, "addLoop", h) = F
  BY DEF Parse
<1>h. h \in Nat /\ <<>> \in Seq(Instrs)
  OBVIOUS
<1>1. CASE CharAt(s, h) \notin {"+", "-"}
  <2>1. F = Parsed(h, <<>>)
    BY <1>1 DEF OpLoop
  <2> HIDE DEF F
  <2>2. F \in Results /\ F.at = h /\ F.code = <<>>
    BY <1>h, <2>1, PlainResults
  <2>3. ASSUME NEW g, NEW K, Piece(s, g, h - 1, Tests, K)
        PROVE  Piece(s, g, F.at - 1, Tests, K \o F.code)
    <3>1. K \in Seq(Instrs)
      BY <2>3 DEF Piece
    <3>2. K \o <<>> = K
      BY <3>1
    <3> QED BY <2>2, <2>3, <3>2
  <2>4. F.at \in h .. Len(s) + 1
    BY <2>2
  <2> QED BY <1>0, <2>2, <2>3, <2>4 DEF Sound
<1>2. CASE CharAt(s, h) \in {"+", "-"}
  <2>1. h \in 1 .. Len(s) /\ CharAt(s, h) = s[h] /\ h + 1 \in 1 .. Len(s) + 1
    BY <1>2, CharRead
  <2> DEFINE x == Instr(OpOf(s[h]), 0)
  <2> DEFINE r == p[<<"mul", h + 1>>]
  <2> DEFINE l == p[<<"addLoop", r.at>>]
  <2> DEFINE t == Parsed(r.at, <<x>>)
  <2> DEFINE a == After(t, l)
  <2>2. F = After(r, a)
    BY <1>2, <2>1 DEF OpLoop
  <2>3. x \in Instrs
    <3>1. s[h] \in Arithmetic
      BY <1>2, <2>1 DEF Arithmetic
    <3> QED BY <3>1 DEF Instr, Instrs, Ops, OpOf, Arithmetic
  <2> HIDE DEF x
  <2>4. <<x>> \in Seq(Instrs)
    BY <2>3
  <2>5. /\ r \in Results /\ r.at \in h + 1 .. Len(s) + 1
        /\ r.ok => Piece(s, h + 1, r.at - 1, Sums, r.code)
    BY <2>1, SoundPiece DEF Bans
  <2> HIDE DEF r
  <2>6. r.at \in 1 .. Len(s) + 1 /\ r.at \in Nat
    BY <2>1, <2>5
  <2>7. Sound(s, "addLoop", r.at, l)
    BY <2>6 DEF AllSound, Nonterminals
  <2> HIDE DEF l
  <2>8. /\ l \in Results /\ l.at \in r.at .. Len(s) + 1
        /\ l.ok => \A g, K : Piece(s, g, r.at - 1, Tests, K) => Piece(s, g, l.at - 1, Tests, K \o l.code)
    BY <2>7 DEF Sound
  <2>9. t \in Results /\ t.ok /\ t.at = r.at /\ t.code = <<x>>
    BY <2>4, <2>6, PlainResults
  <2> HIDE DEF t
  <2>10. /\ a \in Results /\ a.at \in {t.at, l.at} /\ (a.ok <=> t.ok /\ l.ok)
         /\ a.ok => a.at = l.at /\ a.code = t.code \o l.code
    BY <2>8, <2>9, AfterIs
  <2> HIDE DEF a
  <2>11. /\ After(r, a) \in Results /\ After(r, a).at \in {r.at, a.at}
         /\ After(r, a).ok <=> r.ok /\ a.ok
         /\ After(r, a).ok => After(r, a).at = a.at /\ After(r, a).code = r.code \o a.code
    BY <2>5, <2>10, AfterIs
  <2> HIDE DEF F
  <2>12. F \in Results /\ F.at \in h .. Len(s) + 1
    <3>1. F.at \in {r.at, t.at, l.at}
      BY <2>2, <2>10, <2>11
    <3>2. F.at \in h + 1 .. Len(s) + 1
      BY <2>1, <2>5, <2>8, <2>9, <3>1
    <3> QED BY <2>1, <2>2, <2>11, <3>2
  <2>13. ASSUME F.ok, NEW g, NEW K, Piece(s, g, h - 1, Tests, K)
         PROVE  Piece(s, g, F.at - 1, Tests, K \o F.code)
    <3>1. r.ok /\ l.ok /\ F.at = l.at /\ F.code = r.code \o (<<x>> \o l.code)
      BY <2>2, <2>9, <2>10, <2>11, <2>13
    <3>2. Piece(s, h + 1, r.at - 1, Sums, r.code)
      BY <2>5, <3>1
    <3>3. Piece(s, g, r.at - 1, Tests, (K \o r.code) \o <<x>>)
      BY <1>2, <2>1, <2>13, <3>2, SumPiece DEF x
    <3>4. Piece(s, g, l.at - 1, Tests, ((K \o r.code) \o <<x>>) \o l.code)
      BY <2>8, <3>1, <3>3
    <3>5. K \in Seq(Instrs) /\ r.code \in Seq(Instrs) /\ l.code \in Seq(Instrs)
      BY <2>5, <2>8, <2>13 DEF Piece, Results
    <3>6. ((K \o r.code) \o <<x>>) \o l.code = K \o (r.code \o (<<x>> \o l.code))
      <4> DEFINE u == r.code
      <4> DEFINE y == <<x>>
      <4> DEFINE z == l.code
      <4>1. K \in Seq(Instrs) /\ u \in Seq(Instrs) /\ y \in Seq(Instrs) /\ z \in Seq(Instrs)
        BY <2>4, <3>5
      <4> HIDE DEF u, y, z
      <4>2. InARow(K, u, y, z)
        BY <4>1, FourConcat
      <4> QED BY <4>2 DEF InARow, u, y, z
    <3> QED BY <3>1, <3>4, <3>6
  <2> QED BY <1>0, <2>12, <2>13 DEF Sound
<1> QED BY <1>1, <1>2

\* parse_add_exp is sound if what it calls is.
LEMMA SumSound ==
  ASSUME NEW s, Len(s) \in Nat, NEW p, AllSound(s, p), NEW h \in 1 .. Len(s) + 1
  PROVE  Sound(s, "add", h, Parse(s, p, "add", h))
<1> DEFINE r == p[<<"mul", h>>]
<1> DEFINE l == p[<<"addLoop", r.at>>]
<1> DEFINE F == IF r.ok THEN After(r, l) ELSE r
<1>0. Parse(s, p, "add", h) = F
  BY DEF Parse
<1>1. /\ r \in Results /\ r.at \in h .. Len(s) + 1
      /\ r.ok => Piece(s, h, r.at - 1, Sums, r.code)
  BY SoundPiece DEF Bans
<1> HIDE DEF r
<1>2. r.at \in 1 .. Len(s) + 1 /\ h \in Nat
  BY <1>1
<1>3. Sound(s, "addLoop", r.at, l)
  BY <1>2 DEF AllSound, Nonterminals
<1> HIDE DEF l
<1>4. /\ l \in Results /\ l.at \in r.at .. Len(s) + 1
      /\ l.ok => \A g, K : Piece(s, g, r.at - 1, Tests, K) => Piece(s, g, l.at - 1, Tests, K \o l.code)
  BY <1>3 DEF Sound
<1>5. CASE ~ r.ok
  <2>1. F = r
    BY <1>5
  <2> HIDE DEF F
  <2> QED BY <1>0, <1>1, <1>5, <2>1 DEF Sound
<1>6. CASE r.ok
  <2>1. F = After(r, l)
    BY <1>6
  <2>2. /\ After(r, l) \in Results /\ After(r, l).at \in {r.at, l.at}
        /\ After(r, l).ok <=> r.ok /\ l.ok
        /\ After(r, l).ok => After(r, l).at = l.at /\ After(r, l).code = r.code \o l.code
    BY <1>1, <1>4, AfterIs
  <2> HIDE DEF F
  <2>3. F.at \in h .. Len(s) + 1
    BY <1>1, <1>2, <1>4, <2>1, <2>2
  <2>4. ASSUME F.ok PROVE Piece(s, h, F.at - 1, Tests, F.code)
    <3>1. l.ok /\ F.at = l.at /\ F.code = r.code \o l.code
      BY <2>1, <2>2, <2>4
    <3>2. Piece(s, h, r.at - 1, Tests, r.code)
      <4>1. Piece(s, h, r.at - 1, Sums, r.code)
        BY <1>1, <1>6
      <4>2. Tests \subseteq Sums
        BY DEF Tests, Sums, Operators
      <4> QED BY <4>1, <4>2, PieceWeaker
    <3> QED BY <1>4, <3>1, <3>2
  <2>5. Bans("add") = Tests
    BY DEF Bans
  <2> QED BY <1>0, <2>1, <2>2, <2>3, <2>4, <2>5 DEF Sound
<1> QED BY <1>5, <1>6

\* The loop of parse_mul_exp is sound if what it calls is.
LEMMA ProductRestSound ==
  ASSUME NEW s, Len(s) \in Nat, NEW p, AllSound(s, p), NEW h \in 1 .. Len(s) + 1
  PROVE  Sound(s, "mulLoop", h, Parse(s, p, "mulLoop", h))
<1> DEFINE F == OpLoop(s, p, h, {"*", "/"}, "uminus", "mulLoop")
<1>0. Parse(s, p, "mulLoop", h) = F
  BY DEF Parse
<1>h. h \in Nat /\ <<>> \in Seq(Instrs)
  OBVIOUS
<1>1. CASE CharAt(s, h) \notin {"*", "/"}
  <2>1. F = Parsed(h, <<>>)
    BY <1>1 DEF OpLoop
  <2> HIDE DEF F
  <2>2. F \in Results /\ F.at = h /\ F.code = <<>>
    BY <1>h, <2>1, PlainResults
  <2>3. ASSUME NEW g, NEW K, Piece(s, g, h - 1, Sums, K)
        PROVE  Piece(s, g, F.at - 1, Sums, K \o F.code)
    <3>1. K \in Seq(Instrs)
      BY <2>3 DEF Piece
    <3>2. K \o <<>> = K
      BY <3>1
    <3> QED BY <2>2, <2>3, <3>2
  <2>4. F.at \in h .. Len(s) + 1
    BY <2>2
  <2> QED BY <1>0, <2>2, <2>3, <2>4 DEF Sound
<1>2. CASE CharAt(s, h) \in {"*", "/"}
  <2>1. h \in 1 .. Len(s) /\ CharAt(s, h) = s[h] /\ h + 1 \in 1 .. Len(s) + 1
    BY <1>2, CharRead
  <2> DEFINE x == Instr(OpOf(s[h]), 0)
  <2> DEFINE r == p[<<"uminus", h + 1>>]
  <2> DEFINE l == p[<<"mulLoop", r.at>>]
  <2> DEFINE t == Parsed(r.at, <<x>>)
  <2> DEFINE a == After(t, l)
  <2>2. F = After(r, a)
    BY <1>2, <2>1 DEF OpLoop
  <2>3. x \in Instrs
    <3>1. s[h] \in Arithmetic
      BY <1>2, <2>1 DEF Arithmetic
    <3> QED BY <3>1 DEF Instr, Instrs, Ops, OpOf, Arithmetic
  <2> HIDE DEF x
  <2>4. <<x>> \in Seq(Instrs)
    BY <2>3
  <2>5. /\ r \in Results /\ r.at \in h + 1 .. Len(s) + 1
        /\ r.ok => Piece(s, h + 1, r.at - 1, Operators, r.code)
    BY <2>1, SoundPiece DEF Bans
  <2> HIDE DEF r
  <2>6. r.at \in 1 .. Len(s) + 1 /\ r.at \in Nat
    BY <2>1, <2>5
  <2>7. Sound(s, "mulLoop", r.at, l)
    BY <2>6 DEF AllSound, Nonterminals
  <2> HIDE DEF l
  <2>8. /\ l \in Results /\ l.at \in r.at .. Len(s) + 1
        /\ l.ok => \A g, K : Piece(s, g, r.at - 1, Sums, K) => Piece(s, g, l.at - 1, Sums, K \o l.code)
    BY <2>7 DEF Sound
  <2>9. t \in Results /\ t.ok /\ t.at = r.at /\ t.code = <<x>>
    BY <2>4, <2>6, PlainResults
  <2> HIDE DEF t
  <2>10. /\ a \in Results /\ a.at \in {t.at, l.at} /\ (a.ok <=> t.ok /\ l.ok)
         /\ a.ok => a.at = l.at /\ a.code = t.code \o l.code
    BY <2>8, <2>9, AfterIs
  <2> HIDE DEF a
  <2>11. /\ After(r, a) \in Results /\ After(r, a).at \in {r.at, a.at}
         /\ After(r, a).ok <=> r.ok /\ a.ok
         /\ After(r, a).ok => After(r, a).at = a.at /\ After(r, a).code = r.code \o a.code
    BY <2>5, <2>10, AfterIs
  <2> HIDE DEF F
  <2>12. F \in Results /\ F.at \in h .. Len(s) + 1
    <3>1. F.at \in {r.at, t.at, l.at}
      BY <2>2, <2>10, <2>11
    <3>2. F.at \in h + 1 .. Len(s) + 1
      BY <2>1, <2>5, <2>8, <2>9, <3>1
    <3> QED BY <2>1, <2>2, <2>11, <3>2
  <2>13. ASSUME F.ok, NEW g, NEW K, Piece(s, g, h - 1, Sums, K)
         PROVE  Piece(s, g, F.at - 1, Sums, K \o F.code)
    <3>1. r.ok /\ l.ok /\ F.at = l.at /\ F.code = r.code \o (<<x>> \o l.code)
      BY <2>2, <2>9, <2>10, <2>11, <2>13
    <3>2. Piece(s, h + 1, r.at - 1, Operators, r.code)
      BY <2>5, <3>1
    <3>3. Piece(s, g, r.at - 1, Sums, (K \o r.code) \o <<x>>)
      BY <1>2, <2>1, <2>13, <3>2, ProductPiece DEF x
    <3>4. Piece(s, g, l.at - 1, Sums, ((K \o r.code) \o <<x>>) \o l.code)
      BY <2>8, <3>1, <3>3
    <3>5. K \in Seq(Instrs) /\ r.code \in Seq(Instrs) /\ l.code \in Seq(Instrs)
      BY <2>5, <2>8, <2>13 DEF Piece, Results
    <3>6. ((K \o r.code) \o <<x>>) \o l.code = K \o (r.code \o (<<x>> \o l.code))
      <4> DEFINE u == r.code
      <4> DEFINE y == <<x>>
      <4> DEFINE z == l.code
      <4>1. K \in Seq(Instrs) /\ u \in Seq(Instrs) /\ y \in Seq(Instrs) /\ z \in Seq(Instrs)
        BY <2>4, <3>5
      <4> HIDE DEF u, y, z
      <4>2. InARow(K, u, y, z)
        BY <4>1, FourConcat
      <4> QED BY <4>2 DEF InARow, u, y, z
    <3> QED BY <3>1, <3>4, <3>6
  <2> QED BY <1>0, <2>12, <2>13 DEF Sound
<1> QED BY <1>1, <1>2

\* parse_mul_exp is sound if what it calls is.
LEMMA ProductSound ==
  ASSUME NEW s, Len(s) \in Nat, NEW p, AllSound(s, p), NEW h \in 1 .. Len(s) + 1
  PROVE  Sound(s, "mul", h, Parse(s, p, "mul", h))
<1> DEFINE r == p[<<"uminus", h>>]
<1> DEFINE l == p[<<"mulLoop", r.at>>]
<1> DEFINE F == IF r.ok THEN After(r, l) ELSE r
<1>0. Parse(s, p, "mul", h) = F
  BY DEF Parse
<1>1. /\ r \in Results /\ r.at \in h .. Len(s) + 1
      /\ r.ok => Piece(s, h, r.at - 1, Operators, r.code)
  BY SoundPiece DEF Bans
<1> HIDE DEF r
<1>2. r.at \in 1 .. Len(s) + 1 /\ h \in Nat
  BY <1>1
<1>3. Sound(s, "mulLoop", r.at, l)
  BY <1>2 DEF AllSound, Nonterminals
<1> HIDE DEF l
<1>4. /\ l \in Results /\ l.at \in r.at .. Len(s) + 1
      /\ l.ok => \A g, K : Piece(s, g, r.at - 1, Sums, K) => Piece(s, g, l.at - 1, Sums, K \o l.code)
  BY <1>3 DEF Sound
<1>5. CASE ~ r.ok
  <2>1. F = r
    BY <1>5
  <2> HIDE DEF F
  <2> QED BY <1>0, <1>1, <1>5, <2>1 DEF Sound
<1>6. CASE r.ok
  <2>1. F = After(r, l)
    BY <1>6
  <2>2. /\ After(r, l) \in Results /\ After(r, l).at \in {r.at, l.at}
        /\ After(r, l).ok <=> r.ok /\ l.ok
        /\ After(r, l).ok => After(r, l).at = l.at /\ After(r, l).code = r.code \o l.code
    BY <1>1, <1>4, AfterIs
  <2> HIDE DEF F
  <2>3. F.at \in h .. Len(s) + 1
    BY <1>1, <1>2, <1>4, <2>1, <2>2
  <2>4. ASSUME F.ok PROVE Piece(s, h, F.at - 1, Sums, F.code)
    <3>1. l.ok /\ F.at = l.at /\ F.code = r.code \o l.code
      BY <2>1, <2>2, <2>4
    <3>2. Piece(s, h, r.at - 1, Sums, r.code)
      <4>1. Piece(s, h, r.at - 1, Operators, r.code)
        BY <1>1, <1>6
      <4>2. Sums \subseteq Operators
        BY DEF Tests, Sums, Operators
      <4> QED BY <4>1, <4>2, PieceWeaker
    <3> QED BY <1>4, <3>1, <3>2
  <2>5. Bans("mul") = Sums
    BY DEF Bans
  <2> QED BY <1>0, <2>1, <2>2, <2>3, <2>4, <2>5 DEF Sound
<1> QED BY <1>5, <1>6

\* parse_cond_exp is sound if what it calls is.
LEMMA CondSound ==
  ASSUME NEW s, Len(s) \in Nat, NEW p, AllSound(s, p), NEW h \in 1 .. Len(s) + 1
  PROVE  Sound(s, "cond", h, Parse(s, p, "cond", h))
<1> DEFINE test == p[<<"add", h>>]
<1> DEFINE F == CondExp(s, p, h)
<1>0. Parse(s, p, "cond", h) = F /\ Bans("cond") = {}
  BY DEF Parse, Bans
<1>1. /\ test \in Results /\ test.at \in h .. Len(s) + 1
      /\ test.ok => /\ Piece(s, h, test.at - 1, Tests, test.code)
                    /\ test.at \in h + 1 .. Len(s) + 1
  BY SoundPiece DEF Bans
<1>2. CASE ~ test.ok \/ CharAt(s, test.at) # "?"
  <2>1. F = test
    BY <1>2 DEF CondExp
  <2> HIDE DEF test, F
  <2>2. test.ok => Piece(s, h, test.at - 1, {}, test.code)
    BY <1>1, PieceWeaker
  <2> QED BY <1>0, <1>1, <2>1, <2>2 DEF Sound
<1>3. CASE test.ok /\ CharAt(s, test.at) = "?"
  <2> DEFINE q == test.at
  <2> DEFINE then == p[<<"add", q + 1>>]
  <2> DEFINE colon == Match(s, then.at, ":")
  <2> DEFINE els == p[<<"add", colon.at>>]
  <2> DEFINE j1 == Parsed(q + 1, <<Instr("jz", q)>>)
  <2> DEFINE j2 == Parsed(then.at, <<Instr("jmp", q)>>)
  <2> DEFINE j3 == Parsed(colon.at, <<Instr("else", q)>>)
  <2> DEFINE j4 == Parsed(els.at, <<Instr("end", q)>>)
  <2> DEFINE a6 == After(els, j4)
  <2> DEFINE a5 == After(j3, a6)
  <2> DEFINE a4 == After(colon, a5)
  <2> DEFINE a3 == After(j2, a4)
  <2> DEFINE a2 == After(then, a3)
  <2> DEFINE a1 == After(j1, a2)
  <2>1. F = After(test, a1)
    BY <1>3 DEF CondExp
  <2> HIDE DEF test, F
  <2>2. q \in 1 .. Len(s) /\ s[q] = "?" /\ q \in h + 1 .. Len(s) /\ q + 1 \in 1 .. Len(s) + 1 /\ q \in Nat
    <3>1. q \in 1 .. Len(s) + 1
      BY <1>1
    <3>2. q \in 1 .. Len(s) /\ CharAt(s, q) = s[q]
      BY <1>3, <3>1, CharRead
    <3> QED BY <1>1, <1>3, <3>2
  <2>3. /\ Instr("jz", q) \in Instrs /\ Instr("jmp", q) \in Instrs
        /\ Instr("else", q) \in Instrs /\ Instr("end", q) \in Instrs
    BY <2>2 DEF Instr, Instrs, Ops
  <2>4. /\ <<Instr("jz", q)>> \in Seq(Instrs) /\ <<Instr("jmp", q)>> \in Seq(Instrs)
        /\ <<Instr("else", q)>> \in Seq(Instrs) /\ <<Instr("end", q)>> \in Seq(Instrs)
    BY <2>3
  <2>5. /\ then \in Results /\ then.at \in q + 1 .. Len(s) + 1
        /\ then.ok => /\ Piece(s, q + 1, then.at - 1, Tests, then.code)
                      /\ then.at \in q + 1+1 .. Len(s) + 1
    BY <2>2, SoundPiece DEF Bans
  <2> HIDE DEF then
  <2>6. then.at \in 1 .. Len(s) + 1 /\ then.at \in Nat
    BY <2>2, <2>5
  <2>7. /\ colon \in Results /\ colon.at \in then.at .. Len(s) + 1
        /\ colon.ok => /\ then.at \in 1 .. Len(s) /\ s[then.at] = ":"
                       /\ colon.at = then.at + 1 /\ colon.code = <<>>
    BY <2>6, MatchIs
  <2> HIDE DEF colon
  <2>8. colon.at \in 1 .. Len(s) + 1 /\ colon.at \in Nat
    BY <2>6, <2>7
  <2>9. /\ els \in Results /\ els.at \in colon.at .. Len(s) + 1
        /\ els.ok => /\ Piece(s, colon.at, els.at - 1, Tests, els.code)
                     /\ els.at \in colon.at + 1 .. Len(s) + 1
    BY <2>8, SoundPiece DEF Bans
  <2> HIDE DEF els
  <2>10. els.at \in Nat
    BY <2>8, <2>9
  <2>11. /\ j1 \in Results /\ j1.ok /\ j1.at = q + 1 /\ j1.code = <<Instr("jz", q)>>
         /\ j2 \in Results /\ j2.ok /\ j2.at = then.at /\ j2.code = <<Instr("jmp", q)>>
         /\ j3 \in Results /\ j3.ok /\ j3.at = colon.at /\ j3.code = <<Instr("else", q)>>
         /\ j4 \in Results /\ j4.ok /\ j4.at = els.at /\ j4.code = <<Instr("end", q)>>
    <3>1. \A k \in Nat, K \in Seq(Instrs) : LET r == Parsed(k, K) IN
            r \in Results /\ r.ok /\ r.at = k /\ r.code = K
      BY PlainResults
    <3>2. q + 1 \in Nat
      BY <2>2
    <3> QED BY <2>4, <2>6, <2>8, <2>10, <3>1, <3>2
  <2> HIDE DEF j1, j2, j3, j4
  <2>12. /\ a6 \in Results /\ a6.at \in {els.at, j4.at} /\ (a6.ok <=> els.ok /\ j4.ok)
         /\ a6.ok => a6.at = j4.at /\ a6.code = els.code \o j4.code
    BY <2>9, <2>11, AfterIs
  <2> HIDE DEF a6
  <2>13. /\ a5 \in Results /\ a5.at \in {j3.at, a6.at} /\ (a5.ok <=> j3.ok /\ a6.ok)
         /\ a5.ok => a5.at = a6.at /\ a5.code = j3.code \o a6.code
    BY <2>11, <2>12, AfterIs
  <2> HIDE DEF a5
  <2>14. /\ a4 \in Results /\ a4.at \in {colon.at, a5.at} /\ (a4.ok <=> colon.ok /\ a5.ok)
         /\ a4.ok => a4.at = a5.at /\ a4.code = colon.code \o a5.code
    BY <2>7, <2>13, AfterIs
  <2> HIDE DEF a4
  <2>15. /\ a3 \in Results /\ a3.at \in {j2.at, a4.at} /\ (a3.ok <=> j2.ok /\ a4.ok)
         /\ a3.ok => a3.at = a4.at /\ a3.code = j2.code \o a4.code
    BY <2>11, <2>14, AfterIs
  <2> HIDE DEF a3
  <2>16. /\ a2 \in Results /\ a2.at \in {then.at, a3.at} /\ (a2.ok <=> then.ok /\ a3.ok)
         /\ a2.ok => a2.at = a3.at /\ a2.code = then.code \o a3.code
    BY <2>5, <2>15, AfterIs
  <2> HIDE DEF a2
  <2>17. /\ a1 \in Results /\ a1.at \in {j1.at, a2.at} /\ (a1.ok <=> j1.ok /\ a2.ok)
         /\ a1.ok => a1.at = a2.at /\ a1.code = j1.code \o a2.code
    BY <2>11, <2>16, AfterIs
  <2> HIDE DEF a1
  <2>18. /\ F \in Results /\ F.at \in {test.at, a1.at} /\ (F.ok <=> test.ok /\ a1.ok)
         /\ F.ok => F.at = a1.at /\ F.code = test.code \o a1.code
    <3>1. /\ After(test, a1) \in Results /\ After(test, a1).at \in {test.at, a1.at}
          /\ After(test, a1).ok <=> test.ok /\ a1.ok
          /\ After(test, a1).ok => /\ After(test, a1).at = a1.at
                                   /\ After(test, a1).code = test.code \o a1.code
      BY <1>1, <2>17, AfterIs
    <3> QED BY <2>1, <3>1
  <2>19. F.at \in h .. Len(s) + 1
    <3>1. F.at \in {test.at, j1.at, then.at, j2.at, colon.at, j3.at, els.at, j4.at}
      BY <2>12, <2>13, <2>14, <2>15, <2>16, <2>17, <2>18
    <3>2. F.at \in {q, q + 1, then.at, colon.at, els.at}
      BY <2>11, <3>1
    <3>3. q \in h .. Len(s) + 1 /\ q + 1 \in h .. Len(s) + 1
      BY <2>2
    <3>4. then.at \in h .. Len(s) + 1
      BY <2>2, <2>5
    <3>5. colon.at \in h .. Len(s) + 1
      BY <2>7, <3>4
    <3>6. els.at \in h .. Len(s) + 1
      BY <2>9, <3>5
    <3> HIDE DEF q
    <3> QED BY <3>2, <3>3, <3>4, <3>5, <3>6
  <2>20. ASSUME F.ok PROVE Piece(s, h, F.at - 1, {}, F.code)
    <3>1. test.ok /\ then.ok /\ colon.ok /\ els.ok /\ F.at = els.at
      BY <2>11, <2>12, <2>13, <2>14, <2>15, <2>16, <2>17, <2>18, <2>20
    <3>2. F.code = CondCode(test.code, then.code, els.code, q)
      <4>1. a6.code = els.code \o <<Instr("end", q)>>
        BY <2>11, <2>12, <3>1
      <4>2. a5.code = <<Instr("else", q)>> \o a6.code
        BY <2>11, <2>12, <2>13, <3>1
      <4>3. a4.code = a5.code
        <5>1. a5.code \in Seq(Instrs)
          BY <2>13 DEF Results
        <5>2. <<>> \o a5.code = a5.code
          BY <5>1
        <5> QED BY <5>2, <2>7, <2>11, <2>12, <2>13, <2>14, <3>1
      <4>4. a3.code = <<Instr("jmp", q)>> \o a4.code
        BY <2>11, <2>12, <2>13, <2>14, <2>15, <3>1
      <4>5. a2.code = then.code \o a3.code
        BY <2>11, <2>12, <2>13, <2>14, <2>15, <2>16, <3>1
      <4>6. a1.code = <<Instr("jz", q)>> \o a2.code
        BY <2>11, <2>12, <2>13, <2>14, <2>15, <2>16, <2>17, <3>1
      <4>7. F.code = test.code \o a1.code
        BY <2>18, <2>20
      <4> QED BY <4>1, <4>2, <4>3, <4>4, <4>5, <4>6, <4>7, Zenon DEF CondCode
    <3>3. s[then.at] = ":" /\ colon.at = then.at + 1
      BY <2>7, <3>1
    <3>4. Piece(s, h, q - 1, Tests, test.code)
      BY <1>1, <3>1
    <3>5. Piece(s, q + 1, then.at - 1, Tests, then.code)
      BY <2>5, <3>1
    <3>6. Piece(s, then.at + 1, els.at - 1, Tests, els.code)
      BY <2>9, <3>1, <3>3
    <3>7. q \in Int /\ then.at \in Int
      BY <2>2, <2>6
    <3> HIDE DEF q
    <3>8. s[q] = "?"
      BY <2>2
    <3>9. Piece(s, h, els.at - 1, {}, CondCode(test.code, then.code, els.code, q))
      BY <3>3, <3>4, <3>5, <3>6, <3>7, <3>8, CondPiece
    <3> QED BY <3>1, <3>2, <3>9
  <2> QED BY <1>0, <2>18, <2>19, <2>20 DEF Sound
<1> QED BY <1>2, <1>3

\* Every nonterminal, from results that are sound.
LEMMA ParseSound ==
  ASSUME NEW s, Len(s) \in Nat, NEW p, AllSound(s, p), NEW what \in Nonterminals,
         NEW h \in 1 .. Len(s) + 1
  PROVE  Sound(s, what, h, Parse(s, p, what, h))
<1>1. Sound(s, "cond", h, Parse(s, p, "cond", h))
  BY CondSound
<1>2. Sound(s, "add", h, Parse(s, p, "add", h))
  BY SumSound
<1>3. Sound(s, "addLoop", h, Parse(s, p, "addLoop", h))
  BY SumRestSound
<1>4. Sound(s, "mul", h, Parse(s, p, "mul", h))
  BY ProductSound
<1>5. Sound(s, "mulLoop", h, Parse(s, p, "mulLoop", h))
  BY ProductRestSound
<1>6. Sound(s, "uminus", h, Parse(s, p, "uminus", h))
  BY UMinusSound
<1>7. Sound(s, "factor", h, Parse(s, p, "factor", h))
  BY FactorSound
<1>8. \/ what = "cond" \/ what = "add" \/ what = "addLoop" \/ what = "mul" \/ what = "mulLoop"
      \/ what = "uminus" \/ what = "factor"
  BY DEF Nonterminals
<1> QED BY <1>1, <1>2, <1>3, <1>4, <1>5, <1>6, <1>7, <1>8

-----------------------------------------------------------------------------
\* The parser's recursion comes to an end: a nonterminal reads further on, or it
\* descends to one that binds more.

Rank(what) ==
  CASE what = "cond" -> 5 [] what = "add" -> 4 [] what = "mul" -> 3
    [] what = "uminus" -> 2 [] what = "factor" -> 1 [] what \in {"addLoop", "mulLoop"} -> 0

\* f and g agree on what a nonterminal at h is made of.
AgreeBelow(s, f, g, what, h) ==
  \A x \in Nonterminals : \A k \in 1 .. Len(s) + 1 :
    k > h \/ (k = h /\ Rank(x) < Rank(what)) => f[<<x, k>>] = g[<<x, k>>]

\* The ranks, spelled out.
LEMMA Ranks ==
  /\ Rank("cond") = 5 /\ Rank("add") = 4 /\ Rank("mul") = 3 /\ Rank("uminus") = 2
  /\ Rank("factor") = 1 /\ Rank("addLoop") = 0 /\ Rank("mulLoop") = 0
  /\ \A what \in Nonterminals : Rank(what) \in 0 .. 5
BY DEF Rank, Nonterminals

\* The rest of a sum or a product.
LEMMA LoopContracts ==
  ASSUME NEW s, Len(s) \in Nat, NEW f, NEW g, AllSound(s, f), NEW h \in 1 .. Len(s) + 1,
         NEW operand \in {"mul", "uminus"}, NEW loop \in {"addLoop", "mulLoop"},
         AgreeBelow(s, f, g, loop, h), NEW ops, "null" \notin ops
  PROVE  OpLoop(s, g, h, ops, operand, loop) = OpLoop(s, f, h, ops, operand, loop)
<1>1. CASE CharAt(s, h) \notin ops
  BY <1>1 DEF OpLoop
<1>2. CASE CharAt(s, h) \in ops
  <2>1. h \in 1 .. Len(s) /\ h + 1 \in 1 .. Len(s) + 1 /\ h + 1 > h
    BY <1>2, CharRead
  <2>2. operand \in Nonterminals /\ loop \in Nonterminals
    BY DEF Nonterminals
  <2> DEFINE r == f[<<operand, h + 1>>]
  <2> DEFINE r2 == g[<<operand, h + 1>>]
  <2>3. r2 = r
    BY <2>1, <2>2 DEF AgreeBelow
  <2>4. r.at \in h + 1 .. Len(s) + 1
    BY <2>1, SoundPiece
  <2> DEFINE l == f[<<loop, r.at>>]
  <2> DEFINE l2 == g[<<loop, r.at>>]
  <2>5. OpLoop(s, f, h, ops, operand, loop)
          = After(r, After(Parsed(r.at, <<Instr(OpOf(CharAt(s, h)), 0)>>), l))
    BY <1>2 DEF OpLoop
  <2>6. OpLoop(s, g, h, ops, operand, loop)
          = After(r2, After(Parsed(r2.at, <<Instr(OpOf(CharAt(s, h)), 0)>>), g[<<loop, r2.at>>]))
    BY <1>2 DEF OpLoop
  <2> HIDE DEF r, r2
  <2>7. r.at \in 1 .. Len(s) + 1 /\ r.at > h
    BY <2>1, <2>4
  <2>8. l2 = l
    BY <2>2, <2>7 DEF AgreeBelow
  <2> QED BY <2>3, <2>5, <2>6, <2>8
<1> QED BY <1>1, <1>2

\* f and g agree on an operand and the rest behind it.
HeadAgrees(f, g, h, operand, loop) ==
  /\ g[<<operand, h>>] = f[<<operand, h>>]
  /\ f[<<operand, h>>].ok
       => g[<<loop, f[<<operand, h>>].at>>] = f[<<loop, f[<<operand, h>>].at>>]

\* The first operand and the rest.
LEMMA HeadContracts ==
  ASSUME NEW s, Len(s) \in Nat, NEW f, NEW g, AllSound(s, f), NEW h \in 1 .. Len(s) + 1,
         NEW operand \in {"mul", "uminus"}, NEW loop \in {"addLoop", "mulLoop"},
         NEW what \in {"add", "mul"}, AgreeBelow(s, f, g, what, h), Rank(operand) < Rank(what)
  PROVE  HeadAgrees(f, g, h, operand, loop)
<1>1. operand \in Nonterminals /\ loop \in Nonterminals /\ h = h
  BY DEF Nonterminals
<1> DEFINE r == f[<<operand, h>>]
<1>2. g[<<operand, h>>] = r
  BY <1>1 DEF AgreeBelow
<1>3. r.ok => r.at \in h + 1 .. Len(s) + 1
  BY SoundPiece
<1> HIDE DEF r
<1>4. r.ok => r.at \in 1 .. Len(s) + 1 /\ r.at > h
  BY <1>3
<1>5. r.ok => g[<<loop, r.at>>] = f[<<loop, r.at>>]
  BY <1>1, <1>4 DEF AgreeBelow
<1> QED BY <1>2, <1>5 DEF HeadAgrees, r

\* parse_cond_exp asks only for what is below it.
LEMMA CondContracts ==
  ASSUME NEW s, Len(s) \in Nat, NEW f, NEW g, AllSound(s, f), NEW h \in 1 .. Len(s) + 1,
         AgreeBelow(s, f, g, "cond", h)
  PROVE  CondExp(s, g, h) = CondExp(s, f, h)
<1>0. "add" \in Nonterminals /\ Rank("add") < Rank("cond")
  BY Ranks DEF Nonterminals
<1> DEFINE test == f[<<"add", h>>]
<1>1. g[<<"add", h>>] = test
  BY <1>0 DEF AgreeBelow
<1>2. test \in Results /\ (test.ok => test.at \in h + 1 .. Len(s) + 1)
  BY SoundPiece
<1>3. CASE ~ test.ok \/ CharAt(s, test.at) # "?"
  BY <1>1, <1>3 DEF CondExp
<1>4. CASE test.ok /\ CharAt(s, test.at) = "?"
  <2> DEFINE q == test.at
  <2> DEFINE then == f[<<"add", q + 1>>]
  <2> DEFINE colon == Match(s, then.at, ":")
  <2>1. q \in h + 1 .. Len(s) /\ q + 1 \in 1 .. Len(s) + 1 /\ q + 1 > h
    <3>1. q \in h + 1 .. Len(s) + 1
      BY <1>2, <1>4
    <3>2. q \in 1 .. Len(s) + 1
      BY <3>1
    <3>3. q \in 1 .. Len(s)
      BY <1>4, <3>2, CharRead
    <3> HIDE DEF q
    <3> QED BY <3>1, <3>3
  <2>2. g[<<"add", q + 1>>] = then
    <3> HIDE DEF q
    <3> QED BY <1>0, <2>1 DEF AgreeBelow
  <2>3. then.at \in q + 1 .. Len(s) + 1
    <3> HIDE DEF q
    <3> QED BY <2>1, SoundPiece
  <2>4. colon.at \in then.at .. Len(s) + 1
    <3> HIDE DEF then
    <3>1. then.at \in 1 .. Len(s) + 1
      BY <2>1, <2>3
    <3> QED BY <3>1, MatchIs
  <2>5. g[<<"add", colon.at>>] = f[<<"add", colon.at>>]
    <3> HIDE DEF colon, then, q
    <3>1. colon.at \in 1 .. Len(s) + 1 /\ colon.at > h
      BY <2>1, <2>3, <2>4
    <3> QED BY <1>0, <3>1 DEF AgreeBelow
  <2> QED BY <1>1, <1>4, <2>2, <2>5 DEF CondExp
<1> QED BY <1>3, <1>4

\* Every nonterminal asks only for what is below it.
LEMMA ParseContracts ==
  ASSUME NEW s, Len(s) \in Nat, NEW f, NEW g, AllSound(s, f), NEW h \in 1 .. Len(s) + 1,
         NEW what \in Nonterminals, AgreeBelow(s, f, g, what, h)
  PROVE  Parse(s, g, what, h) = Parse(s, f, what, h)
<1>1. CASE what = "cond"
  BY <1>1, CondContracts DEF Parse
<1>2. CASE what = "add"
  <2>1. Rank("mul") < Rank("add")
    BY Ranks
  <2>a. /\ "mul" \in {"mul", "uminus"} /\ "addLoop" \in {"addLoop", "mulLoop"}
        /\ "add" \in {"add", "mul"}
    OBVIOUS
  <2>b. AgreeBelow(s, f, g, "add", h)
    BY <1>2
  <2>2. /\ g[<<"mul", h>>] = f[<<"mul", h>>]
        /\ f[<<"mul", h>>].ok
              => g[<<"addLoop", f[<<"mul", h>>].at>>] = f[<<"addLoop", f[<<"mul", h>>].at>>]
    <3>1. HeadAgrees(f, g, h, "mul", "addLoop")
      BY <2>a, <2>b, <2>1, HeadContracts
    <3> QED BY <3>1 DEF HeadAgrees
  <2>3. CASE f[<<"mul", h>>].ok
    BY <1>2, <2>2, <2>3 DEF Parse
  <2>4. CASE ~ f[<<"mul", h>>].ok
    BY <1>2, <2>2, <2>4 DEF Parse
  <2> QED BY <2>3, <2>4
<1>3. CASE what = "mul"
  <2>1. Rank("uminus") < Rank("mul")
    BY Ranks
  <2>a. /\ "uminus" \in {"mul", "uminus"} /\ "mulLoop" \in {"addLoop", "mulLoop"}
        /\ "mul" \in {"add", "mul"}
    OBVIOUS
  <2>b. AgreeBelow(s, f, g, "mul", h)
    BY <1>3
  <2>2. /\ g[<<"uminus", h>>] = f[<<"uminus", h>>]
        /\ f[<<"uminus", h>>].ok
              => g[<<"mulLoop", f[<<"uminus", h>>].at>>] = f[<<"mulLoop", f[<<"uminus", h>>].at>>]
    <3>1. HeadAgrees(f, g, h, "uminus", "mulLoop")
      BY <2>a, <2>b, <2>1, HeadContracts
    <3> QED BY <3>1 DEF HeadAgrees
  <2>3. CASE f[<<"uminus", h>>].ok
    BY <1>3, <2>2, <2>3 DEF Parse
  <2>4. CASE ~ f[<<"uminus", h>>].ok
    BY <1>3, <2>2, <2>4 DEF Parse
  <2> QED BY <2>3, <2>4
<1>4. CASE what = "addLoop"
  <2>1. /\ "null" \notin {"+", "-"} /\ "mul" \in {"mul", "uminus"}
        /\ "addLoop" \in {"addLoop", "mulLoop"}
    OBVIOUS
  <2>b. AgreeBelow(s, f, g, "addLoop", h)
    BY <1>4
  <2>2. OpLoop(s, g, h, {"+", "-"}, "mul", "addLoop") = OpLoop(s, f, h, {"+", "-"}, "mul", "addLoop")
    BY <2>b, <2>1, LoopContracts
  <2> QED BY <1>4, <2>2 DEF Parse
<1>5. CASE what = "mulLoop"
  <2>1. /\ "null" \notin {"*", "/"} /\ "uminus" \in {"mul", "uminus"}
        /\ "mulLoop" \in {"addLoop", "mulLoop"}
    OBVIOUS
  <2>b. AgreeBelow(s, f, g, "mulLoop", h)
    BY <1>5
  <2>2. OpLoop(s, g, h, {"*", "/"}, "uminus", "mulLoop") = OpLoop(s, f, h, {"*", "/"}, "uminus", "mulLoop")
    BY <2>b, <2>1, LoopContracts
  <2> QED BY <1>5, <2>2 DEF Parse
<1>6. CASE what = "uminus"
  <2> DEFINE k == SignsEnd(s, h)
  <2>1. k \in h .. Len(s) + 1
    BY SignsEndIs
  <2>2. k \in 1 .. Len(s) + 1 /\ (k > h \/ k = h)
    BY <2>1
  <2> HIDE DEF k
  <2>3. g[<<"factor", k>>] = f[<<"factor", k>>]
    <3>1. "factor" \in Nonterminals /\ Rank("factor") < Rank("uminus")
      BY Ranks DEF Nonterminals
    <3> QED BY <1>6, <2>2, <3>1 DEF AgreeBelow
  <2>4. \A x : Parse(s, x, "uminus", h) =
          IF (k - h) % 2 = 1
          THEN After(x[<<"factor", k>>], Parsed(x[<<"factor", k>>].at, <<Instr("neg", 0)>>))
          ELSE x[<<"factor", k>>]
    BY DEF Parse, UMinusExp, SignsEnd, k
  <2> QED BY <1>6, <2>3, <2>4
<1>7. CASE what = "factor"
  <2>1. CASE CharAt(s, h) = "("
    <3>1. h + 1 \in 1 .. Len(s) + 1 /\ h + 1 > h
      BY <2>1, CharRead
    <3>2. g[<<"cond", h + 1>>] = f[<<"cond", h + 1>>]
      BY <1>7, <3>1 DEF AgreeBelow, Nonterminals
    <3> QED BY <1>7, <3>2 DEF Parse, Factor
  <2>2. CASE CharAt(s, h) # "("
    BY <1>7, <2>2 DEF Parse, Factor
  <2> QED BY <2>1, <2>2
<1>8. \/ what = "cond" \/ what = "add" \/ what = "addLoop" \/ what = "mul" \/ what = "mulLoop"
      \/ what = "uminus" \/ what = "factor"
  BY DEF Nonterminals
<1> QED BY <1>1, <1>2, <1>3, <1>4, <1>5, <1>6, <1>7, <1>8

\* Where a nonterminal may start, and what it is to be the parser of s.
ParsePlaces(s) == Nonterminals \X (1 .. Len(s) + 1)

\* p is what the parser makes of s.
IsParser(s, p) == p = [x \in ParsePlaces(s) |-> Parse(s, p, x[1], x[2])]

\* How many steps of the recursion a nonterminal at h can take.
Measure(s, what, h) == 6 * (Len(s) + 1 - h) + Rank(what)

\* What is below has a smaller measure.
LEMMA MeasureDescends ==
  ASSUME NEW s, Len(s) \in Nat, NEW what \in Nonterminals, NEW h \in 1 .. Len(s) + 1,
         NEW x \in Nonterminals, NEW k \in 1 .. Len(s) + 1,
         k > h \/ (k = h /\ Rank(x) < Rank(what))
  PROVE  Measure(s, x, k) < Measure(s, what, h)
<1>1. Rank(what) \in 0 .. 5 /\ Rank(x) \in 0 .. 5
  BY Ranks
<1> QED BY <1>1 DEF Measure

\* The measure is a number below a bound.
LEMMA MeasureBound ==
  ASSUME NEW s, Len(s) \in Nat, NEW what \in Nonterminals, NEW h \in 1 .. Len(s) + 1
  PROVE  Measure(s, what, h) \in Nat /\ Measure(s, what, h) < 6 * (Len(s) + 1)
<1>1. Rank(what) \in 0 .. 5
  BY Ranks
<1> QED BY <1>1 DEF Measure

\* What the parser's function gives at a place.
LEMMA AtPlace ==
  ASSUME NEW s, NEW p, NEW what \in Nonterminals, NEW h \in 1 .. Len(s) + 1
  PROVE  [x \in ParsePlaces(s) |-> Parse(s, p, x[1], x[2])][<<what, h>>] = Parse(s, p, what, h)
<1>1. <<what, h>> \in ParsePlaces(s) /\ <<what, h>>[1] = what /\ <<what, h>>[2] = h
  BY DEF ParsePlaces
<1> QED BY <1>1

\* f is right where the recursion is short enough.
RightUpTo(s, f, k) ==
  \A what \in Nonterminals : \A h \in 1 .. Len(s) + 1 :
    Measure(s, what, h) < k => f[<<what, h>>] = Parse(s, f, what, h)

\* There is a parser of s, and it is sound.
LEMMA ParserExists ==
  ASSUME NEW s, Len(s) \in Nat
  PROVE  \E p : IsParser(s, p) /\ AllSound(s, p)
<1> DEFINE More(f) == [x \in ParsePlaces(s) |-> Parse(s, f, x[1], x[2])]
<1> DEFINE T == {k \in Nat : \E f : AllSound(s, f) /\ RightUpTo(s, f, k)}
<1>a. ASSUME NEW f, NEW what \in Nonterminals, NEW h \in 1 .. Len(s) + 1
      PROVE  More(f)[<<what, h>>] = Parse(s, f, what, h)
  BY AtPlace
<1>b. ASSUME NEW f, AllSound(s, f) PROVE AllSound(s, More(f))
  <2> SUFFICES ASSUME NEW what \in Nonterminals, NEW h \in 1 .. Len(s) + 1
               PROVE  Sound(s, what, h, More(f)[<<what, h>>])
    BY DEF AllSound
  <2>1. Sound(s, what, h, Parse(s, f, what, h))
    BY <1>b, ParseSound
  <2> QED BY <1>a, <2>1
<1> HIDE DEF More
<1>c. ASSUME NEW f, AllSound(s, f), NEW k \in Nat, RightUpTo(s, f, k),
             NEW what \in Nonterminals, NEW h \in 1 .. Len(s) + 1, Measure(s, what, h) < k + 1
      PROVE  Parse(s, More(f), what, h) = Parse(s, f, what, h)
  <2>1. ASSUME NEW x \in Nonterminals, NEW y \in 1 .. Len(s) + 1,
               y > h \/ (y = h /\ Rank(x) < Rank(what))
        PROVE  f[<<x, y>>] = More(f)[<<x, y>>]
    <3>1. Measure(s, x, y) < Measure(s, what, h) /\ Measure(s, x, y) \in Nat
          /\ Measure(s, what, h) \in Nat
      BY <2>1, MeasureDescends, MeasureBound
    <3>2. Measure(s, x, y) < k
      BY <1>c, <3>1
    <3>3. f[<<x, y>>] = Parse(s, f, x, y)
      BY <1>c, <3>2 DEF RightUpTo
    <3> QED BY <1>a, <3>3
  <2>2. AgreeBelow(s, f, More(f), what, h)
    BY <2>1 DEF AgreeBelow
  <2> QED BY <1>c, <2>2, ParseContracts
<1>1. 0 \in T
  <2> DEFINE f == [x \in ParsePlaces(s) |-> Stop(x[2])]
  <2>1. ASSUME NEW what \in Nonterminals, NEW h \in 1 .. Len(s) + 1
        PROVE  Sound(s, what, h, f[<<what, h>>])
    <3>1. <<what, h>> \in ParsePlaces(s) /\ <<what, h>>[2] = h
      BY DEF ParsePlaces
    <3>2. f[<<what, h>>] = Stop(h)
      BY <3>1
    <3>3. Stop(h) \in Results /\ ~ Stop(h).ok /\ Stop(h).at = h
      BY DEF Stop, Results
    <3> HIDE DEF f
    <3> QED BY <3>2, <3>3 DEF Sound
  <2>2. AllSound(s, f)
    BY <2>1 DEF AllSound
  <2>3. RightUpTo(s, f, 0)
    BY MeasureBound DEF RightUpTo
  <2> HIDE DEF f
  <2> QED BY <2>2, <2>3
<1>2. ASSUME NEW k \in Nat, k \in T PROVE k + 1 \in T
  <2>1. PICK f : AllSound(s, f) /\ RightUpTo(s, f, k)
    BY <1>2
  <2>2. RightUpTo(s, More(f), k + 1)
    BY <1>a, <1>c, <2>1 DEF RightUpTo
  <2>3. AllSound(s, More(f))
    BY <1>b, <2>1
  <2> QED BY <2>2, <2>3
<1>3. 6 * (Len(s) + 1) \in T
  <2> HIDE DEF T
  <2>1. 6 * (Len(s) + 1) \in Nat
    OBVIOUS
  <2> QED BY <1>1, <1>2, <2>1, Induction
<1>4. PICK f : AllSound(s, f) /\ RightUpTo(s, f, 6 * (Len(s) + 1))
  BY <1>3
<1>5. AllSound(s, More(f))
  BY <1>4, <1>b
<1>6. ASSUME NEW what \in Nonterminals, NEW h \in 1 .. Len(s) + 1
      PROVE  Parse(s, f, what, h) = Parse(s, More(f), what, h)
  <2>1. Measure(s, what, h) < 6 * (Len(s) + 1) + 1 /\ 6 * (Len(s) + 1) \in Nat
    <3>1. Measure(s, what, h) \in Nat /\ Measure(s, what, h) < 6 * (Len(s) + 1)
      BY MeasureBound
    <3> QED BY <3>1
  <2> QED BY <1>4, <1>c, <2>1
<1>7. ASSUME NEW x \in ParsePlaces(s) PROVE Parse(s, f, x[1], x[2]) = Parse(s, More(f), x[1], x[2])
  <2>1. x[1] \in Nonterminals /\ x[2] \in 1 .. Len(s) + 1
    BY DEF ParsePlaces
  <2> QED BY <1>6, <2>1
<1>8. IsParser(s, More(f))
  <2>1. More(f) = [x \in ParsePlaces(s) |-> Parse(s, f, x[1], x[2])]
    BY DEF More
  <2> DEFINE w == More(f)
  <2>2. w = [x \in ParsePlaces(s) |-> Parse(s, f, x[1], x[2])]
        /\ \A x \in ParsePlaces(s) : Parse(s, f, x[1], x[2]) = Parse(s, w, x[1], x[2])
    BY <2>1, <1>7
  <2> HIDE DEF w
  <2>3. w = [x \in ParsePlaces(s) |-> Parse(s, w, x[1], x[2])]
    BY <2>2
  <2> QED BY <2>3 DEF w, IsParser
<1> QED BY <1>5, <1>8

\* There is only one.
LEMMA ParserUnique ==
  ASSUME NEW s, Len(s) \in Nat, NEW f, NEW p, IsParser(s, f), AllSound(s, f), IsParser(s, p)
  PROVE  AllSound(s, p)
<1> DEFINE T == {k \in Nat : \A what \in Nonterminals : \A h \in 1 .. Len(s) + 1 :
                               Measure(s, what, h) < k => f[<<what, h>>] = p[<<what, h>>]}
<1>a. ASSUME NEW what \in Nonterminals, NEW h \in 1 .. Len(s) + 1
      PROVE  f[<<what, h>>] = Parse(s, f, what, h) /\ p[<<what, h>>] = Parse(s, p, what, h)
  BY AtPlace DEF IsParser
<1>1. 0 \in T
  BY MeasureBound
<1>2. ASSUME NEW k \in Nat, k \in T PROVE k + 1 \in T
  <2> SUFFICES ASSUME NEW what \in Nonterminals, NEW h \in 1 .. Len(s) + 1,
                      Measure(s, what, h) < k + 1
               PROVE  f[<<what, h>>] = p[<<what, h>>]
    OBVIOUS
  <2>1. ASSUME NEW x \in Nonterminals, NEW y \in 1 .. Len(s) + 1,
               y > h \/ (y = h /\ Rank(x) < Rank(what))
        PROVE  f[<<x, y>>] = p[<<x, y>>]
    <3>1. Measure(s, x, y) < Measure(s, what, h) /\ Measure(s, x, y) \in Nat
          /\ Measure(s, what, h) \in Nat
      BY <2>1, MeasureDescends, MeasureBound
    <3>2. Measure(s, x, y) < k
      BY <3>1
    <3> QED BY <1>2, <3>2
  <2>2. AgreeBelow(s, f, p, what, h)
    BY <2>1 DEF AgreeBelow
  <2>3. Parse(s, p, what, h) = Parse(s, f, what, h)
    BY <2>2, ParseContracts
  <2> QED BY <1>a, <2>3
<1>3. 6 * (Len(s) + 1) \in T
  <2> HIDE DEF T
  <2>1. 6 * (Len(s) + 1) \in Nat
    OBVIOUS
  <2> QED BY <1>1, <1>2, <2>1, Induction
<1>4. ASSUME NEW what \in Nonterminals, NEW h \in 1 .. Len(s) + 1 PROVE f[<<what, h>>] = p[<<what, h>>]
  <2>1. Measure(s, what, h) < 6 * (Len(s) + 1)
    BY MeasureBound
  <2> QED BY <1>3, <2>1
<1> QED BY <1>4 DEF AllSound

\* What parse_exp makes of a string that it takes is the code of a piece and the footer.
LEMMA ParsedExpression ==
  ASSUME NEW s \in Seq(Chars), ParseExp(s).ok
  PROVE  \E L : /\ Piece(s, 1, Len(s), {}, L)
                /\ ParseExp(s).code = L \o <<Instr("footer", 0)>>
<1> DEFINE p == CHOOSE x : IsParser(s, x)
<1> DEFINE r == p[<<"cond", 1>>]
<1> DEFINE m == Match(s, r.at, "null")
<1> DEFINE foot == <<Instr("footer", 0)>>
<1> DEFINE t == Parsed(Len(s) + 1, foot)
<1>0. Len(s) \in Nat
  OBVIOUS
<1>1. ParseExp(s) = After(After(r, m), t)
  BY DEF ParseExp, IsParser, ParsePlaces
<1>2. AllSound(s, p)
  <2>1. PICK f : IsParser(s, f) /\ AllSound(s, f)
    BY <1>0, ParserExists
  <2>2. IsParser(s, p)
    BY <2>1
  <2> HIDE DEF p
  <2> QED BY <1>0, <2>1, <2>2, ParserUnique
<1> HIDE DEF p
<1>3. /\ r \in Results /\ r.at \in 1 .. Len(s) + 1
      /\ r.ok => Piece(s, 1, r.at - 1, {}, r.code)
  <2>1. 1 \in 1 .. Len(s) + 1 /\ "cond" \in {"cond", "add", "mul", "uminus", "factor"}
    BY <1>0
  <2> QED BY <1>0, <1>2, <2>1, SoundPiece DEF Bans
<1> HIDE DEF r
<1>4. m \in Results /\ (m.ok => r.at = Len(s) + 1 /\ m.code = <<>>)
  <2>1. CASE CharAt(s, r.at) = "null"
    <3>1. r.at = Len(s) + 1
      <4> SUFFICES ASSUME r.at \in 1 .. Len(s) PROVE FALSE
        BY <1>0, <1>3
      <4>1. s[r.at] \in Chars /\ CharAt(s, r.at) = s[r.at]
        BY DEF CharAt
      <4>2. "null" \notin Chars
        BY ExprAssumption DEF Chars, Operators
      <4> QED BY <2>1, <4>1, <4>2
    <3>2. m = Parsed(r.at + 1, <<>>)
      BY <2>1 DEF Match
    <3>3. r.at + 1 \in Nat /\ <<>> \in Seq(Instrs)
      BY <1>3
    <3> HIDE DEF m
    <3> QED BY <3>1, <3>2, <3>3, PlainResults
  <2>2. CASE CharAt(s, r.at) # "null"
    <3>1. m = Stop(r.at)
      BY <2>2 DEF Match
    <3>2. r.at \in Nat
      BY <1>3
    <3> HIDE DEF m
    <3> QED BY <3>1, <3>2 DEF Stop, Results
  <2> QED BY <2>1, <2>2
<1> HIDE DEF m
<1>5. foot \in Seq(Instrs)
  <2>1. Instr("footer", 0) \in Instrs
    BY DEF Instr, Instrs, Ops
  <2> QED BY <2>1
<1> HIDE DEF foot
<1>6. t \in Results /\ t.ok /\ t.code = foot
  BY <1>0, <1>5, PlainResults
<1> HIDE DEF t
<1> DEFINE a == After(r, m)
<1>7. /\ a \in Results /\ (a.ok <=> r.ok /\ m.ok)
      /\ a.ok => a.code = r.code \o m.code
  BY <1>3, <1>4, AfterIs
<1> HIDE DEF a
<1> DEFINE b == After(a, t)
<1>8. /\ b.ok <=> a.ok /\ t.ok
      /\ b.ok => b.code = a.code \o t.code
  BY <1>6, <1>7, AfterIs
<1>9. ParseExp(s) = b
  BY <1>1 DEF a
<1> HIDE DEF b
<1>10. r.ok /\ m.ok /\ r.at = Len(s) + 1
  BY <1>4, <1>7, <1>8, <1>9
<1>11. a.code = r.code
  <2>1. r.code \in Seq(Instrs)
    BY <1>3 DEF Results
  <2>2. r.code \o <<>> = r.code
    BY <2>1
  <2> QED BY <1>4, <1>7, <1>10, <2>2
<1>12. r.at - 1 = Len(s)
  BY <1>0, <1>10
<1>13. Piece(s, 1, Len(s), {}, r.code)
  BY <1>3, <1>10, <1>12
<1>14. ParseExp(s).code = r.code \o foot
  BY <1>6, <1>8, <1>9, <1>10, <1>11, <1>7
<1> QED BY <1>13, <1>14 DEF foot

-----------------------------------------------------------------------------
\* The program runs: from every state of it the machine comes to an end.

\* The end of a run of c that should compute V: the footer, with one word on the
\* stack, or a division by zero.
Ends(c, e, t, V) ==
  \/ c[e].op = "footer" /\ \E w \in Words : t = <<w>> /\ (V.plain => w = V.val % Word)
  \/ Traps(c, e, t) /\ ~ V.plain

Runs(c, a, s, V) == \E e, t : Leads(c, a, s, e, t) /\ Ends(c, e, t, V)

\* No step leaves an end.
LEMMA EndsThere ==
  ASSUME NEW c, NEW a, NEW s, NEW b, NEW t, NEW V, Ends(c, a, s, V)
  PROVE  ~ Moves(c, a, s, b, t)
BY DEF Ends, Traps, Moves

\* A step does not leave the way to the end.
LEMMA RunsOn ==
  ASSUME NEW c, NEW a, NEW s, NEW b, NEW t, NEW V, Runs(c, a, s, V), Moves(c, a, s, b, t)
  PROVE  Runs(c, b, t, V)
<1>1. PICK e, u : Leads(c, a, s, e, u) /\ Ends(c, e, u, V)
  BY DEF Runs
<1>2. <<e, u>> # <<a, s>>
  BY <1>1, EndsThere
<1>3. Leads(c, b, t, e, u)
  <2> SUFFICES ASSUME NEW W, <<b, t>> \in W, Closed(c, W) PROVE <<e, u>> \in W
    BY DEF Leads
  <2> DEFINE X == W \cup {<<a, s>>}
  <2>1. Closed(c, X)
    <3> SUFFICES ASSUME NEW f, NEW y, NEW d, NEW z, <<f, y>> \in X, Moves(c, f, y, d, z)
                 PROVE  <<d, z>> \in X
      BY DEF Closed
    <3>1. CASE <<f, y>> \in W
      BY <3>1 DEF Closed
    <3>2. CASE <<f, y>> = <<a, s>>
      <4>1. d = b /\ z = t
        BY <3>2, Deterministic
      <4> QED BY <4>1
    <3> QED BY <3>1, <3>2
  <2>2. <<a, s>> \in X
    OBVIOUS
  <2> HIDE DEF X
  <2>3. <<e, u>> \in X
    BY <1>1, <2>1, <2>2 DEF Leads
  <2> QED BY <1>2, <2>3 DEF X
<1> QED BY <1>1, <1>3 DEF Runs

\* Where no step goes on, the end is reached.
LEMMA RunsEnd ==
  ASSUME NEW c, NEW a, NEW s, NEW V, Runs(c, a, s, V), \A b, t : ~ Moves(c, a, s, b, t)
  PROVE  Ends(c, a, s, V)
<1>1. PICK e, u : Leads(c, a, s, e, u) /\ Ends(c, e, u, V)
  BY DEF Runs
<1> DEFINE X == {<<a, s>>}
<1>2. Closed(c, X) /\ <<a, s>> \in X
  BY DEF Closed
<1> HIDE DEF X
<1>3. <<e, u>> \in X
  BY <1>1, <1>2 DEF Leads
<1>4. e = a /\ u = s
  BY <1>3 DEF X
<1> QED BY <1>1, <1>4

\* What the parser prints runs to an end that has the value of the expression.
LEMMA ParsedRuns ==
  ASSUME NEW s \in Seq(Chars), ParseExp(s).ok
  PROVE  Runs(ParseExp(s).code, 1, <<>>, Value(s))
<1> DEFINE c == ParseExp(s).code
<1> DEFINE x == Instr("footer", 0)
<1>1. PICK L : Piece(s, 1, Len(s), {}, L) /\ c = L \o <<x>>
  BY ParsedExpression
<1>2. L \in Seq(Instrs) /\ Fresh(L, Labels(1, Len(s))) /\ Computes(L, ValuesOf(s)[<<1, Len(s)>>])
  BY <1>1 DEF Piece
<1>3. x \in Instrs /\ x.op = "footer"
  BY DEF Instr, Instrs, Ops
<1> HIDE DEF x, c
<1>4. Value(s) = ValuesOf(s)[<<1, Len(s)>>]
  <2>1. Len(s) \in Nat
    OBVIOUS
  <2> QED BY <2>1, ValuesOfParts
<1> DEFINE V == Value(s)
<1> HIDE DEF V
<1>5. Computes(L, V)
  BY <1>2, <1>4 DEF V
<1>6. Fresh(<<x>>, {}) /\ <<x>> \in Seq(Instrs)
  <2>1. x.op \notin {"else", "end"}
    BY <1>3
  <2>2. Fresh(<<x>>, {})
    BY <2>1, FreshOne
  <2> QED BY <1>3, <2>2
<1>7. Fresh(L \o <<x>>, Labels(1, Len(s)) \cup {}) /\ L \o <<x>> \in Seq(Instrs)
  <2>1. Labels(1, Len(s)) \cap {} = {}
    OBVIOUS
  <2> DEFINE S == Labels(1, Len(s))
  <2>2. Fresh(L, S) /\ S \cap {} = {}
    BY <1>2, <2>1
  <2> HIDE DEF S
  <2>3. Fresh(L \o <<x>>, S \cup {})
    BY <1>2, <1>6, <2>2, FreshBoth
  <2>4. L \o <<x>> \in Seq(Instrs)
    BY <1>2, <1>6
  <2> QED BY <2>3, <2>4 DEF S
<1>8. Embeds(c, 1, c)
  BY <1>1, <1>7, EmbedsAll
<1>9. Embeds(c, 1, L) /\ Embeds(c, 1 + Len(L), <<x>>)
  BY <1>1, <1>2, <1>6, <1>8, EmbedsBoth
<1> DEFINE b == 1 + Len(L)
<1>10. b \in Nat
  BY <1>2
<1>11. c[b].op = "footer"
  BY <1>3, <1>9, <1>10, EmbedsOne
<1>12. <<>> \in Seq(Words)
  OBVIOUS
<1>13. Yields(c, 1, <<>>, b, V)
  BY <1>5, <1>9, <1>12, ComputesAt
<1> HIDE DEF b
<1>14. CASE \E w \in Words : (V.plain => w = V.val % Word) /\ Leads(c, 1, <<>>, b, Append(<<>>, w))
  <2>1. PICK w \in Words : (V.plain => w = V.val % Word) /\ Leads(c, 1, <<>>, b, Append(<<>>, w))
    BY <1>14
  <2>2. Append(<<>>, w) = <<w>>
    OBVIOUS
  <2>3. Ends(c, b, <<w>>, V)
    BY <1>11, <2>1 DEF Ends
  <2>4. Leads(c, 1, <<>>, b, <<w>>)
    BY <2>1, <2>2
  <2> QED BY <2>3, <2>4 DEF Runs, V, c
<1>15. CASE ~ V.plain /\ \E e, t : Traps(c, e, t) /\ Leads(c, 1, <<>>, e, t)
  <2>1. PICK e, t : Traps(c, e, t) /\ Leads(c, 1, <<>>, e, t)
    BY <1>15
  <2>2. Ends(c, e, t, V)
    BY <1>15, <2>1 DEF Ends
  <2> QED BY <2>1, <2>2 DEF Runs, V, c
<1> QED BY <1>13, <1>14, <1>15 DEF Yields

-----------------------------------------------------------------------------
\* The inductive invariant: before the program runs the machine is at its start; from
\* there on it is on the way to an end that has the value of the expression.
ExprInv ==
  /\ str \in Seq(Chars)
  /\ phase = "typing" => ip = 1 /\ stack = <<>>
  /\ phase = "run" => Runs(code, ip, stack, Value(str))
  /\ ExprComputed

\* A step of the running program is one of the machine.
LEMMA StepMoves ==
  ASSUME phase = "run", Push \/ Negate \/ Binary \/ Jump
  PROVE  /\ Moves(code, ip, stack, ip', stack')
         /\ UNCHANGED <<str, phase, code>>
<1>1. CASE Push
  BY <1>1 DEF Push, Moves
<1>2. CASE Negate
  BY <1>2 DEF Negate, Moves, Top, Pop, LastOf, Beneath
<1>3. CASE Binary
  BY <1>3 DEF Binary, Moves, Top, Pop, LastOf, Beneath
<1>4. CASE Jump
  BY <1>4 DEF Jump, Moves, Top, Pop, LastOf, Beneath, Target, Labelled
<1> QED BY <1>1, <1>2, <1>3, <1>4

\* ExprInv holds in every behaviour of parse_expr.c: the code that main prints comes
\* to its end.
THEOREM ExprInvariance == ExprSpec => []ExprInv
<1>1. ExprInit => ExprInv
  <2> SUFFICES ASSUME ExprInit PROVE ExprInv
    OBVIOUS
  <2>1. <<>> \in Seq(Chars)
    OBVIOUS
  <2> QED BY <2>1 DEF ExprInit, ExprInv, ExprComputed
<1>2. ExprInv /\ [ExprNext]_exprVars => ExprInv'
  <2> SUFFICES ASSUME ExprInv, [ExprNext]_exprVars PROVE ExprInv'
    OBVIOUS
  <2>1. CASE TypeChar
    <3>1. /\ phase = "typing" /\ UNCHANGED <<phase, code, ip, stack, shown>>
          /\ \E c \in Chars : str' = Append(str, c)
      BY <2>1 DEF TypeChar
    <3>2. str \in Seq(Chars)
      BY DEF ExprInv
    <3>3. str' \in Seq(Chars)
      BY <3>1, <3>2
    <3> QED BY <3>1, <3>3 DEF ExprInv, ExprComputed
  <2>2. CASE Compile
    <3>1. phase = "typing" /\ UNCHANGED <<str, ip, stack, shown>> /\ ip = 1 /\ stack = <<>>
      BY <2>2 DEF Compile, ExprInv
    <3>2. \/ ParseExp(str).ok /\ phase' = "run" /\ code' = ParseExp(str).code
          \/ phase' \in {"rejected", "quit"}
      BY <2>2 DEF Compile
    <3>3. str \in Seq(Chars) /\ str' = str /\ Value(str') = Value(str)
      BY <3>1 DEF ExprInv
    <3>4. CASE ParseExp(str).ok /\ phase' = "run" /\ code' = ParseExp(str).code
      <4>1. Runs(ParseExp(str).code, 1, <<>>, Value(str))
        BY <3>3, <3>4, ParsedRuns
      <4>2. Runs(code', ip', stack', Value(str'))
        BY <3>1, <3>3, <3>4, <4>1
      <4> QED BY <3>3, <3>4, <4>2 DEF ExprInv, ExprComputed
    <3>5. CASE phase' \in {"rejected", "quit"}
      BY <3>3, <3>5 DEF ExprInv, ExprComputed
    <3> QED BY <3>2, <3>4, <3>5
  <2>3. CASE Push \/ Negate \/ Binary \/ Jump
    <3>1. phase = "run"
      BY <2>3 DEF Push, Negate, Binary, Jump
    <3>2. Moves(code, ip, stack, ip', stack') /\ UNCHANGED <<str, phase, code>>
      BY <2>3, <3>1, StepMoves
    <3>3. Runs(code, ip, stack, Value(str)) /\ str \in Seq(Chars)
      BY <3>1 DEF ExprInv
    <3>4. Runs(code, ip', stack', Value(str))
      BY <3>2, <3>3, RunsOn
    <3>5. Runs(code', ip', stack', Value(str'))
      BY <3>2, <3>4
    <3> QED BY <3>1, <3>2, <3>3, <3>5 DEF ExprInv, ExprComputed
  <2>4. CASE DivideByZero
    <3>1. /\ phase = "run" /\ code[ip].op = "div" /\ LastOf(stack) = 0
          /\ phase' = "trapped" /\ UNCHANGED <<str, code, ip, stack, shown>>
      BY <2>4 DEF DivideByZero, Top, LastOf
    <3>2. Runs(code, ip, stack, Value(str)) /\ str \in Seq(Chars)
      BY <3>1 DEF ExprInv
    <3>3. \A b, t : ~ Moves(code, ip, stack, b, t)
      BY <3>1 DEF Moves
    <3>4. Ends(code, ip, stack, Value(str))
      BY <3>2, <3>3, RunsEnd
    <3>5. ~ Value(str).plain
      BY <3>1, <3>4 DEF Ends
    <3>6. ~ Value(str').plain /\ str' \in Seq(Chars)
      BY <3>1, <3>2, <3>5
    <3> QED BY <3>1, <3>6 DEF ExprInv, ExprComputed
  <2>5. CASE Footer
    <3>1. /\ phase = "run" /\ code[ip].op = "footer"
          /\ shown' = Low(LastOf(stack)) /\ stack' = Beneath(stack, 1)
          /\ phase' = "done" /\ str' = str
      BY <2>5 DEF Footer, Top, Pop, LastOf, Beneath
    <3>2. Runs(code, ip, stack, Value(str)) /\ str \in Seq(Chars)
      BY <3>1 DEF ExprInv
    <3>3. \A b, t : ~ Moves(code, ip, stack, b, t)
      BY <3>1 DEF Moves
    <3>4. Ends(code, ip, stack, Value(str))
      BY <3>2, <3>3, RunsEnd
    <3>5. PICK w \in Words : stack = <<w>> /\ (Value(str).plain => w = Value(str).val % Word)
      BY <3>1, <3>4 DEF Ends, Traps
    <3>6. LastOf(stack) = w /\ Beneath(stack, 1) = <<>>
      BY <3>5 DEF LastOf, Beneath
    <3>7. stack' = <<>> /\ (Value(str).plain => shown' = Low(Value(str).val % Word))
      BY <3>1, <3>5, <3>6
    <3>8. Value(str') = Value(str) /\ str' \in Seq(Chars)
      BY <3>1, <3>2
    <3> QED BY <3>1, <3>7, <3>8 DEF ExprInv, ExprComputed
  <2>6. CASE UNCHANGED exprVars
    BY <2>6 DEF exprVars, ExprInv, ExprComputed
  <2> QED BY <2>1, <2>2, <2>3, <2>4, <2>5, <2>6 DEF ExprNext
<1> QED BY <1>1, <1>2, PTL DEF ExprSpec

\* ExprComputed holds in every behaviour of parse_expr.c, for expressions of any length
\* over any digits: a program that runs to its end shows the value of the expression
\* and leaves nothing on the stack, and one that stops has divided by zero.
THEOREM ExpressionComputed == ExprSpec => []ExprComputed
<1>1. ExprInv => ExprComputed
  BY DEF ExprInv
<1> QED BY <1>1, ExprInvariance, PTL
=============================================================================
