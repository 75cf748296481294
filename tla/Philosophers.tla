---------------------------- MODULE Philosophers ----------------------------
(***************************************************************************)
(* The dining philosophers of philosophers.c: N threads around N sticks,   *)
(* each stick a POSIX semaphore initialised to 1.  Every thread eats       *)
(* Rounds times.  It takes the stick at the lower address first, whichever *)
(* hand that is, and puts its left stick down before its right one.  main  *)
(* initialises the sticks, creates the threads one after the other (the    *)
(* first ones already run), joins them in order and destroys the sticks.   *)
(*                                                                         *)
(* One step is one sem_wait, one sem_post, or one pthread or sem_destroy   *)
(* call of main.  The fprintf calls between them are left out.             *)
(***************************************************************************)
EXTENDS Naturals

CONSTANTS
  N,        \* number of philosophers and of sticks (3 in the code)
  Rounds    \* meals of each philosopher (100 in the code)

ASSUME NAssumption == N \in Nat /\ N >= 2
ASSUME RoundsAssumption == Rounds \in Nat \ {0}

VARIABLES
  stick,    \* stick[s]: the value of semaphore s
  pc,       \* pc[p]: where thread p is in its loop body
  meals,    \* meals[p]: the loop counter i of thread p
  mainPc,   \* which of its loops main is in
  mainI     \* the loop counter i of main

vars == <<stick, pc, meals, mainPc, mainI>>

Phil == 0..N-1
Stick == 0..N-1

Left(p) == p
Right(p) == (p + 1) % N

\* Mutation: each philosopher reaches for its left stick first.
OrderByHand(p) == <<Left(p), Right(p)>>

\* MIN and MAX compare the addresses of the two sticks, that is their indices.
Order(p) ==
  IF Left(p) < Right(p) THEN <<Left(p), Right(p)>> ELSE <<Right(p), Left(p)>>

First(p) == Order(p)[1]
Second(p) == Order(p)[2]

-----------------------------------------------------------------------------

Init ==
  /\ stick = [s \in Stick |-> 1]
  /\ pc = [p \in Phil |-> "unborn"]
  /\ meals = [p \in Phil |-> 0]
  /\ mainPc = "create"
  /\ mainI = 0

\* sem_wait on stick s: blocks while the semaphore is 0.
SemWait(s) == stick[s] > 0 /\ stick' = [stick EXCEPT ![s] = @ - 1]

SemPost(s) == stick' = [stick EXCEPT ![s] = @ + 1]

Goto(p, from, to) == pc[p] = from /\ pc' = [pc EXCEPT ![p] = to]

TakeFirst(p) ==
  /\ Goto(p, "hungry", "hasFirst")
  /\ SemWait(First(p))
  /\ UNCHANGED <<meals, mainPc, mainI>>

TakeSecond(p) ==
  /\ Goto(p, "hasFirst", "eating")
  /\ SemWait(Second(p))
  /\ UNCHANGED <<meals, mainPc, mainI>>

\* Mutation: the stick taken first is put down first.
PutFirst(p) ==
  /\ Goto(p, "eating", "hasRight")
  /\ SemPost(First(p))
  /\ UNCHANGED <<meals, mainPc, mainI>>

PutLeft(p) ==
  /\ Goto(p, "eating", "hasRight")
  /\ SemPost(Left(p))
  /\ UNCHANGED <<meals, mainPc, mainI>>

\* Mutation: the left stick is put down twice.
PutLeftAgain(p) ==
  /\ Goto(p, "hasRight", IF meals[p] + 1 < Rounds THEN "hungry" ELSE "done")
  /\ SemPost(Left(p))
  /\ meals' = [meals EXCEPT ![p] = @ + 1]
  /\ UNCHANGED <<mainPc, mainI>>

\* The last statement of the loop body: i++ and the loop test follow it.
PutRight(p) ==
  /\ Goto(p, "hasRight", IF meals[p] + 1 < Rounds THEN "hungry" ELSE "done")
  /\ SemPost(Right(p))
  /\ meals' = [meals EXCEPT ![p] = @ + 1]
  /\ UNCHANGED <<mainPc, mainI>>

Thread(p) == TakeFirst(p) \/ TakeSecond(p) \/ PutLeft(p) \/ PutRight(p)

\* Where main's loop counter goes, and the loop that follows this one.
MainLoop(this, following) ==
  /\ mainPc = this
  /\ IF mainI + 1 < N
       THEN mainI' = mainI + 1 /\ mainPc' = this
       ELSE mainI' = 0 /\ mainPc' = following

CreateThread ==
  /\ MainLoop("create", "join")
  /\ Goto(mainI, "unborn", "hungry")
  /\ UNCHANGED <<stick, meals>>

\* Mutation: main does not wait for the threads.
SkipJoin ==
  /\ MainLoop("join", "destroy")
  /\ UNCHANGED <<stick, pc, meals>>

JoinThread ==
  /\ MainLoop("join", "destroy")
  /\ pc[mainI] = "done"
  /\ UNCHANGED <<stick, pc, meals>>

DestroyStick ==
  /\ MainLoop("destroy", "exit")
  /\ UNCHANGED <<stick, pc, meals>>

\* main has returned: the program stays stopped.
Exited == mainPc = "exit" /\ UNCHANGED vars

Main == CreateThread \/ JoinThread \/ DestroyStick

Next == Main \/ (\E p \in Phil : Thread(p)) \/ Exited

(***************************************************************************)
(* Every thread is scheduled: the kernel never stops running a thread that *)
(* stays able to run.  sem_wait promises no order among waiters, so weak   *)
(* fairness is all that is assumed of it.                                  *)
(***************************************************************************)
Fairness == WF_vars(Main) /\ \A p \in Phil : WF_vars(Thread(p))

Spec == Init /\ [][Next]_vars

FairSpec == Spec /\ Fairness

-----------------------------------------------------------------------------

Locations == {"unborn", "hungry", "hasFirst", "eating", "hasRight", "done"}

\* The type invariant.
TypeOK ==
  /\ stick \in [Stick -> 0..1]
  /\ pc \in [Phil -> Locations]
  /\ meals \in [Phil -> 0..Rounds]
  /\ mainPc \in {"create", "join", "destroy", "exit"}
  /\ mainI \in 0..N-1

\* The sticks in the hands of p, read off its program counter.
Holds(p) ==
  CASE pc[p] = "hasFirst" -> {First(p)}
    [] pc[p] = "eating"   -> {Left(p), Right(p)}
    [] pc[p] = "hasRight" -> {Right(p)}
    [] OTHER              -> {}

\* No stick is in two hands: the waits and posts of thread_func pair up
\* around the table although the first stick taken is the left one for some
\* and the right one for others, while the left one is always put down first.
NoSharedStick ==
  \A p, q \in Phil : p # q => Holds(p) \cap Holds(q) = {}

\* A semaphore is 0 exactly while somebody holds its stick: no sem_post of a
\* stick the thread does not hold, none forgotten.
StickAccounted ==
  \A s \in Stick : stick[s] = IF \E p \in Phil : s \in Holds(p) THEN 0 ELSE 1

\* Thread p can take its next step.
CanStep(p) ==
  \/ pc[p] = "hungry" /\ stick[First(p)] > 0
  \/ pc[p] = "hasFirst" /\ stick[Second(p)] > 0
  \/ pc[p] \in {"eating", "hasRight"}

\* No circular wait: whenever a thread has started and not finished, some
\* thread can step.  This is what taking the MIN stick first is for.
NoCircularWait ==
  (\E p \in Phil : pc[p] \notin {"unborn", "done"}) => \E q \in Phil : CanStep(q)

\* The sticks that main has destroyed so far.
Destroyed == {s \in Stick : mainPc = "exit" \/ (mainPc = "destroy" /\ s < mainI)}

\* sem_destroy is called on a stick only when no thread can use it any more.
NoUseAfterDestroy ==
  Destroyed # {} => \A p \in Phil : pc[p] = "done"

\* Every thread finishes its meals and main returns.
Termination == <>(mainPc = "exit")
=============================================================================
