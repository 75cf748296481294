-------------------------- MODULE TicTacToeThreads --------------------------
(***************************************************************************)
(* "tictactoe2 (1).c": the players are two threads that share the board    *)
(* and pass the turn with two semaphores.  simulatePlay tries moves on the *)
(* shared board itself and takes them back, so that the board shows marks  *)
(* that are no moves while a player thinks.                                *)
(*                                                                         *)
(* A step is one semaphore or pthread call, or one access to the board.    *)
(***************************************************************************)
EXTENDS TicTacToe

VARIABLES
  board,    \* the board that both threads use
  sem,      \* sem[p]: the semaphore that player p waits on
  pc,       \* pc[p]: where thread p is
  who,      \* who[p]: the player that p's simulatePlay moves for
  at,       \* at[p]: the loop counter i of p's simulatePlay
  index,    \* index[p]: the variable i of p's mark; -1 when no cell was free
  mainPc    \* the call that main makes next

vars == <<board, sem, pc, who, at, index, mainPc>>

locals == <<who, at, index>>

Init ==
  /\ board = EmptyBoard
  /\ sem = [p \in Player |-> IF p = X THEN 1 ELSE 0]
  /\ pc = [p \in Player |-> "unborn"]
  /\ who = [p \in Player |-> p]
  /\ at = [p \in Player |-> 0]
  /\ index = [p \in Player |-> -1]
  /\ mainPc = "createX"

Goto(p, from, to) == pc[p] = from /\ pc' = [pc EXCEPT ![p] = to]

\* Mutation: a sem_wait that a signal interrupts is taken for a turn.
WaitInterrupted(p) ==
  /\ Goto(p, "wait", "check")
  /\ UNCHANGED <<board, sem, locals, mainPc>>

\* sem_wait(p->my_turn)
WaitTurn(p) ==
  /\ Goto(p, "wait", "check")
  /\ sem[p] > 0
  /\ sem' = [sem EXCEPT ![p] = @ - 1]
  /\ UNCHANGED <<board, locals, mainPc>>

\* The start of simulatePlay for player q.
Simulate(p, q) ==
  /\ who' = [who EXCEPT ![p] = q]
  /\ at' = [at EXCEPT ![p] = 0]

\* The game is over, or p begins to think, first for its opponent.
CheckWinner(p) ==
  /\ pc[p] = "check"
  /\ IF HasWinner(board)
       THEN Goto(p, "check", "leave") /\ UNCHANGED locals
       ELSE /\ Goto(p, "check", "try")
            /\ Simulate(p, Other(p))
            /\ index' = [index EXCEPT ![p] = -1]
  /\ UNCHANGED <<board, sem, mainPc>>

\* The free cells that p's simulatePlay has not tried yet.
Untried(p) == {i \in Free(board) : i >= at[p]}

\* A mark is put on the next free cell.
TryCell(p) ==
  /\ Goto(p, "try", "undo")
  /\ \E i \in Untried(p) :
       /\ \A j \in Untried(p) : i <= j
       /\ board' = Put(board, i, who[p])
       /\ at' = [at EXCEPT ![p] = i]
  /\ UNCHANGED <<sem, who, index, mainPc>>

\* Mutation: the cell that wins is not taken back.
UndoLosing(p) ==
  /\ pc[p] = "undo"
  /\ index' = [index EXCEPT ![p] = at[p]]
  /\ IF HasWinner(board)
       THEN Goto(p, "undo", "mark") /\ UNCHANGED <<board, at>>
       ELSE /\ board' = Put(board, at[p], EMPTY)
            /\ Goto(p, "undo", "try") /\ at' = [at EXCEPT ![p] = @ + 1]
  /\ UNCHANGED <<sem, who, mainPc>>

\* And taken back; a win ends the simulation.
UndoCell(p) ==
  /\ pc[p] = "undo"
  /\ board' = Put(board, at[p], EMPTY)
  /\ index' = [index EXCEPT ![p] = at[p]]
  /\ IF HasWinner(board)
       THEN Goto(p, "undo", "mark") /\ UNCHANGED at
       ELSE Goto(p, "undo", "try") /\ at' = [at EXCEPT ![p] = @ + 1]
  /\ UNCHANGED <<sem, who, mainPc>>

\* No cell is left to try: mark turns from the opponent's moves to its own.
EndSimulation(p) ==
  /\ pc[p] = "try"
  /\ Untried(p) = {}
  /\ IF who[p] = p
       THEN Goto(p, "try", "mark") /\ UNCHANGED <<who, at>>
       ELSE Simulate(p, p) /\ UNCHANGED pc
  /\ UNCHANGED <<board, sem, index, mainPc>>

\* The move itself, when there is one.
Mark(p) ==
  /\ Goto(p, "mark", "post")
  /\ board' = IF index[p] >= 0 THEN Put(board, index[p], p) ELSE board
  /\ UNCHANGED <<sem, locals, mainPc>>

\* Mutation: both semaphores are posted.
PostBoth(p) ==
  /\ Goto(p, "post", "wait")
  /\ sem' = [q \in Player |-> sem[q] + 1]
  /\ UNCHANGED <<board, locals, mainPc>>

\* sem_post(p->your_turn) after a move
Post(p) ==
  /\ Goto(p, "post", "wait")
  /\ sem' = [sem EXCEPT ![Other(p)] = @ + 1]
  /\ UNCHANGED <<board, locals, mainPc>>

\* Mutation: the thread that finds a winner leaves without a word.
LeaveSilently(p) ==
  /\ Goto(p, "leave", "done")
  /\ UNCHANGED <<board, sem, locals, mainPc>>

\* sem_post(p->your_turn) and pthread_exit after a win
Leave(p) ==
  /\ Goto(p, "leave", "done")
  /\ sem' = [sem EXCEPT ![Other(p)] = @ + 1]
  /\ UNCHANGED <<board, locals, mainPc>>

Thread(p) ==
  \/ WaitTurn(p) \/ CheckWinner(p) \/ TryCell(p) \/ UndoCell(p)
  \/ EndSimulation(p) \/ Mark(p) \/ Post(p) \/ Leave(p)

MainStep(from, to) == mainPc = from /\ mainPc' = to /\ UNCHANGED <<board, sem, locals>>

Create(p, from, to) == MainStep(from, to) /\ Goto(p, "unborn", "wait")

Join(p, from, to) == MainStep(from, to) /\ pc[p] = "done" /\ UNCHANGED pc

Main ==
  \/ Create(X, "createX", "createO") \/ Create(O, "createO", "joinX")
  \/ Join(X, "joinX", "joinO") \/ Join(O, "joinO", "destroy")
  \/ MainStep("destroy", "exit") /\ UNCHANGED pc

Exited == mainPc = "exit" /\ UNCHANGED vars

Next == Main \/ (\E p \in Player : Thread(p)) \/ Exited

Spec == Init /\ [][Next]_vars

\* The kernel schedules every thread that stays able to run.
FairSpec == Spec /\ WF_vars(Main) /\ \A p \in Player : WF_vars(Thread(p))

-----------------------------------------------------------------------------

\* The type invariant.
TypeOK ==
  /\ board \in Boards
  /\ sem \in [Player -> 0..1]
  /\ pc \in [Player -> {"unborn", "wait", "check", "try", "undo", "mark", "post",
                        "leave", "done"}]
  /\ who \in [Player -> Player]
  /\ at \in [Player -> 0..9]
  /\ index \in [Player -> -1..8]
  /\ mainPc \in {"createX", "createO", "joinX", "joinO", "destroy", "exit"}

\* Thread p is between its sem_wait and its sem_post: the board is its own.
HasTurn(p) == pc[p] \in {"check", "try", "undo", "mark", "post", "leave"}

\* There is one turn: it is in one of the semaphores or with one of the
\* threads.  In particular no thread reads the board while the other tries
\* moves on it, and none is left waiting when the other has gone.
OneTurn ==
  sem[X] + sem[O] + (IF HasTurn(X) THEN 1 ELSE 0) + (IF HasTurn(O) THEN 1 ELSE 0) = 1

\* The moves made: the board without the mark that a player is trying.
Moves ==
  [i \in Cell |-> IF \E p \in Player : pc[p] = "undo" /\ at[p] = i THEN EMPTY ELSE board[i]]

Abstract == INSTANCE Game WITH board <- Moves

\* Seen from outside, the threads play the game: one move each in turn, the one
\* that `mark` computes on the board without tried marks, and none after a win.
ImplementsGame == Abstract!Spec

\* The game ends with a winner and main returns: after the last move each
\* thread is woken once more to see it.
Termination == <>(mainPc = "exit" /\ HasWinner(board))
=============================================================================
