-------------------------- MODULE TicTacToeSignals --------------------------
(***************************************************************************)
(* tictactoe.c: the players are two processes that pass the board through  *)
(* a file and the turn with SIGUSR1.  The parent is X, its child is O.     *)
(*                                                                         *)
(* sigprocmask is given SIGUSR1 where SIG_BLOCK belongs, so that it fails: *)
(* the signal is never blocked while a process runs, and prev, the mask    *)
(* that sigsuspend takes, holds what was on the stack.  The fork copies    *)
(* it: either it blocks SIGUSR1 in both processes or in none.              *)
(*                                                                         *)
(* A step is one test or assignment of my_turn, one call, or the delivery  *)
(* of a signal by the kernel, which happens between any two of them.  The  *)
(* players own disjoint boards, so that `mark` is one step.                *)
(***************************************************************************)
EXTENDS TicTacToe

VARIABLES
  file,        \* the board in tictactoe.txt; <<>> while it is empty
  board,       \* board[p]: the copy of process p
  myTurn,      \* myTurn[p]: my_turn # 0 in process p
  pending,     \* pending[p]: a SIGUSR1 for p is not delivered yet
  prevBlocks,  \* the uninitialised prev blocks SIGUSR1
  pc           \* pc[p]: where process p is

vars == <<file, board, myTurn, pending, prevBlocks, pc>>

Parent == X
Child == O

\* fork has returned in both processes.
Init ==
  /\ file = <<>>
  /\ board = [p \in Player |-> EmptyBoard]
  /\ myTurn = [p \in Player |-> FALSE]
  /\ pending = [p \in Player |-> FALSE]
  /\ prevBlocks \in BOOLEAN
  /\ pc = [p \in Player |-> IF p = Child THEN "write" ELSE "loop"]

Goto(p, from, to) == pc[p] = from /\ pc' = [pc EXCEPT ![p] = to]

\* while (!hasWinner(board))
LoopTest(p) ==
  /\ pc[p] = "loop"
  /\ IF HasWinner(board[p]) THEN Goto(p, "loop", "reap") ELSE Goto(p, "loop", "test")
  /\ UNCHANGED <<file, board, myTurn, pending, prevBlocks>>

\* while (!my_turn)
TurnTest(p) ==
  /\ pc[p] = "test"
  /\ IF myTurn[p] THEN Goto(p, "test", "reset") ELSE Goto(p, "test", "suspend")
  /\ UNCHANGED <<file, board, myTurn, pending, prevBlocks>>

\* sigsuspend(&prev) begins: only a signal that is delivered from now on ends it.
Suspend(p) ==
  /\ Goto(p, "suspend", "asleep")
  /\ UNCHANGED <<file, board, myTurn, pending, prevBlocks>>

Blocked(p) == pc[p] = "asleep" /\ prevBlocks

\* sigusr_handler runs, and ends the sigsuspend that it interrupts.
Deliver(p) ==
  /\ pending[p] /\ ~ Blocked(p)
  /\ pending' = [pending EXCEPT ![p] = FALSE]
  /\ myTurn' = [myTurn EXCEPT ![p] = TRUE]
  /\ IF pc[p] = "asleep" THEN Goto(p, "asleep", "test") ELSE UNCHANGED pc
  /\ UNCHANGED <<file, board, prevBlocks>>

\* Mutation: my_turn is not reset.
KeepTurn(p) ==
  /\ Goto(p, "reset", "read")
  /\ UNCHANGED <<file, board, myTurn, pending, prevBlocks>>

\* my_turn = 0
ResetTurn(p) ==
  /\ Goto(p, "reset", "read")
  /\ myTurn' = [myTurn EXCEPT ![p] = FALSE]
  /\ UNCHANGED <<file, board, pending, prevBlocks>>

\* Mutation: without the fseek the stream is at its end, and board stays as it was.
ReadNothing(p) ==
  /\ pc[p] = "read"
  /\ IF HasWinner(board[p]) THEN Goto(p, "read", "reap") ELSE Goto(p, "read", "mark")
  /\ UNCHANGED <<file, board, myTurn, pending, prevBlocks>>

\* read_board, and the way out of the loop when the other has won.  From an empty
\* file fscanf reads nothing.
ReadBoard(p) ==
  /\ pc[p] = "read"
  /\ board' = [board EXCEPT ![p] = IF file = <<>> THEN @ ELSE file]
  /\ IF HasWinner(board'[p]) THEN Goto(p, "read", "reap") ELSE Goto(p, "read", "mark")
  /\ UNCHANGED <<file, myTurn, pending, prevBlocks>>

MarkCell(p) ==
  /\ Goto(p, "mark", "write")
  /\ board' = [board EXCEPT ![p] = Marked(board[p], p)]
  /\ UNCHANGED <<file, myTurn, pending, prevBlocks>>

\* write_board: of the move, or of the empty board when the child starts.
WriteBoard(p) ==
  /\ Goto(p, "write", "kill")
  /\ file' = board[p]
  /\ UNCHANGED <<board, myTurn, pending, prevBlocks>>

\* Mutation: a player that has won does not wake the other.
KillUnlessWon(p) ==
  /\ Goto(p, "kill", "loop")
  /\ pending' = [pending EXCEPT ![Other(p)] = ~ HasWinner(board[p])]
  /\ UNCHANGED <<file, board, myTurn, prevBlocks>>

\* kill(pid_other, SIGUSR1): a signal that is pending already is not queued.
Kill(p) ==
  /\ Goto(p, "kill", "loop")
  /\ pending' = [pending EXCEPT ![Other(p)] = TRUE]
  /\ UNCHANGED <<file, board, myTurn, prevBlocks>>

\* waitpid(pid_other): pid_other is never the process itself, so that the child
\* calls it too, where it fails at once because its parent is not its child.
Reap(p) ==
  /\ Goto(p, "reap", "exit")
  /\ p = Parent => pc[Child] = "exit"
  /\ UNCHANGED <<file, board, myTurn, pending, prevBlocks>>

Process(p) ==
  \/ LoopTest(p) \/ TurnTest(p) \/ Suspend(p) \/ Deliver(p) \/ ResetTurn(p)
  \/ ReadBoard(p) \/ MarkCell(p) \/ WriteBoard(p) \/ Kill(p) \/ Reap(p)

Next == \E p \in Player : Process(p)

Spec == Init /\ [][Next]_vars

-----------------------------------------------------------------------------

\* The type invariant.
TypeOK ==
  /\ file \in Boards \cup {<<>>}
  /\ board \in [Player -> Boards]
  /\ myTurn \in [Player -> BOOLEAN]
  /\ pending \in [Player -> BOOLEAN]
  /\ prevBlocks \in BOOLEAN
  /\ pc \in [Player -> {"loop", "test", "suspend", "asleep", "reset", "read", "mark",
                        "write", "kill", "reap", "exit"}]

\* Where the turn can be: with a process that may use the file, in a signal that
\* is not delivered, or in a my_turn that the process has not seen.
Turns ==
  {<<p, "pending">> : p \in {q \in Player : pending[q]}}
    \cup {<<p, "flag">> : p \in {q \in Player : myTurn[q]}}
    \cup {<<p, "playing">> :
            p \in {q \in Player : pc[q] \in {"read", "mark", "write", "kill"}}}

\* There is never more than one turn, so that the processes never use the file at
\* the same time and no two signals merge; and the turn is gone only when the
\* loser has read the winner's board.
OneTurn ==
  /\ \A s, t \in Turns : s = t
  /\ Turns = {} => /\ \E p \in Player : pc[p] \in {"reap", "exit"}
                   /\ HasWinner(file)

Abstract == INSTANCE Game WITH board <- IF file = <<>> THEN EmptyBoard ELSE file

\* The boards that the file shows are a game: one move each in turn, the one that
\* `mark` computes, and none after a win.
ImplementsGame == Abstract!Spec

\* No process can run: each has ended, sleeps, or waits for the other to end.
Halted ==
  \A p \in Player :
    /\ pc[p] \in {"asleep", "reap", "exit"}
    /\ pc[p] = "asleep" => ~ (pending[p] /\ ~ prevBlocks)
    /\ pc[p] = "reap" => p = Parent /\ pc[Child] # "exit"

\* When nothing can run any more both processes have ended, or one has slept
\* through its signal: it came just before the sigsuspend, or prev blocks it.
StopsOnlyByLostSignal ==
  Halted => \/ \A p \in Player : pc[p] = "exit"
            \/ \E p \in Player : pc[p] = "asleep" /\ (myTurn[p] \/ pending[p])

\* tictactoe.c:98 says "while !my_turn, wait for a signal": no process waits for
\* a signal when it is its turn.
WaitsOnlyWithoutTurn == \A p \in Player : pc[p] = "asleep" => ~ myTurn[p]
=============================================================================
