----------------------- MODULE TicTacToeThreadsProofs -----------------------
(***************************************************************************)
(* Proofs about TicTacToeThreads: the variables keep their types, and      *)
(* there is always exactly one turn.  The two go together: a semaphore     *)
(* stays below 2 because the turn is one, and the turn stays one because   *)
(* only a thread that has it posts it.                                     *)
(* From the one turn follows that the threads play one game, although they *)
(* try moves on the board they share.                                      *)
(***************************************************************************)
EXTENDS TicTacToeThreads, FiniteSets, FiniteSetTheorems, TLAPS

USE MarksAssumption

-----------------------------------------------------------------------------
(* Boards and moves: a move puts one mark on a free cell, and so passes the *)
(* turn, as the marks on the board tell it, to the other player.            *)

\* There are two players.
LEMMA OtherPlayer ==
  ASSUME NEW p \in Player
  PROVE  Other(p) \in Player /\ Other(p) # p /\ Player = {p, Other(p)}
BY DEF Other, Player

\* A mark on a cell makes a board of a board.
LEMMA PutType ==
  ASSUME NEW b \in Boards, NEW i \in Cell, NEW m \in Player \cup {EMPTY}
  PROVE  Put(b, i, m) \in Boards
BY DEF Put, Boards

\* simulatePlay finds a free cell, when there is one.
LEMMA SimulatedFree ==
  ASSUME NEW b \in Boards, NEW q \in Player, Free(b) # {}
  PROVE  SimulatedIndex(b, q) \in Free(b)
<1>1. Winning(b, q) \subseteq Free(b) /\ Free(b) \subseteq Cell
  BY DEF Winning, Free
<1>2. CASE Winning(b, q) # {}
  <2>1. \E i \in Winning(b, q) : \A j \in Winning(b, q) : i <= j
    BY <1>1, <1>2 DEF Cell
  <2> QED
    BY <1>1, <1>2, <2>1 DEF SimulatedIndex
<1>3. CASE Winning(b, q) = {}
  <2>1. \E i \in Free(b) : \A j \in Free(b) : j <= i
    BY <1>1 DEF Cell
  <2> QED
    BY <1>3, <2>1 DEF SimulatedIndex
<1> QED
  BY <1>2, <1>3

\* Which cell it finds.
LEMMA FirstWin ==
  ASSUME NEW b, NEW w, NEW i \in Winning(b, w), \A j \in Winning(b, w) : j >= i
  PROVE  SimulatedIndex(b, w) = i
<1>1. Winning(b, w) \subseteq Cell
  BY DEF Winning, Free
<1>2. \A j \in Cell : \A k \in Cell : j <= k /\ k <= j => j = k
  BY DEF Cell
<1>3. \A j \in Winning(b, w) : i <= j
  BY <1>1 DEF Cell
<1> QED
  BY <1>1, <1>2, <1>3 DEF SimulatedIndex

LEMMA LastFree ==
  ASSUME NEW b, NEW w, Winning(b, w) = {}, NEW i \in Free(b), \A j \in Free(b) : j <= i
  PROVE  SimulatedIndex(b, w) = i
<1>1. \A j \in Cell : \A k \in Cell : j <= k /\ k <= j => j = k
  BY DEF Cell
<1> QED
  BY <1>1 DEF SimulatedIndex, Free

\* A move on a board that is not full puts the player's mark on a free cell.
LEMMA MarkedFree ==
  ASSUME NEW b \in Boards, NEW p \in Player, Free(b) # {}
  PROVE  \E i \in Free(b) : Marked(b, p) = Put(b, i, p)
<1> DEFINE mover == IF Winning(b, Other(p)) # {} THEN Other(p) ELSE p
<1>1. mover \in Player
  BY OtherPlayer
<1>2. SimulatedIndex(b, mover) \in Free(b)
  BY <1>1, SimulatedFree
<1> QED
  BY <1>2 DEF Marked

\* So does a move.
LEMMA MarkedType ==
  ASSUME NEW b \in Boards, NEW p \in Player
  PROVE  Marked(b, p) \in Boards
<1>1. CASE Free(b) = {}
  BY <1>1 DEF Marked
<1>2. CASE Free(b) # {}
  BY <1>2, MarkedFree, PutType DEF Free
<1> QED
  BY <1>1, <1>2

-----------------------------------------------------------------------------
(* Whose turn it is, by the marks.                                        *)

Marks(b, p) == {i \in Cell : b[i] = p}

\* By the marks on board b it is p's turn, or no move is left.
ToMove(b, p) ==
  \/ Free(b) = {}
  \/ Cardinality(Marks(b, X)) = Cardinality(Marks(b, O)) + (IF p = X THEN 0 ELSE 1)

\* The marks of a player can be counted.
LEMMA MarksFinite ==
  ASSUME NEW b, NEW p
  PROVE  IsFiniteSet(Marks(b, p)) /\ Cardinality(Marks(b, p)) \in Nat
<1>1. IsFiniteSet(Cell)
  <2>1. 0 \in Int /\ 8 \in Int
    OBVIOUS
  <2> QED
    BY <2>1, FS_Interval, Zenon DEF Cell
<1>2. Marks(b, p) \in SUBSET Cell
  BY DEF Marks
<1> QED
  BY <1>1, <1>2, FS_Subset, FS_CardinalityType

\* A mark on a free cell is one mark more, and none of the other player's.
LEMMA PutMarks ==
  ASSUME NEW b \in Boards, NEW p \in Player, NEW i \in Free(b)
  PROVE  /\ Cardinality(Marks(Put(b, i, p), p)) = Cardinality(Marks(b, p)) + 1
         /\ Marks(Put(b, i, p), Other(p)) = Marks(b, Other(p))
<1>1. Marks(Put(b, i, p), p) = Marks(b, p) \cup {i} /\ i \notin Marks(b, p)
  BY DEF Marks, Put, Boards, Free, Player
<1>2. Marks(Put(b, i, p), Other(p)) = Marks(b, Other(p))
  BY OtherPlayer DEF Marks, Put, Boards, Free, Player
<1> QED
  BY <1>1, <1>2, MarksFinite, FS_AddElement

\* After a move it is the other player's turn.
LEMMA MoveTurns ==
  ASSUME NEW b \in Boards, NEW p \in Player, ToMove(b, p)
  PROVE  ToMove(Marked(b, p), Other(p))
<1>1. CASE Free(b) = {}
  BY <1>1 DEF Marked, ToMove
<1>2. CASE Free(b) # {}
  <2>1. PICK i \in Free(b) : Marked(b, p) = Put(b, i, p)
    BY <1>2, MarkedFree
  <2> DEFINE x  == Cardinality(Marks(b, X))
             o  == Cardinality(Marks(b, O))
             x1 == Cardinality(Marks(Put(b, i, p), X))
             o1 == Cardinality(Marks(Put(b, i, p), O))
  <2>2. x \in Nat /\ o \in Nat
    BY MarksFinite
  <2>3. x = o + (IF p = X THEN 0 ELSE 1)
    BY <1>2 DEF ToMove
  <2>4. CASE p = X
    <3>1. x1 = x + 1 /\ o1 = o
      BY <2>4, PutMarks DEF Other
    <3> QED
      BY <2>1, <2>2, <2>3, <2>4, <3>1 DEF ToMove, Other
  <2>5. CASE p = O
    <3>1. o1 = o + 1 /\ x1 = x
      BY <2>5, PutMarks DEF Other
    <3> QED
      BY <2>1, <2>2, <2>3, <2>5, <3>1 DEF ToMove, Other
  <2> QED
    BY <2>4, <2>5 DEF Player
<1> QED
  BY <1>1, <1>2

\* X moves first.
LEMMA EmptyToMove == EmptyBoard \in Boards /\ ToMove(EmptyBoard, X)
<1>1. Marks(EmptyBoard, X) = {} /\ Marks(EmptyBoard, O) = {}
  BY DEF Marks, EmptyBoard
<1> QED
  BY <1>1, FS_EmptySet DEF ToMove, EmptyBoard, Boards

-----------------------------------------------------------------------------
(* Types and turns                                                         *)

\* A thread that has put a mark on trial knows the cell.
TrialCell == \A p \in Player : pc[p] = "undo" => at[p] \in Cell

IInv == TypeOK /\ OneTurn /\ TrialCell

\* The turn, seen from one of the threads.
TurnsOf(p) == sem[p] + (IF HasTurn(p) THEN 1 ELSE 0)

LEMMA OneTurnBetween ==
  ASSUME TypeOK, NEW p \in Player
  PROVE  OneTurn <=> TurnsOf(p) + TurnsOf(Other(p)) = 1
<1>1. sem[X] \in Int /\ sem[O] \in Int
  BY DEF TypeOK, Player
<1>2. CASE p = X
  BY <1>1, <1>2 DEF OneTurn, TurnsOf, Other
<1>3. CASE p = O
  BY <1>1, <1>3 DEF OneTurn, TurnsOf, Other
<1> QED
  BY <1>2, <1>3 DEF Player

LEMMA OneTurnBetweenNext ==
  ASSUME TypeOK', NEW p \in Player
  PROVE  OneTurn' <=> (TurnsOf(p) + TurnsOf(Other(p)) = 1)'
<1>1. sem'[X] \in Int /\ sem'[O] \in Int
  BY DEF TypeOK, Player
<1>2. CASE p = X
  BY <1>1, <1>2 DEF OneTurn, TurnsOf, Other, HasTurn
<1>3. CASE p = O
  BY <1>1, <1>3 DEF OneTurn, TurnsOf, Other, HasTurn
<1> QED
  BY <1>2, <1>3 DEF Player

\* A step keeps the turn single when it keeps TurnsOf both threads together.
LEMMA TurnKept ==
  ASSUME IInv, TypeOK', NEW p \in Player,
         TurnsOf(p)' + TurnsOf(Other(p))' = TurnsOf(p) + TurnsOf(Other(p))
  PROVE  OneTurn'
BY OneTurnBetween, OneTurnBetweenNext DEF IInv

LEMMA InitHolds == Init => IInv
<1> SUFFICES ASSUME Init PROVE IInv
  OBVIOUS
<1>1. TypeOK
  BY DEF Init, TypeOK, EmptyBoard, Boards
<1>2. OneTurn
  BY DEF Init, OneTurn, HasTurn, Player
<1>3. TrialCell
  BY DEF Init, TrialCell
<1> QED
  BY <1>1, <1>2, <1>3 DEF IInv

\* The values of the variables of a thread, as the proofs below use them.
LEMMA ThreadTypes ==
  ASSUME TypeOK, NEW p \in Player
  PROVE  /\ sem[p] \in 0..1
         /\ sem[Other(p)] \in 0..1
         /\ who[p] \in Player
         /\ at[p] \in 0..9
         /\ index[p] \in -1..8
BY OtherPlayer DEF TypeOK

\* sem_wait takes the turn out of p's semaphore, and p has it.
LEMMA WaitTurnStep ==
  ASSUME IInv, NEW p \in Player, WaitTurn(p)
  PROVE  IInv'
<1> USE OtherPlayer, ThreadTypes DEF IInv
<1>1. TypeOK'
  BY DEF WaitTurn, Goto, TypeOK, locals
<1>2. TurnsOf(p)' = TurnsOf(p) /\ TurnsOf(Other(p))' = TurnsOf(Other(p))
  BY DEF WaitTurn, Goto, TypeOK, locals, TurnsOf, HasTurn
<1>3. OneTurn'
  BY <1>1, <1>2, TurnKept
<1>4. TrialCell'
  BY DEF WaitTurn, Goto, TypeOK, locals, TrialCell
<1> QED
  BY <1>1, <1>3, <1>4

\* The steps of a thread that keeps the turn it has.
LEMMA BoardStep ==
  ASSUME IInv, NEW p \in Player,
         CheckWinner(p) \/ TryCell(p) \/ UndoCell(p) \/ EndSimulation(p) \/ Mark(p)
  PROVE  IInv'
<1> USE OtherPlayer, ThreadTypes DEF IInv
<1>1. TypeOK' /\ TrialCell'
  <2>1. CASE CheckWinner(p)
    BY <2>1 DEF CheckWinner, Simulate, Goto, TypeOK, locals, TrialCell
  <2>2. CASE TryCell(p)
    <3>1. PICK i \in Cell : board' = Put(board, i, who[p]) /\ at' = [at EXCEPT ![p] = i]
      BY <2>2 DEF TryCell, Untried, Free
    <3>2. board' \in Boards
      BY <3>1, PutType DEF TypeOK
    <3> QED
      BY <2>2, <3>1, <3>2 DEF TryCell, Goto, TypeOK, TrialCell, Cell
  <2>3. CASE UndoCell(p)
    <3>1. at[p] \in Cell
      BY <2>3 DEF UndoCell, TrialCell
    <3>2. board' \in Boards
      BY <2>3, <3>1, PutType DEF UndoCell, TypeOK
    <3> QED
      BY <2>3, <3>1, <3>2 DEF UndoCell, Goto, TypeOK, TrialCell, Cell
  <2>4. CASE EndSimulation(p)
    BY <2>4 DEF EndSimulation, Simulate, Goto, TypeOK, TrialCell
  <2>5. CASE Mark(p)
    <3>1. CASE index[p] >= 0
      <4>1. index[p] \in Cell
        BY <3>1 DEF Cell
      <4>2. Put(board, index[p], p) \in Boards
        BY <4>1, PutType DEF TypeOK
      <4> QED
        BY <2>5, <3>1, <4>2 DEF Mark, Goto, TypeOK, locals, TrialCell
    <3>2. CASE ~ (index[p] >= 0)
      BY <2>5, <3>2 DEF Mark, Goto, TypeOK, locals, TrialCell
    <3> QED
      BY <3>1, <3>2
  <2> QED
    BY <2>1, <2>2, <2>3, <2>4, <2>5
<1>2. sem' = sem /\ HasTurn(p) /\ HasTurn(p)' /\ pc'[Other(p)] = pc[Other(p)]
  BY DEF CheckWinner, TryCell, UndoCell, EndSimulation, Mark, Simulate, Goto, TypeOK,
         HasTurn
<1>3. OneTurn'
  BY <1>1, <1>2, TurnKept DEF TurnsOf, HasTurn
<1> QED
  BY <1>1, <1>3

\* sem_post, after a move or after a win: the turn goes to the other's semaphore,
\* which is 0 because p has the turn.
LEMMA PostStep ==
  ASSUME IInv, NEW p \in Player, Post(p) \/ Leave(p)
  PROVE  IInv'
<1> USE OtherPlayer, ThreadTypes DEF IInv
<1>1. HasTurn(p)
  BY DEF Post, Leave, Goto, HasTurn
<1>2. sem[Other(p)] = 0
  BY <1>1, OneTurnBetween DEF TurnsOf
<1>3. TypeOK'
  BY <1>2 DEF Post, Leave, Goto, TypeOK, locals
<1>4. /\ TurnsOf(p)' = TurnsOf(p) - 1
      /\ TurnsOf(Other(p))' = TurnsOf(Other(p)) + 1
  BY DEF Post, Leave, Goto, TypeOK, locals, TurnsOf, HasTurn
<1>5. TurnsOf(p) \in Int /\ TurnsOf(Other(p)) \in Int
  BY DEF TurnsOf
<1>6. OneTurn'
  BY <1>3, <1>4, <1>5, TurnKept
<1>7. TrialCell'
  BY DEF Post, Leave, Goto, TypeOK, locals, TrialCell
<1> QED
  BY <1>3, <1>6, <1>7

\* main creates threads that have no turn yet, and joins threads that have left.
LEMMA MainKeeps ==
  ASSUME IInv, Main
  PROVE  IInv'
<1> USE DEF IInv
<1>1. /\ mainPc' \in {"createO", "joinX", "joinO", "destroy", "exit"}
      /\ board' = board /\ sem' = sem /\ who' = who /\ at' = at /\ index' = index
  BY DEF Main, Create, Join, MainStep, locals
<1>2. pc' = pc \/ \E p \in Player : Goto(p, "unborn", "wait")
  BY DEF Main, Create, Join, Player
<1>3. TypeOK'
  BY <1>1, <1>2 DEF TypeOK, Goto
<1>4. \A p \in Player : HasTurn(p)' <=> HasTurn(p)
  BY <1>2 DEF TypeOK, Goto, HasTurn
<1>5. OneTurn'
  BY <1>1, <1>4 DEF OneTurn, Player
<1>6. TrialCell'
  BY <1>1, <1>2 DEF TrialCell, Goto, TypeOK
<1> QED
  BY <1>3, <1>5, <1>6

LEMMA Unchanged ==
  ASSUME IInv, UNCHANGED vars
  PROVE  IInv'
BY DEF IInv, vars, locals, TypeOK, OneTurn, HasTurn, TrialCell

\* The invariant is inductive.
THEOREM Invariance == Spec => []IInv
<1>1. Init => IInv
  BY InitHolds
<1>2. IInv /\ [Next]_vars => IInv'
  <2> SUFFICES ASSUME IInv, [Next]_vars PROVE IInv'
    OBVIOUS
  <2>1. CASE Main
    BY <2>1, MainKeeps
  <2>2. ASSUME NEW p \in Player, Thread(p) PROVE IInv'
    BY <2>2, WaitTurnStep, BoardStep, PostStep DEF Thread
  <2>3. CASE UNCHANGED vars
    BY <2>3, Unchanged
  <2> QED
    BY <2>1, <2>2, <2>3 DEF Next, Exited
<1> QED
  BY <1>1, <1>2, PTL DEF Spec

\* The variables keep their types; in particular a semaphore is never above 1.
THEOREM TypeCorrect == Spec => []TypeOK
<1>1. IInv => TypeOK
  BY DEF IInv
<1> QED
  BY <1>1, Invariance, PTL

\* The turn is in one semaphore or with one thread, whatever the threads find on
\* the board: game's sem_wait and sem_post alone keep a thread from reading the
\* marks that the other only tries.
THEOREM TurnIsOne == Spec => []OneTurn
<1>1. IInv => OneTurn
  BY DEF IInv
<1> QED
  BY <1>1, Invariance, PTL

-----------------------------------------------------------------------------
(* The game, without the marks on trial.                                   *)

Simulating(p) == pc[p] \in {"try", "undo"}

\* What p's simulatePlay has found out about the cells before at[p]: none wins, and
\* index is the last free one; and about the opponent, once it moves for p itself.
Thinking(p) ==
  /\ Simulating(p) => /\ \A i \in Winning(Moves, who[p]) : i >= at[p]
                      /\ who[p] = p => Winning(Moves, Other(p)) = {}
  /\ pc[p] = "try" => /\ index[p] \in Free(Moves) \cup {-1}
                      /\ \A i \in Free(Moves) : i < at[p] => i <= index[p]
  /\ pc[p] = "undo" => at[p] \in Free(Moves) /\ board = Put(Moves, at[p], who[p])
  /\ pc[p] = "mark" => IF Free(Moves) = {} THEN index[p] = -1
                       ELSE index[p] \in Free(Moves) /\ Marked(Moves, p) = Put(Moves, index[p], p)

\* Whose move it is, and that nobody thinks about a game that is won.
InTurn(p) ==
  /\ sem[p] > 0 \/ pc[p] \in {"check", "try", "undo", "mark"} =>
       HasWinner(Moves) \/ ToMove(Moves, p)
  /\ pc[p] \in {"try", "undo", "mark"} => ~ HasWinner(Moves)
  /\ pc[p] = "post" => ToMove(Moves, Other(p))
  /\ pc[p] = "leave" => HasWinner(Moves)

GInv == \A p \in Player : Thinking(p) /\ InTurn(p)

LEMMA MovesAre ==
  ASSUME TypeOK
  PROVE  /\ Moves \in Boards
         /\ (\A p \in Player : pc[p] # "undo") => Moves = board
         /\ \A p \in Player : pc[p] = "undo" /\ pc[Other(p)] # "undo" =>
              Moves = Put(board, at[p], EMPTY)
<1>1. Moves \in Boards
  BY DEF Moves, Boards, TypeOK
<1>2. ASSUME \A p \in Player : pc[p] # "undo" PROVE Moves = board
  BY <1>2 DEF Moves, Boards, TypeOK
<1>3. ASSUME NEW p \in Player, pc[p] = "undo", pc[Other(p)] # "undo"
      PROVE  Moves = Put(board, at[p], EMPTY)
  BY <1>3, OtherPlayer DEF Moves, Boards, TypeOK, Put
<1> QED
  BY <1>1, <1>2, <1>3

LEMMA MovesAreNext ==
  ASSUME TypeOK'
  PROVE  /\ (\A p \in Player : pc'[p] # "undo") => Moves' = board'
         /\ \A p \in Player : pc'[p] = "undo" /\ pc'[Other(p)] # "undo" =>
              Moves' = Put(board', at'[p], EMPTY)
<1>1. ASSUME \A p \in Player : pc'[p] # "undo" PROVE Moves' = board'
  BY <1>1 DEF Moves, Boards, TypeOK
<1>2. ASSUME NEW p \in Player, pc'[p] = "undo", pc'[Other(p)] # "undo"
      PROVE  Moves' = Put(board', at'[p], EMPTY)
  BY <1>2, OtherPlayer DEF Moves, Boards, TypeOK, Put
<1> QED
  BY <1>1, <1>2

\* Whoever has the turn or its semaphore is alone with the board.
LEMMA Alone ==
  ASSUME IInv, NEW p \in Player, sem[p] > 0 \/ HasTurn(p)
  PROVE  /\ ~ HasTurn(Other(p)) /\ sem[Other(p)] = 0
         /\ sem[p] > 0 => ~ HasTurn(p)
         /\ HasTurn(p) => sem[p] = 0
BY OneTurnBetween, ThreadTypes DEF IInv, TurnsOf

LEMMA Idle ==
  ASSUME NEW p \in Player, ~ HasTurn(p)', sem'[p] = 0
  PROVE  Thinking(p)' /\ InTurn(p)'
BY DEF HasTurn, Thinking, Simulating, InTurn

\* A thread that keeps the turn leaves the other as it is.
LEMMA KeepsTurn ==
  ASSUME IInv, IInv', NEW p \in Player, HasTurn(p)',
         Thinking(p)', InTurn(p)'
  PROVE  GInv'
<1>1. ~ HasTurn(Other(p))' /\ sem'[Other(p)] = 0
  <2>1. TurnsOf(p)' + TurnsOf(Other(p))' = 1
    BY OneTurnBetweenNext DEF IInv
  <2>2. sem'[p] \in 0..1 /\ sem'[Other(p)] \in 0..1
    BY OtherPlayer DEF IInv, TypeOK
  <2> QED
    BY <2>1, <2>2 DEF TurnsOf
<1> QED
  BY <1>1, Idle, OtherPlayer DEF GInv

LEMMA GameInit == Init => GInv
<1> SUFFICES ASSUME Init PROVE GInv
  OBVIOUS
<1>1. Moves = EmptyBoard
  BY InitHolds, MovesAre DEF Init, IInv
<1>2. \A p \in Player : pc[p] = "unborn" /\ (sem[p] > 0 => p = X)
  BY DEF Init
<1> QED
  BY <1>1, <1>2, EmptyToMove DEF GInv, Thinking, Simulating, InTurn

\* The turn is taken, and the thread looks for a winner.
LEMMA GameWait ==
  ASSUME IInv, IInv', GInv, NEW p \in Player, WaitTurn(p)
  PROVE  GInv' /\ Moves' = Moves
<1> USE DEF IInv
<1>1. /\ sem[p] > 0 /\ board' = board /\ pc'[p] = "check" /\ pc[p] = "wait"
      /\ \A r \in Player : r # p => pc'[r] = pc[r]
  BY DEF WaitTurn, Goto, TypeOK
<1>2. \A r \in Player : pc[r] # "undo" /\ pc'[r] # "undo"
  BY <1>1, Alone, OtherPlayer DEF HasTurn
<1>3. Moves' = Moves
  BY <1>1, <1>2, MovesAre, MovesAreNext
<1>4. Thinking(p)' /\ InTurn(p)'
  BY <1>1, <1>3 DEF GInv, InTurn, Thinking, Simulating
<1> QED
  BY <1>1, <1>3, <1>4, KeepsTurn DEF HasTurn

LEMMA GameCheck ==
  ASSUME IInv, IInv', GInv, NEW p \in Player, CheckWinner(p)
  PROVE  GInv' /\ Moves' = Moves
<1> USE DEF IInv
<1>1. /\ pc[p] = "check" /\ HasTurn(p) /\ board' = board
      /\ \A r \in Player : r # p => pc'[r] = pc[r]
      /\ IF HasWinner(board) THEN pc'[p] = "leave"
         ELSE pc'[p] = "try" /\ who'[p] = Other(p) /\ at'[p] = 0 /\ index'[p] = -1
  BY DEF CheckWinner, Goto, Simulate, TypeOK, HasTurn
<1>2. \A r \in Player : pc[r] # "undo" /\ pc'[r] # "undo"
  BY <1>1, Alone, OtherPlayer DEF HasTurn
<1>3. Moves' = Moves /\ Moves = board
  BY <1>1, <1>2, MovesAre, MovesAreNext
<1>4. \A i \in Cell : i >= 0 /\ ~ (i < 0)
  BY DEF Cell
<1>5. Other(p) # p /\ \A q : Winning(Moves, q) \subseteq Cell /\ Free(Moves) \subseteq Cell
  BY OtherPlayer DEF Winning, Free
<1>6. Thinking(p)'
  BY <1>1, <1>3, <1>4, <1>5 DEF Thinking, Simulating
<1>7. InTurn(p)'
  BY <1>1, <1>3 DEF GInv, InTurn
<1>8. ~ (sem'[p] > 0)
  BY <1>1, Alone DEF CheckWinner
<1> QED
  BY <1>1, <1>3, <1>6, <1>7, KeepsTurn DEF HasTurn

LEMMA GameTry ==
  ASSUME IInv, IInv', GInv, NEW p \in Player, TryCell(p)
  PROVE  GInv' /\ Moves' = Moves
<1> USE DEF IInv
<1>1. PICK i \in Untried(p) :
        /\ \A j \in Untried(p) : i <= j
        /\ board' = Put(board, i, who[p]) /\ at' = [at EXCEPT ![p] = i]
  BY DEF TryCell
<1>2. /\ pc[p] = "try" /\ HasTurn(p) /\ pc'[p] = "undo" /\ who' = who /\ at'[p] = i
      /\ \A r \in Player : r # p => pc'[r] = pc[r]
  BY <1>1 DEF TryCell, Goto, TypeOK, HasTurn
<1>3. pc[Other(p)] # "undo" /\ pc'[Other(p)] # "undo"
  BY <1>2, Alone, OtherPlayer DEF HasTurn
<1>4. Moves = board /\ Moves \in Boards /\ Moves' = Put(board', i, EMPTY)
  BY <1>2, <1>3, MovesAre, MovesAreNext, OtherPlayer
<1>5. i \in Free(Moves) /\ i \in Cell /\ Untried(p) = {j \in Free(Moves) : j >= at[p]}
  BY <1>4 DEF Untried, Free
<1>6. Moves' = Moves
  BY <1>1, <1>4, <1>5 DEF Put, Boards, Free
<1>7. \A j \in Winning(Moves, who[p]) : j >= i
  <2>1. \A j \in Winning(Moves, who[p]) : j \in Untried(p)
    BY <1>2, <1>5 DEF GInv, Thinking, Simulating, Winning
  <2>2. \A j \in Untried(p) : j \in Cell
    BY <1>5 DEF Free
  <2> QED
    BY <1>1, <1>5, <2>1, <2>2 DEF Cell
<1>8. Thinking(p)'
  BY <1>1, <1>2, <1>4, <1>5, <1>6, <1>7 DEF GInv, Thinking, Simulating
<1>9. InTurn(p)'
  BY <1>2, <1>6 DEF GInv, InTurn
<1> QED
  BY <1>2, <1>6, <1>8, <1>9, KeepsTurn DEF HasTurn

LEMMA GameUndo ==
  ASSUME IInv, IInv', GInv, NEW p \in Player, UndoCell(p)
  PROVE  GInv' /\ Moves' = Moves
<1> USE DEF IInv
<1> DEFINE i == at[p]
           w == who[p]
<1>1. /\ pc[p] = "undo" /\ HasTurn(p) /\ board' = Put(board, i, EMPTY) /\ who' = who
      /\ index'[p] = i
      /\ \A r \in Player : r # p => pc'[r] = pc[r]
      /\ IF HasWinner(board) THEN pc'[p] = "mark" ELSE pc'[p] = "try" /\ at'[p] = i + 1
  BY DEF UndoCell, Goto, TypeOK, HasTurn
<1>2. pc[Other(p)] # "undo" /\ pc'[Other(p)] # "undo"
  BY <1>1, Alone, OtherPlayer DEF HasTurn
<1>3. Moves' = Moves /\ Moves \in Boards
  BY <1>1, <1>2, MovesAre, MovesAreNext, OtherPlayer
<1>4. /\ i \in Free(Moves) /\ board = Put(Moves, i, w) /\ i \in Cell /\ w \in Player
      /\ \A j \in Winning(Moves, w) : j >= i
      /\ w = p => Winning(Moves, Other(p)) = {}
  BY <1>1 DEF GInv, Thinking, Simulating, Free, TypeOK
<1>5. InTurn(p)'
  BY <1>1, <1>3 DEF GInv, InTurn
<1>6. CASE HasWinner(board)
  <2>1. i \in Winning(Moves, w)
    BY <1>4, <1>6 DEF Winning
  <2>2. SimulatedIndex(Moves, w) = i
    BY <1>4, <2>1, FirstWin
  <2>3. w = IF Winning(Moves, Other(p)) # {} THEN Other(p) ELSE p
    BY <1>4, <2>1, OtherPlayer
  <2>4. Marked(Moves, p) = Put(Moves, i, p)
    BY <1>4, <2>2, <2>3 DEF Marked
  <2>5. Thinking(p)'
    BY <1>1, <1>3, <1>4, <1>6, <2>4 DEF Thinking, Simulating
  <2> QED
    BY <1>1, <1>3, <1>5, <1>6, <2>5, KeepsTurn DEF HasTurn
<1>7. CASE ~ HasWinner(board)
  <2>1. i \notin Winning(Moves, w)
    BY <1>4, <1>7 DEF Winning
  <2>2. \A j \in Cell : /\ j >= i /\ j # i => j >= i + 1
                        /\ j < i + 1 => j <= i
    BY <1>4 DEF Cell
  <2>3. \A j \in Winning(Moves, w) : j >= i + 1
    BY <1>4, <2>1, <2>2 DEF Winning, Free
  <2>4. \A j \in Free(Moves) : j < i + 1 => j <= i
    BY <2>2 DEF Free
  <2>5. Thinking(p)'
    BY <1>1, <1>3, <1>4, <1>7, <2>3, <2>4 DEF Thinking, Simulating
  <2> QED
    BY <1>1, <1>3, <1>5, <1>7, <2>5, KeepsTurn DEF HasTurn
<1> QED
  BY <1>6, <1>7

LEMMA GameEndSimulation ==
  ASSUME IInv, IInv', GInv, NEW p \in Player, EndSimulation(p)
  PROVE  GInv' /\ Moves' = Moves
<1> USE DEF IInv
<1> DEFINE n == index[p]
<1>1. /\ pc[p] = "try" /\ HasTurn(p) /\ board' = board /\ index' = index /\ Untried(p) = {}
      /\ \A r \in Player : r # p => pc'[r] = pc[r]
      /\ IF who[p] = p THEN pc'[p] = "mark"
         ELSE pc'[p] = "try" /\ who'[p] = p /\ at'[p] = 0
  BY DEF EndSimulation, Goto, Simulate, TypeOK, HasTurn
<1>2. \A r \in Player : pc[r] # "undo" /\ pc'[r] # "undo"
  BY <1>1, Alone, OtherPlayer DEF HasTurn
<1>3. Moves' = Moves /\ Moves = board /\ Moves \in Boards
  BY <1>1, <1>2, MovesAre, MovesAreNext
<1>4. \A i \in Free(Moves) : i < at[p]
  BY <1>1, <1>3, ThreadTypes DEF Untried, Free, Cell
<1>5. /\ n \in Free(Moves) \cup {-1}
      /\ \A i \in Free(Moves) : i <= n
      /\ who[p] = p => Winning(Moves, Other(p)) = {}
      /\ \A i \in Winning(Moves, who[p]) : i >= at[p]
  BY <1>1, <1>4 DEF GInv, Thinking, Simulating
<1>6. Winning(Moves, who[p]) = {}
  <2>1. \A i \in Winning(Moves, who[p]) : i \in Free(Moves) /\ i \in Cell
    BY DEF Winning, Free
  <2> QED
    BY <1>4, <1>5, <2>1, ThreadTypes DEF Cell
<1>7. InTurn(p)'
  BY <1>1, <1>3 DEF GInv, InTurn
<1>8. CASE who[p] = p
  <2>1. ASSUME Free(Moves) = {} PROVE n = -1
    BY <1>5, <2>1
  <2>2. ASSUME Free(Moves) # {}
        PROVE  n \in Free(Moves) /\ Marked(Moves, p) = Put(Moves, n, p)
    <3>1. n \in Free(Moves)
      BY <1>5, <2>2 DEF Free, Cell
    <3>2. SimulatedIndex(Moves, p) = n
      BY <1>5, <1>6, <1>8, <3>1, LastFree
    <3> QED
      BY <1>5, <1>8, <2>2, <3>1, <3>2 DEF Marked
  <2>3. Thinking(p)'
    BY <2>1, <2>2, <1>1, <1>3, <1>8 DEF Thinking, Simulating
  <2> QED
    BY <1>1, <1>3, <1>7, <1>8, <2>3, KeepsTurn DEF HasTurn
<1>9. CASE who[p] # p
  <2>1. who[p] = Other(p)
    BY <1>9, OtherPlayer, ThreadTypes
  <2>2. \A i \in Cell : i >= 0 /\ ~ (i < 0)
    BY DEF Cell
  <2>3. \A q : Winning(Moves, q) \subseteq Cell /\ Free(Moves) \subseteq Cell
    BY DEF Winning, Free
  <2>4. Thinking(p)'
    BY <1>1, <1>3, <1>5, <1>6, <1>9, <2>1, <2>2, <2>3 DEF Thinking, Simulating
  <2> QED
    BY <1>1, <1>3, <1>7, <1>9, <2>4, KeepsTurn DEF HasTurn
<1> QED
  BY <1>8, <1>9

\* The one step that is a move.
LEMMA GameMark ==
  ASSUME IInv, IInv', GInv, NEW p \in Player, Mark(p)
  PROVE  /\ GInv' /\ Moves' = Marked(Moves, p)
         /\ ~ HasWinner(Moves) /\ ToMove(Moves, p) /\ Moves \in Boards
<1> USE DEF IInv
<1>1. /\ pc[p] = "mark" /\ HasTurn(p) /\ pc'[p] = "post"
      /\ board' = IF index[p] >= 0 THEN Put(board, index[p], p) ELSE board
      /\ \A r \in Player : r # p => pc'[r] = pc[r]
  BY DEF Mark, Goto, TypeOK, HasTurn
<1>2. \A r \in Player : pc[r] # "undo" /\ pc'[r] # "undo"
  BY <1>1, Alone, OtherPlayer DEF HasTurn
<1>3. Moves' = board' /\ Moves = board /\ Moves \in Boards
  BY <1>1, <1>2, MovesAre, MovesAreNext
<1>4. Moves' = Marked(Moves, p)
  <2>1. CASE Free(Moves) = {}
    <3>1. index[p] = -1
      BY <1>1, <2>1 DEF GInv, Thinking
    <3>2. ~ (-1 >= 0)
      OBVIOUS
    <3> QED
      BY <1>1, <1>3, <2>1, <3>1, <3>2 DEF Marked
  <2>2. CASE Free(Moves) # {}
    <3>1. index[p] \in Free(Moves) /\ Marked(Moves, p) = Put(Moves, index[p], p)
      BY <1>1, <2>2 DEF GInv, Thinking
    <3>2. index[p] >= 0
      BY <3>1 DEF Free, Cell
    <3> QED
      BY <1>1, <1>3, <3>1, <3>2
  <2> QED
    BY <2>1, <2>2
<1>5. ~ HasWinner(Moves) /\ ToMove(Moves, p)
  BY <1>1 DEF GInv, InTurn
<1>6. ToMove(Moves', Other(p))
  BY <1>3, <1>4, <1>5, MoveTurns
<1>7. ~ (sem'[p] > 0)
  BY <1>1, Alone DEF Mark
<1>8. Thinking(p)' /\ InTurn(p)'
  BY <1>1, <1>6, <1>7 DEF Thinking, Simulating, InTurn
<1> QED
  BY <1>1, <1>3, <1>4, <1>5, <1>8, KeepsTurn DEF HasTurn

\* The turn goes to the other's semaphore.
LEMMA GamePost ==
  ASSUME IInv, IInv', GInv, NEW p \in Player, Post(p) \/ Leave(p)
  PROVE  GInv' /\ Moves' = Moves
<1> USE DEF IInv
<1> DEFINE q == Other(p)
<1>1. /\ pc[p] \in {"post", "leave"} /\ HasTurn(p) /\ pc'[p] \in {"wait", "done"}
      /\ board' = board /\ sem'[p] = sem[p] /\ pc'[q] = pc[q]
      /\ \A r \in Player : r # p => pc'[r] = pc[r]
  BY OtherPlayer DEF Post, Leave, Goto, TypeOK, HasTurn
<1>2. ~ HasTurn(q) /\ sem[p] = 0
  BY <1>1, Alone
<1>3. \A r \in Player : pc[r] # "undo" /\ pc'[r] # "undo"
  BY <1>1, <1>2, OtherPlayer DEF HasTurn
<1>4. Moves' = Moves
  BY <1>1, <1>3, MovesAre, MovesAreNext
<1>5. HasWinner(Moves) \/ ToMove(Moves, q)
  BY <1>1 DEF GInv, InTurn
<1>6. Thinking(q)' /\ InTurn(q)'
  BY <1>1, <1>2, <1>4, <1>5 DEF Thinking, Simulating, InTurn, HasTurn
<1>7. Thinking(p)' /\ InTurn(p)'
  BY <1>1, <1>2, Idle DEF HasTurn
<1> QED
  BY <1>4, <1>6, <1>7, OtherPlayer DEF GInv

\* main and the pthread calls leave the board alone.
LEMMA GameMain ==
  ASSUME IInv, GInv, Main \/ UNCHANGED vars
  PROVE  GInv' /\ Moves' = Moves
<1> USE DEF IInv
<1>1. /\ board' = board /\ sem' = sem /\ who' = who /\ at' = at /\ index' = index
  BY DEF Main, Create, Join, MainStep, locals, vars
<1>2. pc' = pc \/ \E p \in Player : Goto(p, "unborn", "wait")
  BY DEF Main, Create, Join, MainStep, Player, vars
<1>3. \A p \in Player : pc'[p] = pc[p] \/ (pc[p] = "unborn" /\ pc'[p] = "wait")
  BY <1>2 DEF Goto, TypeOK
<1>4. Moves' = Moves
  BY <1>1, <1>3 DEF Moves
<1>5. ASSUME NEW p \in Player PROVE Thinking(p)' /\ InTurn(p)'
  BY <1>1, <1>3, <1>4 DEF GInv, Thinking, Simulating, InTurn
<1> QED
  BY <1>4, <1>5 DEF GInv

LEMMA GameStep ==
  ASSUME IInv, IInv', GInv, [Next]_vars
  PROVE  /\ GInv'
         /\ \/ Moves' = Moves
            \/ \E p \in Player : /\ Moves' = Marked(Moves, p) /\ ToMove(Moves, p)
                                 /\ ~ HasWinner(Moves) /\ Moves \in Boards
<1>1. CASE Main \/ UNCHANGED vars
  BY <1>1, GameMain
<1>2. ASSUME NEW p \in Player, Thread(p)
      PROVE  /\ GInv'
             /\ \/ Moves' = Moves
                \/ /\ Moves' = Marked(Moves, p) /\ ToMove(Moves, p)
                   /\ ~ HasWinner(Moves) /\ Moves \in Boards
  BY <1>2, GameWait, GameCheck, GameTry, GameUndo, GameEndSimulation, GameMark, GamePost
     DEF Thread
<1> QED
  BY <1>1, <1>2 DEF Next, Exited

LEMMA SameMove ==
  ASSUME NEW b, NEW p
  PROVE  /\ Abstract!HasWinner(b) <=> HasWinner(b)
         /\ Abstract!Marked(b, p) = Marked(b, p)
         /\ Abstract!Cardinality(b) = Cardinality(b)
<1>1. Abstract!Cardinality(b) = Cardinality(b)
  BY DEF Abstract!Cardinality, Cardinality
<1> QED
  BY <1>1 DEF Abstract!HasWinner, HasWinner, Abstract!Marked, Marked, Abstract!Free, Free,
       Abstract!Winning, Winning, Abstract!Other, Other, Abstract!Put, Put,
       Abstract!SimulatedIndex, SimulatedIndex, Abstract!Triples, Triples,
       Abstract!Player, Player, Abstract!Cell, Cell

LEMMA MarkIsMove ==
  ASSUME NEW p \in Player, Moves' = Marked(Moves, p), ToMove(Moves, p),
         ~ HasWinner(Moves), Moves \in Boards
  PROVE  Abstract!Move \/ Moves' = Moves
<1>1. CASE Free(Moves) = {}
  BY <1>1 DEF Marked
<1>2. CASE Free(Moves) # {}
  <2>1. Abstract!Turn = IF Cardinality(Marks(Moves, X)) = Cardinality(Marks(Moves, O))
                          THEN X ELSE O
    BY SameMove DEF Abstract!Turn, Marks, Abstract!Cell, Cell
  <2>2. /\ Cardinality(Marks(Moves, X)) \in Nat /\ Cardinality(Marks(Moves, O)) \in Nat
        /\ Cardinality(Marks(Moves, X))
             = Cardinality(Marks(Moves, O)) + (IF p = X THEN 0 ELSE 1)
    BY <1>2, MarksFinite DEF ToMove
  <2>3. Abstract!Turn = p
    BY <2>1, <2>2 DEF Player
  <2> QED
    BY <2>3, SameMove DEF Abstract!Move
<1> QED
  BY <1>1, <1>2

\* The threads play one game although simulatePlay tries moves on the shared board:
\* without the mark on trial the board changes only by the move that `mark` would
\* compute on it, of X and O in turn, and by none after a win.
THEOREM PlaysTheGame == Spec => ImplementsGame
<1>1. Init => Abstract!Init
  <2> SUFFICES ASSUME Init PROVE Moves = EmptyBoard
    BY DEF Abstract!Init, Abstract!EmptyBoard, EmptyBoard, Abstract!Cell, Cell
  <2> QED
    BY InitHolds, MovesAre DEF Init, IInv
<1>2. Init => GInv
  BY GameInit
<1>3. IInv /\ IInv' /\ GInv /\ [Next]_vars => GInv' /\ [Abstract!Move]_Moves
  BY GameStep, MarkIsMove
<1> QED
  BY <1>1, <1>2, <1>3, Invariance, PTL DEF Spec, ImplementsGame, Abstract!Spec
=============================================================================
