----------------------- MODULE TicTacToeSignalsProofs -----------------------
(***************************************************************************)
(* Proofs about TicTacToeSignals: however the signals are delivered, there *)
(* is at most one turn, and none only when the game is lost and won.  So   *)
(* the lost wake-up loses a process's sleep, never a move: no signal is    *)
(* overwritten by another, and the file has one user at a time.            *)
(* And the program stops only when both have ended or a wake-up was lost.  *)
(* And the boards in the file are one game, each move on the one before.    *)
(***************************************************************************)
EXTENDS TicTacToeSignals, FiniteSets, TLAPS

\* A process resets only a my_turn that is set.
ResetsTurn == \A p \in Player : pc[p] = "reset" => myTurn[p]

\* The file is empty only until the child has written its board.
ChildWritesFirst == file = <<>> => pc[Child] = "write"

IInv == TypeOK /\ OneTurn /\ ResetsTurn /\ ChildWritesFirst

USE MarksAssumption

-----------------------------------------------------------------------------
(* Boards and moves, by the lemmas of TicTacToeThreadsProofs.  They are      *)
(* about constant operators, so that its variables may be anything.         *)

Threads == INSTANCE TicTacToeThreadsProofs WITH
  board <- 0, sem <- 0, pc <- 0, who <- 0, at <- 0, index <- 0, mainPc <- 0

\* The marks of player p on board b.
Marks(b, p) == {i \in Cell : b[i] = p}

\* By the marks on board b it is p's turn, or no move is left.
ToMove(b, p) ==
  \/ Free(b) = {}
  \/ Cardinality(Marks(b, X)) = Cardinality(Marks(b, O)) + (IF p = X THEN 0 ELSE 1)

\* Both programs move on the same boards.
LEMMA SameBoards ==
  /\ Threads!MarksAssumption
  /\ Threads!Player = Player /\ Threads!Boards = Boards /\ Threads!EmptyBoard = EmptyBoard
  /\ \A b, p : /\ Threads!Other(p) = Other(p) /\ Threads!Marked(b, p) = Marked(b, p)
               /\ Threads!Marks(b, p) = Marks(b, p) /\ Threads!ToMove(b, p) = ToMove(b, p)
<1>1. /\ Threads!Player = Player /\ Threads!Boards = Boards /\ Threads!EmptyBoard = EmptyBoard
      /\ Threads!Cell = Cell
  BY DEF Threads!Player, Player, Threads!Boards, Boards, Threads!EmptyBoard, EmptyBoard,
         Threads!Cell, Cell
<1>2. \A b, p : /\ Threads!Other(p) = Other(p) /\ Threads!Free(b) = Free(b)
               /\ Threads!Marks(b, p) = Marks(b, p)
  BY <1>1 DEF Threads!Other, Other, Threads!Free, Free, Threads!Marks, Marks
<1>3. \A b, p : Threads!Marked(b, p) = Marked(b, p)
  BY DEF Threads!HasWinner, HasWinner, Threads!Marked, Marked, Threads!Free, Free,
         Threads!Winning, Winning, Threads!Other, Other, Threads!Put, Put,
         Threads!SimulatedIndex, SimulatedIndex, Threads!Triples, Triples,
         Threads!Player, Player, Threads!Cell, Cell
<1>4. \A S : Threads!Cardinality(S) = Cardinality(S)
  BY DEF Threads!Cardinality, Cardinality
<1>5. \A b, p : Threads!ToMove(b, p) = ToMove(b, p)
  BY <1>2, <1>4 DEF Threads!ToMove, ToMove
<1>6. Threads!MarksAssumption
  BY DEF Threads!MarksAssumption
<1> QED
  BY <1>1, <1>2, <1>3, <1>5, <1>6

\* There are two players.
LEMMA OtherPlayer ==
  ASSUME NEW p \in Player
  PROVE  Other(p) \in Player /\ Other(p) # p /\ Player = {p, Other(p)}
BY DEF Other, Player

\* A board is not the empty file.
LEMMA BoardNotEmpty ==
  ASSUME NEW b \in Boards
  PROVE  b # <<>>
<1>1. DOMAIN b = Cell /\ 0 \in Cell
  BY DEF Boards, Cell
<1>2. DOMAIN <<>> = 1..0
  OBVIOUS
<1> QED
  BY <1>1, <1>2

\* A move makes a board of a board.
LEMMA MarkedType ==
  ASSUME NEW b \in Boards, NEW p \in Player
  PROVE  Marked(b, p) \in Boards
BY SameBoards, Threads!MarkedType

\* The marks of a player can be counted.
LEMMA MarksFinite ==
  ASSUME NEW b, NEW p
  PROVE  Cardinality(Marks(b, p)) \in Nat
<1>1. Threads!Cardinality(Threads!Marks(b, p)) \in Nat
  BY SameBoards, Threads!MarksFinite
<1> QED
  BY <1>1, SameBoards DEF Threads!Cardinality, Cardinality

\* After a move it is the other player's turn.
LEMMA MoveTurns ==
  ASSUME NEW b \in Boards, NEW p \in Player, ToMove(b, p)
  PROVE  ToMove(Marked(b, p), Other(p))
BY SameBoards, Threads!MoveTurns

\* X moves first.
LEMMA EmptyToMove == EmptyBoard \in Boards /\ ToMove(EmptyBoard, X)
BY SameBoards, Threads!EmptyToMove

-----------------------------------------------------------------------------

Playing(p) == pc[p] \in {"read", "mark", "write", "kill"}

\* Whether process p has the turn, and where.
LEMMA TurnsAre ==
  \A t : t \in Turns <=>
    \E p \in Player : \/ t = <<p, "pending">> /\ pending[p]
                      \/ t = <<p, "flag">> /\ myTurn[p]
                      \/ t = <<p, "playing">> /\ Playing(p)
BY DEF Turns, Playing

LEMMA TurnsAreNext ==
  \A t : t \in Turns' <=>
    \E p \in Player : \/ t = <<p, "pending">> /\ pending'[p]
                      \/ t = <<p, "flag">> /\ myTurn'[p]
                      \/ t = <<p, "playing">> /\ Playing(p)'
BY DEF Turns, Playing

\* When the turn is t, it is nowhere else.
LEMMA OnlyTurn ==
  ASSUME OneTurn, NEW t, t \in Turns
  PROVE  /\ Turns = {t}
         /\ \A q \in Player : /\ pending[q] => t = <<q, "pending">>
                              /\ myTurn[q] => t = <<q, "flag">>
                              /\ Playing(q) => t = <<q, "playing">>
<1>1. \A u \in Turns : u = t
  BY DEF OneTurn
<1>2. \A q \in Player : /\ pending[q] => <<q, "pending">> \in Turns
                        /\ myTurn[q] => <<q, "flag">> \in Turns
                        /\ Playing(q) => <<q, "playing">> \in Turns
  BY TurnsAre
<1> QED
  BY <1>1, <1>2

\* A step that moves the one turn, or leaves it where it is, keeps it single.
LEMMA TurnMoves ==
  ASSUME OneTurn, NEW to, Turns # {}, Turns' = {to}
  PROVE  OneTurn'
BY DEF OneTurn

LEMMA TurnStays ==
  ASSUME OneTurn, Turns' = Turns, Turns = {} => HasWinner(file)',
         \A p \in Player : pc[p] \in {"reap", "exit"} => pc'[p] \in {"reap", "exit"}
  PROVE  OneTurn'
BY DEF OneTurn

LEMMA InitHolds == Init => IInv
<1> SUFFICES ASSUME Init PROVE IInv
  OBVIOUS
<1>1. TypeOK
  BY DEF Init, TypeOK, EmptyBoard, Boards, Player
<1>2. Turns = {<<Child, "playing">>}
  BY TurnsAre DEF Init, Playing, Player, Child
<1>3. OneTurn
  BY <1>2 DEF OneTurn
<1>4. ResetsTurn /\ ChildWritesFirst
  BY DEF Init, ResetsTurn, ChildWritesFirst, Player, Child
<1> QED
  BY <1>1, <1>3, <1>4 DEF IInv

-----------------------------------------------------------------------------

\* The types and the two facts about pc, for every step.
LEMMA TypeStep ==
  ASSUME IInv, NEW p \in Player, Process(p)
  PROVE  TypeOK'
<1> USE DEF IInv, TypeOK, Goto
<1>1. CASE LoopTest(p) \/ TurnTest(p) \/ Suspend(p) \/ Reap(p)
  BY <1>1 DEF LoopTest, TurnTest, Suspend, Reap
<1>2. CASE Deliver(p)
  BY <1>2 DEF Deliver
<1>3. CASE ResetTurn(p)
  BY <1>3 DEF ResetTurn
<1>4. CASE ReadBoard(p)
  <2>1. board' \in [Player -> Boards]
    BY <1>4 DEF ReadBoard
  <2> QED
    BY <1>4, <2>1 DEF ReadBoard
<1>5. CASE MarkCell(p)
  <2>1. Marked(board[p], p) \in Boards
    BY MarkedType
  <2> QED
    BY <1>5, <2>1 DEF MarkCell
<1>6. CASE WriteBoard(p)
  BY <1>6 DEF WriteBoard
<1>7. CASE Kill(p)
  BY <1>7, OtherPlayer DEF Kill
<1> QED
  BY <1>1, <1>2, <1>3, <1>4, <1>5, <1>6, <1>7 DEF Process

LEMMA PlaceStep ==
  ASSUME IInv, NEW p \in Player, Process(p)
  PROVE  ResetsTurn' /\ ChildWritesFirst'
<1> USE DEF IInv, TypeOK, Goto
<1>1. ResetsTurn'
  BY DEF Process, LoopTest, TurnTest, Suspend, Deliver, ResetTurn, ReadBoard, MarkCell,
         WriteBoard, Kill, Reap, ResetsTurn
<1>2. CASE WriteBoard(p)
  <2>1. board[p] # <<>>
    <3>1. DOMAIN board[p] = Cell /\ 0 \in Cell
      BY DEF Boards, Cell
    <3>2. DOMAIN <<>> = 1..0
      OBVIOUS
    <3> QED
      BY <3>1, <3>2
  <2> QED
    BY <1>1, <1>2, <2>1 DEF WriteBoard, ChildWritesFirst
<1>3. CASE ~ WriteBoard(p)
  BY <1>1, <1>3 DEF Process, LoopTest, TurnTest, Suspend, Deliver, ResetTurn, ReadBoard,
     MarkCell, Kill, Reap, ChildWritesFirst, Child, Player
<1> QED
  BY <1>2, <1>3

\* The turn stays where it is while p tests, sleeps, moves, writes or ends ...
LEMMA QuietStep ==
  ASSUME IInv, NEW p \in Player,
         LoopTest(p) \/ TurnTest(p) \/ Suspend(p) \/ MarkCell(p) \/ WriteBoard(p) \/ Reap(p)
  PROVE  OneTurn'
<1> USE DEF IInv, TypeOK, Goto
<1>1. pending' = pending /\ myTurn' = myTurn
  BY DEF LoopTest, TurnTest, Suspend, MarkCell, WriteBoard, Reap
<1>2. \A q \in Player : Playing(q)' <=> Playing(q)
  BY DEF LoopTest, TurnTest, Suspend, MarkCell, WriteBoard, Reap, Playing
<1>3. Turns' = Turns
  BY <1>1, <1>2, TurnsAre, TurnsAreNext
<1>4. Playing(p) => Turns # {}
  BY TurnsAre
<1>5. file' = file \/ Turns # {}
  BY <1>4 DEF LoopTest, TurnTest, Suspend, MarkCell, WriteBoard, Reap, Playing
<1>6. Turns = {} => HasWinner(file)'
  BY <1>5 DEF OneTurn
<1>7. \A q \in Player : pc[q] \in {"reap", "exit"} => pc'[q] \in {"reap", "exit"}
  BY DEF LoopTest, TurnTest, Suspend, MarkCell, WriteBoard, Reap
<1> QED
  BY <1>3, <1>6, <1>7, TurnStays

\* ... and moves from the signal to my_turn, to the process, to the other's signal.
LEMMA DeliverStep ==
  ASSUME IInv, NEW p \in Player, Deliver(p)
  PROVE  OneTurn'
<1> USE DEF IInv, TypeOK, Goto
<1>1. <<p, "pending">> \in Turns
  BY TurnsAre DEF Deliver
<1>2. \A q \in Player : ~ Playing(q)' /\ ~ pending'[q] /\ (myTurn'[q] <=> q = p)
  <2>1. \A q \in Player : /\ ~ Playing(q) /\ ~ myTurn[q]
                          /\ pending[q] => q = p
    BY <1>1, OnlyTurn
  <2> QED
    BY <2>1 DEF Deliver, Playing
<1>3. Turns' = {<<p, "flag">>}
  BY <1>2, TurnsAreNext
<1> QED
  BY <1>1, <1>3, TurnMoves

LEMMA ResetStep ==
  ASSUME IInv, NEW p \in Player, ResetTurn(p)
  PROVE  OneTurn'
<1> USE DEF IInv, TypeOK, Goto
<1>1. <<p, "flag">> \in Turns
  BY TurnsAre DEF ResetTurn, ResetsTurn
<1>2. \A q \in Player : ~ myTurn'[q] /\ ~ pending'[q] /\ (Playing(q)' <=> q = p)
  <2>1. \A q \in Player : /\ ~ Playing(q) /\ ~ pending[q]
                          /\ myTurn[q] => q = p
    BY <1>1, OnlyTurn
  <2> QED
    BY <2>1 DEF ResetTurn, Playing
<1>3. Turns' = {<<p, "playing">>}
  BY <1>2, TurnsAreNext
<1> QED
  BY <1>1, <1>3, TurnMoves

LEMMA KillStep ==
  ASSUME IInv, NEW p \in Player, Kill(p)
  PROVE  OneTurn'
<1> USE DEF IInv, TypeOK, Goto
<1>1. <<p, "playing">> \in Turns
  BY TurnsAre DEF Kill, Playing
<1>2. \A q \in Player : ~ myTurn'[q] /\ ~ Playing(q)' /\ (pending'[q] <=> q = Other(p))
  <2>1. \A q \in Player : /\ ~ pending[q] /\ ~ myTurn[q]
                          /\ Playing(q) => q = p
    BY <1>1, OnlyTurn
  <2> QED
    BY <2>1, OtherPlayer DEF Kill, Playing
<1>3. Turns' = {<<Other(p), "pending">>}
  BY <1>2, TurnsAreNext, OtherPlayer
<1> QED
  BY <1>1, <1>3, TurnMoves

\* The turn ends with the process that reads the other's win.
LEMMA ReadStep ==
  ASSUME IInv, NEW p \in Player, ReadBoard(p)
  PROVE  OneTurn'
<1> USE DEF IInv, TypeOK, Goto
<1>1. <<p, "playing">> \in Turns
  BY TurnsAre DEF ReadBoard, Playing
<1>2. \A q \in Player : /\ ~ pending[q] /\ ~ myTurn[q]
                        /\ Playing(q) => q = p
  BY <1>1, OnlyTurn
<1>3. file # <<>>
  BY <1>2 DEF ReadBoard, ChildWritesFirst, Playing, Child, Player
<1>4. board'[p] = file
  BY <1>3 DEF ReadBoard
<1>5. CASE HasWinner(file)
  <2>1. pc'[p] = "reap"
    BY <1>4, <1>5 DEF ReadBoard
  <2>2. \A q \in Player : ~ pending'[q] /\ ~ myTurn'[q] /\ ~ Playing(q)'
    BY <1>2, <2>1 DEF ReadBoard, Playing
  <2>3. Turns' = {}
    BY <2>2, TurnsAreNext
  <2>4. HasWinner(file')
    BY <1>5 DEF ReadBoard
  <2> QED
    BY <2>1, <2>3, <2>4 DEF OneTurn
<1>6. CASE ~ HasWinner(file)
  <2>1. pc' = [pc EXCEPT ![p] = "mark"]
    BY <1>4, <1>6 DEF ReadBoard
  <2>2. \A q \in Player : ~ pending'[q] /\ ~ myTurn'[q] /\ (Playing(q)' <=> q = p)
    BY <1>2, <2>1 DEF ReadBoard, Playing
  <2>3. Turns' = {<<p, "playing">>}
    BY <2>2, TurnsAreNext
  <2> QED
    BY <1>1, <2>3, TurnMoves
<1> QED
  BY <1>5, <1>6

-----------------------------------------------------------------------------

\* The invariant is inductive.
THEOREM Invariance == Spec => []IInv
<1>1. Init => IInv
  BY InitHolds
<1>2. IInv /\ [Next]_vars => IInv'
  <2> SUFFICES ASSUME IInv, [Next]_vars PROVE IInv'
    OBVIOUS
  <2>1. ASSUME NEW p \in Player, Process(p) PROVE IInv'
    <3>1. OneTurn'
      BY <2>1, QuietStep, DeliverStep, ResetStep, KillStep, ReadStep DEF Process
    <3> QED
      BY <2>1, <3>1, TypeStep, PlaceStep DEF IInv
  <2>2. CASE UNCHANGED vars
    BY <2>2 DEF vars, IInv, TypeOK, OneTurn, Turns, ResetsTurn, ChildWritesFirst
  <2> QED
    BY <2>1, <2>2 DEF Next
<1> QED
  BY <1>1, <1>2, PTL DEF Spec

\* The variables keep their types.
THEOREM TypeCorrect == Spec => []TypeOK
<1>1. IInv => TypeOK
  BY DEF IInv
<1> QED
  BY <1>1, Invariance, PTL

\* There is one turn, from the child's first write until the loser has read the
\* winner's board, whatever the order of steps and signals: the processes never
\* use the file together, and no kill finds a signal that is still pending.
THEOREM TurnIsOne == Spec => []OneTurn
<1>1. IInv => OneTurn
  BY DEF IInv
<1> QED
  BY <1>1, Invariance, PTL

-----------------------------------------------------------------------------
(* How the game ends.                                                      *)

\* The file shows a win.
Won == file # <<>> /\ HasWinner(file)

\* Process p will not sleep any more.
Done(p) == pc[p] \in {"loop", "reap", "exit"} /\ HasWinner(board[p])

\* The turn has come to p, which has not read the board yet.
Passed(p) == pending[p] \/ myTurn[p] \/ pc[p] = "read"

\* A process that has left the loop is done, and one that is done has no turn.  The
\* board in the file is not won while a process moves, and is its own once it has
\* moved; so whoever gets the turn on a won board gets it from a process that is
\* done, and both are when the turn is gone.
Ending ==
  /\ \A p \in Player :
       /\ pc[p] \in {"reap", "exit"} => HasWinner(board[p])
       /\ Done(p) => Won /\ ~ Passed(p)
       /\ pc[p] \in {"mark", "write"} => ~ Won
       /\ pc[p] = "kill" => file = board[p] /\ ~ Done(Other(p))
       /\ Won /\ Passed(p) => Done(Other(p))
  /\ Turns = {} => \A p \in Player : Done(p)

LEMMA EmptyIsUnwon == ~ HasWinner(EmptyBoard)
<1>1. \A t \in Triples : \E i \in t : i \in Cell
  BY DEF Triples, Cell
<1>2. \A i \in Cell : EmptyBoard[i] \notin Player
  BY DEF EmptyBoard, Player
<1> QED
  BY <1>1, <1>2 DEF HasWinner

LEMMA EndingInit == Init => Ending
<1> SUFFICES ASSUME Init PROVE Ending
  OBVIOUS
<1>1. Turns # {}
  BY TurnsAre DEF Init, Playing, Player, Child
<1>2. \A p \in Player : /\ pc[p] \in {"loop", "write"} /\ ~ Done(p)
                        /\ ~ pending[p] /\ ~ myTurn[p]
  BY EmptyIsUnwon DEF Init, Done
<1>3. ~ Won
  BY DEF Init, Won
<1> QED
  BY <1>1, <1>2, <1>3 DEF Ending, Passed

\* What a process may find of the other: the turn is with p.
LEMMA TurnHere ==
  ASSUME IInv, NEW p \in Player, pending[p] \/ myTurn[p] \/ Playing(p)
  PROVE  LET q == Other(p) IN ~ pending[q] /\ ~ myTurn[q] /\ ~ Playing(q)
<1>1. PICK t \in Turns : t \in {<<p, "pending">>, <<p, "flag">>, <<p, "playing">>}
  BY TurnsAre
<1> QED
  BY <1>1, OnlyTurn, OtherPlayer DEF IInv

\* While there is a turn, the conditions of each process are enough.
LEMMA EndingWithTurn ==
  ASSUME NEW p \in Player, pending'[p] \/ myTurn'[p] \/ Playing(p)',
         \A r \in {p, Other(p)} :
           /\ pc'[r] \in {"reap", "exit"} => HasWinner(board'[r])
           /\ Done(r)' => Won' /\ ~ Passed(r)'
           /\ pc'[r] \in {"mark", "write"} => ~ Won'
           /\ pc'[r] = "kill" => file' = board'[r] /\ ~ Done(Other(r))'
           /\ Won' /\ Passed(r)' => Done(Other(r))'
  PROVE  Ending'
<1>1. Turns' # {}
  BY TurnsAreNext
<1> QED
  BY <1>1, OtherPlayer DEF Ending

\* p tests, suspends or ends: the file and the turn are left alone.
LEMMA EndingLeave ==
  ASSUME IInv, Ending, NEW p \in Player, LoopTest(p) \/ TurnTest(p) \/ Suspend(p) \/ Reap(p)
  PROVE  Ending'
<1> USE DEF IInv, TypeOK, Goto
<1>1. /\ file' = file /\ board' = board /\ pending' = pending /\ myTurn' = myTurn
      /\ \A r \in Player : r # p => pc'[r] = pc[r]
      /\ pc[p] \in {"loop", "test", "suspend", "reap"}
      /\ pc'[p] \in {"reap", "test", "reset", "suspend", "asleep", "exit"}
      /\ pc'[p] \in {"reap", "exit"} <=> Done(p)
  BY DEF LoopTest, TurnTest, Suspend, Reap, Done, Ending
<1>2. Won' = Won
  BY <1>1 DEF Won
<1>3. \A r \in Player : /\ (Done(r)' <=> Done(r)) /\ (Passed(r)' <=> Passed(r))
                        /\ (Playing(r)' <=> Playing(r))
  BY <1>1 DEF Done, Passed, Playing
<1>4. Turns' = Turns
  BY <1>1, <1>3, TurnsAre, TurnsAreNext
<1>5. \A r \in Player : Other(r) \in Player
  BY OtherPlayer
<1>6. ASSUME NEW r \in Player
      PROVE  /\ pc'[r] \in {"reap", "exit"} => HasWinner(board'[r])
             /\ pc'[r] \in {"mark", "write"} => ~ Won'
             /\ pc'[r] = "kill" => file' = board'[r]
  <2>1. CASE r = p
    BY <1>1, <2>1 DEF Done
  <2>2. CASE r # p
    BY <1>1, <1>2, <2>2 DEF Ending
  <2> QED BY <2>1, <2>2
<1>7. \A r \in Player : pc'[r] = "kill" => ~ Done(Other(r))'
  BY <1>1, <1>3, <1>5 DEF Ending
<1> QED
  BY <1>2, <1>3, <1>4, <1>5, <1>6, <1>7 DEF Ending

\* The signal arrives, or the process takes its turn: it has passed all along.
LEMMA EndingPass ==
  ASSUME IInv, Ending, NEW p \in Player, Deliver(p) \/ ResetTurn(p)
  PROVE  Ending'
<1> USE DEF IInv, TypeOK, Goto
<1>1. /\ file' = file /\ board' = board
      /\ pc'[Other(p)] = pc[Other(p)] /\ pending'[Other(p)] = pending[Other(p)]
      /\ myTurn'[Other(p)] = myTurn[Other(p)]
      /\ pc'[p] = pc[p] \/ pc'[p] \in {"test", "read"}
      /\ Passed(p) /\ Passed(p)' /\ (pending'[p] \/ myTurn'[p] \/ Playing(p)')
  BY OtherPlayer DEF Deliver, ResetTurn, ResetsTurn, Passed, Playing
<1>2. Won' = Won
  BY <1>1 DEF Won
<1>3. /\ Done(Other(p))' <=> Done(Other(p))
      /\ Passed(Other(p))' <=> Passed(Other(p))
      /\ Done(p)' => Done(p)
  BY <1>1 DEF Done, Passed
<1>4. ~ Done(p) /\ ~ Passed(Other(p)) /\ (Won <=> Done(Other(p)))
  <2>1. ~ Passed(Other(p))
    BY <1>1, TurnHere, OtherPlayer DEF Passed, Playing
  <2> QED BY <1>1, <2>1, OtherPlayer DEF Ending
<1>5. ASSUME NEW r \in {p, Other(p)}
      PROVE  /\ pc'[r] \in {"reap", "exit"} => HasWinner(board'[r])
             /\ pc'[r] \in {"mark", "write"} => ~ Won'
             /\ pc'[r] = "kill" => file' = board'[r]
  BY <1>1, <1>2, OtherPlayer DEF Ending
<1>6. /\ pc'[p] = "kill" => ~ Done(Other(p))'
      /\ Other(Other(p)) = p /\ ~ Done(p)'
  BY <1>1, <1>3, <1>4, OtherPlayer DEF Ending
<1> QED
  BY <1>1, <1>2, <1>3, <1>4, <1>5, <1>6, EndingWithTurn

\* On a won board both are done; otherwise p moves.
LEMMA EndingRead ==
  ASSUME IInv, Ending, NEW p \in Player, ReadBoard(p)
  PROVE  Ending'
<1> USE DEF IInv, TypeOK, Goto
<1> DEFINE q == Other(p)
<1>1. q \in Player /\ q # p /\ Player = {p, q} /\ Other(q) = p
  BY OtherPlayer
<1>2. /\ pc[p] = "read" /\ Playing(p) /\ Passed(p)
  BY DEF ReadBoard, Playing, Passed
<1>3. ~ pending[q] /\ ~ myTurn[q] /\ ~ Playing(q)
  BY <1>2, TurnHere
<1>4. ~ pending[p] /\ ~ myTurn[p]
  <2>1. <<p, "playing">> \in Turns
    BY <1>2, TurnsAre
  <2> QED BY <2>1, OnlyTurn
<1>5. file # <<>>
  BY <1>1, <1>2, <1>3 DEF ChildWritesFirst, Playing, Child, Player
<1>6. /\ file' = file /\ board'[p] = file /\ board'[q] = board[q] /\ pc'[q] = pc[q]
      /\ pending' = pending /\ myTurn' = myTurn
      /\ pc'[p] = IF HasWinner(file) THEN "reap" ELSE "mark"
  BY <1>1, <1>5 DEF ReadBoard
<1>7. /\ Won' = Won /\ (Won <=> HasWinner(file)) /\ ~ Passed(p)' /\ ~ Passed(q)'
      /\ Done(q)' <=> Done(q)
  BY <1>3, <1>4, <1>5, <1>6 DEF Won, Passed, Playing, Done
<1> HIDE DEF q
<1>8. CASE HasWinner(file)
  <2>1. Done(p)' /\ Done(q)'
    BY <1>1, <1>2, <1>6, <1>7, <1>8 DEF Ending, Done, q
  <2>2. \A r \in Player : pc'[r] \in {"loop", "reap", "exit"} /\ HasWinner(board'[r])
    BY <1>1, <2>1 DEF Done
  <2> QED
    BY <1>1, <1>7, <1>8, <2>1, <2>2 DEF Ending
<1>9. CASE ~ HasWinner(file)
  <2>1. Playing(p)' /\ ~ Done(p)'
    BY <1>6, <1>9 DEF Playing, Done
  <2>2. ~ Done(q)
    BY <1>1, <1>7, <1>9 DEF Ending
  <2>3. ASSUME NEW r \in {p, q}
        PROVE  /\ pc'[r] \in {"reap", "exit"} => HasWinner(board'[r])
               /\ pc'[r] = "kill" => file' = board'[r]
    BY <1>1, <1>6, <1>9 DEF Ending
  <2> QED
    BY <1>1, <1>6, <1>7, <1>9, <2>1, <2>2, <2>3, EndingWithTurn DEF q
<1> QED
  BY <1>8, <1>9

\* p moves and writes: nobody is done, and the file becomes the board of p.
LEMMA EndingMove ==
  ASSUME IInv, Ending, NEW p \in Player, MarkCell(p) \/ WriteBoard(p)
  PROVE  Ending'
<1> USE DEF IInv, TypeOK, Goto
<1> DEFINE q == Other(p)
<1>1. q \in Player /\ q # p /\ Player = {p, q} /\ Other(q) = p
  BY OtherPlayer
<1>2. Playing(p) /\ pc[p] \in {"mark", "write"}
  BY DEF MarkCell, WriteBoard, Playing
<1>3. ~ pending[q] /\ ~ myTurn[q] /\ ~ Playing(q)
  BY <1>2, TurnHere
<1>4. ~ pending[p] /\ ~ myTurn[p]
  <2>1. <<p, "playing">> \in Turns
    BY <1>2, TurnsAre
  <2> QED BY <2>1, OnlyTurn
<1>5. ~ Won /\ ~ Done(q)
  BY <1>1, <1>2 DEF Ending
<1>6. /\ pending' = pending /\ myTurn' = myTurn /\ pc'[q] = pc[q] /\ board'[q] = board[q]
      /\ \/ pc'[p] = "write" /\ file' = file
         \/ pc'[p] = "kill" /\ file' = board[p] /\ board'[p] = board[p]
  BY <1>1 DEF MarkCell, WriteBoard
<1>7. /\ ~ Passed(p)' /\ ~ Passed(q)' /\ ~ Done(p)' /\ ~ Done(q)' /\ Playing(p)'
      /\ pc'[p] = "write" => ~ Won'
  BY <1>3, <1>4, <1>5, <1>6 DEF Passed, Done, Playing, Won
<1>8. pc'[q] \notin {"mark", "write", "kill"}
  BY <1>3, <1>6 DEF Playing
<1>9. pc'[q] \in {"reap", "exit"} => HasWinner(board'[q])
  BY <1>1, <1>6 DEF Ending
<1> HIDE DEF q
<1>10. ASSUME NEW r \in {p, q}
       PROVE  /\ pc'[r] \in {"reap", "exit"} => HasWinner(board'[r])
              /\ pc'[r] \in {"mark", "write"} => ~ Won'
              /\ pc'[r] = "kill" => file' = board'[r]
  BY <1>6, <1>7, <1>8, <1>9
<1> QED
  BY <1>1, <1>7, <1>10, EndingWithTurn DEF q

\* The turn passes to the other; a process that has won is done from here.
LEMMA EndingKill ==
  ASSUME IInv, Ending, NEW p \in Player, Kill(p)
  PROVE  Ending'
<1> USE DEF IInv, TypeOK, Goto
<1> DEFINE q == Other(p)
<1>1. q \in Player /\ q # p /\ Player = {p, q} /\ Other(q) = p
  BY OtherPlayer
<1>2. pc[p] = "kill" /\ Playing(p) /\ file = board[p]
  BY DEF Kill, Playing, Ending
<1>3. ~ pending[q] /\ ~ myTurn[q] /\ ~ Playing(q)
  BY <1>2, TurnHere
<1>4. ~ pending[p] /\ ~ myTurn[p]
  <2>1. <<p, "playing">> \in Turns
    BY <1>2, TurnsAre
  <2> QED BY <2>1, OnlyTurn
<1>5. file # <<>>
  BY <1>1, <1>2, <1>3 DEF ChildWritesFirst, Playing, Child, Player
<1>6. /\ file' = file /\ board' = board /\ myTurn' = myTurn /\ pc'[q] = pc[q] /\ pc'[p] = "loop"
      /\ pending'[q] /\ ~ pending'[p]
  BY <1>1, <1>4 DEF Kill
<1>7. /\ Won' = Won /\ (Won <=> HasWinner(board[p])) /\ ~ Passed(p)'
      /\ (Done(p)' <=> Won) /\ (Done(q)' <=> Done(q))
  BY <1>2, <1>4, <1>5, <1>6 DEF Won, Passed, Done
<1>8. ~ Done(q)
  BY <1>2 DEF Ending
<1>9. pc'[q] \notin {"mark", "write", "kill"}
  BY <1>3, <1>6 DEF Playing
<1>10. pc'[q] \in {"reap", "exit"} => HasWinner(board'[q])
  BY <1>1, <1>6 DEF Ending
<1> HIDE DEF q
<1>11. ASSUME NEW r \in {q, p}
       PROVE  /\ pc'[r] \in {"reap", "exit"} => HasWinner(board'[r])
              /\ Done(r)' => Won' /\ ~ Passed(r)'
              /\ pc'[r] \in {"mark", "write"} => ~ Won'
              /\ pc'[r] = "kill" => file' = board'[r] /\ ~ Done(Other(r))'
              /\ Won' /\ Passed(r)' => Done(Other(r))'
  BY <1>1, <1>6, <1>7, <1>8, <1>9, <1>10 DEF q
<1> QED
  BY <1>1, <1>6, <1>11, EndingWithTurn

\* The conditions of the game's end hold throughout.
LEMMA EndingHolds == Spec => []Ending
<1>1. Init => Ending
  BY EndingInit
<1>2. IInv /\ Ending /\ [Next]_vars => Ending'
  <2> SUFFICES ASSUME IInv, Ending, [Next]_vars PROVE Ending'
    OBVIOUS
  <2>1. ASSUME NEW p \in Player, Process(p) PROVE Ending'
    BY <2>1, EndingLeave, EndingPass, EndingRead, EndingMove, EndingKill DEF Process
  <2>2. CASE UNCHANGED vars
    BY <2>2 DEF vars, Ending, Done, Won, Passed, Turns
  <2> QED
    BY <2>1, <2>2 DEF Next
<1> QED
  BY <1>1, <1>2, Invariance, PTL DEF Spec

\* When no process can run, the game has ended for both, or one sleeps through a
\* signal it has or had (lines 98-101): there is no other way to stop, since a
\* process without the turn sleeps only while the other has it, and a process that
\* is done hands the turn on before it waits.
THEOREM OnlyLostSignals == Spec => []StopsOnlyByLostSignal
<1>1. IInv /\ Ending => StopsOnlyByLostSignal
  <2> SUFFICES ASSUME IInv, Ending, Halted, NEW p \in Player, pc[p] # "exit"
               PROVE  \E r \in Player : pc[r] = "asleep" /\ (myTurn[r] \/ pending[r])
    BY DEF StopsOnlyByLostSignal
  <2>1. \A r \in Player : pc[r] \in {"asleep", "reap", "exit"}
    BY DEF Halted
  <2>2. PICK s \in Player : pc[s] = "asleep"
    BY <2>1 DEF Halted, Player, Parent, Child
  <2>3. Turns # {}
    BY <2>2 DEF Ending, Done
  <2>4. PICK r \in Player : pending[r] \/ myTurn[r]
    BY <2>1, <2>3, TurnsAre DEF Playing
  <2>5. ~ Done(r)
    BY <2>4 DEF Ending, Passed
  <2>6. pc[r] = "asleep"
    BY <2>1, <2>5 DEF Ending, Done
  <2> QED
    BY <2>4, <2>6
<1> QED
  BY <1>1, Invariance, EndingHolds, PTL

-----------------------------------------------------------------------------
(* The game that the file shows.                                          *)

\* The board that the file shows.
Shown == IF file = <<>> THEN EmptyBoard ELSE file

\* The board that each process is about to use, by its place in the code.
InTurn ==
  \A p \in Player :
    /\ Passed(p) => ToMove(Shown, p)
    /\ pc[p] = "mark" => board[p] = Shown /\ ToMove(Shown, p)
    /\ pc[p] = "write" => \/ file = <<>> /\ board[p] = EmptyBoard
                          \/ file # <<>> /\ board[p] = Marked(file, p) /\ ToMove(file, p)
    /\ pc[p] = "kill" => file # <<>> /\ ToMove(file, Other(p))

-----------------------------------------------------------------------------
(* The file's board and the turn.                                          *)

LEMMA InTurnInit == Init => InTurn
BY DEF Init, InTurn, Passed, Player, Child, Other

LEMMA InTurnStep ==
  ASSUME IInv, Ending, InTurn, NEW p \in Player, Process(p)
  PROVE  InTurn'
<1> USE DEF IInv, TypeOK, Goto
<1> DEFINE q == Other(p)
<1>1. q \in Player /\ q # p /\ Player = {p, q} /\ Other(q) = p
  BY OtherPlayer
<1> HIDE DEF q
<1>2. CASE LoopTest(p) \/ TurnTest(p) \/ Suspend(p) \/ Reap(p)
  <2>1. /\ file' = file /\ board' = board /\ pending' = pending /\ myTurn' = myTurn
        /\ pc'[p] \notin {"read", "mark", "write", "kill"}
        /\ pc'[q] = pc[q] /\ pc[p] \notin {"read", "mark", "write", "kill"}
    BY <1>1, <1>2 DEF LoopTest, TurnTest, Suspend, Reap
  <2>2. Shown' = Shown
    BY <2>1 DEF Shown
  <2>3. \A r \in Player : Passed(r)' <=> Passed(r)
    BY <1>1, <2>1 DEF Passed
  <2> QED
    BY <1>1, <2>1, <2>2, <2>3 DEF InTurn
<1>3. CASE Deliver(p) \/ ResetTurn(p)
  <2>1. /\ file' = file /\ board' = board
        /\ pc'[q] = pc[q] /\ pending'[q] = pending[q] /\ myTurn'[q] = myTurn[q]
        /\ pc'[p] = pc[p] \/ pc'[p] \in {"test", "read"}
        /\ Passed(p)
    BY <1>1, <1>3 DEF Deliver, ResetTurn, ResetsTurn, Passed
  <2>2. Shown' = Shown
    BY <2>1 DEF Shown
  <2>3. Passed(q)' <=> Passed(q)
    BY <2>1 DEF Passed
  <2> QED
    BY <1>1, <2>1, <2>2, <2>3 DEF InTurn
<1>4. CASE ReadBoard(p)
  <2>1. Passed(p) /\ Playing(p) /\ ToMove(Shown, p)
    BY <1>4 DEF ReadBoard, Passed, Playing, InTurn
  <2>2. ~ pending[q] /\ ~ myTurn[q] /\ ~ Playing(q)
    BY <2>1, TurnHere DEF q
  <2>3. file # <<>>
    BY <1>1, <1>4, <2>2 DEF ReadBoard, ChildWritesFirst, Playing, Child, Player
  <2>4. /\ file' = file /\ board'[p] = file /\ pc'[q] = pc[q]
        /\ pending' = pending /\ myTurn' = myTurn /\ pc'[p] \in {"reap", "mark"}
    BY <1>1, <1>4, <2>3 DEF ReadBoard
  <2>5. Shown = file /\ Shown' = file
    BY <2>3, <2>4 DEF Shown
  <2>6. ~ Passed(q)'
    BY <2>2, <2>4 DEF Passed, Playing
  <2> QED
    BY <1>1, <2>1, <2>2, <2>4, <2>5, <2>6 DEF InTurn, Playing
<1>5. CASE MarkCell(p)
  <2>1. Playing(p) /\ board[p] = Shown /\ ToMove(Shown, p) /\ pc[p] = "mark"
    BY <1>5 DEF MarkCell, Playing, InTurn
  <2>2. ~ pending[q] /\ ~ myTurn[q] /\ ~ Playing(q)
    BY <2>1, TurnHere DEF q
  <2>3. file # <<>>
    BY <1>1, <2>1, <2>2 DEF ChildWritesFirst, Playing, Child, Player
  <2>4. /\ file' = file /\ board'[p] = Marked(board[p], p) /\ pc'[q] = pc[q]
        /\ pending' = pending /\ myTurn' = myTurn /\ pc'[p] = "write"
    BY <1>1, <1>5 DEF MarkCell
  <2>5. Shown = file /\ Shown' = file
    BY <2>3, <2>4 DEF Shown
  <2>6. ~ Passed(q)'
    BY <2>2, <2>4 DEF Passed, Playing
  <2> QED
    BY <1>1, <2>1, <2>2, <2>3, <2>4, <2>5, <2>6 DEF InTurn, Passed, Playing
<1>6. CASE WriteBoard(p)
  <2>1. /\ Playing(p) /\ pc[p] = "write"
        /\ \/ file = <<>> /\ board[p] = EmptyBoard
           \/ file # <<>> /\ board[p] = Marked(file, p) /\ ToMove(file, p)
    BY <1>6 DEF WriteBoard, Playing, InTurn
  <2>2. ~ pending[q] /\ ~ myTurn[q] /\ ~ Playing(q)
    BY <2>1, TurnHere DEF q
  <2>3. ToMove(board[p], q)
    <3>1. CASE file = <<>>
      <4>1. q = X
        BY <1>1, <2>2, <3>1 DEF ChildWritesFirst, Playing, Child, Player
      <4> QED
        BY <2>1, <3>1, <4>1, EmptyToMove
    <3>2. CASE file # <<>>
      BY <2>1, <3>2, MoveTurns DEF q
    <3> QED BY <3>1, <3>2
  <2>4. /\ file' = board[p] /\ pc'[q] = pc[q]
        /\ pending' = pending /\ myTurn' = myTurn /\ pc'[p] = "kill"
    BY <1>1, <1>6 DEF WriteBoard
  <2>5. board[p] # <<>>
    BY BoardNotEmpty
  <2>6. ~ pending[p] /\ ~ myTurn[p]
    <3>1. <<p, "playing">> \in Turns
      BY <2>1, TurnsAre
    <3> QED BY <3>1, OnlyTurn
  <2>7. ~ Passed(p)' /\ ~ Passed(q)'
    BY <2>2, <2>4, <2>6 DEF Passed, Playing
  <2> QED
    BY <1>1, <2>2, <2>3, <2>4, <2>5, <2>7 DEF InTurn, Playing, q
<1>7. CASE Kill(p)
  <2>1. Playing(p) /\ file # <<>> /\ ToMove(file, q)
    BY <1>7 DEF Kill, Playing, InTurn, q
  <2>2. ~ pending[q] /\ ~ myTurn[q] /\ ~ Playing(q)
    BY <2>1, TurnHere DEF q
  <2>3. /\ file' = file /\ pc'[q] = pc[q] /\ pc'[p] = "loop"
        /\ pending'[p] = pending[p] /\ myTurn'[p] = myTurn[p]
    BY <1>1, <1>7 DEF Kill, q
  <2>4. Shown = file /\ Shown' = file
    BY <2>1, <2>3 DEF Shown
  <2>5. Passed(p)' => Passed(p)
    BY <2>3 DEF Passed
  <2> QED
    BY <1>1, <2>1, <2>2, <2>3, <2>4, <2>5 DEF InTurn, Playing
<1> QED
  BY <1>2, <1>3, <1>4, <1>5, <1>6, <1>7 DEF Process

LEMMA InTurnHolds == Spec => []InTurn
<1>1. Init => InTurn
  BY InTurnInit
<1>2. IInv /\ Ending /\ InTurn /\ [Next]_vars => InTurn'
  <2> SUFFICES ASSUME IInv, Ending, InTurn, [Next]_vars PROVE InTurn'
    OBVIOUS
  <2>1. ASSUME NEW p \in Player, Process(p) PROVE InTurn'
    BY <2>1, InTurnStep
  <2>2. CASE UNCHANGED vars
    BY <2>2 DEF vars, InTurn, Passed, Shown
  <2> QED
    BY <2>1, <2>2 DEF Next
<1> QED
  BY <1>1, <1>2, Invariance, EndingHolds, PTL DEF Spec

-----------------------------------------------------------------------------

LEMMA SameMove ==
  ASSUME NEW b, NEW p
  PROVE  /\ Abstract!HasWinner(b) <=> HasWinner(b)
         /\ Abstract!Marked(b, p) = Marked(b, p)
BY DEF Abstract!HasWinner, HasWinner, Abstract!Marked, Marked, Abstract!Free, Free,
       Abstract!Winning, Winning, Abstract!Other, Other, Abstract!Put, Put,
       Abstract!SimulatedIndex, SimulatedIndex, Abstract!Triples, Triples,
       Abstract!Player, Player, Abstract!Cell, Cell

LEMMA SameCount ==
  ASSUME NEW S
  PROVE  Abstract!Cardinality(S) = Cardinality(S)
BY DEF Abstract!Cardinality, Cardinality

\* Only a write changes what the file shows, and it writes the move of the player
\* whose turn it is by the marks on the board.
LEMMA StepIsMove ==
  ASSUME IInv, Ending, InTurn, NEW p \in Player, Process(p)
  PROVE  Shown' = Shown \/ Abstract!Move
<1> USE DEF IInv, TypeOK
<1>1. CASE ~ WriteBoard(p)
  <2>1. file' = file
    BY <1>1 DEF Process, LoopTest, TurnTest, Suspend, Deliver, ResetTurn, ReadBoard,
       MarkCell, Kill, Reap
  <2> QED
    BY <2>1 DEF Shown
<1>2. CASE WriteBoard(p)
  <2>1. /\ pc[p] = "write" /\ file' = board[p] /\ board[p] \in Boards /\ ~ Won
        /\ \/ file = <<>> /\ board[p] = EmptyBoard
           \/ file # <<>> /\ board[p] = Marked(file, p) /\ ToMove(file, p)
    BY <1>2 DEF WriteBoard, Goto, InTurn, Ending
  <2>2. Shown' = board[p]
    BY <2>1, BoardNotEmpty DEF Shown
  <2>3. CASE file = <<>>
    BY <2>1, <2>2, <2>3 DEF Shown
  <2>4. CASE file # <<>>
    <3>1. Shown = file /\ file \in Boards /\ ~ HasWinner(Shown) /\ Shown' = Marked(Shown, p)
      BY <2>1, <2>2, <2>4 DEF Shown, Won
    <3>2. CASE Free(file) = {}
      BY <3>1, <3>2 DEF Marked
    <3>3. CASE Free(file) # {}
      <4>1. Abstract!Turn = p
        <5>1. Abstract!Turn = IF Cardinality(Marks(Shown, X)) = Cardinality(Marks(Shown, O))
                                THEN X ELSE O
          BY SameCount DEF Abstract!Turn, Marks, Shown, Abstract!Cell, Cell
        <5>2. /\ Cardinality(Marks(file, X)) \in Nat /\ Cardinality(Marks(file, O)) \in Nat
              /\ Cardinality(Marks(file, X))
                   = Cardinality(Marks(file, O)) + (IF p = X THEN 0 ELSE 1)
          BY <2>1, <2>4, <3>3, MarksFinite DEF ToMove
        <5> QED
          BY <3>1, <5>1, <5>2 DEF Player
      <4> QED
        BY <3>1, <4>1, SameMove DEF Abstract!Move, Shown
    <3> QED
      BY <3>2, <3>3
  <2> QED
    BY <2>3, <2>4
<1> QED
  BY <1>1, <1>2

\* The processes play one game: the boards in tictactoe.txt are those of Game, X
\* and O in turn and one move each, as `mark` computes it, whatever signal comes
\* when, and although each process works on a copy of the board.
THEOREM PlaysTheGame == Spec => ImplementsGame
<1>1. Init => Abstract!Init
  BY DEF Init, Abstract!Init, Abstract!EmptyBoard, EmptyBoard, Abstract!Cell, Cell
<1>2. IInv /\ Ending /\ InTurn /\ [Next]_vars => [Abstract!Move]_Shown
  <2> SUFFICES ASSUME IInv, Ending, InTurn, [Next]_vars PROVE Shown' = Shown \/ Abstract!Move
    OBVIOUS
  <2>1. CASE UNCHANGED vars
    BY <2>1 DEF vars, Shown
  <2> QED
    BY <2>1, StepIsMove DEF Next
<1> QED
  BY <1>1, <1>2, Invariance, EndingHolds, InTurnHolds, PTL
     DEF Spec, ImplementsGame, Abstract!Spec, Shown
=============================================================================
