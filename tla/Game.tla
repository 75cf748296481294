-------------------------------- MODULE Game --------------------------------
(***************************************************************************)
(* What a game of tic-tac-toe between the two players promises, however    *)
(* they run and pass the board to each other: X moves first, they move in  *)
(* turn, a move is the one `mark` computes, and nobody moves after a win.  *)
(***************************************************************************)
EXTENDS TicTacToe, FiniteSets

VARIABLE board

Init == board = EmptyBoard

\* Whose turn it is, from the marks on the board.
Turn ==
  IF Cardinality({i \in Cell : board[i] = X}) = Cardinality({i \in Cell : board[i] = O})
    THEN X ELSE O

Move == ~ HasWinner(board) /\ board' = Marked(board, Turn)

Spec == Init /\ [][Move]_board
=============================================================================
