----------------------------- MODULE TicTacToe -----------------------------
(***************************************************************************)
(* The game logic that tictactoe.c and "tictactoe2 (1).c" share: who has   *)
(* won, and the move that a player makes.                                  *)
(***************************************************************************)
EXTENDS Integers

CONSTANTS X, O, EMPTY     \* the players and the mark of an empty cell

ASSUME MarksAssumption == X # O /\ EMPTY \notin {X, O}

Player == {X, O}

Other(player) == IF player = X THEN O ELSE X

Cell == 0..8

Boards == [Cell -> Player \cup {EMPTY}]

EmptyBoard == [i \in Cell |-> EMPTY]

\* The rows, the columns and the two diagonals of the board.
Triples ==
  {{3 * i, 3 * i + 1, 3 * i + 2} : i \in 0..2}
    \cup {{i, i + 3, i + 6} : i \in 0..2}
    \cup {{0, 4, 8}, {2, 4, 6}}

HasWinner(b) == \E t \in Triples, p \in Player : \A i \in t : b[i] = p

Free(b) == {i \in Cell : b[i] = EMPTY}

Put(b, i, player) == [b EXCEPT ![i] = player]

\* The cells where a move of this player would end the game.
Winning(b, player) == {i \in Free(b) : HasWinner(Put(b, i, player))}

\* simulatePlay leaves in *index the first winning cell, or else the last
\* free one.
SimulatedIndex(b, player) ==
  IF Winning(b, player) # {}
    THEN CHOOSE i \in Winning(b, player) : \A j \in Winning(b, player) : i <= j
    ELSE CHOOSE i \in Free(b) : \A j \in Free(b) : j <= i

\* Mutation: a player tries its own win before it blocks the other's.
WinFirst(b, player) ==
  IF Free(b) = {} THEN b
  ELSE LET who == IF Winning(b, player) # {} THEN player ELSE Other(player)
       IN  Put(b, SimulatedIndex(b, who), player)

\* mark: take the cell where the other would win, or else one's own winning
\* cell, or else the last free one; a full board is left alone.
Marked(b, player) ==
  IF Free(b) = {} THEN b
  ELSE LET who == IF Winning(b, Other(player)) # {} THEN Other(player) ELSE player
       IN  Put(b, SimulatedIndex(b, who), player)
=============================================================================
