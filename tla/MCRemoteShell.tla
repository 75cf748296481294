--------------------------- MODULE MCRemoteShell ---------------------------
(***************************************************************************)
(* The users that TLC lets come: one who types more lines than the          *)
(* connection and the client's buffer hold, so that the client can be       *)
(* blocked behind a program of the first line; one whose every line starts  *)
(* a process; and two who share the server, of whom one is turned away.     *)
(***************************************************************************)
EXTENDS RemoteShell

CONSTANTS c1, c2

MCInputs ==
  { [c \in {c1} |-> <<2, 0, 0, 0>>],
    [c \in {c1} |-> <<1, 1>>],
    [c \in {c1, c2} |-> <<1>>] }
=============================================================================
