----------------------------- MODULE Exercises -----------------------------
(***************************************************************************)
(* The four small programs side by side: parse_expr.c, linkedlist.c,        *)
(* printbin.c and shell_base (1).c.  One of them is run.                   *)
(***************************************************************************)
EXTENDS ParseExpr, LinkedList, PrintBin, ShellBase

VARIABLE program

exerciseVars == <<program, exprVars, listVars, binVars, baseVars>>

\* The programs that do not run stay in one of their initial states.
Init ==
  /\ program \in {"expr", "list", "bin", "base"}
  /\ ExprInit /\ ListInit /\ BinInit /\ BaseInit
  /\ program # "base" => PATH = <<>> /\ \A d \in Dir, x \in Name : fs[d][x] = "none"

Next ==
  /\ UNCHANGED program
  /\ \/ program = "expr" /\ ExprNext /\ UNCHANGED <<listVars, binVars, baseVars>>
     \/ program = "list" /\ ListNext /\ UNCHANGED <<exprVars, binVars, baseVars>>
     \/ program = "bin" /\ BinNext /\ UNCHANGED <<exprVars, listVars, baseVars>>
     \/ program = "base" /\ BaseNext /\ UNCHANGED <<exprVars, listVars, binVars>>

Spec == Init /\ [][Next]_exerciseVars

MCDigits == [c \in {"0", "8"} |-> IF c = "0" THEN 0 ELSE 8]

MCPathValues == {<<>>, <<"d1">>, <<"d1", "d2">>, <<"d2", "d1", ".">>}

MCBaseLines ==
  LET Run(words, end) == [name |-> "cmd", argc |-> words, token |-> end]
      Internal(name, words) == [name |-> name, argc |-> words, token |-> "EOL"]
  IN { <<Run(1, ";"), Run(2, "EOL")>>,
       <<Run(1, "&"), Run(1, "EOL")>>,
       <<Run(1, "&"), Run(1, "&"), Run(1, ";")>>,
       <<Internal("cd", 1)>>, <<Internal("cd", 3)>>, <<Internal("exit", 1)>>,
       <<Run(0, ";")>>, <<Run(4, "EOL")>> }

=============================================================================
