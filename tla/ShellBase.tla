----------------------------- MODULE ShellBase -----------------------------
(***************************************************************************)
(* shell_base (1).c: the shell before it had pipes and redirection.  It     *)
(* looks a command up in the directories of PATH itself, in the child.     *)
(*                                                                         *)
(* A line is a sequence of commands with the token that ends each.  Of a    *)
(* name in a directory it matters whether it is a program, or something     *)
(* that access() calls executable and execv refuses (a directory, say), or  *)
(* not there.                                                              *)
(***************************************************************************)
EXTENDS Integers, Sequences

CONSTANTS Kid,            \* the children the kernel allows at a time
          Dir, Name,
          PathValues,     \* the values of PATH, sequences of directories; <<>> if not set
          BaseLines,      \* the lines a user may type
          MaxBaseLines,   \* how many are typed before the end of the input
          MAXARGS

ASSUME BaseAssumption ==
  /\ "." \in Dir /\ PathValues \subseteq Seq(Dir) /\ {0, -1} \cap Kid = {}
  /\ MAXARGS \in Nat \ {0} /\ MaxBaseLines \in Nat
  /\ BaseLines \subseteq Seq([name : Name \cup {"cd", "exit"}, argc : Nat,
                             token : {";", "&", "EOL"}])

VARIABLES
  PATH, fs,   \* the environment: PATH, and what a name is in a directory
  shellAt,    \* "read", "line", "wait", "reap", "exit"
  linesRead,
  rest,       \* commands of the line that are still to be run
  token,      \* what ends the command that is run
  pid,        \* what run_cmd returned; 0 after an internal command
  kid         \* the children

baseVars == <<PATH, fs, shellAt, linesRead, rest, token, pid, kid>>
environment == <<PATH, fs>>

NoKid == [at |-> "free", name |-> "none", i |-> 0, lost |-> FALSE, bg |-> FALSE]

Zombie == {q \in Kid : kid[q].at = "zombie"}

\* Mutation: the last directory is searched, and the current one is not.
ParsePathOnly(value) == value

\* parse_path: what stands behind the last colon is stored, but not counted.
ParsePath(value) == IF value = <<>> THEN <<".">> ELSE <<".">> \o SubSeq(value, 1, Len(value) - 1)

Searched == ParsePath(PATH)

---------------------------------------------------------------------------
(* The shell.                                                              *)

ReadBaseLine ==
  /\ shellAt = "read" /\ linesRead < MaxBaseLines
  /\ \E line \in BaseLines : rest' = line
  /\ linesRead' = linesRead + 1 /\ shellAt' = "line"
  /\ UNCHANGED <<environment, token, pid, kid>>

EndBaseInput ==
  /\ shellAt = "read" /\ shellAt' = "exit"
  /\ UNCHANGED <<environment, linesRead, rest, token, pid, kid>>

Cmd == Head(rest)

\* MAXARGS words leave no room for the NULL behind them, which is written over
\* argc, and more overrun the structure: the shell quits or dies.
QuitsAt ==
  \/ Cmd.argc = 0 \/ Cmd.argc >= MAXARGS
  \/ Cmd.name = "exit"
  \/ Cmd.name = "cd" /\ Cmd.argc > 2

QuitAtCmd ==
  /\ shellAt = "line" /\ rest # <<>>
  /\ QuitsAt \/ Cmd.name = "cd"
  /\ shellAt' = "exit"
  /\ UNCHANGED <<environment, linesRead, rest, token, pid, kid>>

Cd ==
  /\ shellAt = "line" /\ rest # <<>> /\ ~QuitsAt /\ Cmd.name = "cd"
  /\ token' = Cmd.token /\ pid' = 0 /\ rest' = Tail(rest) /\ shellAt' = "wait"
  /\ UNCHANGED <<environment, linesRead, kid>>

\* run_cmd: a failing fork gives the pid -1.
RunCmd ==
  /\ shellAt = "line" /\ rest # <<>> /\ ~QuitsAt /\ Cmd.name # "cd"
  /\ IF \A q \in Kid : kid[q].at # "free"
     THEN pid' = -1 /\ UNCHANGED kid
     ELSE LET q == CHOOSE q \in Kid : kid[q].at = "free" IN
          /\ pid' = q
          /\ kid' = [kid EXCEPT ![q] = [at |-> "search", name |-> Cmd.name, i |-> 1,
                                        lost |-> FALSE, bg |-> Cmd.token = "&"]]
  /\ token' = Cmd.token /\ rest' = Tail(rest) /\ shellAt' = "wait"
  /\ UNCHANGED <<environment, linesRead>>

EndLine ==
  /\ shellAt = "line" /\ rest = <<>>
  /\ shellAt' = "reap"
  /\ UNCHANGED <<environment, linesRead, rest, token, pid, kid>>

Reaped(q) == kid' = [kid EXCEPT ![q] = NoKid]

\* A pid is printed after &, and waited for otherwise; -1 is any child.
WaitCmd ==
  LET awaited == {q \in Kid : kid[q].at # "free" /\ pid \in {-1, q}} IN
  /\ shellAt = "wait"
  /\ \/ (token = "&" \/ awaited = {}) /\ UNCHANGED kid
     \/ token # "&" /\ \E q \in awaited \cap Zombie : Reaped(q)
  /\ shellAt' = "line" /\ pid' = 0
  /\ UNCHANGED <<environment, linesRead, rest, token>>

ReapTerminated ==
  /\ shellAt = "reap"
  /\ \/ (\E q \in Zombie : Reaped(q)) /\ UNCHANGED shellAt
     \/ Zombie = {} /\ shellAt' = "read" /\ UNCHANGED kid
  /\ UNCHANGED <<environment, linesRead, rest, token, pid>>

---------------------------------------------------------------------------
(* The children.                                                           *)

\* One round of the search.  fullpath is also argv[0] once execv has failed: the
\* next snprintf copies it onto itself and the name is lost.
TryDir(q) ==
  /\ kid[q].at = "search" /\ kid[q].i <= Len(Searched)
  /\ LET found == IF kid[q].lost THEN "none" ELSE fs[Searched[kid[q].i]][kid[q].name] IN
     IF found = "program" THEN kid' = [kid EXCEPT ![q].at = "program"]
     ELSE kid' = [kid EXCEPT ![q].i = @ + 1, ![q].lost = @ \/ found = "refused"]
  /\ UNCHANGED <<environment, shellAt, linesRead, rest, token, pid>>

\* The error exit of the search, or the end of the program.
EndKid(q) ==
  /\ kid[q].at = "program" \/ (kid[q].at = "search" /\ kid[q].i > Len(Searched))
  /\ kid' = [kid EXCEPT ![q].at = "zombie"]
  /\ UNCHANGED <<environment, shellAt, linesRead, rest, token, pid>>

BaseInit ==
  /\ PATH \in PathValues /\ fs \in [Dir -> [Name -> {"program", "refused", "none"}]]
  /\ shellAt = "read" /\ linesRead = 0 /\ rest = <<>> /\ token = "EOL" /\ pid = 0
  /\ kid = [q \in Kid |-> NoKid]

BaseNext ==
  \/ ReadBaseLine \/ EndBaseInput \/ QuitAtCmd \/ Cd \/ RunCmd \/ EndLine
  \/ WaitCmd \/ ReapTerminated
  \/ \E q \in Kid : TryDir(q) \/ EndKid(q)

BaseSpec == BaseInit /\ [][BaseNext]_baseVars

---------------------------------------------------------------------------

\* Where a user looks for a command: here, and in every directory of PATH.
Places == <<".">> \o PATH

IsAt(q, k, what) == fs[Places[k]][kid[q].name] = what

\* The program that runs is the first of that name; and a command is not found only
\* if it is nowhere, or if it is in the last directory of PATH alone, or if
\* something that is no program has the name in an earlier place (lines 109-115 and
\* 186-193).
FirstIsRun(q) ==
  /\ kid[q].at = "program" =>
       /\ IsAt(q, kid[q].i, "program")
       /\ \A k \in 1 .. kid[q].i - 1 : IsAt(q, k, "none")
  /\ kid[q].at = "search" /\ kid[q].i > Len(Searched) =>
       \A k \in DOMAIN Places : IsAt(q, k, "program") =>
         k = Len(Places) \/ \E j \in 1 .. k - 1 : IsAt(q, j, "refused")

\* A shell that reads the next line has no child left that ran in the foreground,
\* not even if a fork failed and it waited for any child.
SearchAndWait ==
  /\ \A q \in Kid : FirstIsRun(q)
  /\ shellAt = "read" => \A q \in Kid : kid[q].at # "free" => kid[q].bg

=============================================================================
