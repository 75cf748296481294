---------------------------- MODULE RemoteShell ----------------------------
(***************************************************************************)
(* remoteshell/: clients that copy their stdin to a socket and the socket   *)
(* to their stdout, a server that runs a shell on every connection, and    *)
(* the processes the shells start, which share its socket.                 *)
(*                                                                         *)
(* A stream is a sequence of chunks; what a client's user types, one line a *)
(* chunk, is numbered 1, 2, ..., and so is what is written to a connection. *)
(* What a line does with pipes and redirections is module Shell; to the    *)
(* connection a line is a number of commands, and a command is one of       *)
(*   - a program, which may read the connection and write to it, now and    *)
(*     then, and which may never end;                                      *)
(*   - a second shell, where execvpe fails: the child returns into the main *)
(*     loop with a copy of its parent's variables and of its stdin buffer;  *)
(*   - exit, cd, or an error, run by the shell itself.                      *)
(***************************************************************************)
EXTENDS Naturals, Sequences, FiniteSets

CONSTANTS Client,
          Extra,        \* processes the shells may have started at a time
          UpSize,       \* chunks the connection holds on its way from the client
          DownSize,     \* and on its way to it
          Inputs,       \* what the users may type: for some of the clients, a sequence of
                        \* lines, each the number of its commands that fork
          MaxOutput,    \* chunks a program writes to the connection at most
          MaxCommands,  \* commands that fork in what cmdline holds if nothing was read
          MaxChildren   \* processes the server may have, zombies included

ASSUME RemoteAssumption ==
  /\ UpSize \in Nat \ {0} /\ DownSize \in Nat \ {0}
  /\ \A f \in Inputs : DOMAIN f \subseteq Client /\ f \in [DOMAIN f -> Seq(Nat)]
  /\ MaxOutput \in Nat /\ MaxCommands \in Nat
  /\ MaxChildren \in Nat
  /\ Client \cap Extra = {} /\ 0 \notin Client \cup Extra

\* The shell the server starts on connection c is process c.
Proc == Client \cup Extra

VARIABLES
  input,    \* what the users type; it does not change
  buf,      \* the client's buf: a line read from stdin and not yet sent, or 0
  typed,    \* lines read from the client's stdin
  shown,    \* what the client has written to its stdout
  left,     \* why the client has left repeat(), "running" while it has not
  up, down, \* the connection, from and to the client
  reset,    \* <<c, end>>: the end, "client" or "shell", that a call has yet to tell of a reset
  dead,     \* the connections that were reset
  wrote,    \* chunks written to a connection while its client was there
  got,      \* the lines read from a connection, by whatever process
  shared,   \* the connections of which another process than the first shell has read
  conn,     \* the connection a process has open, 0 if there is no such process
  at,       \* where a process is
  uses,     \* which of a shell's stdin and stdout, "in" and "out", is the connection
  cmds,     \* commands of its line that a shell has still to run
  inbuf,    \* lines in the buffer of a shell's stdin
  cmdline,  \* the line a shell has read last, by itself or before it was forked; 0 if none
  todo,     \* chunks a program may still write to the connection
  parent,   \* the shell that has forked a process, 0 if nobody can wait for it
  awaited,  \* processes that are in pids of their parent's line
  backlog,  \* connections not yet accepted
  cfd,      \* the server's variable cfd: a client, or 0 if accept failed
  held,     \* the connections the server itself has open
  server,   \* where the server is
  children  \* processes the server has forked; it never waits for one

clientVars == <<input, buf, typed, shown, left>>
connVars   == <<up, down, reset, dead, wrote>>
readVars   == <<got, shared>>
shellVars  == <<uses, cmds, inbuf, cmdline>>
procVars   == <<conn, at, shellVars, todo, parent, awaited>>
serverVars == <<backlog, cfd, held, server, children>>
vars == <<clientVars, connVars, readVars, procVars, serverVars>>

Gone(c) == left[c] \in {"disconnected", "end of input", "killed"}

\* Who has the server's end of a connection open: it is accepted at most once.
ServerOpen(c) ==
  \/ \E i \in DOMAIN backlog : backlog[i] = c
  \/ c \in held
  \/ \E p \in Proc : conn[p] = c

---------------------------------------------------------------------------
(* The connection.  One that is closed in order delivers all that was       *)
(* written to it.  It is reset if an end is closed with something unread,   *)
(* or is written to when the other end is closed; of what is under way to   *)
(* the end that lives, that has then arrived some, and the rest is lost.    *)
(* The next read or write there fails; later ones return 0, and kill.       *)

ResetTo(c, end) ==
  /\ dead' = dead \cup {c}
  /\ reset' = reset \cup {<<c, end>>}

DownCut(c) == \E n \in 0 .. Len(down[c]) : down' = [down EXCEPT ![c] = SubSeq(@, 1, n)]

UpCut(c) == \E n \in 0 .. Len(up[c]) : up' = [up EXCEPT ![c] = SubSeq(@, 1, n)]

\* Some process has closed connection c, which resets it if that was the last one
\* and lines are left that nobody will read.
HangUp(c) ==
  IF ServerOpen(c)' THEN UNCHANGED connVars
  ELSE /\ up' = [up EXCEPT ![c] = <<>>]
       /\ IF up[c] = <<>> \/ Gone(c) THEN UNCHANGED <<down, reset, dead>>
          ELSE ResetTo(c, "client") /\ DownCut(c)
       /\ UNCHANGED wrote

\* A process writes a chunk to connection c.
Emit(c) ==
  \/ /\ ~Gone(c) /\ Len(down[c]) < DownSize
     /\ wrote' = [wrote EXCEPT ![c] = @ + 1]
     /\ down' = [down EXCEPT ![c] = Append(@, wrote[c] + 1)]
     /\ UNCHANGED <<up, reset, dead>>
  \/ /\ Gone(c) /\ c \notin dead
     /\ ResetTo(c, "shell") /\ UpCut(c)
     /\ UNCHANGED <<down, wrote>>
  \/ /\ Gone(c) /\ <<c, "shell">> \in reset
     /\ reset' = reset \ {<<c, "shell">>}
     /\ UNCHANGED <<up, down, dead, wrote>>

\* Process p takes n lines off its connection.
Take(p, n) ==
  LET c == conn[p] IN
  /\ got' = [got EXCEPT ![c] = @ \o SubSeq(up[c], 1, n)]
  /\ up' = [up EXCEPT ![c] = SubSeq(@, n + 1, Len(@))]
  /\ shared' = IF p \in Client THEN shared ELSE shared \cup {c}
  /\ UNCHANGED <<down, reset, dead, wrote>>

---------------------------------------------------------------------------
(* The client.                                                             *)

Connect(c) ==
  /\ left[c] = "out" /\ c \in DOMAIN input
  /\ left' = [left EXCEPT ![c] = "running"]
  /\ backlog' = Append(backlog, c)
  /\ UNCHANGED <<input, buf, typed, shown, connVars, readVars, procVars,
                 cfd, held, server, children>>

Idle(c) == left[c] = "running" /\ buf[c] = 0

Readable(c) == down[c] # <<>> \/ ~ServerOpen(c) \/ <<c, "client">> \in reset

\* close(sfd), or the client's death.
Leave(c, why) ==
  /\ left' = [left EXCEPT ![c] = why]
  /\ buf' = [buf EXCEPT ![c] = 0]
  /\ down' = [down EXCEPT ![c] = <<>>]
  /\ IF down[c] # <<>> /\ ServerOpen(c) THEN ResetTo(c, "shell") /\ UpCut(c)
     ELSE reset' = reset \ {<<c, "client">>} /\ UNCHANGED <<up, dead>>
  /\ UNCHANGED <<input, typed, shown, wrote, readVars, procVars, serverVars>>

Show(c) ==
  /\ shown' = [shown EXCEPT ![c] = Append(@, Head(down[c]))]
  /\ down' = [down EXCEPT ![c] = Tail(@)]
  /\ UNCHANGED <<input, buf, typed, left, up, reset, dead, wrote, readVars, procVars, serverVars>>

\* Mutation: the client leaves as soon as the other end is closed.
ReceiveHangUpFirst(c) ==
  /\ Idle(c) /\ Readable(c)
  /\ IF ServerOpen(c) THEN down[c] # <<>> /\ Show(c) ELSE Leave(c, "disconnected")

\* select has reported sfd: read(sfd) and write(1).  A failing read is reported and
\* shows nothing.
Receive(c) ==
  /\ Idle(c) /\ Readable(c)
  /\ \/ down[c] # <<>> /\ Show(c)
     \/ /\ down[c] = <<>> /\ <<c, "client">> \in reset
        /\ reset' = reset \ {<<c, "client">>}
        /\ UNCHANGED <<input, buf, typed, shown, left, up, down, dead, wrote,
                       readVars, procVars, serverVars>>
     \/ /\ down[c] = <<>> /\ <<c, "client">> \notin reset
        /\ Leave(c, "disconnected")

\* Mutation: the next line is read before the last one has been sent.
ReadInputUnsent(c) ==
  /\ left[c] = "running"
  /\ typed[c] < Len(input[c])
  /\ typed' = [typed EXCEPT ![c] = @ + 1]
  /\ buf' = [buf EXCEPT ![c] = typed[c] + 1]
  /\ UNCHANGED <<input, shown, left, connVars, readVars, procVars, serverVars>>

\* select has reported stdin, sfd was not readable then or has been served: read(0)
\* returns a line, or the end of the input, at which the client leaves.
ReadInput(c) ==
  /\ Idle(c)
  /\ \/ /\ typed[c] < Len(input[c])
        /\ typed' = [typed EXCEPT ![c] = @ + 1]
        /\ buf' = [buf EXCEPT ![c] = typed[c] + 1]
        /\ UNCHANGED <<input, shown, left, connVars, readVars, procVars, serverVars>>
     \/ Leave(c, "end of input")

\* write(sfd): it blocks while the connection is full.  Once the other end is
\* closed a first line is taken and answered by a reset; after a reset the call
\* fails, if that has not been reported yet, or kills the client.
Send(c) ==
  /\ buf[c] # 0
  /\ \/ /\ \/ /\ ServerOpen(c) /\ Len(up[c]) < UpSize
              /\ up' = [up EXCEPT ![c] = Append(@, buf[c])]
              /\ UNCHANGED <<down, reset, dead>>
           \/ /\ ~ServerOpen(c) /\ c \notin dead
              /\ ResetTo(c, "client") /\ DownCut(c)
              /\ UNCHANGED up
           \/ /\ ~ServerOpen(c) /\ <<c, "client">> \in reset
              /\ reset' = reset \ {<<c, "client">>}
              /\ UNCHANGED <<up, down, dead>>
        /\ buf' = [buf EXCEPT ![c] = 0]
        /\ UNCHANGED <<input, typed, shown, left, wrote, readVars, procVars, serverVars>>
     \/ c \in dead /\ Leave(c, "killed")

ClientStep(c) == Connect(c) \/ Receive(c) \/ ReadInput(c) \/ Send(c)

---------------------------------------------------------------------------
(* The server.                                                             *)

Accept ==
  /\ server = "accept" /\ backlog # <<>>
  /\ cfd' = Head(backlog) /\ backlog' = Tail(backlog)
  /\ held' = held \cup {Head(backlog)}
  /\ server' = "fork"
  /\ UNCHANGED <<clientVars, connVars, readVars, procVars, children>>

\* A failing accept is reported, and the server goes on with cfd = -1.
AcceptFails ==
  /\ server = "accept" /\ backlog # <<>>
  /\ cfd' = 0 /\ server' = "fork"
  /\ UNCHANGED <<clientVars, connVars, readVars, procVars, backlog, held, children>>

\* The child runs the shell on the connection; for cfd = -1 it is one that reads
\* the server's terminal, which concerns no client.  If execve fails it is stuck:
\* it tries again for ever and keeps the connection open.
ForkChild ==
  /\ server = "fork" /\ children < MaxChildren
  /\ children' = children + 1
  /\ server' = "close"
  /\ IF cfd = 0 THEN UNCHANGED <<conn, at, uses>>
     ELSE /\ conn' = [conn EXCEPT ![cfd] = cfd]
          /\ \E to \in {"write", "stuck"} : at' = [at EXCEPT ![cfd] = to]
          /\ uses' = [uses EXCEPT ![cfd] = {"in", "out"}]
  /\ UNCHANGED <<clientVars, connVars, readVars, cmds, inbuf, cmdline, todo, parent, awaited,
                 backlog, cfd, held>>

\* fork returns -1, and the server takes itself for the parent.
ForkFails ==
  /\ server = "fork" /\ children >= MaxChildren
  /\ server' = "close"
  /\ UNCHANGED <<clientVars, connVars, readVars, procVars,
                 backlog, cfd, held, children>>

\* Mutation: the parent keeps the connection open.
ForgetsToClose ==
  /\ server = "close"
  /\ server' = "accept" /\ cfd' = 0
  /\ UNCHANGED <<clientVars, connVars, readVars, procVars, backlog, held, children>>

CloseConnection ==
  /\ server = "close"
  /\ server' = "accept" /\ cfd' = 0 /\ held' = held \ {cfd}
  /\ UNCHANGED <<clientVars, readVars, procVars, backlog, children>>
  /\ \/ cfd = 0 /\ UNCHANGED connVars
     \/ \E c \in Client : c = cfd /\ HangUp(c)

Server == Accept \/ AcceptFails \/ ForkChild \/ ForkFails \/ CloseConnection

---------------------------------------------------------------------------
(* The shells.                                                             *)

AwaitedBy(p) == {q \in awaited : parent[q] = p}

\* Process p ends: its children are nobody's, and whoever waits for it goes on.
Ends(p) ==
  /\ conn' = [conn EXCEPT ![p] = 0]
  /\ at' = [at EXCEPT ![p] = "none"]
  /\ uses' = [uses EXCEPT ![p] = {}]
  /\ cmds' = [cmds EXCEPT ![p] = 0]
  /\ inbuf' = [inbuf EXCEPT ![p] = <<>>]
  /\ cmdline' = [cmdline EXCEPT ![p] = 0]
  /\ todo' = [todo EXCEPT ![p] = 0]
  /\ parent' = [q \in Proc |-> IF q = p \/ parent[q] = p THEN 0 ELSE parent[q]]
  /\ awaited' = {q \in awaited : q # p /\ parent[q] # p}
  /\ UNCHANGED <<clientVars, readVars, serverVars>>
  /\ \E c \in Client : c = conn[p] /\ HangUp(c)

\* printf and fflush: the prompt, with what the line before has left in stdout's
\* buffer; or that buffer when the shell exits.
Write(p) ==
  /\ at[p] \in {"write", "last words"}
  /\ \/ /\ at' = [at EXCEPT ![p] = IF @ = "write" THEN "read" ELSE "exit"]
        /\ IF "out" \in uses[p] THEN Emit(conn[p]) ELSE UNCHANGED connVars
        /\ UNCHANGED <<clientVars, readVars, conn, shellVars, todo, parent, awaited, serverVars>>
     \/ /\ "out" \notin uses[p] \/ (Gone(conn[p]) /\ conn[p] \in dead)
        /\ Ends(p)

\* fgets and eval.
Evaluate(p, line) ==
  /\ cmdline' = [cmdline EXCEPT ![p] = line]
  /\ IF line = 0 THEN \E n \in 0 .. MaxCommands : cmds' = [cmds EXCEPT ![p] = n]
     ELSE cmds' = [cmds EXCEPT ![p] = input[conn[p]][line]]
  /\ at' = [at EXCEPT ![p] = "list"]
  /\ UNCHANGED <<clientVars, conn, uses, todo, parent, awaited, serverVars>>

\* fgets returns a line: from the buffer, which it fills with all or part of what
\* has arrived when it is empty.
ReadLine(p) ==
  /\ at[p] = "read"
  /\ \/ /\ inbuf[p] # <<>>
        /\ inbuf' = [inbuf EXCEPT ![p] = Tail(@)]
        /\ Evaluate(p, Head(inbuf[p]))
        /\ UNCHANGED <<connVars, readVars>>
     \/ /\ inbuf[p] = <<>> /\ "in" \in uses[p]
        /\ \E n \in 1 .. Len(up[conn[p]]) :
             /\ Take(p, n)
             /\ inbuf' = [inbuf EXCEPT ![p] = SubSeq(up[conn[p]], 2, n)]
        /\ Evaluate(p, Head(up[conn[p]]))

AtEnd(p) == at[p] = "read" /\ inbuf[p] = <<>> /\ "in" \in uses[p] /\ up[conn[p]] = <<>>

\* After a reset fgets fails, but feof is false: the shell evaluates what is still
\* in cmdline, the line before or, if there was none, whatever cmdline held.
ReadFails(p) ==
  /\ AtEnd(p) /\ <<conn[p], "shell">> \in reset
  /\ reset' = reset \ {<<conn[p], "shell">>}
  /\ Evaluate(p, cmdline[p])
  /\ UNCHANGED <<up, down, dead, wrote, readVars, inbuf>>

EndOfFile(p) ==
  /\ AtEnd(p) /\ Gone(conn[p]) /\ <<conn[p], "shell">> \notin reset
  /\ Ends(p)

\* A shell whose stdin is a file or a pipe reads on there.  What it does then is to
\* the connection what a program does.
ReadElsewhere(p) ==
  /\ at[p] = "read" /\ inbuf[p] = <<>> /\ "in" \notin uses[p]
  /\ at' = [at EXCEPT ![p] = "program"]
  /\ \E n \in 0 .. MaxOutput : todo' = [todo EXCEPT ![p] = n]
  /\ uses' = [uses EXCEPT ![p] = {}]
  /\ UNCHANGED <<clientVars, connVars, readVars, conn, cmds, inbuf, cmdline, parent, awaited,
                 serverVars>>

\* run_cmd, in the parent and in the child q: a program, or a shell that goes on
\* with the rest of the line.  A redirection or a pipe replaces a shell's stdin or
\* stdout; a program's stderr is the connection all the same.
Start(p, q) ==
  /\ at[p] = "list" /\ cmds[p] > 0 /\ at[q] = "none"
  /\ conn' = [conn EXCEPT ![q] = conn[p]]
  /\ parent' = [parent EXCEPT ![q] = p]
  /\ awaited' = awaited \cup {q}
  /\ \/ /\ at' = [at EXCEPT ![q] = "program"]
        /\ \E n \in 0 .. MaxOutput : todo' = [todo EXCEPT ![q] = n]
        /\ uses' = [uses EXCEPT ![q] = uses[p]]
        /\ cmds' = [cmds EXCEPT ![p] = @ - 1]
        /\ UNCHANGED <<inbuf, cmdline>>
     \/ /\ at' = [at EXCEPT ![q] = "list"]
        /\ \E io \in SUBSET uses[p] :
             /\ "in" \in io \/ inbuf[p] # <<>>
             /\ uses' = [uses EXCEPT ![q] = io]
        /\ cmds' = [cmds EXCEPT ![p] = @ - 1, ![q] = cmds[p] - 1]
        /\ inbuf' = [inbuf EXCEPT ![q] = inbuf[p]]
        /\ cmdline' = [cmdline EXCEPT ![q] = cmdline[p]]
        /\ UNCHANGED todo
  /\ UNCHANGED <<clientVars, connVars, readVars, serverVars>>

\* fork fails, and -1 goes into pids: waitpid(-1) waits for any child there is.
StartFails(p) ==
  /\ at[p] = "list" /\ cmds[p] > 0 /\ \A q \in Extra : at[q] # "none"
  /\ cmds' = [cmds EXCEPT ![p] = @ - 1]
  /\ \/ UNCHANGED awaited
     \/ \E q \in Extra : parent[q] = p /\ awaited' = awaited \cup {q}
  /\ UNCHANGED <<clientVars, connVars, readVars, conn, at, uses, inbuf, cmdline, todo, parent,
                 serverVars>>

Goes(p, to) ==
  /\ at' = [at EXCEPT ![p] = to]
  /\ UNCHANGED <<clientVars, connVars, readVars, conn, shellVars, todo, parent, awaited, serverVars>>

\* The end of a pipeline, waited for or, after &, not.
Foreground(p) == at[p] = "list" /\ AwaitedBy(p) # {} /\ Goes(p, "wait")

Background(p) ==
  /\ at[p] = "list" /\ AwaitedBy(p) # {}
  /\ awaited' = awaited \ AwaitedBy(p)
  /\ UNCHANGED <<clientVars, connVars, readVars, conn, at, shellVars, todo, parent, serverVars>>

\* waitpid of all in pids has returned.
Waited(p) == at[p] = "wait" /\ AwaitedBy(p) = {} /\ Goes(p, "list")

EndLine(p) == at[p] = "list" /\ cmds[p] = 0 /\ AwaitedBy(p) = {} /\ Goes(p, "write")

\* exit, with stdout's buffer to be flushed or not, or err_quit and its message.
Quit(p) == at[p] = "list" /\ \E to \in {"last words", "exit"} : Goes(p, to)

Exit(p) == at[p] = "exit" /\ Ends(p)

ShellStep(p) ==
  \/ Write(p) \/ ReadLine(p) \/ ReadFails(p) \/ EndOfFile(p) \/ ReadElsewhere(p)
  \/ \E q \in Extra : Start(p, q)
  \/ StartFails(p) \/ Foreground(p) \/ Background(p) \/ Waited(p) \/ EndLine(p)
  \/ Quit(p) \/ Exit(p)

---------------------------------------------------------------------------
(* Programs.                                                               *)

\* It reads lines, or is the one to be told of a reset.
ProgramReads(q) ==
  /\ at[q] = "program" /\ "in" \in uses[q]
  /\ \/ \E n \in 1 .. Len(up[conn[q]]) : Take(q, n)
     \/ /\ up[conn[q]] = <<>> /\ <<conn[q], "shell">> \in reset
        /\ reset' = reset \ {<<conn[q], "shell">>}
        /\ UNCHANGED <<up, down, dead, wrote, readVars>>
  /\ UNCHANGED <<clientVars, procVars, serverVars>>

ProgramWrites(q) ==
  /\ at[q] = "program" /\ todo[q] > 0
  /\ todo' = [todo EXCEPT ![q] = @ - 1]
  /\ Emit(conn[q])
  /\ UNCHANGED <<clientVars, readVars, conn, at, shellVars, parent, awaited, serverVars>>

ProgramEnds(q) == at[q] = "program" /\ Ends(q)

\* A program ends, but leaves a process that has the connection open.
ProgramForks(q) ==
  /\ at[q] = "program" /\ q \in awaited
  /\ parent' = [parent EXCEPT ![q] = 0]
  /\ awaited' = awaited \ {q}
  /\ UNCHANGED <<clientVars, connVars, readVars, conn, at, shellVars, todo, serverVars>>

ProgramStep(q) == ProgramReads(q) \/ ProgramWrites(q) \/ ProgramEnds(q) \/ ProgramForks(q)

---------------------------------------------------------------------------

Init ==
  /\ input \in Inputs
  /\ buf = [c \in Client |-> 0]
  /\ typed = [c \in Client |-> 0]
  /\ shown = [c \in Client |-> <<>>]
  /\ left = [c \in Client |-> "out"]
  /\ up = [c \in Client |-> <<>>]
  /\ down = [c \in Client |-> <<>>]
  /\ reset = {} /\ dead = {}
  /\ wrote = [c \in Client |-> 0]
  /\ got = [c \in Client |-> <<>>]
  /\ shared = {}
  /\ conn = [p \in Proc |-> 0]
  /\ at = [p \in Proc |-> "none"]
  /\ uses = [p \in Proc |-> {}]
  /\ cmds = [p \in Proc |-> 0]
  /\ inbuf = [p \in Proc |-> <<>>]
  /\ cmdline = [p \in Proc |-> 0]
  /\ todo = [p \in Proc |-> 0]
  /\ parent = [p \in Proc |-> 0]
  /\ awaited = {}
  /\ backlog = <<>> /\ cfd = 0 /\ held = {} /\ server = "accept" /\ children = 0

Next ==
  \/ Server
  \/ \E c \in Client : ClientStep(c)
  \/ \E p \in Proc : ShellStep(p)
  \/ \E q \in Extra : ProgramStep(q)

Spec == Init /\ [][Next]_vars

\* A pipe may be full for ever, and so may what a shell writes to one.
Scheduled(p) ==
  /\ at[p] \in {"write", "last words"} => "out" \in uses[p]
  /\ ShellStep(p)

\* The server, the clients and the shells go on when they can; a user goes on
\* typing until the input ends.  Nothing is known of the programs.
FairSpec ==
  /\ Spec /\ WF_vars(Server) /\ SF_vars(Accept)
  /\ \A c \in Client : WF_vars(ClientStep(c))
  /\ \A p \in Proc : WF_vars(Scheduled(p))

---------------------------------------------------------------------------

\* What a client shows is what was written to its connection, in that order and
\* without a gap.
OutputInOrder(c) == \A i \in DOMAIN shown[c] : shown[c][i] = i

\* The lines are read in the order they were typed, each once, whoever reads them;
\* while no other process does, the first shell has them all to evaluate.
LinesInOrder(c) ==
  /\ \A i \in DOMAIN got[c] : got[c][i] = i
  /\ conn[c] = c /\ c \notin shared =>
       inbuf[c] = SubSeq(got[c], cmdline[c] + 1, Len(got[c]))

\* A shell never evaluates a line typed before its last one, and the last one again
\* only if the client is gone: fgets has failed because of a reset.
LaterLine(p) ==
  at[p] = "read" /\ at'[p] = "list" =>
    cmdline'[p] > cmdline[p] \/ (Gone(conn[p]) /\ cmdline'[p] = cmdline[p])

\* Both directions of the client's one loop and one buffer keep their order, and so
\* do the shells that share the connection and copy their input buffer.
BytesInOrder ==
  /\ [](\A c \in Client : OutputInOrder(c) /\ LinesInOrder(c))
  /\ [][\A p \in Proc : LaterLine(p)]_vars

\* A client that is told it is disconnected has shown all that was written to its
\* connection, a background program's last words included, unless a line it had
\* read from its user was never read by a shell: only then is a connection reset.
OutputLostWithInput ==
  \A c \in Client :
    left[c] = "disconnected" /\ Len(shown[c]) # wrote[c] => Len(got[c]) < typed[c]

\* What may keep a process from ever reading its connection.
Busy(p) ==
  \/ at[p] \in {"stuck", "program"}
  \/ at[p] = "wait" /\ AwaitedBy(p) # {}
  \/ /\ at[p] \in {"write", "last words"}
     /\ "out" \in uses[p] => Len(down[conn[p]]) = DownSize

\* The client waits in write(sfd), and every process that has the connection open,
\* the server not among them, is kept from reading it.
Blocked(c) ==
  /\ buf[c] # 0 /\ Len(up[c]) = UpSize
  /\ c \notin held /\ \A i \in DOMAIN backlog : backlog[i] # c
  /\ \A p \in Proc : conn[p] = c => Busy(p)

\* Every client comes to its end: it is turned away when the server cannot fork, it
\* sees its shell end or its own input end.  Or it waits for ever in write(sfd),
\* which select does not watch for, while its shells write to the connection that
\* the client does not read, wait for a program, or were never started.
EndsOrBlocked ==
  \A c \in Client : c \in DOMAIN input => <>Gone(c) \/ <>[]Blocked(c)

=============================================================================
