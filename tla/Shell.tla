------------------------------- MODULE Shell -------------------------------
(***************************************************************************)
(* shell.c: the loop that reads a line, runs its commands in pipes, in the  *)
(* foreground or in the background, and reaps its children.                *)
(*                                                                         *)
(* A line is a sequence of tokens, a word being a member of a small set.   *)
(* Descriptors are numbers, as in the code, because run_cmd compares them  *)
(* with 0 and 1, and because what a child inherits decides when a pipe     *)
(* ends.  The content of a pipe is a number of chunks.  Output, prompts    *)
(* and the effect of cd are left out.                                      *)
(*                                                                         *)
(* Process 1 is the shell.  A child whose execvpe fails returns from       *)
(* run_cmd and goes on in run_cmd_list, so that every process has the      *)
(* variables of a shell.                                                   *)
(***************************************************************************)
EXTENDS Integers, FiniteSets, SequencesExt

CONSTANTS MaxProcs,   \* processes the kernel allows at a time
          MaxFd,      \* the largest descriptor
          MaxPipes,   \* pipes open at a time
          PipeSize,   \* chunks a pipe holds
          MAXARGS, MAXPIDS,
          Lines,      \* the lines a user may type, without their end
          MaxLines,   \* how many lines are typed before the end of the input
          Programs,   \* what execvpe finds: name -> [gen, n], see Exec
          Files       \* what can be opened for reading

ASSUME ShellAssumption ==
  /\ MaxProcs \in Nat \ {0} /\ MaxPipes \in Nat /\ PipeSize \in Nat \ {0}
  /\ MaxFd \in Nat /\ MaxFd >= 2
  /\ MAXARGS \in Nat \ {0} /\ MAXPIDS \in Nat \ {0} /\ MaxLines \in Nat
  /\ Lines \subseteq Seq(STRING)
  /\ \A name \in DOMAIN Programs :
        Programs[name].gen \in BOOLEAN /\ Programs[name].n \in Nat \cup {-1}

Pid  == 1 .. MaxProcs
Fd   == 0 .. MaxFd
Pipe == 1 .. MaxPipes

VARIABLES pc,      \* where a process is; "free" and "zombie" are the kernel's
          parent,  \* 0 is init
          fd,      \* the descriptor table of each process
          sh,      \* the variables of run_cmd_list in each process
          job,     \* the state of each program
          pipe,    \* chunks in each pipe
          typed    \* lines typed

vars == <<pc, parent, fd, sh, job, pipe, typed>>

ShellPc == {"read", "line", "pipe", "fork", "close", "child", "wait", "reap"}

---------------------------------------------------------------------------
(* The kernel: descriptors, pipes, exit.                                   *)

Closed == [kind |-> "closed", pipe |-> 0]
Tty    == [kind |-> "tty", pipe |-> 0]
File   == [kind |-> "file", pipe |-> 0]
ReadEnd(k)  == [kind |-> "read", pipe |-> k]
WriteEnd(k) == [kind |-> "write", pipe |-> k]

End == {Closed, Tty, File} \cup {ReadEnd(k) : k \in Pipe} \cup {WriteEnd(k) : k \in Pipe}

Holders(end) == {p \in Pid : \E n \in Fd : fd[p][n] = end}
Readers(k)   == Holders(ReadEnd(k))
Writers(k)   == Holders(WriteEnd(k))

\* The lowest free descriptor, as open and pipe give them out.
LowestFree(f) == CHOOSE n \in Fd : f[n] = Closed /\ \A m \in Fd : m < n => f[m] # Closed

Open(f, end) == [f EXCEPT ![LowestFree(f)] = end]

\* No descriptor is free: open returns -1.
FdsUsedUp(f) == \A n \in Fd : f[n] # Closed

FreePipe == CHOOSE k \in Pipe : /\ Readers(k) \cup Writers(k) = {}
                                /\ \A j \in 1 .. k - 1 : Readers(j) \cup Writers(j) # {}

\* pipe has two descriptors and a pipe to give out.  The code uses what pipe has
\* not set when it fails; MaxFd and MaxPipes bound the model here.
CanPipe(f) ==
  /\ \E m, n \in Fd : m # n /\ f[m] = Closed /\ f[n] = Closed
  /\ \E k \in Pipe : Readers(k) \cup Writers(k) = {}

Children(p) == {q \in Pid : parent[q] = p /\ pc[q] # "free"}
Zombies(p)  == {q \in Children(p) : pc[q] = "zombie"}

\* A pid is not given out again while an array of pids still names it.
FreePids == {q \in Pid \ {1} : pc[q] = "free" /\ \A p \in Pid : ~Contains(sh[p].pids, q)}

NoCommand == [name |-> "end", argc |-> 0, fdin |-> 0, fdout |-> 1]
NoShell   == [tokens |-> <<>>, pos |-> 1, cmd1 |-> NoCommand, cmd2 |-> NoCommand,
              token |-> "end", pids |-> <<>>, i |-> 1]
NoJob     == [gen |-> FALSE, n |-> 0, has |-> FALSE]

\* exit: the descriptors are closed, the children go to init, which reaps them.
Exit(p) ==
  /\ pc' = [q \in Pid |-> IF q = p THEN (IF parent[p] = 0 THEN "free" ELSE "zombie")
                          ELSE IF q \in Zombies(p) THEN "free" ELSE pc[q]]
  /\ parent' = [q \in Pid |-> IF q \in Children(p) THEN 0 ELSE parent[q]]
  /\ fd' = [fd EXCEPT ![p] = [n \in Fd |-> Closed]]
  /\ sh' = [sh EXCEPT ![p] = NoShell]
  /\ job' = [job EXCEPT ![p] = NoJob]
  /\ UNCHANGED typed

Quit(p) == Exit(p) /\ UNCHANGED pipe

---------------------------------------------------------------------------
(* Parsing.                                                                *)

IsOp(token) == token \in {";", "&", "|", "<", ">", "EOL"}

\* tokenize ends every line with EOL.
Tokenize(line) == Append(line, "EOL")

\* parse_cmd: the words up to the next operator.
EndOfWords(tokens, pos) ==
  CHOOSE e \in pos .. Len(tokens) : IsOp(tokens[e]) /\ \A j \in pos .. e - 1 : ~IsOp(tokens[j])

Argc(tokens, pos) == EndOfWords(tokens, pos) - pos

ParseCmd(f, tokens, pos) ==
  [quit |-> Argc(tokens, pos) >= MAXARGS, fd |-> f, pos |-> EndOfWords(tokens, pos),
   cmd |-> [NoCommand EXCEPT !.name = tokens[pos], !.argc = Argc(tokens, pos)]]

\* Mutation: a file that cannot be opened gives the descriptor -1.
RedirectUnchecked(st, tokens, op) ==
  IF st.quit \/ tokens[st.pos] # op THEN st
  ELSE IF Argc(tokens, st.pos + 1) # 1 THEN [st EXCEPT !.quit = TRUE]
       ELSE LET n == IF tokens[st.pos + 1] \in Files THEN LowestFree(st.fd) ELSE -1 IN
            [quit |-> FALSE, fd |-> Open(st.fd, File), pos |-> st.pos + 2,
             cmd |-> IF op = "<" THEN [st.cmd EXCEPT !.fdin = n]
                                 ELSE [st.cmd EXCEPT !.fdout = n]]

\* parse_redirection, one of its two halves: the file is opened at once.
Redirect(st, tokens, op) ==
  IF st.quit \/ tokens[st.pos] # op THEN st
  ELSE IF \/ Argc(tokens, st.pos + 1) # 1
          \/ op = "<" /\ tokens[st.pos + 1] \notin Files
          \/ FdsUsedUp(st.fd)
       THEN [st EXCEPT !.quit = TRUE]
       ELSE LET n == LowestFree(st.fd) IN
            [quit |-> FALSE, fd |-> Open(st.fd, File), pos |-> st.pos + 2,
             cmd |-> IF op = "<" THEN [st.cmd EXCEPT !.fdin = n]
                                 ELSE [st.cmd EXCEPT !.fdout = n]]

ParseRedirection(f, tokens, pos) ==
  Redirect(Redirect(ParseCmd(f, tokens, pos), tokens, "<"), tokens, ">")

Token(p) == sh[p].tokens[sh[p].pos]

\* run_internal_cmd: what it may do with a command.
InternalCmd(cmd) ==
  IF cmd.argc = 0 \/ cmd.name = "exit" \/ (cmd.name = "cd" /\ cmd.argc > 2) THEN {"quit"}
  ELSE IF cmd.name = "cd" THEN {"done", "quit"} ELSE {"external"}

---------------------------------------------------------------------------
(* The shell's steps.                                                      *)

Goto(p, label, s) ==
  /\ pc' = [pc EXCEPT ![p] = label]
  /\ sh' = [sh EXCEPT ![p] = s]

AtEnd(p) ==
  LET in == fd[p][0] IN
  \/ in.kind = "file"
  \/ in.kind = "read" /\ pipe[in.pipe] = 0 /\ Writers(in.pipe) = {}

\* fgets and tokenize.  A chunk from a pipe is taken to be an empty line.
ReadLine(p) ==
  /\ pc[p] = "read"
  /\ UNCHANGED <<parent, fd, job>>
  /\ \/ /\ fd[p][0] = Tty /\ typed < MaxLines
        /\ typed' = typed + 1
        /\ \E line \in Lines : Goto(p, "line", [NoShell EXCEPT !.tokens = Tokenize(line)])
        /\ UNCHANGED pipe
     \/ /\ fd[p][0].kind = "read" /\ pipe[fd[p][0].pipe] > 0
        /\ pipe' = [pipe EXCEPT ![fd[p][0].pipe] = @ - 1]
        /\ Goto(p, "line", [NoShell EXCEPT !.tokens = Tokenize(<<>>)])
        /\ UNCHANGED typed

\* feof(stdin); the user may end the terminal's input at any time.
EndOfInput(p) ==
  /\ pc[p] = "read" /\ (fd[p][0] = Tty \/ AtEnd(p))
  /\ Quit(p)

\* The head of the outer loop: a new list of piped commands, or the line's end.
NextList(p) ==
  /\ pc[p] = "line"
  /\ IF Token(p) = "EOL"
     THEN Goto(p, "reap", NoShell) /\ UNCHANGED <<parent, fd, job, pipe, typed>>
     ELSE LET st == ParseRedirection(fd[p], sh[p].tokens, sh[p].pos) IN
          IF st.quit THEN Quit(p)
          ELSE /\ Goto(p, "pipe", [sh[p] EXCEPT !.pos = st.pos, !.cmd1 = st.cmd,
                                                !.pids = <<>>, !.token = "end"])
               /\ fd' = [fd EXCEPT ![p] = st.fd]
               /\ UNCHANGED <<parent, job, pipe, typed>>

\* Mutation: the guard admits one pid too many.
PidsFullOffByOne(p) == Len(sh[p].pids) > MAXPIDS

PidsFull(p) == Len(sh[p].pids) >= MAXPIDS

\* The inner loop's body up to run_cmd: cmd1 goes into a pipe, which cmd2 reads.
PipeCmd(p) ==
  /\ pc[p] = "pipe" /\ Token(p) = "|"
  /\ LET st == ParseRedirection(fd[p], sh[p].tokens, sh[p].pos + 1)
         k  == FreePipe
         r  == LowestFree(st.fd)
         f  == Open(st.fd, ReadEnd(k))
         w  == LowestFree(f)
     IN IF sh[p].cmd1.fdout # 1 \/ st.quit \/ st.cmd.fdin # 0 THEN Quit(p)
        ELSE \/ "quit" \in InternalCmd(sh[p].cmd1) /\ Quit(p)
             \/ /\ "done" \in InternalCmd(sh[p].cmd1)
                /\ Goto(p, "pipe", [sh[p] EXCEPT !.pos = st.pos, !.cmd1 = st.cmd])
                /\ fd' = [fd EXCEPT ![p] = st.fd]
                /\ UNCHANGED <<parent, job, pipe, typed>>
             \/ /\ "external" \in InternalCmd(sh[p].cmd1)
                /\ CanPipe(st.fd)
                /\ IF PidsFull(p) THEN Quit(p)
                   ELSE /\ Goto(p, "fork", [sh[p] EXCEPT !.pos = st.pos,
                                              !.cmd1.fdout = w,
                                              !.cmd2 = [st.cmd EXCEPT !.fdin = r]])
                        /\ fd' = [fd EXCEPT ![p] = Open(f, WriteEnd(k))]
                        /\ pipe' = [pipe EXCEPT ![k] = 0]
                        /\ UNCHANGED <<parent, job, typed>>

\* The last command of the list, whose pid is not checked against MAXPIDS.
LastCmd(p) ==
  /\ pc[p] = "pipe" /\ Token(p) # "|"
  /\ LET s == [sh[p] EXCEPT !.token = Token(p), !.i = 1,
                            !.pos = IF Token(p) = "EOL" THEN @ ELSE @ + 1]
     IN IF Token(p) \notin {"EOL", ";", "&"} THEN Quit(p)
        ELSE \/ "quit" \in InternalCmd(s.cmd1) /\ Quit(p)
             \/ /\ "done" \in InternalCmd(s.cmd1)
                /\ Goto(p, "wait", s)
                /\ UNCHANGED <<parent, fd, job, pipe, typed>>
             \/ /\ "external" \in InternalCmd(s.cmd1)
                /\ Goto(p, "fork", s)
                /\ UNCHANGED <<parent, fd, job, pipe, typed>>

\* run_cmd has returned pid: the loop goes on with cmd2, or the list is started.
AfterRun(s, pid) ==
  LET t == [s EXCEPT !.pids = Append(@, pid)] IN
  IF s.token = "end" THEN [label |-> "pipe", s |-> [t EXCEPT !.cmd1 = s.cmd2, !.cmd2 = NoCommand]]
                  ELSE [label |-> "wait", s |-> t]

\* Mutation: the output is left open.
CloseInputOnly(f, cmd) ==
  [n \in Fd |-> IF cmd.fdin # 0 /\ n = cmd.fdin THEN Closed ELSE f[n]]

CloseEnds(f, cmd) ==
  [n \in Fd |-> IF \/ cmd.fdin # 0 /\ n = cmd.fdin
                   \/ cmd.fdout # 1 /\ n = cmd.fdout THEN Closed ELSE f[n]]

\* fork: the child has a copy of the variables and of every descriptor.
Fork(p) ==
  /\ pc[p] = "fork"
  /\ \E q \in FreePids :
       /\ \A r \in FreePids : q <= r
       /\ pc' = [pc EXCEPT ![p] = "close", ![q] = "child"]
       /\ parent' = [parent EXCEPT ![q] = p]
       /\ fd' = [fd EXCEPT ![q] = fd[p]]
       /\ sh' = [sh EXCEPT ![p].i = q, ![q] = sh[p]]
  /\ UNCHANGED <<job, pipe, typed>>

\* At the process limit fork returns -1, which run_cmd takes for a pid.
ForkFails(p) ==
  /\ pc[p] = "fork" /\ FreePids = {}
  /\ Goto(p, "close", [sh[p] EXCEPT !.i = -1])
  /\ UNCHANGED <<parent, fd, job, pipe, typed>>

\* The parent's branch of run_cmd.  Until then i stands for the variable pid.
CloseInParent(p) ==
  /\ pc[p] = "close"
  /\ LET a == AfterRun([sh[p] EXCEPT !.i = 1], sh[p].i) IN Goto(p, a.label, a.s)
  /\ fd' = [fd EXCEPT ![p] = CloseEnds(fd[p], sh[p].cmd1)]
  /\ UNCHANGED <<parent, job, pipe, typed>>

\* dup2 and close in the child.
Redirected(f, cmd) ==
  LET g == [f EXCEPT ![0] = f[cmd.fdin]]
      h == [g EXCEPT ![1] = g[cmd.fdout]]
  IN CloseEnds(h, cmd)

\* execvpe keeps the descriptors.  A program that gen-erates makes n chunks, any
\* other copies up to n of its input; -1 is without end.
Exec(p) ==
  /\ pc[p] = "child" /\ sh[p].cmd1.name \in DOMAIN Programs
  /\ Goto(p, "prog", NoShell)
  /\ fd' = [fd EXCEPT ![p] = Redirected(fd[p], sh[p].cmd1)]
  /\ job' = [job EXCEPT ![p] = [gen |-> Programs[sh[p].cmd1.name].gen,
                                n |-> Programs[sh[p].cmd1.name].n, has |-> FALSE]]
  /\ UNCHANGED <<parent, pipe, typed>>

\* execvpe fails: the child falls out of run_cmd, which returns what is left in
\* the register: -1 or 0, any child for waitpid.
ExecFails(p) ==
  /\ pc[p] = "child" /\ sh[p].cmd1.name \notin DOMAIN Programs
  /\ LET a == AfterRun(sh[p], -1) IN Goto(p, a.label, a.s)
  /\ fd' = [fd EXCEPT ![p] = Redirected(fd[p], sh[p].cmd1)]
  /\ UNCHANGED <<parent, job, pipe, typed>>

\* waitpid(pids[i]) returns at once when there is no such child.
Awaited(p) == LET pid == sh[p].pids[sh[p].i] IN
              {q \in Children(p) : pid \in {-1, q}}

Reap(z) ==
  /\ pc' = [pc EXCEPT ![z] = "free"]
  /\ parent' = [parent EXCEPT ![z] = 0]

\* The loop over pids: they are printed after &, and waited for otherwise.
WaitPid(p) ==
  /\ pc[p] = "wait" /\ sh[p].token # "&" /\ sh[p].i <= Len(sh[p].pids)
  /\ \/ Awaited(p) = {} /\ UNCHANGED <<pc, parent>>
     \/ \E z \in Awaited(p) \cap Zombies(p) : Reap(z)
  /\ sh' = [sh EXCEPT ![p].i = @ + 1]
  /\ UNCHANGED <<fd, job, pipe, typed>>

\* Mutation: the loop over pids leaves out the last one.
EndListEarly(p) ==
  /\ pc[p] = "wait"
  /\ sh[p].token = "&" \/ sh[p].i >= Len(sh[p].pids)
  /\ Goto(p, "line", [sh[p] EXCEPT !.pids = <<>>, !.i = 1, !.cmd1 = NoCommand,
                                   !.cmd2 = NoCommand, !.token = "end"])
  /\ UNCHANGED <<parent, fd, job, pipe, typed>>

EndList(p) ==
  /\ pc[p] = "wait"
  /\ sh[p].token = "&" \/ sh[p].i > Len(sh[p].pids)
  /\ Goto(p, "line", [sh[p] EXCEPT !.pids = <<>>, !.i = 1, !.cmd1 = NoCommand,
                                   !.cmd2 = NoCommand, !.token = "end"])
  /\ UNCHANGED <<parent, fd, job, pipe, typed>>

\* After the line, children that have ended are reaped with WNOHANG.
ReapEnded(p) ==
  /\ pc[p] = "reap"
  /\ \/ (\E z \in Zombies(p) : Reap(z)) /\ UNCHANGED sh
     \/ Zombies(p) = {} /\ Goto(p, "read", sh[p]) /\ UNCHANGED parent
  /\ UNCHANGED <<fd, job, pipe, typed>>

ShellStep(p) ==
  \/ ReadLine(p) \/ EndOfInput(p) \/ NextList(p) \/ PipeCmd(p) \/ LastCmd(p)
  \/ Fork(p) \/ ForkFails(p) \/ CloseInParent(p) \/ Exec(p) \/ ExecFails(p)
  \/ WaitPid(p) \/ EndList(p) \/ ReapEnded(p)

---------------------------------------------------------------------------
(* The programs.  A terminal or a file is at its end when a program reads   *)
(* it, and takes whatever is written to it.                                *)

Take(p) ==
  LET in == fd[p][0]
      less == IF job[p].n > 0 THEN job[p].n - 1 ELSE job[p].n
  IN
  /\ pc[p] = "prog" /\ ~job[p].has /\ job[p].n # 0
  /\ \/ /\ job[p].gen
        /\ job' = [job EXCEPT ![p].has = TRUE, ![p].n = less]
        /\ UNCHANGED pipe
     \/ /\ ~job[p].gen /\ in.kind = "read" /\ pipe[in.pipe] > 0
        /\ job' = [job EXCEPT ![p].has = TRUE, ![p].n = less]
        /\ pipe' = [pipe EXCEPT ![in.pipe] = @ - 1]
     \/ /\ ~job[p].gen /\ (in = Tty \/ AtEnd(p))
        /\ job' = [job EXCEPT ![p].n = 0]
        /\ UNCHANGED pipe
  /\ UNCHANGED <<pc, parent, fd, sh, typed>>

Put(p) ==
  LET out == fd[p][1] IN
  /\ pc[p] = "prog" /\ job[p].has
  /\ out.kind = "write" => pipe[out.pipe] < PipeSize /\ Readers(out.pipe) # {}
  /\ job' = [job EXCEPT ![p].has = FALSE]
  /\ pipe' = IF out.kind = "write" THEN [pipe EXCEPT ![out.pipe] = @ + 1] ELSE pipe
  /\ UNCHANGED <<pc, parent, fd, sh, typed>>

\* The end of a program: it is done, or SIGPIPE kills it.
Finish(p) ==
  /\ pc[p] = "prog"
  /\ \/ job[p].n = 0 /\ ~job[p].has
     \/ job[p].has /\ fd[p][1].kind = "write" /\ Readers(fd[p][1].pipe) = {}
  /\ Quit(p)

ProgramStep(p) == Take(p) \/ Put(p) \/ Finish(p)

---------------------------------------------------------------------------

Init ==
  /\ pc = [p \in Pid |-> IF p = 1 THEN "read" ELSE "free"]
  /\ parent = [p \in Pid |-> 0]
  /\ fd = [p \in Pid |-> [n \in Fd |-> IF p = 1 /\ n <= 2 THEN Tty ELSE Closed]]
  /\ sh = [p \in Pid |-> NoShell]
  /\ job = [p \in Pid |-> NoJob]
  /\ pipe = [k \in Pipe |-> 0]
  /\ typed = 0

Proc(p) == ShellStep(p) \/ ProgramStep(p)

Next == \E p \in Pid : Proc(p)

Spec == Init /\ [][Next]_vars

\* The kernel goes on running a process that can go on, and the user goes on
\* typing.
FairSpec == Spec /\ \A p \in Pid : WF_vars(Proc(p))

---------------------------------------------------------------------------

\* What a token may be, and "end" in a command that is not set.
Words == {"EOL", "end"} \cup UNION {ToSet(line) : line \in Lines}

CommandType == [name : Words, argc : Nat, fdin : Fd, fdout : Fd]

TypeOK ==
  /\ pc \in [Pid -> ShellPc \cup {"free", "zombie", "prog"}]
  /\ parent \in [Pid -> 0 .. MaxProcs]
  /\ fd \in [Pid -> [Fd -> End]]
  /\ \A p \in Pid :
       /\ sh[p].pos \in Nat /\ sh[p].cmd1 \in CommandType /\ sh[p].cmd2 \in CommandType
       /\ sh[p].i \in Nat \cup {-1} /\ sh[p].pids \in Seq(Pid \cup {-1})
       /\ job[p].gen \in BOOLEAN /\ job[p].n \in Nat \cup {-1} /\ job[p].has \in BOOLEAN
  /\ pipe \in [Pipe -> 0 .. PipeSize]
  /\ typed \in 0 .. MaxLines

\* Children that went on as shells when execvpe failed.
SecondShells == {p \in Pid \ {1} : pc[p] \in ShellPc \ {"child"}}

\* The children of p that run a command, or are about to.
Commands(p) == {q \in Children(p) : pc[q] \in {"child", "prog"}}

\* The order of pipe, fork and close in lines 155-165 and the two branches of
\* run_cmd leave the write end of a pipe with the one command that writes to it, as
\* its standard output and under no other number, so that its reader can meet the
\* end; the shell keeps none beyond run_cmd.  Only a shell that a failed execvpe left
\* behind hands out its own standard output to several children.
WriteEndHeldOnce ==
  /\ \A p \in Pid, n \in Fd :
       fd[p][n].kind = "write" =>
         pc[p] \in {"fork", "close", "child"} \/ (n = 1 /\ p # 1)
  /\ \A p \in Pid, k \in Pipe :
       fd[p][1] # WriteEnd(k) => Cardinality(Writers(k) \cap Commands(p)) <= 1

\* The guard of line 162 covers all commands of a list but the last: the array
\* pids of MAXPIDS entries is overrun by one entry, and only by the last command
\* of a list of more than MAXPIDS.
OverrunByLastOnly ==
  \A p \in Pid : Len(sh[p].pids) > MAXPIDS =>
     Len(sh[p].pids) = MAXPIDS + 1 /\ sh[p].token # "end"

\* When a shell is done with a list in the foreground, no process of that list is
\* its child any more, running or unreaped, whatever ended meanwhile, and also if
\* a fork failed and waitpid(-1) took another child (lines 175-183).
ForegroundReaped ==
  [][\A p \in Pid : pc[p] = "wait" /\ pc'[p] = "line" /\ sh[p].token # "&" =>
        \A q \in Children(p) : ~Contains(sh[p].pids, q)]_vars

\* A program waits at a pipe whose other end nobody uses: it is full and its read
\* end is open only in the writer, which inherited it (line 157), or in a shell,
\* left there by a cd (line 155); or it is empty and its write end is open only in
\* the reader and in shells that should have been other programs (line 129).
\* Since the cd makes process 1 a reader, a parent that forgot to close fdin (line
\* 133) would pass for one.
SelfTied(q) ==
  /\ pc[q] = "prog"
  /\ LET in == fd[q][0]
         out == fd[q][1]
     IN \/ /\ job[q].has /\ out.kind = "write" /\ pipe[out.pipe] = PipeSize
           /\ Readers(out.pipe) # {} /\ Readers(out.pipe) \subseteq SecondShells \cup {1, q}
        \/ /\ ~job[q].has /\ in.kind = "read" /\ pipe[in.pipe] = 0
           /\ Writers(in.pipe) # {} /\ Writers(in.pipe) \subseteq SecondShells \cup {q}

\* The shell waits for ever only if some program is tied to itself for ever: every
\* other foreground list ends, since closing the ends lets each reader meet the end
\* of its input and each writer the end of its reader.  This is about lines whose
\* programs end by themselves, or at the end of what they are piped to.
HangsOnlySelfTied ==
  <>[](pc[1] = "wait") => <>[](\E q \in Pid : SelfTied(q))

=============================================================================
