---------------------------- MODULE ShellProofs ----------------------------
(***************************************************************************)
(* Proofs about module Shell, for any kernel, any programs and any lines.   *)
(* The first half is about the variables pids, token and i of run_cmd_list *)
(* and the place in the code: the array of pids is overrun by at most one  *)
(* entry, and a foreground list leaves no child behind.  The second is     *)
(* about descriptors: parsing, pipe, fork, dup2 and close leave the write  *)
(* end of a pipe with one command.                                         *)
(***************************************************************************)
EXTENDS Shell, WellFoundedInduction, FiniteSetTheorems, TLAPS

Fields == {"tokens", "pos", "cmd1", "cmd2", "token", "pids", "i"}

\* What fork returns: the pid of a child, or -1.
Forked == Pid \cup {-1}

Shape(s) == DOMAIN s = Fields /\ s.pids \in Seq(Forked) /\ s.i \in Nat \cup {-1}

\* The pids collected so far and the loops' variables, by the place in the code.
PidsByPlace(label, s) ==
  /\ label = "pipe" => s.token = "end" /\ Len(s.pids) <= MAXPIDS
  /\ label \in {"fork", "close", "child"} =>
       Len(s.pids) <= MAXPIDS /\ (s.token = "end" => Len(s.pids) < MAXPIDS)
  /\ label = "wait" =>
       s.token # "end" /\ Len(s.pids) <= MAXPIDS + 1 /\ s.i \in 1 .. Len(s.pids) + 1
  /\ label \notin {"pipe", "fork", "close", "child", "wait"} => s.pids = <<>>
  /\ label \in {"line", "pipe", "fork", "child"} => s.i = 1
  /\ label = "close" => s.i \in Forked

\* What the loop over pids has passed is no child any more.
ReapedSoFar(p) ==
  pc[p] = "wait" /\ sh[p].token # "&" =>
    \A j \in 1 .. sh[p].i - 1 : sh[p].pids[j] \notin Children(p)

IInv ==
  /\ DOMAIN pc = Pid /\ DOMAIN parent = Pid /\ DOMAIN sh = Pid
  /\ \A p \in Pid : Shape(sh[p]) /\ PidsByPlace(pc[p], sh[p]) /\ ReapedSoFar(p)

---------------------------------------------------------------------------

LEMMA Constants == MAXPIDS \in Nat \ {0} /\ MaxProcs \in Nat
BY ShellAssumption

LEMMA NoShellShape ==
  /\ Shape(NoShell) /\ NoShell.pids = <<>> /\ NoShell.i = 1
  /\ DOMAIN NoShell = Fields
<1>1. DOMAIN NoShell = Fields
  BY DEF NoShell, Fields
<1>2. NoShell.pids = <<>> /\ NoShell.i = 1
  BY DEF NoShell
<1>3. <<>> \in Seq(Forked) /\ 1 \in Nat
  OBVIOUS
<1> QED BY <1>1, <1>2, <1>3 DEF Shape

LEMMA AppendLen ==
  ASSUME NEW S, NEW q \in Seq(S), NEW x \in S
  PROVE  Append(q, x) \in Seq(S) /\ Len(Append(q, x)) = Len(q) + 1 /\ Len(q) \in Nat
OBVIOUS

\* A place that has no pids.
LEMMA PlaceWithout ==
  ASSUME NEW s, s.pids = <<>>, s.i = 1,
         NEW label \in {"line", "read", "reap", "prog", "zombie", "free"}
  PROVE  PidsByPlace(label, s)
BY DEF PidsByPlace

\* A step of the processes named in P leaves the others as they are, but for
\* some that are reaped.
LEMMA OthersKept ==
  ASSUME IInv, NEW q \in Pid, sh'[q] = sh[q],
         pc'[q] = pc[q] \/ (pc'[q] = "free" /\ pc[q] = "zombie"),
         \A r \in Children(q)' : r \in Children(q)
  PROVE  Shape(sh'[q]) /\ PidsByPlace(pc'[q], sh'[q]) /\ ReapedSoFar(q)'
<1>1. Shape(sh[q]) /\ PidsByPlace(pc[q], sh[q]) /\ ReapedSoFar(q)
  BY DEF IInv
<1>2. PidsByPlace(pc'[q], sh'[q])
  BY <1>1 DEF PidsByPlace
<1>3. ReapedSoFar(q)'
  BY <1>1 DEF ReapedSoFar
<1> QED BY <1>1, <1>2, <1>3

LEMMA GotoInv ==
  ASSUME IInv, NEW p \in Pid, NEW label, NEW s, Goto(p, label, s), parent' = parent,
         pc[p] # "free", label # "free",
         Shape(s), PidsByPlace(label, s), label = "wait" => s.i = 1
  PROVE  IInv'
<1>1. /\ DOMAIN pc = Pid /\ DOMAIN parent = Pid /\ DOMAIN sh = Pid
  BY DEF IInv
<1>2. /\ DOMAIN pc' = Pid /\ DOMAIN sh' = Pid /\ pc'[p] = label /\ sh'[p] = s
      /\ \A q \in Pid : q # p => pc'[q] = pc[q] /\ sh'[q] = sh[q]
  BY <1>1 DEF Goto
<1>3. ReapedSoFar(p)'
  BY <1>2 DEF ReapedSoFar
<1>4. ASSUME NEW q \in Pid, q # p
      PROVE  Shape(sh'[q]) /\ PidsByPlace(pc'[q], sh'[q]) /\ ReapedSoFar(q)'
  <2>1. \A r \in Children(q)' : r \in Children(q)
    BY <1>2 DEF Children
  <2> QED BY <1>2, <1>4, <2>1, OthersKept
<1> QED BY <1>1, <1>2, <1>3, <1>4 DEF IInv

LEMMA ExitInv ==
  ASSUME IInv, NEW p \in Pid, Exit(p), pc[p] # "free"
  PROVE  IInv'
<1>1. /\ DOMAIN pc = Pid /\ DOMAIN parent = Pid /\ DOMAIN sh = Pid
  BY DEF IInv
<1>2. /\ DOMAIN pc' = Pid /\ DOMAIN parent' = Pid /\ DOMAIN sh' = Pid
      /\ pc'[p] \in {"free", "zombie"} /\ sh'[p] = NoShell
  BY <1>1 DEF Exit
<1>3. ASSUME NEW q \in Pid, q # p
      PROVE  Shape(sh'[q]) /\ PidsByPlace(pc'[q], sh'[q]) /\ ReapedSoFar(q)'
  <2>1. sh'[q] = sh[q]
    BY <1>1, <1>3 DEF Exit
  <2>2. pc'[q] = pc[q] \/ (pc'[q] = "free" /\ pc[q] = "zombie")
    BY <1>3 DEF Exit, Zombies
  <2>3. ASSUME NEW r \in Children(q)'
        PROVE  r \in Children(q)
    <3>1. r \in Pid /\ parent'[r] = q /\ pc'[r] # "free"
      BY <2>3 DEF Children
    <3>2. q # 0
      BY DEF Pid
    <3>3. parent[r] = q
      BY <3>1, <3>2 DEF Exit
    <3>4. pc[r] # "free"
      BY <3>1 DEF Exit
    <3> QED BY <3>1, <3>3, <3>4 DEF Children
  <2> QED BY <2>1, <2>2, <2>3, OthersKept
<1>4. PidsByPlace(pc'[p], sh'[p])
  BY <1>2, NoShellShape, PlaceWithout
<1>5. ReapedSoFar(p)'
  BY <1>2 DEF ReapedSoFar
<1> QED BY <1>2, <1>3, <1>4, <1>5, NoShellShape DEF IInv

\* A zombie is reaped; only that process changes its place.
LEMMA ReapKeeps ==
  ASSUME IInv, NEW p \in Pid, NEW z \in Zombies(p), Reap(z), NEW q \in Pid, sh'[q] = sh[q]
  PROVE  Shape(sh'[q]) /\ PidsByPlace(pc'[q], sh'[q]) /\ ReapedSoFar(q)'
<1>1. /\ DOMAIN pc = Pid /\ DOMAIN parent = Pid
  BY DEF IInv
<1>2. z \in Pid /\ pc[z] = "zombie"
  BY DEF Zombies, Children
<1>3. pc'[q] = pc[q] \/ (pc'[q] = "free" /\ pc[q] = "zombie")
  BY <1>1, <1>2 DEF Reap
<1>4. ASSUME NEW r \in Children(q)'
      PROVE  r \in Children(q)
  <2>1. r \in Pid /\ parent'[r] = q /\ pc'[r] # "free"
    BY <1>4 DEF Children
  <2>2. r # z
    BY <1>1, <1>2, <2>1 DEF Reap
  <2> QED BY <1>1, <2>1, <2>2 DEF Reap, Children
<1> QED BY <1>3, <1>4, OthersKept

---------------------------------------------------------------------------
(* The steps of a shell.                                                   *)

\* What the invariant says of the process that steps.
LEMMA OwnState ==
  ASSUME IInv, NEW p \in Pid
  PROVE  /\ DOMAIN sh[p] = Fields /\ sh[p].pids \in Seq(Forked) /\ sh[p].i \in Int
         /\ sh[p].i \in Nat \cup {-1}
         /\ Len(sh[p].pids) \in Nat
         /\ PidsByPlace(pc[p], sh[p]) /\ ReapedSoFar(p)
<1>1. Shape(sh[p]) /\ PidsByPlace(pc[p], sh[p]) /\ ReapedSoFar(p)
  BY DEF IInv
<1>2. ASSUME NEW q \in Seq(Forked) PROVE Len(q) \in Nat
  OBVIOUS
<1>3. Nat \cup {-1} \subseteq Int
  OBVIOUS
<1> QED BY <1>1, <1>2, <1>3 DEF Shape

\* A shell that starts on a line, or a process that has none of these variables.
LEMMA WithoutPids ==
  ASSUME IInv, NEW p \in Pid, pc[p] # "free",
         NEW s, DOMAIN s = Fields, s.pids = <<>>, s.i = 1,
         NEW label \in {"line", "read", "reap", "prog"}, Goto(p, label, s), parent' = parent
  PROVE  IInv'
<1>1. <<>> \in Seq(Forked) /\ 1 \in Nat
  OBVIOUS
<1>2. Shape(s) /\ PidsByPlace(label, s)
  BY <1>1, PlaceWithout DEF Shape
<1> QED BY <1>2, GotoInv

\* Wherever a shell goes from "pipe": its pids are as before.
LEMMA PidsKept ==
  ASSUME IInv, NEW p \in Pid, pc[p] = "pipe",
         NEW s, DOMAIN s = Fields, s.pids = sh[p].pids, s.i = 1,
         NEW label \in {"pipe", "fork", "wait"},
         label = "pipe" => s.token = "end", label = "wait" => s.token # "end",
         label = "fork" /\ s.token = "end" => ~PidsFull(p),
         Goto(p, label, s), parent' = parent
  PROVE  IInv'
<1>1. /\ sh[p].pids \in Seq(Forked) /\ Len(sh[p].pids) \in Nat /\ Len(sh[p].pids) <= MAXPIDS
  BY OwnState DEF PidsByPlace
<1>2. Shape(s)
  BY <1>1 DEF Shape
<1>3. PidsByPlace(label, s)
  BY <1>1, Constants DEF PidsByPlace, PidsFull
<1> QED BY <1>2, <1>3, GotoInv

LEMMA ReadLineInv ==
  ASSUME IInv, NEW p \in Pid, ReadLine(p)
  PROVE  IInv'
<1>1. PICK line : Goto(p, "line", [NoShell EXCEPT !.tokens = line])
  BY DEF ReadLine
<1>2. /\ DOMAIN [NoShell EXCEPT !.tokens = line] = Fields
      /\ [NoShell EXCEPT !.tokens = line].pids = <<>>
      /\ [NoShell EXCEPT !.tokens = line].i = 1
  BY NoShellShape DEF Fields
<1>3. pc[p] = "read" /\ parent' = parent
  BY DEF ReadLine
<1> QED BY <1>1, <1>2, <1>3, WithoutPids

LEMMA NextListInv ==
  ASSUME IInv, NEW p \in Pid, NextList(p)
  PROVE  IInv'
<1>1. pc[p] = "line"
  BY DEF NextList
<1>2. CASE Token(p) = "EOL"
  <2>1. Goto(p, "reap", NoShell) /\ parent' = parent
    BY <1>2 DEF NextList
  <2> QED BY <1>1, <2>1, NoShellShape, WithoutPids
<1>3. CASE Token(p) # "EOL"
  <2> DEFINE st == ParseRedirection(fd[p], sh[p].tokens, sh[p].pos)
             s  == [sh[p] EXCEPT !.pos = st.pos, !.cmd1 = st.cmd, !.pids = <<>>, !.token = "end"]
  <2>1. CASE st.quit
    BY <1>1, <1>3, <2>1, ExitInv DEF NextList, Quit
  <2>2. CASE ~st.quit
    <3>1. Goto(p, "pipe", s) /\ parent' = parent
      BY <1>3, <2>2 DEF NextList
    <3> HIDE DEF st
    <3>2. DOMAIN s = Fields /\ s.pids = <<>> /\ s.token = "end" /\ s.i = 1
      BY <1>1, OwnState DEF Fields, PidsByPlace
    <3>3. <<>> \in Seq(Forked) /\ 1 \in Nat /\ Len(<<>>) = 0
      OBVIOUS
    <3> HIDE DEF s
    <3>4. Shape(s) /\ PidsByPlace("pipe", s)
      BY <3>2, <3>3, Constants DEF Shape, PidsByPlace
    <3> QED BY <1>1, <3>1, <3>4, GotoInv
  <2> QED BY <2>1, <2>2
<1> QED BY <1>2, <1>3

LEMMA PipeCmdInv ==
  ASSUME IInv, NEW p \in Pid, PipeCmd(p)
  PROVE  IInv'
<1> DEFINE st == ParseRedirection(fd[p], sh[p].tokens, sh[p].pos + 1)
           r  == LowestFree(st.fd)
           w  == LowestFree(Open(st.fd, ReadEnd(FreePipe)))
           s  == [sh[p] EXCEPT !.pos = st.pos, !.cmd1 = st.cmd]
           t  == [sh[p] EXCEPT !.pos = st.pos, !.cmd1.fdout = w, !.cmd2 = [st.cmd EXCEPT !.fdin = r]]
<1>1. pc[p] = "pipe"
  BY DEF PipeCmd
<1>2. \/ Quit(p)
      \/ Goto(p, "pipe", s) /\ parent' = parent
      \/ Goto(p, "fork", t) /\ parent' = parent /\ ~PidsFull(p)
  BY DEF PipeCmd
<1> HIDE DEF st, r, w
<1>3. /\ DOMAIN s = Fields /\ s.pids = sh[p].pids /\ s.token = "end" /\ s.i = 1
      /\ DOMAIN t = Fields /\ t.pids = sh[p].pids /\ t.token = "end" /\ t.i = 1
  BY <1>1, OwnState DEF Fields, PidsByPlace
<1> HIDE DEF s, t
<1>4. CASE Quit(p)
  BY <1>1, <1>4, ExitInv DEF Quit
<1>5. CASE Goto(p, "pipe", s) /\ parent' = parent
  BY <1>1, <1>3, <1>5, PidsKept
<1>6. CASE Goto(p, "fork", t) /\ parent' = parent /\ ~PidsFull(p)
  BY <1>1, <1>3, <1>6, PidsKept
<1> QED BY <1>2, <1>4, <1>5, <1>6

LEMMA LastCmdInv ==
  ASSUME IInv, NEW p \in Pid, LastCmd(p)
  PROVE  IInv'
<1> DEFINE s == [sh[p] EXCEPT !.token = Token(p), !.i = 1,
                              !.pos = IF Token(p) = "EOL" THEN @ ELSE @ + 1]
<1>1. pc[p] = "pipe"
  BY DEF LastCmd
<1>2. \/ Quit(p)
      \/ /\ Token(p) \in {"EOL", ";", "&"} /\ parent' = parent
         /\ (Goto(p, "wait", s) \/ Goto(p, "fork", s))
  BY DEF LastCmd
<1>3. /\ DOMAIN s = Fields /\ s.pids = sh[p].pids /\ s.token = Token(p) /\ s.i = 1
  BY <1>1, OwnState DEF Fields
<1> HIDE DEF s
<1>4. CASE Quit(p)
  BY <1>1, <1>4, ExitInv DEF Quit
<1>5. CASE Token(p) \in {"EOL", ";", "&"} /\ parent' = parent /\ Goto(p, "wait", s)
  BY <1>1, <1>3, <1>5, PidsKept
<1>6. CASE Token(p) \in {"EOL", ";", "&"} /\ parent' = parent /\ Goto(p, "fork", s)
  BY <1>1, <1>3, <1>6, PidsKept
<1> QED BY <1>2, <1>4, <1>5, <1>6

\* A pid more, after which the loop goes on or the list is waited for.
LEMMA AfterRunInv ==
  ASSUME IInv, NEW p \in Pid, pc[p] \in {"close", "child"},
         NEW s, DOMAIN s = Fields, s.pids = sh[p].pids, s.token = sh[p].token, s.i = 1,
         NEW pid \in Forked,
         Goto(p, AfterRun(s, pid).label, AfterRun(s, pid).s), parent' = parent
  PROVE  IInv'
<1> DEFINE t == AfterRun(s, pid).s
           label == AfterRun(s, pid).label
           n == Len(sh[p].pids)
<1>1. /\ sh[p].pids \in Seq(Forked) /\ n \in Nat /\ n <= MAXPIDS
      /\ s.token = "end" => n < MAXPIDS
  BY OwnState DEF PidsByPlace
<1>2. /\ Append(sh[p].pids, pid) \in Seq(Forked)
      /\ Len(Append(sh[p].pids, pid)) = n + 1
  BY <1>1, AppendLen
<1>3. /\ DOMAIN t = Fields /\ t.pids = Append(sh[p].pids, pid) /\ t.token = s.token /\ t.i = 1
  BY DEF AfterRun, Fields
<1>4. label = IF s.token = "end" THEN "pipe" ELSE "wait"
  BY DEF AfterRun
<1> HIDE DEF t, label
<1>5. Shape(t)
  BY <1>2, <1>3 DEF Shape
<1>6. Len(t.pids) = n + 1 /\ 1 \in 1 .. Len(t.pids) + 1
  BY <1>1, <1>2, <1>3
<1> HIDE DEF n
<1>7. PidsByPlace(label, t)
  BY <1>1, <1>3, <1>4, <1>6, Constants DEF PidsByPlace
<1>8. Goto(p, label, t)
  BY DEF label, t
<1> QED BY <1>3, <1>4, <1>5, <1>7, <1>8, GotoInv

LEMMA ForkInv ==
  ASSUME IInv, NEW p \in Pid, Fork(p)
  PROVE  IInv'
<1>1. /\ DOMAIN pc = Pid /\ DOMAIN parent = Pid /\ DOMAIN sh = Pid /\ pc[p] = "fork"
  BY DEF IInv, Fork
<1>2. PICK q \in FreePids :
        /\ pc' = [pc EXCEPT ![p] = "close", ![q] = "child"]
        /\ parent' = [parent EXCEPT ![q] = p]
        /\ sh' = [sh EXCEPT ![p].i = q, ![q] = sh[p]]
  BY DEF Fork
<1>3. q \in Pid /\ pc[q] = "free" /\ q # p /\ q \in Nat
  BY <1>1 DEF FreePids, Pid
<1>4. /\ DOMAIN pc' = Pid /\ DOMAIN parent' = Pid /\ DOMAIN sh' = Pid
      /\ pc'[p] = "close" /\ pc'[q] = "child" /\ sh'[q] = sh[p]
      /\ sh'[p] = [sh[p] EXCEPT !.i = q]
      /\ \A r \in Pid : r # p /\ r # q => pc'[r] = pc[r] /\ sh'[r] = sh[r]
  BY <1>1, <1>2, <1>3
<1>5. /\ DOMAIN sh'[p] = Fields /\ sh'[p].pids = sh[p].pids /\ sh'[p].token = sh[p].token
      /\ sh'[p].i = q
  BY <1>4, OwnState DEF Fields
<1>6. Shape(sh[p]) /\ PidsByPlace("fork", sh[p])
  BY <1>1 DEF IInv
<1>7. Shape(sh'[p]) /\ PidsByPlace(pc'[p], sh'[p]) /\ ReapedSoFar(p)'
  BY <1>3, <1>4, <1>5, <1>6 DEF Shape, PidsByPlace, ReapedSoFar, Forked
<1>8. Shape(sh'[q]) /\ PidsByPlace(pc'[q], sh'[q]) /\ ReapedSoFar(q)'
  BY <1>3, <1>4, <1>6 DEF PidsByPlace, ReapedSoFar
<1>9. ASSUME NEW r \in Pid, r # p, r # q
      PROVE  Shape(sh'[r]) /\ PidsByPlace(pc'[r], sh'[r]) /\ ReapedSoFar(r)'
  <2>1. ASSUME NEW x \in Children(r)'
        PROVE  x \in Children(r)
    <3>1. x \in Pid /\ parent'[x] = r /\ pc'[x] # "free"
      BY <2>1 DEF Children
    <3>2. x # q
      BY <1>1, <1>2, <1>9, <3>1
    <3>3. parent[x] = r /\ pc[x] # "free"
      BY <1>1, <1>2, <3>1, <3>2
    <3> QED BY <3>1, <3>3 DEF Children
  <2> QED BY <1>4, <1>9, <2>1, OthersKept
<1> QED BY <1>4, <1>7, <1>8, <1>9 DEF IInv

LEMMA ForkFailsInv ==
  ASSUME IInv, NEW p \in Pid, ForkFails(p)
  PROVE  IInv'
<1> DEFINE s == [sh[p] EXCEPT !.i = -1]
<1>1. pc[p] = "fork" /\ Goto(p, "close", s) /\ parent' = parent
  BY DEF ForkFails
<1>2. DOMAIN s = Fields /\ s.pids = sh[p].pids /\ s.token = sh[p].token /\ s.i = -1
  BY OwnState DEF Fields
<1>3. -1 \in Forked
  BY DEF Forked
<1> HIDE DEF s
<1>4. Shape(s) /\ PidsByPlace("close", s)
  BY <1>1, <1>2, <1>3, OwnState DEF Shape, PidsByPlace
<1> QED BY <1>1, <1>4, GotoInv

LEMMA CloseInParentInv ==
  ASSUME IInv, NEW p \in Pid, CloseInParent(p)
  PROVE  IInv'
<1> DEFINE s == [sh[p] EXCEPT !.i = 1]
<1>1. /\ pc[p] = "close" /\ parent' = parent
      /\ Goto(p, AfterRun(s, sh[p].i).label, AfterRun(s, sh[p].i).s)
  BY DEF CloseInParent
<1>2. DOMAIN s = Fields /\ s.pids = sh[p].pids /\ s.token = sh[p].token /\ s.i = 1
  BY OwnState DEF Fields
<1>3. sh[p].i \in Forked
  BY <1>1, OwnState DEF PidsByPlace
<1> HIDE DEF s
<1> QED BY <1>1, <1>2, <1>3, AfterRunInv

LEMMA ExecInv ==
  ASSUME IInv, NEW p \in Pid, Exec(p)
  PROVE  IInv'
BY NoShellShape, WithoutPids DEF Exec

LEMMA ExecFailsInv ==
  ASSUME IInv, NEW p \in Pid, ExecFails(p)
  PROVE  IInv'
<1>1. /\ pc[p] = "child" /\ parent' = parent
      /\ Goto(p, AfterRun(sh[p], -1).label, AfterRun(sh[p], -1).s)
  BY DEF ExecFails
<1>2. DOMAIN sh[p] = Fields /\ sh[p].i = 1
  BY <1>1, OwnState DEF PidsByPlace
<1>3. -1 \in Forked
  BY DEF Forked
<1> QED BY <1>1, <1>2, <1>3, AfterRunInv

LEMMA EndListInv ==
  ASSUME IInv, NEW p \in Pid, EndList(p)
  PROVE  IInv'
<1> DEFINE s == [sh[p] EXCEPT !.pids = <<>>, !.i = 1, !.cmd1 = NoCommand,
                              !.cmd2 = NoCommand, !.token = "end"]
<1>1. pc[p] = "wait" /\ Goto(p, "line", s) /\ parent' = parent
  BY DEF EndList
<1>2. DOMAIN s = Fields /\ s.pids = <<>> /\ s.i = 1
  BY OwnState DEF Fields
<1> HIDE DEF s
<1> QED BY <1>1, <1>2, WithoutPids

\* waitpid: what was the child pids[i] is none any more, reaped now or before.
LEMMA WaitPidInv ==
  ASSUME IInv, NEW p \in Pid, WaitPid(p)
  PROVE  IInv'
<1> DEFINE k == sh[p].i
<1>1. /\ DOMAIN pc = Pid /\ DOMAIN parent = Pid /\ DOMAIN sh = Pid
      /\ pc[p] = "wait" /\ sh[p].token # "&" /\ k <= Len(sh[p].pids)
      /\ sh' = [sh EXCEPT ![p].i = k + 1]
  BY DEF IInv, WaitPid
<1>2. /\ DOMAIN sh' = Pid /\ sh'[p] = [sh[p] EXCEPT !.i = k + 1]
      /\ \A q \in Pid : q # p => sh'[q] = sh[q]
  BY <1>1
<1>3. /\ DOMAIN sh'[p] = Fields /\ sh'[p].pids = sh[p].pids /\ sh'[p].token = sh[p].token
      /\ sh'[p].i = k + 1
  BY <1>2, OwnState DEF Fields
<1>4. /\ sh[p].pids \in Seq(Forked) /\ Len(sh[p].pids) \in Nat /\ k \in 1 .. Len(sh[p].pids)
      /\ PidsByPlace("wait", sh[p]) /\ ReapedSoFar(p)
  BY <1>1, OwnState DEF PidsByPlace
<1> HIDE DEF k
<1>5. k + 1 \in Nat /\ k + 1 \in 1 .. Len(sh[p].pids) + 1 /\ k \in Int
  BY <1>4
<1>6. Shape(sh'[p]) /\ PidsByPlace("wait", sh'[p])
  BY <1>3, <1>4, <1>5 DEF Shape, PidsByPlace
<1>7. ASSUME NEW j \in 1 .. k
      PROVE  j \in 1 .. k - 1 \/ j = k
  BY <1>5
<1>8. CASE Awaited(p) = {} /\ UNCHANGED <<pc, parent>>
  <2>1. \A q \in Pid : Children(q)' = Children(q)
    BY <1>8 DEF Children
  <2>2. sh[p].pids[k] \notin Children(p)
    BY <1>8 DEF Awaited, k
  <2>3. \A j \in 1 .. k - 1 : sh[p].pids[j] \notin Children(p)
    BY <1>1, <1>4 DEF ReapedSoFar, k
  <2>4. ReapedSoFar(p)'
    <3>1. (k + 1) - 1 = k
      BY <1>5
    <3> QED BY <1>3, <1>7, <2>1, <2>2, <2>3, <3>1 DEF ReapedSoFar
  <2>5. ASSUME NEW q \in Pid, q # p
        PROVE  Shape(sh'[q]) /\ PidsByPlace(pc'[q], sh'[q]) /\ ReapedSoFar(q)'
    BY <1>2, <1>8, <2>1, <2>5, OthersKept
  <2> QED BY <1>1, <1>2, <1>6, <1>8, <2>4, <2>5 DEF IInv
<1>9. CASE \E z \in Awaited(p) \cap Zombies(p) : Reap(z)
  <2>1. PICK z \in Awaited(p) \cap Zombies(p) : Reap(z)
    BY <1>9
  <2>2. z \in Pid /\ pc[z] = "zombie" /\ sh[p].pids[k] \in {-1, z}
    BY <2>1 DEF Zombies, Children, Awaited, k
  <2>3. /\ DOMAIN pc' = Pid /\ DOMAIN parent' = Pid /\ pc'[z] = "free" /\ pc'[p] = "wait"
        /\ \A q \in Pid : Children(q)' \subseteq Children(q) \ {z}
    <3>1. /\ DOMAIN pc' = Pid /\ DOMAIN parent' = Pid /\ pc'[z] = "free" /\ pc'[p] = "wait"
          /\ \A q \in Pid : q # z => pc'[q] = pc[q] /\ parent'[q] = parent[q]
      BY <1>1, <2>1, <2>2 DEF Reap
    <3> QED BY <3>1 DEF Children
  <2>4. sh[p].pids[k] \notin Children(p)'
    BY <2>2, <2>3 DEF Children, Pid
  <2>5. \A j \in 1 .. k - 1 : sh[p].pids[j] \notin Children(p)'
    BY <1>1, <1>4, <2>3 DEF ReapedSoFar, k
  <2>6. ReapedSoFar(p)'
    <3>1. (k + 1) - 1 = k
      BY <1>5
    <3> QED BY <1>3, <1>7, <2>4, <2>5, <3>1 DEF ReapedSoFar
  <2>7. ASSUME NEW q \in Pid, q # p
        PROVE  Shape(sh'[q]) /\ PidsByPlace(pc'[q], sh'[q]) /\ ReapedSoFar(q)'
    BY <1>2, <2>1, <2>7, ReapKeeps
  <2> QED BY <1>2, <1>6, <2>3, <2>6, <2>7 DEF IInv
<1> QED BY <1>8, <1>9 DEF WaitPid

LEMMA ReapEndedInv ==
  ASSUME IInv, NEW p \in Pid, ReapEnded(p)
  PROVE  IInv'
<1>1. CASE (\E z \in Zombies(p) : Reap(z)) /\ UNCHANGED sh
  <2>1. PICK z \in Zombies(p) : Reap(z)
    BY <1>1
  <2>2. DOMAIN pc' = Pid /\ DOMAIN parent' = Pid /\ DOMAIN sh' = Pid
    BY <1>1, <2>1 DEF Reap, IInv
  <2>3. \A q \in Pid : Shape(sh'[q]) /\ PidsByPlace(pc'[q], sh'[q]) /\ ReapedSoFar(q)'
    BY <1>1, <2>1, ReapKeeps
  <2> QED BY <2>2, <2>3 DEF IInv
<1>2. CASE Goto(p, "read", sh[p]) /\ UNCHANGED parent
  <2>1. pc[p] = "reap"
    BY DEF ReapEnded
  <2>2. sh[p].pids = <<>> /\ Shape(sh[p])
    BY <2>1 DEF IInv, PidsByPlace
  <2>3. PidsByPlace("read", sh[p])
    BY <2>2 DEF PidsByPlace
  <2> QED BY <1>2, <2>1, <2>2, <2>3, GotoInv
<1> QED BY <1>1, <1>2 DEF ReapEnded

LEMMA QuitInv ==
  ASSUME IInv, NEW p \in Pid, pc[p] # "free", Quit(p)
  PROVE  IInv'
BY ExitInv DEF Quit

\* Reading and writing leave alone what the invariant is about.
LEMMA SameInv ==
  ASSUME IInv, UNCHANGED <<pc, parent, sh>>
  PROVE  IInv'
BY DEF IInv, ReapedSoFar, Children

LEMMA InitInv == Init => IInv
<1> SUFFICES ASSUME Init PROVE IInv
  OBVIOUS
<1>1. DOMAIN pc = Pid /\ DOMAIN parent = Pid /\ DOMAIN sh = Pid
  BY DEF Init
<1>2. ASSUME NEW p \in Pid
      PROVE  Shape(sh[p]) /\ PidsByPlace(pc[p], sh[p]) /\ ReapedSoFar(p)
  <2>1. pc[p] \in {"read", "free"} /\ sh[p] = NoShell
    BY DEF Init
  <2> QED BY <2>1, NoShellShape, PlaceWithout DEF ReapedSoFar
<1> QED BY <1>1, <1>2 DEF IInv

LEMMA StepInv == IInv /\ [Next]_vars => IInv'
<1> SUFFICES ASSUME IInv, [Next]_vars PROVE IInv'
  OBVIOUS
<1>1. CASE UNCHANGED vars
  BY <1>1, SameInv DEF vars
<1>2. ASSUME NEW p \in Pid, ShellStep(p)
      PROVE  IInv'
  <2>1. CASE ReadLine(p)      BY <2>1, ReadLineInv
  <2>2. CASE EndOfInput(p)    BY <2>2, QuitInv DEF EndOfInput
  <2>3. CASE NextList(p)      BY <2>3, NextListInv
  <2>4. CASE PipeCmd(p)       BY <2>4, PipeCmdInv
  <2>5. CASE LastCmd(p)       BY <2>5, LastCmdInv
  <2>6. CASE Fork(p)          BY <2>6, ForkInv
  <2>7. CASE ForkFails(p)     BY <2>7, ForkFailsInv
  <2>8. CASE CloseInParent(p) BY <2>8, CloseInParentInv
  <2>9. CASE Exec(p)          BY <2>9, ExecInv
  <2>10. CASE ExecFails(p)    BY <2>10, ExecFailsInv
  <2>11. CASE WaitPid(p)      BY <2>11, WaitPidInv
  <2>12. CASE EndList(p)      BY <2>12, EndListInv
  <2>13. CASE ReapEnded(p)    BY <2>13, ReapEndedInv
  <2> QED BY <1>2, <2>1, <2>2, <2>3, <2>4, <2>5, <2>6, <2>7, <2>8, <2>9, <2>10,
             <2>11, <2>12, <2>13 DEF ShellStep
<1>3. ASSUME NEW p \in Pid, ProgramStep(p)
      PROVE  IInv'
  <2>1. CASE Take(p)   BY <2>1, SameInv DEF Take
  <2>2. CASE Put(p)    BY <2>2, SameInv DEF Put
  <2>3. CASE Finish(p) BY <2>3, QuitInv DEF Finish
  <2> QED BY <1>3, <2>1, <2>2, <2>3 DEF ProgramStep
<1> QED BY <1>1, <1>2, <1>3 DEF Next, Proc

---------------------------------------------------------------------------

\* In every process that runs run_cmd_list the number of pids fits the place in
\* the code, and the loop at line 175 has left no child behind it: between the
\* steps of other shells, programs that end and children of failed execs.
THEOREM Invariance == Spec => []IInv
<1> QED BY InitInv, StepInv, PTL DEF Spec

\* Line 162 checks all commands but the last, so the array pids is overrun by one
\* entry at most, and by the last command of a list.
THEOREM OverrunIsOne == Spec => []OverrunByLastOnly
<1>1. IInv => OverrunByLastOnly
  <2> SUFFICES ASSUME IInv, NEW p \in Pid, Len(sh[p].pids) > MAXPIDS
               PROVE  Len(sh[p].pids) = MAXPIDS + 1 /\ sh[p].token # "end"
    BY DEF OverrunByLastOnly
  <2>1. Len(sh[p].pids) \in Nat /\ PidsByPlace(pc[p], sh[p])
    BY OwnState
  <2>2. Len(<<>>) = 0
    OBVIOUS
  <2>3. pc[p] = "wait"
    BY <2>1, <2>2, Constants DEF PidsByPlace
  <2> QED BY <2>1, <2>3, Constants DEF PidsByPlace
<1> QED BY <1>1, Invariance, PTL

\* Only the end of the loop over pids takes a process from there to the next list.
LEMMA LeavesByEndList ==
  ASSUME IInv, Next, NEW p \in Pid, pc[p] = "wait", pc'[p] = "line"
  PROVE  EndList(p)
<1>1. DOMAIN pc = Pid
  BY DEF IInv
<1>2. PICK r \in Pid : Proc(r)
  BY DEF Next
<1>3. ~Quit(r)
  BY DEF Quit, Exit
<1>4. ASSUME NEW label, NEW s, Goto(r, label, s) PROVE r = p /\ label = "line"
  BY <1>1, <1>4 DEF Goto
<1>5. ASSUME NEW z, Reap(z) PROVE FALSE
  BY <1>1, <1>5 DEF Reap
<1>6. CASE ShellStep(r)
  <2>1. ~ReadLine(r)      BY <1>4 DEF ReadLine
  <2>2. ~EndOfInput(r)    BY <1>3 DEF EndOfInput
  <2>3. ~NextList(r)      BY <1>3, <1>4 DEF NextList
  <2>4. ~PipeCmd(r)
    <3> SUFFICES ASSUME PipeCmd(r) PROVE FALSE
      OBVIOUS
    <3>1. pc[r] = "pipe"
      BY DEF PipeCmd
    <3>2. \E label, s : Goto(r, label, s)
      BY <1>3 DEF PipeCmd
    <3> QED BY <1>4, <3>1, <3>2
  <2>5. ~LastCmd(r)       BY <1>3, <1>4 DEF LastCmd
  <2>6. ~Fork(r)          BY <1>1 DEF Fork
  <2>7. ~ForkFails(r)     BY <1>4 DEF ForkFails
  <2>8. ~CloseInParent(r) BY <1>4 DEF CloseInParent
  <2>9. ~Exec(r)          BY <1>4 DEF Exec
  <2>10. ~ExecFails(r)    BY <1>4 DEF ExecFails
  <2>11. ~WaitPid(r)      BY <1>5 DEF WaitPid
  <2>12. EndList(r) => r = p
    BY <1>4 DEF EndList
  <2>13. ~ReapEnded(r)    BY <1>4, <1>5 DEF ReapEnded
  <2> QED BY <1>6, <2>1, <2>2, <2>3, <2>4, <2>5, <2>6, <2>7, <2>8, <2>9, <2>10,
             <2>11, <2>12, <2>13 DEF ShellStep
<1>7. CASE ProgramStep(r)
  BY <1>3, <1>7 DEF ProgramStep, Take, Put, Finish
<1> QED BY <1>2, <1>6, <1>7 DEF Proc

\* A shell that is done with a foreground list has no process of that list as its
\* child any more (lines 175-183), whatever the other processes did meanwhile.
THEOREM ForegroundIsReaped == Spec => ForegroundReaped
<1> DEFINE Left == \A p \in Pid : pc[p] = "wait" /\ pc'[p] = "line" /\ sh[p].token # "&" =>
                      \A q \in Children(p) : ~Contains(sh[p].pids, q)
<1>1. IInv /\ [Next]_vars => [Left]_vars
  <2> SUFFICES ASSUME IInv, Next, NEW p \in Pid,
                      pc[p] = "wait", pc'[p] = "line", sh[p].token # "&",
                      NEW q \in Children(p), Contains(sh[p].pids, q)
               PROVE  FALSE
    OBVIOUS
  <2>1. sh[p].i > Len(sh[p].pids)
    BY LeavesByEndList DEF EndList
  <2>2. /\ Len(sh[p].pids) \in Nat /\ sh[p].i \in Int
        /\ ReapedSoFar(p)
    BY OwnState
  <2>3. PICK j \in 1 .. Len(sh[p].pids) : sh[p].pids[j] = q
    BY DEF Contains
  <2>4. j \in 1 .. sh[p].i - 1
    BY <2>1, <2>2, <2>3
  <2> QED BY <2>2, <2>3, <2>4 DEF ReapedSoFar
<1> QED BY <1>1, Invariance, PTL DEF Spec, ForegroundReaped

---------------------------------------------------------------------------
(* Types and descriptors.  A process that is about to run a command holds    *)
(* its ends at numbers above 1; the write end it has made is its alone until *)
(* it forks, and then the child's, for the parent closes it before it makes  *)
(* another.                                                                 *)

Places == ShellPc \cup {"free", "zombie", "prog"}

JobType == [gen : BOOLEAN, n : Nat \cup {-1}, has : BOOLEAN]

\* What tokenize makes ends with EOL, and pos has not passed that.
Tokens(tokens) ==
  tokens \in Seq(Words) /\ Len(tokens) \in Nat \ {0} /\ tokens[Len(tokens)] = "EOL"

OnLine(s) == Tokens(s.tokens) /\ s.pos \in 1 .. Len(s.tokens)

\* The rest of a shell's variables.
Variables(label, s) ==
  /\ s.pos \in Nat /\ s.cmd1 \in CommandType /\ s.cmd2 \in CommandType
  /\ label \in {"line", "pipe", "fork", "close", "child", "wait"} => OnLine(s)

\* What programs and pipes hold, and how often the user has typed.
Resources ==
  /\ job \in [Pid -> JobType] /\ pipe \in [Pipe -> 0 .. PipeSize] /\ typed \in 0 .. MaxLines

Processes ==
  /\ pc \in [Pid -> Places] /\ parent \in [Pid -> 0 .. MaxProcs]
  /\ fd \in [Pid -> [Fd -> End]]

\* The descriptors a command is to be run with, in the table f.
Ready(f, cmd) ==
  /\ cmd.fdin = 0 \/ (cmd.fdin \notin {0, 1} /\ f[cmd.fdin].kind \in {"file", "read"})
  /\ cmd.fdout = 1 \/ (cmd.fdout \notin {0, 1} /\ f[cmd.fdout].kind \in {"file", "write"})
  /\ cmd.fdin # cmd.fdout

\* run_cmd for c closes nothing that d needs.
Spares(c, d) ==
  /\ d.fdin # 0 => d.fdin # c.fdin /\ d.fdin # c.fdout
  /\ d.fdout # 1 => d.fdout # c.fdin /\ d.fdout # c.fdout

\* The descriptors of a process, by the place in the code.
FdsByPlace(p, label, f, s) ==
  /\ label \in {"free", "zombie"} => \A n \in Fd : f[n] = Closed
  /\ label \notin {"free", "zombie"} => f[0] # Closed /\ f[1] # Closed
  /\ label \in {"pipe", "fork", "close", "child"} => Ready(f, s.cmd1)
  /\ label \in {"fork", "close", "child"} /\ s.token = "end" =>
       Ready(f, s.cmd2) /\ Spares(s.cmd1, s.cmd2)
  /\ \A n \in Fd : f[n].kind = "write" =>
       n = 1 \/ (label \in {"fork", "close", "child"} /\ n = s.cmd1.fdout)
  /\ p = 1 => f[1].kind # "write" /\ label \notin {"child", "prog"}

\* The parent of a process is a shell, and its other children have not the write
\* ends that it has made.
ChildrenOf(p) ==
  /\ \A q \in Children(p) : pc[p] \in ShellPc \ {"child"}
  /\ pc[p] = "fork" /\ sh[p].cmd1.fdout # 1 =>
       \A k \in Pipe : fd[p][sh[p].cmd1.fdout] = WriteEnd(k) => Writers(k) = {p}
  /\ \A k \in Pipe : fd[p][1] # WriteEnd(k) =>
       \A q, r \in Writers(k) \cap Commands(p) : q = r

Kept(p) ==
  Variables(pc[p], sh[p]) /\ FdsByPlace(p, pc[p], fd[p], sh[p]) /\ ChildrenOf(p)

FdInv == Resources /\ Processes /\ \A p \in Pid : Kept(p)

---------------------------------------------------------------------------

LEMMA Fds ==
  /\ MaxFd \in Nat /\ 0 \in Fd /\ 1 \in Fd /\ Fd \subseteq Nat /\ Fd \subseteq Int
BY ShellAssumption DEF Fd

\* The kinds tell the ends apart, and the number of its pipe a write end.
LEMMA Kinds ==
  /\ Closed.kind = "closed" /\ Tty.kind = "tty" /\ File.kind = "file"
  /\ \A k : ReadEnd(k).kind = "read" /\ WriteEnd(k).kind = "write"
  /\ \A k, j : WriteEnd(k) = WriteEnd(j) => k = j
  /\ Closed \in End /\ Tty \in End /\ File \in End
  /\ \A k \in Pipe : ReadEnd(k) \in End /\ WriteEnd(k) \in End
  /\ \A e \in End : e.kind \in {"closed", "tty", "file", "read", "write"}
  /\ \A e \in End : e.kind = "closed" => e = Closed
<1>1. /\ Closed.kind = "closed" /\ Tty.kind = "tty" /\ File.kind = "file"
      /\ \A k : ReadEnd(k).kind = "read" /\ WriteEnd(k).kind = "write"
      /\ \A k : WriteEnd(k).pipe = k
  BY DEF Closed, Tty, File, ReadEnd, WriteEnd
<1> QED BY <1>1 DEF End

LEMMA NoCommandTyped == NoCommand \in CommandType
BY Fds DEF NoCommand, CommandType, Words

\* What the user types, with its end.
LEMMA TokenizeIs ==
  ASSUME NEW line, line \in Lines \/ line = <<>>
  PROVE  Tokens(Tokenize(line))
<1>1. line \in Seq(Words)
  <2>1. CASE line = <<>>
    BY <2>1
  <2>2. CASE line \in Lines
    <3>1. line \in Seq(STRING)
      BY <2>2, ShellAssumption
    <3>2. ASSUME NEW i \in 1 .. Len(line) PROVE line[i] \in Words
      BY <2>2, <3>1 DEF Words, ToSet
    <3>3. Len(line) \in Nat /\ line \in [1 .. Len(line) -> STRING]
      BY <3>1
    <3> QED BY <3>2, <3>3
  <2> QED BY <2>1, <2>2
<1>2. "EOL" \in Words
  BY DEF Words
<1> QED BY <1>1, <1>2 DEF Tokenize, Tokens

\* A descriptor is found by its place among the free ones.
LEMMA LeastFd ==
  ASSUME NEW A, A \subseteq Nat, A # {}
  PROVE  \E n \in A : \A m \in A : ~ m < n
<1> DEFINE R == OpToRel(<, Nat)
<1>1. IsWellFoundedOn(R, Nat)
  BY NatLessThanWellFounded
<1>2. PICK n \in A : \A m \in A : <<m, n>> \notin R
  BY <1>1, WFMin
<1>3. ASSUME NEW m \in A PROVE ~ m < n
  BY <1>2, <1>3 DEF OpToRel
<1> QED BY <1>3

LEMMA LowestFreeIs ==
  ASSUME NEW f, NEW x \in Fd, f[x] = Closed
  PROVE  LowestFree(f) \in Fd /\ f[LowestFree(f)] = Closed
<1> DEFINE A == {n \in Fd : f[n] = Closed}
<1>1. A \subseteq Nat /\ A # {}
  BY Fds
<1>2. PICK n \in A : \A m \in A : ~ m < n
  BY <1>1, LeastFd
<1>3. n \in Fd /\ f[n] = Closed /\ \A m \in Fd : m < n => f[m] # Closed
  BY <1>2
<1> QED BY <1>3 DEF LowestFree

\* What open does to a table that has a free descriptor.
LEMMA OpenIs ==
  ASSUME NEW f \in [Fd -> End], NEW x \in Fd, f[x] = Closed, NEW end \in End
  PROVE  /\ LowestFree(f) \in Fd /\ f[LowestFree(f)] = Closed
         /\ Open(f, end) \in [Fd -> End] /\ Open(f, end)[LowestFree(f)] = end
         /\ \A n \in Fd : n # LowestFree(f) => Open(f, end)[n] = f[n]
<1>1. LowestFree(f) \in Fd /\ f[LowestFree(f)] = Closed
  BY LowestFreeIs
<1> QED BY <1>1 DEF Open

LEMMA FreePipeIs ==
  ASSUME NEW f, CanPipe(f)
  PROVE  FreePipe \in Pipe /\ Writers(FreePipe) = {}
<1> DEFINE A == {k \in Pipe : Readers(k) \cup Writers(k) = {}}
<1>1. A \subseteq Nat /\ A # {}
  BY DEF CanPipe, Pipe
<1>2. PICK k \in A : \A j \in A : ~ j < k
  BY <1>1, LeastFd
<1>3. ASSUME NEW j \in 1 .. k - 1 PROVE Readers(j) \cup Writers(j) # {}
  <2>1. j \in Pipe /\ j < k
    BY <1>1, <1>2, <1>3, ShellAssumption DEF Pipe
  <2> QED BY <1>2, <2>1
<1>4. k \in Pipe /\ Readers(k) \cup Writers(k) = {}
  BY <1>2
<1> DEFINE P(x) == /\ Readers(x) \cup Writers(x) = {}
                   /\ \A j \in 1 .. x - 1 : Readers(j) \cup Writers(j) # {}
<1>5. FreePipe \in Pipe /\ P(FreePipe)
  BY <1>3, <1>4 DEF FreePipe
<1> QED BY <1>5

---------------------------------------------------------------------------
(* Parsing.                                                                *)

LEMMA EndOfWordsIs ==
  ASSUME NEW tokens, Tokens(tokens), NEW pos \in 1 .. Len(tokens)
  PROVE  EndOfWords(tokens, pos) \in pos .. Len(tokens)
<1>1. Len(tokens) \in Nat /\ tokens[Len(tokens)] = "EOL" /\ pos \in Nat
  BY DEF Tokens
<1> DEFINE A == {e \in pos .. Len(tokens) : IsOp(tokens[e])}
<1>2. A \subseteq Nat /\ Len(tokens) \in A
  <2>1. IsOp(tokens[Len(tokens)])
    BY <1>1 DEF IsOp
  <2>2. pos .. Len(tokens) \subseteq Nat /\ Len(tokens) \in pos .. Len(tokens)
    BY <1>1
  <2> QED BY <2>1, <2>2
<1>3. PICK e \in A : \A j \in A : ~ j < e
  BY <1>2, LeastFd
<1>4. ASSUME NEW j \in pos .. e - 1 PROVE ~IsOp(tokens[j])
  <2>1. j \in pos .. Len(tokens) /\ j < e
    BY <1>1, <1>2, <1>3, <1>4
  <2> QED BY <1>3, <2>1
<1>5. e \in pos .. Len(tokens) /\ IsOp(tokens[e])
  BY <1>3
<1> QED BY <1>4, <1>5 DEF EndOfWords

\* Standard input and output are open.
Standard(f) == f \in [Fd -> End] /\ f[0] # Closed /\ f[1] # Closed

\* What parsing a command in the table f has come to: files are opened under
\* numbers that were free, and the rest of the table is as before.
Parsed(f, tokens, st) ==
  /\ st.fd \in [Fd -> End] /\ st.cmd \in CommandType /\ st.pos \in 1 .. Len(tokens)
  /\ \A n \in Fd : st.fd[n] = f[n] \/ (f[n] = Closed /\ st.fd[n] = File)
  /\ st.cmd.fdin # 0 => f[st.cmd.fdin] = Closed /\ st.fd[st.cmd.fdin] = File
  /\ st.cmd.fdout # 1 => f[st.cmd.fdout] = Closed /\ st.fd[st.cmd.fdout] = File
  /\ st.cmd.fdin # st.cmd.fdout

LEMMA ParseCmdIs ==
  ASSUME NEW f, Standard(f), NEW tokens, Tokens(tokens), NEW pos \in 1 .. Len(tokens)
  PROVE  Parsed(f, tokens, ParseCmd(f, tokens, pos))
<1> DEFINE st == ParseCmd(f, tokens, pos)
<1>1. /\ EndOfWords(tokens, pos) \in pos .. Len(tokens)
      /\ Len(tokens) \in Nat /\ pos \in Nat /\ tokens[pos] \in Words
  BY EndOfWordsIs DEF Tokens
<1>2. EndOfWords(tokens, pos) \in 1 .. Len(tokens) /\ Argc(tokens, pos) \in Nat
  BY <1>1 DEF Argc
<1>3. /\ st.fd = f /\ st.pos = EndOfWords(tokens, pos)
      /\ st.cmd = [NoCommand EXCEPT !.name = tokens[pos], !.argc = Argc(tokens, pos)]
  BY DEF ParseCmd
<1>4. st.cmd = [name |-> tokens[pos], argc |-> Argc(tokens, pos), fdin |-> 0, fdout |-> 1]
  BY <1>3 DEF NoCommand
<1> HIDE DEF st
<1>5. st.cmd \in CommandType /\ st.cmd.fdin = 0 /\ st.cmd.fdout = 1
  BY <1>1, <1>2, <1>4, Fds DEF CommandType
<1>6. Parsed(f, tokens, st)
  BY <1>2, <1>3, <1>5 DEF Parsed, Standard
<1> QED BY <1>6 DEF st

LEMMA RedirectIs ==
  ASSUME NEW f, Standard(f), NEW tokens, Tokens(tokens), NEW st, NEW op \in {"<", ">"},
         ~st.quit => Parsed(f, tokens, st), ~Redirect(st, tokens, op).quit
  PROVE  Parsed(f, tokens, Redirect(st, tokens, op))
<1> DEFINE n  == LowestFree(st.fd)
           ru == Redirect(st, tokens, op)
<1>1. CASE st.quit \/ tokens[st.pos] # op
  BY <1>1 DEF Redirect
<1>2. CASE ~st.quit /\ tokens[st.pos] = op
  <2>1. Parsed(f, tokens, st) /\ st.pos \in 1 .. Len(tokens) /\ Len(tokens) \in Nat
    BY <1>2 DEF Parsed, Tokens
  <2>2. /\ Argc(tokens, st.pos + 1) = 1 /\ ~FdsUsedUp(st.fd)
        /\ ru.fd = Open(st.fd, File) /\ ru.pos = st.pos + 2
        /\ ru.cmd = IF op = "<" THEN [st.cmd EXCEPT !.fdin = n]
                                ELSE [st.cmd EXCEPT !.fdout = n]
    BY <1>2 DEF Redirect
  <2>3. ru.pos \in 1 .. Len(tokens)
    <3>1. st.pos # Len(tokens)
      BY <1>2 DEF Tokens
    <3>2. st.pos + 1 \in 1 .. Len(tokens)
      BY <2>1, <3>1
    <3>3. EndOfWords(tokens, st.pos + 1) \in st.pos + 1 .. Len(tokens)
      BY <3>2, EndOfWordsIs
    <3>4. EndOfWords(tokens, st.pos + 1) - (st.pos + 1) = 1
      BY <2>2 DEF Argc
    <3> QED BY <2>1, <2>2, <3>3, <3>4
  <2>4. PICK x \in Fd : st.fd[x] = Closed
    BY <2>2 DEF FdsUsedUp
  <2>5. st.fd \in [Fd -> End] /\ st.cmd \in CommandType
    BY <2>1 DEF Parsed
  <2>6. /\ n \in Fd /\ st.fd[n] = Closed /\ ru.fd \in [Fd -> End] /\ ru.fd[n] = File
        /\ \A m \in Fd : m # n => ru.fd[m] = st.fd[m]
    BY <2>2, <2>4, <2>5, Kinds, OpenIs
  <2>7. /\ ru.cmd \in CommandType
        /\ \/ ru.cmd.fdin = n /\ ru.cmd.fdout = st.cmd.fdout
           \/ ru.cmd.fdin = st.cmd.fdin /\ ru.cmd.fdout = n
    BY <2>2, <2>5, <2>6 DEF CommandType
  <2>8. st.cmd.fdin \in Fd /\ st.cmd.fdout \in Fd
    BY <2>5 DEF CommandType
  <2>9. Closed # File
    BY Kinds
  <2> HIDE DEF n, ru
  <2>10. f[n] = Closed /\ n # 0 /\ n # 1 /\ n # st.cmd.fdin /\ n # st.cmd.fdout
    BY <2>1, <2>6, <2>9, Fds DEF Parsed, Standard
  <2>11. \A m \in Fd : ru.fd[m] = f[m] \/ (f[m] = Closed /\ ru.fd[m] = File)
    BY <2>1, <2>6, <2>10 DEF Parsed
  <2>12. /\ ru.cmd.fdin # 0 => f[ru.cmd.fdin] = Closed /\ ru.fd[ru.cmd.fdin] = File
         /\ ru.cmd.fdout # 1 => f[ru.cmd.fdout] = Closed /\ ru.fd[ru.cmd.fdout] = File
         /\ ru.cmd.fdin # ru.cmd.fdout
    BY <2>1, <2>6, <2>7, <2>8, <2>10 DEF Parsed
  <2>13. Parsed(f, tokens, ru)
    BY <2>3, <2>6, <2>7, <2>11, <2>12 DEF Parsed
  <2> QED BY <2>13 DEF ru
<1> QED BY <1>1, <1>2

LEMMA ParseIs ==
  ASSUME NEW f, Standard(f), NEW tokens, Tokens(tokens), NEW pos \in 1 .. Len(tokens),
         ~ParseRedirection(f, tokens, pos).quit
  PROVE  Parsed(f, tokens, ParseRedirection(f, tokens, pos))
<1> DEFINE a == ParseCmd(f, tokens, pos)
           b == Redirect(a, tokens, "<")
           c == Redirect(b, tokens, ">")
<1>1. Parsed(f, tokens, a)
  BY ParseCmdIs
<1> HIDE DEF a
<1>2. ~b.quit => Parsed(f, tokens, b)
  BY <1>1, RedirectIs
<1> HIDE DEF b
<1>3. ~c.quit => Parsed(f, tokens, c)
  BY <1>2, RedirectIs
<1>4. ParseRedirection(f, tokens, pos) = c
  BY DEF ParseRedirection, a, b
<1> QED BY <1>3, <1>4

---------------------------------------------------------------------------
(* What a step leaves alone.                                               *)

Writes(f, k) == \E n \in Fd : f[n] = WriteEnd(k)

LEMMA WritersAre ==
  /\ \A k, q : q \in Writers(k) <=> q \in Pid /\ Writes(fd[q], k)
  /\ \A k, q : q \in Writers(k)' <=> q \in Pid /\ Writes(fd'[q], k)
BY DEF Writers, Holders, Writes

\* t differs from s at most in the pids and i.
SameCommands(s, t) ==
  /\ t.tokens = s.tokens /\ t.pos = s.pos /\ t.token = s.token
  /\ t.cmd1 = s.cmd1 /\ t.cmd2 = s.cmd2

LEMMA VariablesKept ==
  ASSUME NEW s, NEW t, SameCommands(s, t), NEW label, Variables(label, s)
  PROVE  Variables(label, t)
BY DEF SameCommands, Variables, OnLine

\* The place of a process that is reaped, or that stays where it is.
SamePlace(label, new) == new = label \/ (label = "zombie" /\ new = "free")

LEMMA FdsKept ==
  ASSUME NEW p, NEW f, NEW s, NEW t, SameCommands(s, t),
         NEW label, NEW new, SamePlace(label, new),
         FdsByPlace(p, label, f, s), Variables(label, s)
  PROVE  FdsByPlace(p, new, f, t) /\ Variables(new, t)
<1>1. FdsByPlace(p, label, f, t)
  BY DEF SameCommands, FdsByPlace
<1>2. Variables(label, t)
  BY VariablesKept
<1>3. CASE new = label
  BY <1>1, <1>2, <1>3
<1>4. CASE label = "zombie" /\ new = "free"
  BY <1>1, <1>2, <1>4 DEF FdsByPlace, Variables
<1> QED BY <1>3, <1>4 DEF SamePlace

\* A step of p gives no process more children, and a write end to no process but
\* p, and only that of a pipe nobody writes to.
Fewer(p) ==
  /\ \A r \in Pid : Children(r)' \subseteq Children(r) /\ Commands(r)' \subseteq Commands(r)
  /\ \A k \in Pipe : \/ Writers(k)' \subseteq Writers(k)
                     \/ Writers(k) = {} /\ Writers(k)' \subseteq {p}

LEMMA ChildrenKept ==
  ASSUME NEW r \in Pid, NEW p \in Pid, ChildrenOf(r), Fewer(p),
         pc'[r] = pc[r], fd'[r] = fd[r], SameCommands(sh[r], sh'[r]),
         sh[r].cmd1.fdout \in Fd
  PROVE  ChildrenOf(r)'
<1>1. sh'[r].cmd1 = sh[r].cmd1
  BY DEF SameCommands
<1>2. \A q \in Children(r)' : pc'[r] \in ShellPc \ {"child"}
  BY DEF ChildrenOf, Fewer
<1>3. ASSUME pc'[r] = "fork", sh'[r].cmd1.fdout # 1, NEW k \in Pipe,
             fd'[r][sh'[r].cmd1.fdout] = WriteEnd(k)
      PROVE  Writers(k)' = {r}
  <2>1. Writers(k) = {r}
    BY <1>1, <1>3 DEF ChildrenOf
  <2>2. Writers(k)' \subseteq {r}
    BY <2>1 DEF Fewer
  <2>3. r \in Writers(k)'
    BY <1>1, <1>3, WritersAre DEF Writes
  <2> QED BY <2>2, <2>3
<1>4. ASSUME NEW k \in Pipe, fd'[r][1] # WriteEnd(k),
             NEW x \in Writers(k)', x \in Commands(r)', NEW y \in Writers(k)', y \in Commands(r)'
      PROVE  x = y
  <2>1. x \in Commands(r) /\ y \in Commands(r)
    BY <1>4 DEF Fewer
  <2>2. CASE Writers(k)' \subseteq Writers(k)
    <3>1. x \in Writers(k) /\ y \in Writers(k)
      BY <1>4, <2>2
    <3> QED BY <1>4, <2>1, <3>1 DEF ChildrenOf
  <2>3. CASE Writers(k)' \subseteq {p}
    BY <1>4, <2>3
  <2> QED BY <2>2, <2>3 DEF Fewer
<1> QED BY <1>2, <1>3, <1>4 DEF ChildrenOf

LEMMA Childless ==
  ASSUME NEW r \in Pid, Children(r)' = {}, pc'[r] # "fork"
  PROVE  ChildrenOf(r)'
BY DEF ChildrenOf, Commands

\* What holds of a process that does not step holds on.
LEMMA OtherKept ==
  ASSUME NEW r \in Pid, NEW p \in Pid, Kept(r), Fewer(p),
         SamePlace(pc[r], pc'[r]), fd'[r] = fd[r], SameCommands(sh[r], sh'[r])
  PROVE  Kept(r)'
<1>1. Variables(pc[r], sh[r]) /\ FdsByPlace(r, pc[r], fd[r], sh[r]) /\ ChildrenOf(r)
  BY DEF Kept
<1>2. FdsByPlace(r, pc'[r], fd[r], sh'[r]) /\ Variables(pc'[r], sh'[r])
  BY <1>1, FdsKept
<1>3. sh[r].cmd1.fdout \in Fd
  BY <1>1 DEF Variables, CommandType
<1>4. ChildrenOf(r)'
  <2>1. CASE pc'[r] = pc[r]
    BY <1>1, <1>3, <2>1, ChildrenKept
  <2>2. CASE pc[r] = "zombie" /\ pc'[r] = "free"
    <3>1. Children(r) = {}
      BY <1>1, <2>2 DEF ChildrenOf, ShellPc
    <3>2. Children(r)' = {}
      BY <3>1 DEF Fewer
    <3> QED BY <2>2, <3>2, Childless
  <2> QED BY <2>1, <2>2 DEF SamePlace
<1> QED BY <1>2, <1>4 DEF Kept

\* A process goes to another place, with other variables and descriptors.
Moves(p, label, s, g) ==
  /\ pc[p] \notin {"free", "zombie"}
  /\ label \in Places \ {"free", "zombie", "child"}
  /\ g \in [Fd -> End]
  /\ Variables(label, s) /\ FdsByPlace(p, label, g, s)
  /\ pc[p] = "child" \/ (g[1] = fd[p][1] /\ label # "prog")
  /\ \A k \in Pipe : Writes(g, k) => Writes(fd[p], k) \/ Writers(k) = {}
  /\ label = "fork" /\ s.cmd1.fdout # 1 =>
       \A k \in Pipe : g[s.cmd1.fdout] = WriteEnd(k) => Writers(k) = {}

LEMMA GotoKeeps ==
  ASSUME FdInv, NEW p \in Pid, NEW label, NEW s, NEW g, Moves(p, label, s, g),
         DOMAIN sh = Pid, Goto(p, label, s), fd' = [fd EXCEPT ![p] = g], parent' = parent,
         Resources'
  PROVE  FdInv'
<1>1. Processes /\ DOMAIN sh = Pid
  BY DEF FdInv
<1>2. /\ pc'[p] = label /\ sh'[p] = s /\ fd'[p] = g
      /\ \A r \in Pid : r # p => pc'[r] = pc[r] /\ sh'[r] = sh[r] /\ fd'[r] = fd[r]
  BY <1>1 DEF Processes, Goto
<1>3. Processes'
  BY <1>1 DEF Processes, Goto, Moves
<1>4. \A k \in Pipe : \/ Writers(k)' \subseteq Writers(k)
                      \/ Writers(k) = {} /\ Writers(k)' \subseteq {p}
  <2> TAKE k \in Pipe
  <2>1. \A q \in Writers(k)' : q \in Writers(k) \/ q = p
    BY <1>2, WritersAre
  <2>2. p \in Writers(k)' => p \in Writers(k) \/ Writers(k) = {}
    BY <1>2, WritersAre DEF Moves
  <2> QED BY <2>1, <2>2
<1>5. \A r \in Pid : Children(r)' = Children(r)
  BY <1>2 DEF Children, Moves
<1>6. \A r \in Pid : Commands(r)' \subseteq Commands(r)
  <2> SUFFICES ASSUME NEW r \in Pid, NEW q \in Commands(r)' PROVE q \in Commands(r)
    OBVIOUS
  <2>1. q \in Children(r)' /\ pc'[q] \in {"child", "prog"} /\ q \in Pid
    BY DEF Commands, Children
  <2>2. pc[q] \in {"child", "prog"}
    BY <1>2, <2>1 DEF Moves
  <2> QED BY <1>5, <2>1, <2>2 DEF Commands
<1>7. Fewer(p)
  BY <1>4, <1>5, <1>6 DEF Fewer
<1>8. ASSUME NEW r \in Pid, r # p
      PROVE  Kept(r)'
  <2>1. Kept(r) /\ SamePlace(pc[r], pc'[r]) /\ fd'[r] = fd[r] /\ SameCommands(sh[r], sh'[r])
    BY <1>2, <1>8 DEF FdInv, SamePlace, SameCommands
  <2> QED BY <1>7, <2>1, OtherKept
<1>9. ChildrenOf(p)
  BY DEF FdInv, Kept
<1>10. ChildrenOf(p)'
  <2>1. \A q \in Children(p)' : label \in ShellPc \ {"child"}
    <3> SUFFICES ASSUME NEW q \in Children(p) PROVE label \in ShellPc \ {"child"}
      BY <1>5
    <3>1. pc[p] # "child"
      BY <1>9 DEF ChildrenOf
    <3> QED BY <3>1 DEF Moves, Places
  <2>2. ASSUME label = "fork", s.cmd1.fdout # 1, NEW k \in Pipe, g[s.cmd1.fdout] = WriteEnd(k)
        PROVE  Writers(k)' = {p}
    <3>1. Writers(k) = {}
      BY <2>2 DEF Moves
    <3>2. \A q \in Writers(k)' : q = p
      BY <1>4, <3>1
    <3>3. s.cmd1.fdout \in Fd
      BY DEF Moves, Variables, CommandType
    <3>4. p \in Writers(k)'
      BY <1>2, <2>2, <3>3, WritersAre DEF Writes
    <3> QED BY <3>2, <3>4
  <2>3. ASSUME NEW k \in Pipe, g[1] # WriteEnd(k),
               NEW x \in Writers(k)', x \in Commands(p)', NEW y \in Writers(k)', y \in Commands(p)'
        PROVE  x = y
    <3>1. x \in Commands(p) /\ y \in Commands(p)
      BY <1>6, <2>3
    <3>2. x \in Children(p)
      BY <3>1 DEF Commands
    <3>3. pc[p] # "child"
      BY <1>9, <3>2 DEF ChildrenOf
    <3>4. fd[p][1] # WriteEnd(k)
      BY <2>3, <3>3 DEF Moves
    <3>5. CASE Writers(k)' \subseteq Writers(k)
      BY <1>9, <2>3, <3>1, <3>4, <3>5 DEF ChildrenOf
    <3>6. CASE Writers(k)' \subseteq {p}
      BY <2>3, <3>6
    <3> QED BY <1>4, <3>5, <3>6
  <2> QED BY <1>2, <2>1, <2>2, <2>3 DEF ChildrenOf
<1>11. Kept(p)'
  BY <1>2, <1>10 DEF Kept, Moves
<1> QED BY <1>3, <1>8, <1>11 DEF FdInv

LEMMA ExitKeeps ==
  ASSUME FdInv, NEW p \in Pid, pc[p] \notin {"free", "zombie"}, DOMAIN sh = Pid, Exit(p),
         pipe' = pipe
  PROVE  FdInv'
<1>1. Processes /\ Resources
  BY DEF FdInv
<1>2. /\ pc'[p] \in {"free", "zombie"} /\ sh'[p] = NoShell /\ fd'[p] = [n \in Fd |-> Closed]
      /\ \A r \in Pid : r # p => sh'[r] = sh[r] /\ fd'[r] = fd[r]
  BY <1>1 DEF Processes, Exit
<1>3. \A r \in Pid : r # p => SamePlace(pc[r], pc'[r])
  BY DEF Exit, Zombies, SamePlace
<1>4. Processes'
  <2>1. pc' \in [Pid -> Places] /\ fd' \in [Pid -> [Fd -> End]]
    BY <1>1, Kinds DEF Exit, Processes, Places
  <2>2. 0 \in 0 .. MaxProcs
    BY Constants
  <2>3. parent' \in [Pid -> 0 .. MaxProcs]
    BY <1>1, <2>2 DEF Exit, Processes
  <2> QED BY <2>1, <2>3 DEF Processes
<1>5. Resources'
  <2>1. NoJob \in JobType
    BY DEF NoJob, JobType
  <2> QED BY <1>1, <2>1 DEF Resources, Exit
<1>6. \A r \in Pid : Children(r)' \subseteq Children(r)
  <2> SUFFICES ASSUME NEW r \in Pid, NEW q \in Children(r)' PROVE q \in Children(r)
    OBVIOUS
  <2>1. q \in Pid /\ parent'[q] = r /\ pc'[q] # "free" /\ r # 0
    BY DEF Children, Pid
  <2>2. parent[q] = r
    BY <2>1 DEF Exit
  <2>3. pc[q] # "free"
    BY <2>1 DEF Exit
  <2> QED BY <2>1, <2>2, <2>3 DEF Children
<1>7. Children(p)' = {}
  <2> SUFFICES ASSUME NEW q \in Children(p)' PROVE FALSE
    OBVIOUS
  <2>1. q \in Pid /\ parent'[q] = p /\ p # 0
    BY DEF Children, Pid
  <2>2. q \in Children(p)
    BY <1>6
  <2> QED BY <2>1, <2>2 DEF Exit
<1>8. \A r \in Pid : Commands(r)' \subseteq Commands(r)
  <2> SUFFICES ASSUME NEW r \in Pid, NEW q \in Commands(r)' PROVE q \in Commands(r)
    OBVIOUS
  <2>1. q \in Children(r)' /\ pc'[q] \in {"child", "prog"} /\ q \in Pid
    BY DEF Commands, Children
  <2>2. q # p
    BY <1>2, <2>1
  <2>3. pc[q] = pc'[q]
    BY <1>3, <2>1, <2>2 DEF SamePlace
  <2> QED BY <1>6, <2>1, <2>3 DEF Commands
<1>9. \A k \in Pipe : Writers(k)' \subseteq Writers(k)
  <2> SUFFICES ASSUME NEW k \in Pipe, NEW q \in Writers(k)' PROVE q \in Writers(k)
    OBVIOUS
  <2>1. q \in Pid /\ Writes(fd'[q], k)
    BY WritersAre
  <2>2. q # p
    <3>1. Closed # WriteEnd(k)
      BY Kinds
    <3> QED BY <1>2, <2>1, <3>1 DEF Writes
  <2> QED BY <1>2, <2>1, <2>2, WritersAre
<1>10. Fewer(p)
  BY <1>6, <1>8, <1>9 DEF Fewer
<1>11. ASSUME NEW r \in Pid, r # p
       PROVE  Kept(r)'
  <2>1. Kept(r) /\ SamePlace(pc[r], pc'[r]) /\ fd'[r] = fd[r] /\ SameCommands(sh[r], sh'[r])
    BY <1>2, <1>3, <1>11 DEF FdInv, SameCommands
  <2> QED BY <1>10, <2>1, OtherKept
<1>12. Kept(p)'
  <2>1. ChildrenOf(p)'
    BY <1>2, <1>7, Childless
  <2>2. Variables(pc'[p], sh'[p])
    <3>1. NoShell.pos = 1 /\ NoShell.cmd1 = NoCommand /\ NoShell.cmd2 = NoCommand
      BY DEF NoShell
    <3> QED BY <1>2, <3>1, NoCommandTyped DEF Variables
  <2>3. FdsByPlace(p, pc'[p], fd'[p], sh'[p])
    BY <1>2, Kinds, Fds DEF FdsByPlace
  <2> QED BY <2>1, <2>2, <2>3 DEF Kept
<1> QED BY <1>4, <1>5, <1>11, <1>12 DEF FdInv

\* The descriptors stay, and nobody moves but those who are reaped.
LEMMA SteadyKeeps ==
  ASSUME FdInv, Processes', Resources', NEW p \in Pid, Fewer(p), fd' = fd,
         \A r \in Pid : SamePlace(pc[r], pc'[r]) /\ SameCommands(sh[r], sh'[r])
  PROVE  FdInv'
<1>1. ASSUME NEW r \in Pid PROVE Kept(r)'
  <2>1. Kept(r) /\ SamePlace(pc[r], pc'[r]) /\ fd'[r] = fd[r] /\ SameCommands(sh[r], sh'[r])
    BY DEF FdInv
  <2> QED BY <2>1, OtherKept
<1> QED BY <1>1 DEF FdInv

LEMMA ReapKeepsFds ==
  ASSUME FdInv, Resources', NEW z \in Pid, pc[z] = "zombie", Reap(z), fd' = fd,
         \A r \in Pid : SameCommands(sh[r], sh'[r])
  PROVE  FdInv'
<1>1. Processes
  BY DEF FdInv
<1>2. /\ pc'[z] = "free"
      /\ \A r \in Pid : r # z => pc'[r] = pc[r] /\ parent'[r] = parent[r]
  BY <1>1 DEF Processes, Reap
<1>3. Processes'
  <2>1. 0 \in 0 .. MaxProcs
    BY Constants
  <2> QED BY <1>1, <2>1 DEF Processes, Reap, Places
<1>4. \A r \in Pid : SamePlace(pc[r], pc'[r])
  BY <1>2 DEF SamePlace
<1>5. Fewer(z)
  <2>1. \A r \in Pid : Children(r)' \subseteq Children(r)
    BY <1>2 DEF Children
  <2>2. \A r \in Pid : Commands(r)' \subseteq Commands(r)
    <3> SUFFICES ASSUME NEW r \in Pid, NEW q \in Commands(r)' PROVE q \in Commands(r)
      OBVIOUS
    <3>1. q \in Children(r)' /\ pc'[q] \in {"child", "prog"} /\ q \in Pid
      BY DEF Commands, Children
    <3>2. pc[q] = pc'[q]
      BY <1>2, <3>1
    <3> QED BY <2>1, <3>1, <3>2 DEF Commands
  <2>3. \A k \in Pipe : Writers(k)' = Writers(k)
    BY DEF Writers, Holders
  <2> QED BY <2>1, <2>2, <2>3 DEF Fewer
<1> QED BY <1>3, <1>4, <1>5, SteadyKeeps

LEMMA SamePlacesKeep ==
  ASSUME FdInv, Resources', UNCHANGED <<pc, parent, fd>>, NEW p \in Pid,
         \A r \in Pid : SameCommands(sh[r], sh'[r])
  PROVE  FdInv'
<1>1. Processes'
  BY DEF FdInv, Processes
<1>2. Fewer(p)
  BY DEF Fewer, Children, Commands, Writers, Holders
<1>3. \A r \in Pid : SamePlace(pc[r], pc'[r])
  BY DEF SamePlace
<1> QED BY <1>1, <1>2, <1>3, SteadyKeeps

LEMMA ForkKeeps ==
  ASSUME IInv, FdInv, NEW p \in Pid, Fork(p)
  PROVE  FdInv'
<1>1. Processes /\ DOMAIN sh = Pid /\ pc[p] = "fork"
  BY DEF FdInv, IInv, Fork
<1>2. PICK q \in FreePids :
        /\ pc' = [pc EXCEPT ![p] = "close", ![q] = "child"]
        /\ parent' = [parent EXCEPT ![q] = p]
        /\ fd' = [fd EXCEPT ![q] = fd[p]]
        /\ sh' = [sh EXCEPT ![p].i = q, ![q] = sh[p]]
  BY DEF Fork
<1>3. q \in Pid /\ pc[q] = "free" /\ q # p /\ q # 1
  BY <1>1 DEF FreePids
<1>4. /\ pc'[p] = "close" /\ pc'[q] = "child" /\ sh'[q] = sh[p]
      /\ sh'[p] = [sh[p] EXCEPT !.i = q] /\ fd'[p] = fd[p] /\ fd'[q] = fd[p]
      /\ parent'[q] = p
      /\ \A r \in Pid : r # p /\ r # q => pc'[r] = pc[r] /\ sh'[r] = sh[r] /\ fd'[r] = fd[r]
      /\ \A r \in Pid : r # q => parent'[r] = parent[r] /\ fd'[r] = fd[r]
  BY <1>1, <1>2, <1>3 DEF Processes
<1>5. SameCommands(sh[p], sh'[p]) /\ SameCommands(sh[p], sh'[q])
  <2>1. DOMAIN sh[p] = Fields
    BY OwnState
  <2> QED BY <1>4, <2>1 DEF SameCommands, Fields
<1>6. Processes'
  <2>1. p \in 0 .. MaxProcs
    BY Constants DEF Pid
  <2> QED BY <1>1, <1>2, <2>1 DEF Processes, Places, ShellPc
<1>7. Resources'
  BY DEF FdInv, Resources, Fork
<1>8. \A r \in Pid : r # p => Children(r)' = Children(r)
  BY <1>1, <1>3, <1>4 DEF Children
<1>9. Children(p)' = Children(p) \cup {q}
  BY <1>1, <1>3, <1>4 DEF Children
<1>10. \A r \in Pid : r # p => Commands(r)' = Commands(r)
  <2> SUFFICES ASSUME NEW r \in Pid, r # p, NEW x \in Children(r)
               PROVE  pc'[x] \in {"child", "prog"} <=> pc[x] \in {"child", "prog"}
    BY <1>8 DEF Commands
  <2>1. x # q /\ x \in Pid
    BY <1>3 DEF Children
  <2> QED BY <1>1, <1>4, <2>1
<1>11. \A x : x \in Commands(p)' => x \in Commands(p) \/ x = q
  <2> SUFFICES ASSUME NEW x \in Commands(p)', x # q PROVE x \in Commands(p)
    OBVIOUS
  <2>1. x \in Children(p) /\ x \in Pid /\ pc'[x] \in {"child", "prog"}
    BY <1>9 DEF Commands, Children
  <2> QED BY <1>4, <2>1 DEF Commands
<1>12. \A k : \A x : x # q => (x \in Writers(k)' <=> x \in Writers(k))
  BY <1>4, WritersAre
<1>13. \A k : q \in Writers(k)' <=> p \in Writers(k)
  BY <1>3, <1>4, WritersAre
<1>14. Kept(p) /\ Variables("fork", sh[p]) /\ FdsByPlace(p, "fork", fd[p], sh[p]) /\ ChildrenOf(p)
  BY <1>1 DEF FdInv, Kept
<1>15. Kept(p)'
  <2>1. Variables("close", sh[p])
    BY <1>14 DEF Variables
  <2>2. Variables("close", sh'[p])
    BY <1>5, <2>1, VariablesKept
  <2>3. FdsByPlace(p, "close", fd[p], sh[p])
    BY <1>14 DEF FdsByPlace
  <2>4. FdsByPlace(p, "close", fd[p], sh'[p])
    BY <1>5, <2>1, <2>3, FdsKept DEF SamePlace
  <2>5. ASSUME NEW k \in Pipe, fd[p][1] # WriteEnd(k),
               NEW x \in Writers(k)', x \in Commands(p)', NEW y \in Writers(k)', y \in Commands(p)'
        PROVE  x = y
    <3>1. CASE p \in Writers(k)
      <4>1. PICK n \in Fd : fd[p][n] = WriteEnd(k)
        BY <3>1, WritersAre DEF Writes
      <4>2. n = sh[p].cmd1.fdout /\ n # 1
        BY <1>14, <2>5, <4>1, Kinds DEF FdsByPlace
      <4>3. Writers(k) = {p}
        BY <1>1, <1>14, <4>1, <4>2 DEF ChildrenOf
      <4>4. p \notin Commands(p)'
        BY <1>4 DEF Commands
      <4> QED BY <1>12, <2>5, <4>3, <4>4
    <3>2. CASE p \notin Writers(k)
      <4>1. x # q /\ y # q
        BY <1>13, <2>5, <3>2
      <4>2. x \in Writers(k) /\ y \in Writers(k) /\ x \in Commands(p) /\ y \in Commands(p)
        BY <1>11, <1>12, <2>5, <4>1
      <4> QED BY <1>14, <2>5, <4>2 DEF ChildrenOf
    <3> QED BY <3>1, <3>2
  <2>6. ChildrenOf(p)'
    BY <1>4, <2>5 DEF ChildrenOf, ShellPc
  <2> QED BY <1>4, <2>2, <2>4, <2>6 DEF Kept
<1>16. Kept(q)'
  <2>1. Variables("child", sh[p])
    BY <1>14 DEF Variables
  <2>2. FdsByPlace(q, "child", fd[p], sh[p])
    BY <1>3, <1>14 DEF FdsByPlace
  <2>3. Children(q)' = {}
    <3>1. ChildrenOf(q)
      BY <1>3 DEF FdInv, Kept
    <3>2. Children(q) = {}
      BY <1>3, <3>1 DEF ChildrenOf, ShellPc
    <3> QED BY <1>3, <1>8, <3>2
  <2>4. ChildrenOf(q)'
    BY <1>3, <1>4, <2>3, Childless
  <2> QED BY <1>4, <2>1, <2>2, <2>4 DEF Kept
<1>17. ASSUME NEW r \in Pid, r # p, r # q
       PROVE  Kept(r)'
  <2>1. Variables(pc[r], sh[r]) /\ FdsByPlace(r, pc[r], fd[r], sh[r]) /\ ChildrenOf(r)
    BY DEF FdInv, Kept
  <2>2. pc'[r] = pc[r] /\ sh'[r] = sh[r] /\ fd'[r] = fd[r]
    BY <1>4, <1>17
  <2>3. ASSUME pc[r] = "fork", sh[r].cmd1.fdout # 1, NEW k \in Pipe,
               fd[r][sh[r].cmd1.fdout] = WriteEnd(k)
        PROVE  Writers(k)' = {r}
    <3>1. Writers(k) = {r}
      BY <2>1, <2>3 DEF ChildrenOf
    <3>2. q \notin Writers(k)'
      BY <1>13, <1>17, <3>1
    <3> QED BY <1>12, <1>17, <3>1, <3>2
  <2>4. ASSUME NEW k \in Pipe, fd[r][1] # WriteEnd(k),
               NEW x \in Writers(k)', x \in Commands(r)', NEW y \in Writers(k)', y \in Commands(r)'
        PROVE  x = y
    <3>1. x \in Commands(r) /\ y \in Commands(r)
      BY <1>10, <1>17, <2>4
    <3>2. x # q /\ y # q
      BY <1>3, <3>1 DEF Commands
    <3> QED BY <1>12, <2>1, <2>4, <3>1, <3>2 DEF ChildrenOf
  <2>5. \A x \in Children(r)' : pc'[r] \in ShellPc \ {"child"}
    BY <1>8, <1>17, <2>1, <2>2 DEF ChildrenOf
  <2>6. ChildrenOf(r)'
    BY <2>2, <2>3, <2>4, <2>5 DEF ChildrenOf
  <2> QED BY <2>1, <2>2, <2>6 DEF Kept
<1>18. \A r \in Pid : Kept(r)'
  BY <1>15, <1>16, <1>17
<1> QED BY <1>6, <1>7, <1>18 DEF FdInv

---------------------------------------------------------------------------
(* The descriptors that the steps of a shell leave.                        *)

\* What the invariants say of the process that steps.
LEMMA OwnFds ==
  ASSUME IInv, FdInv, NEW p \in Pid
  PROVE  /\ DOMAIN sh = Pid /\ DOMAIN sh[p] = Fields /\ fd[p] \in [Fd -> End] /\ pc[p] \in Places
         /\ Variables(pc[p], sh[p]) /\ FdsByPlace(p, pc[p], fd[p], sh[p])
         /\ fd = [fd EXCEPT ![p] = fd[p]]
<1>1. DOMAIN sh = Pid /\ DOMAIN sh[p] = Fields
  BY OwnState DEF IInv
<1> QED BY <1>1 DEF FdInv, Processes, Kept

\* Where no command is prepared, and none is run.
LEMMA PlainFds ==
  ASSUME NEW p, NEW label \in {"read", "line", "pipe", "wait", "reap"}, NEW f, NEW s,
         FdsByPlace(p, label, f, s),
         NEW new \in {"read", "line", "wait", "reap"}, NEW t
  PROVE  FdsByPlace(p, new, f, t)
BY DEF FdsByPlace

\* A step of a shell that leaves its descriptors alone.
LEMMA SameFdsMove ==
  ASSUME NEW p, NEW label, NEW s, NEW f, f = fd[p], f \in [Fd -> End],
         pc[p] \notin {"free", "zombie"}, label \in Places \ {"free", "zombie", "child", "prog"},
         Variables(label, s), FdsByPlace(p, label, f, s),
         label = "fork" => FdsByPlace(p, "pipe", f, s)
  PROVE  Moves(p, label, s, f)
<1>1. ASSUME label = "fork", s.cmd1.fdout # 1, NEW k \in Pipe, f[s.cmd1.fdout] = WriteEnd(k)
      PROVE  FALSE
  <2>1. s.cmd1.fdout \in Fd
    BY DEF Variables, CommandType
  <2>2. f[s.cmd1.fdout].kind = "write"
    BY <1>1, Kinds
  <2> QED BY <1>1, <2>1, <2>2 DEF FdsByPlace
<1> QED BY <1>1 DEF Moves

\* As GotoKeeps, when the descriptors stay.
LEMMA SameFdsKeep ==
  ASSUME IInv, FdInv, NEW p \in Pid, NEW label, NEW s, Moves(p, label, s, fd[p]),
         Goto(p, label, s), fd' = fd, parent' = parent, Resources'
  PROVE  FdInv'
<1>1. DOMAIN sh = Pid /\ fd' = [fd EXCEPT ![p] = fd[p]]
  BY OwnFds
<1> QED BY <1>1, GotoKeeps

LEMMA NoShellVariables ==
  /\ NoShell.pos = 1 /\ NoShell.cmd1 = NoCommand /\ NoShell.cmd2 = NoCommand
  /\ \A label \in {"read", "reap", "prog"} : Variables(label, NoShell)
<1>1. NoShell.pos = 1 /\ NoShell.cmd1 = NoCommand /\ NoShell.cmd2 = NoCommand
  BY DEF NoShell
<1> QED BY <1>1, NoCommandTyped DEF Variables

LEMMA ReadLineFds ==
  ASSUME IInv, FdInv, NEW p \in Pid, ReadLine(p)
  PROVE  FdInv'
<1>1. /\ pc[p] = "read" /\ fd' = fd /\ parent' = parent /\ job' = job
      /\ \E line : (line \in Lines \/ line = <<>>)
                 /\ Goto(p, "line", [NoShell EXCEPT !.tokens = Tokenize(line)])
  BY DEF ReadLine
<1>2. PICK line : /\ line \in Lines \/ line = <<>>
                  /\ Goto(p, "line", [NoShell EXCEPT !.tokens = Tokenize(line)])
  BY <1>1
<1> DEFINE s == [NoShell EXCEPT !.tokens = Tokenize(line)]
<1>3. s.tokens = Tokenize(line) /\ s.pos = 1 /\ s.cmd1 = NoCommand /\ s.cmd2 = NoCommand
  BY NoShellShape, NoShellVariables DEF Fields
<1> HIDE DEF s
<1>4. Variables("line", s)
  <2>1. Tokens(s.tokens)
    BY <1>2, <1>3, TokenizeIs
  <2>2. s.pos \in 1 .. Len(s.tokens)
    BY <1>3, <2>1 DEF Tokens
  <2> QED BY <1>3, <2>1, <2>2, NoCommandTyped DEF Variables, OnLine
<1>5. FdsByPlace(p, "line", fd[p], s)
  BY <1>1, OwnFds, PlainFds
<1>6. Moves(p, "line", s, fd[p])
  BY <1>1, <1>4, <1>5, OwnFds, SameFdsMove DEF Places, ShellPc
<1>7. Resources'
  <2>1. Resources
    BY DEF FdInv
  <2>2. typed' \in 0 .. MaxLines
    BY <2>1, ShellAssumption DEF ReadLine, Resources
  <2>3. pipe' \in [Pipe -> 0 .. PipeSize]
    BY <2>1, ShellAssumption DEF ReadLine, Resources
  <2> QED BY <1>1, <2>1, <2>2, <2>3 DEF Resources
<1>8. Goto(p, "line", s)
  BY <1>2 DEF s
<1> QED BY <1>1, <1>6, <1>7, <1>8, SameFdsKeep

\* What is open before a command is parsed is so after, and all else is a file.
LEMMA ParsedTable ==
  ASSUME NEW f, Standard(f), NEW tokens, NEW st, Parsed(f, tokens, st)
  PROVE  /\ \A n \in Fd : f[n] # Closed => st.fd[n] = f[n]
         /\ \A n \in Fd : st.fd[n].kind = "write" => f[n] = st.fd[n]
         /\ \A k : Writes(st.fd, k) => Writes(f, k)
         /\ Standard(st.fd) /\ st.fd[0] = f[0] /\ st.fd[1] = f[1]
         /\ Ready(st.fd, st.cmd)
<1>1. /\ File.kind = "file" /\ Closed.kind = "closed" /\ 0 \in Fd /\ 1 \in Fd
      /\ \A k : WriteEnd(k).kind = "write"
  BY Kinds, Fds
<1>2. \A n \in Fd : f[n] # Closed => st.fd[n] = f[n]
  BY DEF Parsed
<1>3. \A n \in Fd : st.fd[n].kind = "write" => f[n] = st.fd[n]
  BY <1>1 DEF Parsed
<1>4. st.fd[0] = f[0] /\ st.fd[1] = f[1]
  BY <1>1, <1>2 DEF Standard
<1>5. Standard(st.fd)
  BY <1>4 DEF Standard, Parsed
<1>6. \A k : Writes(st.fd, k) => Writes(f, k)
  <2> SUFFICES ASSUME NEW k, NEW n \in Fd, st.fd[n] = WriteEnd(k) PROVE Writes(f, k)
    BY DEF Writes
  <2> QED BY <1>1, <1>3 DEF Writes
<1>7. Ready(st.fd, st.cmd)
  BY <1>1 DEF Ready, Parsed, Standard
<1> QED BY <1>2, <1>3, <1>4, <1>5, <1>6, <1>7

\* A shell goes on to the loop over "|" with a command that has been parsed.
LEMMA ParsedMove ==
  ASSUME NEW p, pc[p] \in {"line", "pipe"}, NEW s, NEW tokens, NEW st, NEW t,
         fd[p] \in [Fd -> End], FdsByPlace(p, pc[p], fd[p], s), Parsed(fd[p], tokens, st),
         Variables("pipe", t), t.cmd1 = st.cmd
  PROVE  Moves(p, "pipe", t, st.fd)
<1>1. Standard(fd[p])
  BY DEF Standard, FdsByPlace
<1>2. /\ \A n \in Fd : st.fd[n].kind = "write" => fd[p][n] = st.fd[n]
      /\ \A k : Writes(st.fd, k) => Writes(fd[p], k)
      /\ Standard(st.fd) /\ st.fd[0] = fd[p][0] /\ st.fd[1] = fd[p][1]
      /\ Ready(st.fd, st.cmd)
  BY <1>1, ParsedTable
<1>3. FdsByPlace(p, "pipe", st.fd, t)
  BY <1>2 DEF FdsByPlace, Standard
<1> QED BY <1>2, <1>3 DEF Moves, Places, ShellPc, Standard

LEMMA NextListFds ==
  ASSUME IInv, FdInv, NEW p \in Pid, NextList(p)
  PROVE  FdInv'
<1>1. pc[p] = "line" /\ DOMAIN sh = Pid
  BY OwnFds DEF NextList
<1>2. Variables("line", sh[p]) /\ FdsByPlace(p, "line", fd[p], sh[p]) /\ fd[p] \in [Fd -> End]
  BY <1>1, OwnFds
<1>3. Tokens(sh[p].tokens) /\ sh[p].pos \in 1 .. Len(sh[p].tokens) /\ Standard(fd[p])
  BY <1>2 DEF Variables, OnLine, FdsByPlace, Standard
<1> DEFINE st == ParseRedirection(fd[p], sh[p].tokens, sh[p].pos)
<1>4. CASE Token(p) = "EOL"
  <2>1. Goto(p, "reap", NoShell) /\ UNCHANGED <<parent, fd, job, pipe, typed>>
    BY <1>4 DEF NextList
  <2>2. FdsByPlace(p, "reap", fd[p], NoShell)
    BY <1>2, PlainFds
  <2>3. Moves(p, "reap", NoShell, fd[p])
    BY <1>1, <1>2, <2>2, NoShellVariables, SameFdsMove DEF Places, ShellPc
  <2>4. Resources'
    BY <2>1 DEF FdInv, Resources
  <2> QED BY <2>1, <2>3, <2>4, SameFdsKeep
<1>5. CASE Token(p) # "EOL" /\ st.quit
  <2>1. Exit(p) /\ pipe' = pipe
    BY <1>5 DEF NextList, Quit
  <2> QED BY <1>1, <2>1, ExitKeeps
<1>6. CASE Token(p) # "EOL" /\ ~st.quit
  <2> DEFINE s == [sh[p] EXCEPT !.pos = st.pos, !.cmd1 = st.cmd, !.pids = <<>>, !.token = "end"]
  <2>1. /\ Goto(p, "pipe", s) /\ fd' = [fd EXCEPT ![p] = st.fd]
        /\ UNCHANGED <<parent, job, pipe, typed>>
    BY <1>6 DEF NextList
  <2>2. Parsed(fd[p], sh[p].tokens, st)
    BY <1>3, <1>6, ParseIs
  <2> HIDE DEF st
  <2>3. /\ s.tokens = sh[p].tokens /\ s.pos = st.pos /\ s.cmd1 = st.cmd /\ s.cmd2 = sh[p].cmd2
    BY OwnFds DEF Fields
  <2> HIDE DEF s
  <2>4. Variables("pipe", s)
    BY <1>2, <1>3, <2>2, <2>3 DEF Variables, OnLine, Parsed
  <2>5. Moves(p, "pipe", s, st.fd)
    BY <1>1, <1>2, <2>2, <2>3, <2>4, ParsedMove
  <2>6. Resources'
    BY <2>1 DEF FdInv, Resources
  <2> QED BY <1>1, <2>1, <2>5, <2>6, GotoKeeps
<1> QED BY <1>4, <1>5, <1>6

\* pipe in a table that a command was parsed in: c is the command that writes to it,
\* d the one that reads from it.
LEMMA PipeTable ==
  ASSUME NEW f, Standard(f), NEW tokens, NEW st, Parsed(f, tokens, st), CanPipe(st.fd),
         NEW b, b \in CommandType, Ready(f, b), b.fdout = 1, st.cmd.fdin = 0,
         NEW k \in Pipe, NEW r, r = LowestFree(st.fd),
         NEW h, h = Open(st.fd, ReadEnd(k)), NEW w, w = LowestFree(h),
         NEW g, g = Open(h, WriteEnd(k)),
         NEW c, c.fdin = b.fdin, c.fdout = w, NEW d, d.fdin = r, d.fdout = st.cmd.fdout
  PROVE  /\ r \in Fd /\ w \in Fd /\ g \in [Fd -> End] /\ g[w] = WriteEnd(k)
         /\ Standard(g) /\ g[1] = f[1] /\ Ready(g, c) /\ Ready(g, d) /\ Spares(c, d)
         /\ \A n \in Fd : g[n].kind = "write" => n = w \/ g[n] = f[n]
<1>1. /\ \A n \in Fd : f[n] # Closed => st.fd[n] = f[n]
      /\ \A n \in Fd : st.fd[n].kind = "write" => f[n] = st.fd[n]
      /\ Standard(st.fd) /\ st.fd[0] = f[0] /\ st.fd[1] = f[1]
      /\ Ready(st.fd, st.cmd)
  BY ParsedTable
<1>2. PICK x, y \in Fd : x # y /\ st.fd[x] = Closed /\ st.fd[y] = Closed
  BY DEF CanPipe
<1>3. ReadEnd(k) \in End /\ WriteEnd(k) \in End /\ st.fd \in [Fd -> End]
  BY <1>1, Kinds DEF Standard
<1>4. /\ r \in Fd /\ st.fd[r] = Closed /\ h \in [Fd -> End] /\ h[r] = ReadEnd(k)
      /\ \A n \in Fd : n # r => h[n] = st.fd[n]
  BY <1>2, <1>3, OpenIs
<1>5. PICK z \in Fd : h[z] = Closed
  BY <1>2, <1>4
<1>6. /\ w \in Fd /\ h[w] = Closed /\ g \in [Fd -> End] /\ g[w] = WriteEnd(k)
      /\ \A n \in Fd : n # w => g[n] = h[n]
  <2>1. h \in [Fd -> End] /\ h[z] = Closed /\ WriteEnd(k) \in End
    BY <1>3, <1>4, <1>5
  <2>2. /\ LowestFree(h) \in Fd /\ h[LowestFree(h)] = Closed
        /\ Open(h, WriteEnd(k)) \in [Fd -> End] /\ Open(h, WriteEnd(k))[LowestFree(h)] = WriteEnd(k)
        /\ \A n \in Fd : n # LowestFree(h) => Open(h, WriteEnd(k))[n] = h[n]
    BY ONLY <2>1, OpenIs, z \in Fd
  <2> QED BY <2>2
<1>7. /\ Closed.kind = "closed" /\ File.kind = "file" /\ ReadEnd(k).kind = "read"
      /\ WriteEnd(k).kind = "write" /\ 0 \in Fd /\ 1 \in Fd /\ 0 # 1
  BY Kinds, Fds
<1>8. r # w /\ r \notin {0, 1} /\ w \notin {0, 1} /\ st.fd[w] = Closed /\ f[w] = Closed /\ f[r] = Closed
  BY <1>1, <1>4, <1>6, <1>7 DEF Standard
<1>9. Standard(g) /\ g[1] = f[1]
  BY <1>1, <1>4, <1>6, <1>7, <1>8 DEF Standard
<1>10. \A n \in Fd : g[n].kind = "write" => n = w \/ g[n] = f[n]
  BY <1>1, <1>4, <1>6, <1>7
<1>11. \A n \in Fd : f[n] # Closed => n # r /\ n # w /\ g[n] = f[n]
  BY <1>1, <1>4, <1>6, <1>8
<1>12. /\ b.fdin \in Fd /\ f[b.fdin] # Closed /\ st.cmd.fdout \in Fd
       /\ st.fd[st.cmd.fdout] # Closed
  BY <1>1, <1>7 DEF CommandType, Ready, Parsed, Standard
<1>13. Ready(g, c)
  BY <1>6, <1>7, <1>8, <1>11, <1>12 DEF Ready
<1>14. st.cmd.fdout # r /\ st.cmd.fdout # w /\ g[st.cmd.fdout] = st.fd[st.cmd.fdout]
  BY <1>4, <1>6, <1>8, <1>12
<1>15. Ready(g, d)
  BY <1>1, <1>4, <1>6, <1>7, <1>8, <1>14 DEF Ready
<1>16. st.cmd.fdout # 1 => st.cmd.fdout # b.fdin
  BY <1>12 DEF Parsed
<1>17. Spares(c, d)
  BY <1>8, <1>11, <1>12, <1>14, <1>16 DEF Spares
<1> QED BY <1>4, <1>6, <1>9, <1>10, <1>13, <1>15, <1>17

LEMMA PipeCmdFds ==
  ASSUME IInv, FdInv, NEW p \in Pid, PipeCmd(p)
  PROVE  FdInv'
<1>1. pc[p] = "pipe" /\ Token(p) = "|" /\ DOMAIN sh = Pid
  BY OwnFds DEF PipeCmd
<1>2. /\ Variables("pipe", sh[p]) /\ FdsByPlace(p, "pipe", fd[p], sh[p]) /\ fd[p] \in [Fd -> End]
      /\ sh[p].token = "end" /\ DOMAIN sh[p] = Fields
  BY <1>1, OwnFds, OwnState DEF PidsByPlace
<1>3. Tokens(sh[p].tokens) /\ sh[p].pos + 1 \in 1 .. Len(sh[p].tokens) /\ Standard(fd[p])
  <2>1. /\ Tokens(sh[p].tokens) /\ sh[p].pos \in 1 .. Len(sh[p].tokens)
        /\ Len(sh[p].tokens) \in Nat /\ sh[p].tokens[Len(sh[p].tokens)] = "EOL"
    BY <1>2 DEF Variables, OnLine, Tokens
  <2>2. sh[p].pos # Len(sh[p].tokens)
    BY <1>1, <2>1 DEF Token
  <2>3. sh[p].pos + 1 \in 1 .. Len(sh[p].tokens)
    BY <2>1, <2>2
  <2> QED BY <1>2, <2>1, <2>3 DEF FdsByPlace, Standard
<1> DEFINE st == ParseRedirection(fd[p], sh[p].tokens, sh[p].pos + 1)
           k  == FreePipe
           r  == LowestFree(st.fd)
           h  == Open(st.fd, ReadEnd(k))
           w  == LowestFree(h)
           g  == Open(h, WriteEnd(k))
           s  == [sh[p] EXCEPT !.pos = st.pos, !.cmd1 = st.cmd]
           t  == [sh[p] EXCEPT !.pos = st.pos, !.cmd1.fdout = w, !.cmd2 = [st.cmd EXCEPT !.fdin = r]]
<1>4. \/ Quit(p)
      \/ /\ ~st.quit /\ Goto(p, "pipe", s) /\ fd' = [fd EXCEPT ![p] = st.fd]
         /\ UNCHANGED <<parent, job, pipe, typed>>
      \/ /\ ~st.quit /\ sh[p].cmd1.fdout = 1 /\ st.cmd.fdin = 0 /\ CanPipe(st.fd)
         /\ Goto(p, "fork", t) /\ fd' = [fd EXCEPT ![p] = g]
         /\ pipe' = [pipe EXCEPT ![k] = 0]
         /\ UNCHANGED <<parent, job, typed>>
  BY DEF PipeCmd
<1>5. ~st.quit => Parsed(fd[p], sh[p].tokens, st)
  BY <1>3, ParseIs
<1> HIDE DEF st
<1>6. CASE Quit(p)
  BY <1>1, <1>6, ExitKeeps DEF Quit
<1>7. CASE /\ ~st.quit /\ Goto(p, "pipe", s) /\ fd' = [fd EXCEPT ![p] = st.fd]
           /\ UNCHANGED <<parent, job, pipe, typed>>
  <2>1. s.tokens = sh[p].tokens /\ s.pos = st.pos /\ s.cmd1 = st.cmd /\ s.cmd2 = sh[p].cmd2
    BY <1>2 DEF Fields
  <2> HIDE DEF s
  <2>2. Variables("pipe", s)
    BY <1>2, <1>3, <1>5, <1>7, <2>1 DEF Variables, OnLine, Parsed
  <2>3. Moves(p, "pipe", s, st.fd)
    BY <1>1, <1>2, <1>5, <1>7, <2>1, <2>2, ParsedMove
  <2>4. Resources'
    BY <1>7 DEF FdInv, Resources
  <2> QED BY <1>1, <1>7, <2>3, <2>4, GotoKeeps
<1>8. CASE /\ ~st.quit /\ sh[p].cmd1.fdout = 1 /\ st.cmd.fdin = 0 /\ CanPipe(st.fd)
           /\ Goto(p, "fork", t) /\ fd' = [fd EXCEPT ![p] = g]
           /\ pipe' = [pipe EXCEPT ![k] = 0]
           /\ UNCHANGED <<parent, job, typed>>
  <2>1. k \in Pipe /\ Writers(k) = {}
    BY <1>8, FreePipeIs
  <2>2. Parsed(fd[p], sh[p].tokens, st) /\ st.cmd \in CommandType /\ sh[p].cmd1 \in CommandType
    BY <1>2, <1>5, <1>8 DEF Parsed, Variables
  <2>3. /\ t.tokens = sh[p].tokens /\ t.pos = st.pos /\ t.token = "end"
        /\ t.cmd1 = [sh[p].cmd1 EXCEPT !.fdout = w] /\ t.cmd2 = [st.cmd EXCEPT !.fdin = r]
    BY <1>2 DEF Fields
  <2>4. /\ t.cmd1.fdin = sh[p].cmd1.fdin /\ t.cmd1.fdout = w
        /\ t.cmd2.fdin = r /\ t.cmd2.fdout = st.cmd.fdout
    BY <2>2, <2>3 DEF CommandType
  <2>5. Ready(fd[p], sh[p].cmd1)
    BY <1>2 DEF FdsByPlace
  <2> HIDE DEF t, k
  <2>6. /\ r \in Fd /\ w \in Fd /\ g \in [Fd -> End] /\ g[w] = WriteEnd(k)
        /\ Standard(g) /\ g[1] = fd[p][1] /\ Ready(g, t.cmd1) /\ Ready(g, t.cmd2)
        /\ Spares(t.cmd1, t.cmd2)
        /\ \A n \in Fd : g[n].kind = "write" => n = w \/ g[n] = fd[p][n]
    BY <1>3, <1>8, <2>1, <2>2, <2>4, <2>5, PipeTable
  <2> HIDE DEF r, w, h, g
  <2>7. t.cmd1 \in CommandType /\ t.cmd2 \in CommandType
    BY <2>2, <2>3, <2>6 DEF CommandType
  <2>8. Variables("fork", t)
    BY <1>3, <2>2, <2>3, <2>7 DEF Variables, OnLine, Parsed
  <2>9. FdsByPlace(p, "fork", g, t)
    BY <1>2, <2>3, <2>4, <2>6 DEF FdsByPlace, Standard
  <2>10. \A j \in Pipe : Writes(g, j) => Writes(fd[p], j) \/ Writers(j) = {}
    <3> SUFFICES ASSUME NEW j \in Pipe, NEW n \in Fd, g[n] = WriteEnd(j)
                 PROVE  Writes(fd[p], j) \/ Writers(j) = {}
      BY DEF Writes
    <3>1. n = w \/ g[n] = fd[p][n]
      BY <2>6, Kinds
    <3>2. CASE n = w
      BY <2>1, <2>6, <3>2, Kinds
    <3> QED BY <3>1, <3>2 DEF Writes
  <2>11. \A j \in Pipe : g[t.cmd1.fdout] = WriteEnd(j) => Writers(j) = {}
    BY <2>1, <2>4, <2>6, Kinds
  <2>12. Moves(p, "fork", t, g)
    BY <1>1, <2>6, <2>8, <2>9, <2>10, <2>11 DEF Moves, Places, ShellPc
  <2>13. Resources'
    <3>1. 0 \in 0 .. PipeSize
      BY ShellAssumption
    <3> QED BY <1>8, <3>1 DEF FdInv, Resources
  <2> QED BY <1>1, <1>8, <2>12, <2>13, GotoKeeps
<1> QED BY <1>4, <1>6, <1>7, <1>8

LEMMA LastCmdFds ==
  ASSUME IInv, FdInv, NEW p \in Pid, LastCmd(p)
  PROVE  FdInv'
<1>1. pc[p] = "pipe" /\ DOMAIN sh = Pid
  BY OwnFds DEF LastCmd
<1>2. /\ Variables("pipe", sh[p]) /\ FdsByPlace(p, "pipe", fd[p], sh[p]) /\ fd[p] \in [Fd -> End]
      /\ DOMAIN sh[p] = Fields
  BY <1>1, OwnFds
<1> DEFINE s == [sh[p] EXCEPT !.token = Token(p), !.i = 1,
                              !.pos = IF Token(p) = "EOL" THEN @ ELSE @ + 1]
<1>3. \/ Quit(p)
      \/ /\ Token(p) \in {"EOL", ";", "&"} /\ (Goto(p, "wait", s) \/ Goto(p, "fork", s))
         /\ UNCHANGED <<parent, fd, job, pipe, typed>>
  BY DEF LastCmd
<1>4. /\ s.tokens = sh[p].tokens /\ s.cmd1 = sh[p].cmd1 /\ s.cmd2 = sh[p].cmd2
      /\ s.token = Token(p) /\ s.pos = IF Token(p) = "EOL" THEN sh[p].pos ELSE sh[p].pos + 1
  BY <1>2 DEF Fields
<1> HIDE DEF s
<1>5. s.pos \in 1 .. Len(s.tokens) /\ Tokens(s.tokens) /\ s.pos \in Nat
  <2>1. /\ Tokens(sh[p].tokens) /\ sh[p].pos \in 1 .. Len(sh[p].tokens)
        /\ Len(sh[p].tokens) \in Nat /\ sh[p].tokens[Len(sh[p].tokens)] = "EOL"
    BY <1>2 DEF Variables, OnLine, Tokens
  <2>2. Token(p) # "EOL" => sh[p].pos # Len(sh[p].tokens)
    BY <2>1 DEF Token
  <2> QED BY <1>4, <2>1, <2>2
<1>6. \A label \in {"wait", "fork"} : Variables(label, s)
  BY <1>2, <1>4, <1>5 DEF Variables, OnLine
<1>7. FdsByPlace(p, "pipe", fd[p], s)
  BY <1>2, <1>4 DEF FdsByPlace
<1>8. CASE Quit(p)
  BY <1>1, <1>8, ExitKeeps DEF Quit
<1>9. CASE /\ Token(p) \in {"EOL", ";", "&"} /\ (Goto(p, "wait", s) \/ Goto(p, "fork", s))
           /\ UNCHANGED <<parent, fd, job, pipe, typed>>
  <2>1. Resources'
    BY <1>9 DEF FdInv, Resources
  <2>2. CASE Goto(p, "wait", s)
    <3>1. FdsByPlace(p, "wait", fd[p], s)
      BY <1>2, PlainFds
    <3>2. Moves(p, "wait", s, fd[p])
      BY <1>1, <1>2, <1>6, <3>1, SameFdsMove DEF Places, ShellPc
    <3> QED BY <1>9, <2>1, <2>2, <3>2, SameFdsKeep
  <2>3. CASE Goto(p, "fork", s)
    <3>1. FdsByPlace(p, "fork", fd[p], s)
      BY <1>4, <1>7, <1>9 DEF FdsByPlace
    <3>2. Moves(p, "fork", s, fd[p])
      BY <1>1, <1>2, <1>6, <1>7, <3>1, SameFdsMove DEF Places, ShellPc
    <3> QED BY <1>9, <2>1, <2>3, <3>2, SameFdsKeep
  <2> QED BY <1>9, <2>2, <2>3
<1> QED BY <1>3, <1>8, <1>9

LEMMA ForkFailsFds ==
  ASSUME IInv, FdInv, NEW p \in Pid, ForkFails(p)
  PROVE  FdInv'
<1> DEFINE s == [sh[p] EXCEPT !.i = -1]
<1>1. /\ pc[p] = "fork" /\ Goto(p, "close", s) /\ UNCHANGED <<parent, fd, job, pipe, typed>>
  BY DEF ForkFails
<1>2. /\ Variables("fork", sh[p]) /\ FdsByPlace(p, "fork", fd[p], sh[p]) /\ fd[p] \in [Fd -> End]
      /\ DOMAIN sh[p] = Fields
  BY <1>1, OwnFds
<1>3. SameCommands(sh[p], s)
  BY <1>2 DEF SameCommands, Fields
<1> HIDE DEF s
<1>4. Variables("close", sh[p]) /\ FdsByPlace(p, "close", fd[p], sh[p])
  BY <1>2 DEF Variables, FdsByPlace
<1>5. Variables("close", s) /\ FdsByPlace(p, "close", fd[p], s)
  BY <1>3, <1>4, FdsKept DEF SamePlace
<1>6. Moves(p, "close", s, fd[p])
  BY <1>1, <1>2, <1>5, SameFdsMove DEF Places, ShellPc
<1>7. Resources'
  BY <1>1 DEF FdInv, Resources
<1> QED BY <1>1, <1>6, <1>7, SameFdsKeep

LEMMA EndListFds ==
  ASSUME IInv, FdInv, NEW p \in Pid, EndList(p)
  PROVE  FdInv'
<1> DEFINE s == [sh[p] EXCEPT !.pids = <<>>, !.i = 1, !.cmd1 = NoCommand,
                              !.cmd2 = NoCommand, !.token = "end"]
<1>1. /\ pc[p] = "wait" /\ Goto(p, "line", s) /\ UNCHANGED <<parent, fd, job, pipe, typed>>
  BY DEF EndList
<1>2. /\ Variables("wait", sh[p]) /\ FdsByPlace(p, "wait", fd[p], sh[p]) /\ fd[p] \in [Fd -> End]
      /\ DOMAIN sh[p] = Fields
  BY <1>1, OwnFds
<1>3. /\ s.tokens = sh[p].tokens /\ s.pos = sh[p].pos /\ s.cmd1 = NoCommand /\ s.cmd2 = NoCommand
  BY <1>2 DEF Fields
<1> HIDE DEF s
<1>4. Variables("line", s)
  BY <1>2, <1>3, NoCommandTyped DEF Variables, OnLine
<1>5. FdsByPlace(p, "line", fd[p], s)
  BY <1>2, PlainFds
<1>6. Moves(p, "line", s, fd[p])
  BY <1>1, <1>2, <1>4, <1>5, SameFdsMove DEF Places, ShellPc
<1>7. Resources'
  BY <1>1 DEF FdInv, Resources
<1> QED BY <1>1, <1>6, <1>7, SameFdsKeep

LEMMA WaitPidFds ==
  ASSUME IInv, FdInv, NEW p \in Pid, WaitPid(p)
  PROVE  FdInv'
<1>1. /\ sh' = [sh EXCEPT ![p].i = sh[p].i + 1] /\ UNCHANGED <<fd, job, pipe, typed>>
  BY DEF WaitPid
<1>2. \A r \in Pid : SameCommands(sh[r], sh'[r])
  <2>1. DOMAIN sh = Pid /\ DOMAIN sh[p] = Fields
    BY OwnFds
  <2>2. sh'[p] = [sh[p] EXCEPT !.i = sh[p].i + 1] /\ \A r \in Pid : r # p => sh'[r] = sh[r]
    BY <1>1, <2>1
  <2>3. SameCommands(sh[p], sh'[p])
    BY <2>1, <2>2 DEF SameCommands, Fields
  <2> QED BY <2>2, <2>3 DEF SameCommands
<1>3. Resources'
  BY <1>1 DEF FdInv, Resources
<1>4. CASE UNCHANGED <<pc, parent>>
  BY <1>1, <1>2, <1>3, <1>4, SamePlacesKeep
<1>5. CASE \E z \in Awaited(p) \cap Zombies(p) : Reap(z)
  <2>1. PICK z \in Zombies(p) : Reap(z)
    BY <1>5
  <2>2. z \in Pid /\ pc[z] = "zombie"
    BY DEF Zombies, Children
  <2> QED BY <1>1, <1>2, <1>3, <2>1, <2>2, ReapKeepsFds
<1> QED BY <1>4, <1>5 DEF WaitPid

LEMMA ReapEndedFds ==
  ASSUME IInv, FdInv, NEW p \in Pid, ReapEnded(p)
  PROVE  FdInv'
<1>1. pc[p] = "reap" /\ UNCHANGED <<fd, job, pipe, typed>>
  BY DEF ReapEnded
<1>2. Resources'
  BY <1>1 DEF FdInv, Resources
<1>3. CASE (\E z \in Zombies(p) : Reap(z)) /\ UNCHANGED sh
  <2>1. PICK z \in Zombies(p) : Reap(z)
    BY <1>3
  <2>2. z \in Pid /\ pc[z] = "zombie"
    BY DEF Zombies, Children
  <2>3. \A r \in Pid : SameCommands(sh[r], sh'[r])
    BY <1>3 DEF SameCommands
  <2> QED BY <1>1, <1>2, <2>1, <2>2, <2>3, ReapKeepsFds
<1>4. CASE Goto(p, "read", sh[p]) /\ UNCHANGED parent
  <2>1. /\ Variables("reap", sh[p]) /\ FdsByPlace(p, "reap", fd[p], sh[p]) /\ fd[p] \in [Fd -> End]
    BY <1>1, OwnFds
  <2>2. Variables("read", sh[p]) /\ FdsByPlace(p, "read", fd[p], sh[p])
    BY <2>1, PlainFds DEF Variables
  <2>3. Moves(p, "read", sh[p], fd[p])
    BY <1>1, <2>1, <2>2, SameFdsMove DEF Places, ShellPc
  <2> QED BY <1>1, <1>2, <1>4, <2>3, SameFdsKeep
<1> QED BY <1>3, <1>4 DEF ReapEnded

---------------------------------------------------------------------------
(* run_cmd.                                                                *)

\* What the parent closes: the ends of the command that it has started.
LEMMA ClosedTable ==
  ASSUME NEW f, f \in [Fd -> End], NEW c, Ready(f, c)
  PROVE  /\ CloseEnds(f, c) \in [Fd -> End]
         /\ CloseEnds(f, c)[0] = f[0] /\ CloseEnds(f, c)[1] = f[1]
         /\ \A n \in Fd : CloseEnds(f, c)[n] \in {f[n], Closed}
         /\ c.fdout \in Fd \ {1} => CloseEnds(f, c)[c.fdout] = Closed
         /\ \A d : d.fdin \in Fd /\ d.fdout \in Fd /\ Ready(f, d) /\ Spares(c, d) =>
              Ready(CloseEnds(f, c), d)
<1> DEFINE g == CloseEnds(f, c)
<1>1. /\ g \in [Fd -> End]
      /\ \A n \in Fd : g[n] = IF (c.fdin # 0 /\ n = c.fdin) \/ (c.fdout # 1 /\ n = c.fdout)
                              THEN Closed ELSE f[n]
  BY Kinds DEF CloseEnds
<1>2. 0 \in Fd /\ 1 \in Fd
  BY Fds
<1> HIDE DEF g
<1>3. g[0] = f[0] /\ g[1] = f[1]
  BY <1>1, <1>2 DEF Ready
<1>4. ASSUME NEW d, d.fdin \in Fd, d.fdout \in Fd, Ready(f, d), Spares(c, d)
      PROVE  Ready(g, d)
  <2>1. d.fdin # 0 => g[d.fdin] = f[d.fdin]
    BY <1>1, <1>4 DEF Spares
  <2>2. d.fdout # 1 => g[d.fdout] = f[d.fdout]
    BY <1>1, <1>4 DEF Spares
  <2> QED BY <1>4, <2>1, <2>2 DEF Ready
<1>5. /\ g \in [Fd -> End] /\ g[0] = f[0] /\ g[1] = f[1]
      /\ \A n \in Fd : g[n] \in {f[n], Closed}
      /\ c.fdout \in Fd \ {1} => g[c.fdout] = Closed
      /\ \A d : d.fdin \in Fd /\ d.fdout \in Fd /\ Ready(f, d) /\ Spares(c, d) => Ready(g, d)
  BY <1>1, <1>3, <1>4
<1> QED BY <1>5 DEF g

\* What the child has after dup2 and close: no write end but as its standard output.
LEMMA RedirectedTable ==
  ASSUME NEW f, f \in [Fd -> End], f[0] # Closed, f[1] # Closed,
         NEW c, c.fdin \in Fd, c.fdout \in Fd, Ready(f, c),
         \A n \in Fd : f[n].kind = "write" => n = 1 \/ n = c.fdout
  PROVE  /\ Redirected(f, c) \in [Fd -> End]
         /\ Redirected(f, c)[0] # Closed /\ Redirected(f, c)[1] # Closed
         /\ \A n \in Fd : Redirected(f, c)[n].kind = "write" => n = 1
         /\ \A k : Writes(Redirected(f, c), k) => Writes(f, k)
         /\ \A d : d.fdin \in Fd /\ d.fdout \in Fd /\ Ready(f, d) /\ Spares(c, d) =>
              Ready(Redirected(f, c), d)
<1> DEFINE a == [f EXCEPT ![0] = f[c.fdin]]
           h == [a EXCEPT ![1] = a[c.fdout]]
           g == CloseEnds(h, c)
<1>1. 0 \in Fd /\ 1 \in Fd /\ 0 # 1 /\ Closed.kind = "closed"
  BY Fds, Kinds
<1>2. c.fdin # 1 /\ c.fdout # 0 /\ f[c.fdin] # Closed /\ f[c.fdout] # Closed /\ c.fdin # c.fdout
  BY <1>1 DEF Ready
<1>3. /\ h \in [Fd -> End] /\ h[0] = f[c.fdin] /\ h[1] = f[c.fdout]
      /\ \A n \in Fd : n \notin {0, 1} => h[n] = f[n]
  BY <1>1, <1>2
<1> HIDE DEF a, h
<1>4. Ready(h, c)
  BY <1>3 DEF Ready
<1>5. \A d : d.fdin \in Fd /\ d.fdout \in Fd /\ Ready(f, d) => Ready(h, d)
  BY <1>3 DEF Ready
<1>6. /\ g \in [Fd -> End] /\ g[0] = h[0] /\ g[1] = h[1]
      /\ \A n \in Fd : g[n] \in {h[n], Closed}
      /\ c.fdout \in Fd \ {1} => g[c.fdout] = Closed
      /\ \A d : d.fdin \in Fd /\ d.fdout \in Fd /\ Ready(h, d) /\ Spares(c, d) => Ready(g, d)
  BY <1>3, <1>4, ClosedTable
<1> HIDE DEF g
<1>7. f[c.fdin].kind # "write"
  BY <1>1, <1>2
<1>8. \A n \in Fd : g[n].kind = "write" => n = 1
  <2> SUFFICES ASSUME NEW n \in Fd, g[n].kind = "write", n # 1 PROVE FALSE
    OBVIOUS
  <2>1. g[n] = h[n] /\ h[n].kind = "write"
    BY <1>1, <1>6
  <2>2. n # 0
    BY <1>3, <1>7, <2>1
  <2>3. f[n].kind = "write" /\ n = c.fdout
    BY <1>3, <2>1, <2>2
  <2> QED BY <1>1, <1>6, <2>3
<1>9. ASSUME NEW k, Writes(g, k)
      PROVE  Writes(f, k)
  <2>1. PICK n \in Fd : g[n] = WriteEnd(k)
    BY <1>9 DEF Writes
  <2>2. n = 1
    BY <1>8, <2>1, Kinds
  <2>3. f[c.fdout] = WriteEnd(k)
    BY <1>3, <1>6, <2>1, <2>2
  <2> QED BY <2>3 DEF Writes
<1>10. g[0] # Closed /\ g[1] # Closed
  BY <1>2, <1>3, <1>6
<1>11. Redirected(f, c) = g
  BY DEF Redirected, g, h, a
<1> QED BY <1>5, <1>6, <1>8, <1>9, <1>10, <1>11

\* After run_cmd: the loop over "|" goes on with cmd2, or the list is waited for.
LEMMA AfterRunFds ==
  ASSUME NEW p, NEW label, label \in {"close", "child"}, label = "child" => p # 1,
         NEW f, f \in [Fd -> End], NEW s,
         DOMAIN s = Fields, Variables(label, s), FdsByPlace(p, label, f, s),
         NEW g, g \in [Fd -> End], g[0] # Closed, g[1] # Closed,
         p = 1 => g[1].kind # "write",
         \A n \in Fd : g[n].kind = "write" => n = 1,
         Ready(f, s.cmd2) /\ Spares(s.cmd1, s.cmd2) => Ready(g, s.cmd2),
         NEW pid
  PROVE  LET a == AfterRun(s, pid) IN
         /\ Variables(a.label, a.s) /\ FdsByPlace(p, a.label, g, a.s)
         /\ a.label \in {"pipe", "wait"}
<1> DEFINE t == AfterRun(s, pid).s
           next == AfterRun(s, pid).label
<1>1. /\ t.tokens = s.tokens /\ t.pos = s.pos
      /\ s.token = "end" => next = "pipe" /\ t.cmd1 = s.cmd2 /\ t.cmd2 = NoCommand
      /\ s.token # "end" => next = "wait" /\ t.cmd1 = s.cmd1 /\ t.cmd2 = s.cmd2
  BY DEF AfterRun, Fields
<1> HIDE DEF t, next
<1>2. Variables(next, t)
  BY <1>1, NoCommandTyped DEF Variables, OnLine
<1>3. CASE s.token = "end"
  <2>1. Ready(g, s.cmd2)
    BY <1>3 DEF FdsByPlace
  <2>2. FdsByPlace(p, "pipe", g, t)
    BY <1>1, <1>3, <2>1 DEF FdsByPlace
  <2> QED BY <1>1, <1>2, <1>3, <2>2 DEF t, next
<1>4. CASE s.token # "end"
  <2>1. FdsByPlace(p, "wait", g, t)
    BY DEF FdsByPlace
  <2> QED BY <1>1, <1>2, <1>4, <2>1 DEF t, next
<1> QED BY <1>3, <1>4

LEMMA CloseInParentFds ==
  ASSUME IInv, FdInv, NEW p \in Pid, CloseInParent(p)
  PROVE  FdInv'
<1> DEFINE s == [sh[p] EXCEPT !.i = 1]
           f == fd[p]
           g == CloseEnds(fd[p], sh[p].cmd1)
<1>1. /\ pc[p] = "close" /\ Goto(p, AfterRun(s, sh[p].i).label, AfterRun(s, sh[p].i).s)
      /\ fd' = [fd EXCEPT ![p] = g] /\ UNCHANGED <<parent, job, pipe, typed>>
  BY DEF CloseInParent
<1>2. /\ Variables("close", sh[p]) /\ FdsByPlace(p, "close", f, sh[p]) /\ f \in [Fd -> End]
      /\ DOMAIN sh[p] = Fields /\ DOMAIN sh = Pid
  BY <1>1, OwnFds
<1>3. /\ SameCommands(sh[p], s) /\ DOMAIN s = Fields
  BY <1>2 DEF SameCommands, Fields
<1>4. s.cmd1 = sh[p].cmd1
  BY <1>3 DEF SameCommands
<1> HIDE DEF s
<1>5. Variables("close", s) /\ FdsByPlace(p, "close", f, s)
  BY <1>2, <1>3, FdsKept DEF SamePlace
<1>6. /\ Ready(f, s.cmd1) /\ s.cmd1 \in CommandType /\ s.cmd2 \in CommandType
      /\ s.cmd1.fdin \in Fd /\ s.cmd1.fdout \in Fd /\ s.cmd2.fdin \in Fd /\ s.cmd2.fdout \in Fd
  BY <1>5 DEF FdsByPlace, Variables, CommandType
<1>7. /\ g \in [Fd -> End] /\ g[0] = f[0] /\ g[1] = f[1]
      /\ \A n \in Fd : g[n] \in {f[n], Closed}
      /\ s.cmd1.fdout \in Fd \ {1} => g[s.cmd1.fdout] = Closed
      /\ \A d : d.fdin \in Fd /\ d.fdout \in Fd /\ Ready(f, d) /\ Spares(s.cmd1, d) => Ready(g, d)
  BY <1>2, <1>4, <1>6, ClosedTable
<1> HIDE DEF f, g
<1>8. Ready(f, s.cmd2) /\ Spares(s.cmd1, s.cmd2) => Ready(g, s.cmd2)
  BY <1>6, <1>7
<1>9. /\ f[0] # Closed /\ f[1] # Closed /\ (p = 1 => f[1].kind # "write")
      /\ \A n \in Fd : f[n].kind = "write" => n = 1 \/ n = s.cmd1.fdout
  BY <1>5 DEF FdsByPlace
<1>10. \A n \in Fd : g[n].kind = "write" => n = 1
  BY <1>6, <1>7, <1>9, Kinds
<1>11. /\ Variables(AfterRun(s, sh[p].i).label, AfterRun(s, sh[p].i).s)
       /\ FdsByPlace(p, AfterRun(s, sh[p].i).label, g, AfterRun(s, sh[p].i).s)
       /\ AfterRun(s, sh[p].i).label \in {"pipe", "wait"}
  BY <1>2, <1>3, <1>5, <1>7, <1>8, <1>9, <1>10, AfterRunFds
<1>12. \A k : Writes(g, k) => Writes(f, k)
  <2> SUFFICES ASSUME NEW k, NEW n \in Fd, g[n] = WriteEnd(k) PROVE Writes(f, k)
    BY DEF Writes
  <2> QED BY <1>7, Kinds DEF Writes
<1>13. Moves(p, AfterRun(s, sh[p].i).label, AfterRun(s, sh[p].i).s, g)
  <2> DEFINE t == AfterRun(s, sh[p].i).s
             label == AfterRun(s, sh[p].i).label
  <2>1. /\ Variables(label, t) /\ FdsByPlace(p, label, g, t) /\ label \in {"pipe", "wait"}
    BY <1>11
  <2> HIDE DEF t, label
  <2>2. Moves(p, label, t, g)
    BY <1>1, <1>7, <1>12, <2>1 DEF Moves, Places, ShellPc, f
  <2> QED BY <2>2 DEF t, label
<1>14. Resources'
  BY <1>1 DEF FdInv, Resources
<1> QED BY <1>1, <1>2, <1>13, <1>14, GotoKeeps

\* The table of a child that has been through dup2 and close.
LEMMA ChildTable ==
  ASSUME IInv, FdInv, NEW p \in Pid, pc[p] = "child",
         NEW g, g = Redirected(fd[p], sh[p].cmd1)
  PROVE  /\ p # 1 /\ g \in [Fd -> End] /\ g[0] # Closed /\ g[1] # Closed
         /\ \A n \in Fd : g[n].kind = "write" => n = 1
         /\ \A k : Writes(g, k) => Writes(fd[p], k)
         /\ Ready(fd[p], sh[p].cmd2) /\ Spares(sh[p].cmd1, sh[p].cmd2) => Ready(g, sh[p].cmd2)
<1>1. /\ Variables("child", sh[p]) /\ FdsByPlace(p, "child", fd[p], sh[p]) /\ fd[p] \in [Fd -> End]
  BY OwnFds
<1>2. /\ Ready(fd[p], sh[p].cmd1)
      /\ sh[p].cmd1.fdin \in Fd /\ sh[p].cmd1.fdout \in Fd
      /\ sh[p].cmd2.fdin \in Fd /\ sh[p].cmd2.fdout \in Fd
  BY <1>1 DEF FdsByPlace, Variables, CommandType
<1>3. /\ p # 1 /\ fd[p][0] # Closed /\ fd[p][1] # Closed
      /\ \A n \in Fd : fd[p][n].kind = "write" => n = 1 \/ n = sh[p].cmd1.fdout
  BY <1>1 DEF FdsByPlace
<1> DEFINE f == fd[p]
           c == sh[p].cmd1
<1> HIDE DEF f, c
<1>4. /\ Redirected(f, c) \in [Fd -> End]
      /\ Redirected(f, c)[0] # Closed /\ Redirected(f, c)[1] # Closed
      /\ \A n \in Fd : Redirected(f, c)[n].kind = "write" => n = 1
      /\ \A k : Writes(Redirected(f, c), k) => Writes(f, k)
      /\ \A d : d.fdin \in Fd /\ d.fdout \in Fd /\ Ready(f, d) /\ Spares(c, d) =>
           Ready(Redirected(f, c), d)
  <2>1. /\ f \in [Fd -> End] /\ f[0] # Closed /\ f[1] # Closed
        /\ c.fdin \in Fd /\ c.fdout \in Fd /\ Ready(f, c)
        /\ \A n \in Fd : f[n].kind = "write" => n = 1 \/ n = c.fdout
    BY <1>1, <1>2, <1>3 DEF f, c
  <2> QED BY ONLY <2>1, RedirectedTable
<1> QED BY <1>2, <1>3, <1>4 DEF f, c

LEMMA ExecFds ==
  ASSUME IInv, FdInv, NEW p \in Pid, Exec(p)
  PROVE  FdInv'
<1> DEFINE g == Redirected(fd[p], sh[p].cmd1)
           name == sh[p].cmd1.name
<1>1. /\ pc[p] = "child" /\ name \in DOMAIN Programs /\ Goto(p, "prog", NoShell)
      /\ fd' = [fd EXCEPT ![p] = g] /\ UNCHANGED <<parent, pipe, typed>>
      /\ job' = [job EXCEPT ![p] = [gen |-> Programs[name].gen, n |-> Programs[name].n, has |-> FALSE]]
  BY DEF Exec
<1>2. /\ p # 1 /\ g \in [Fd -> End] /\ g[0] # Closed /\ g[1] # Closed
      /\ \A n \in Fd : g[n].kind = "write" => n = 1
      /\ \A k : Writes(g, k) => Writes(fd[p], k)
  BY <1>1, ChildTable
<1> HIDE DEF g, name
<1>3. FdsByPlace(p, "prog", g, NoShell)
  BY <1>2 DEF FdsByPlace
<1>4. Moves(p, "prog", NoShell, g)
  BY <1>1, <1>2, <1>3, NoShellVariables DEF Moves, Places
<1>5. Resources'
  <2>1. Programs[name].gen \in BOOLEAN /\ Programs[name].n \in Nat \cup {-1}
    BY <1>1, ShellAssumption
  <2>2. [gen |-> Programs[name].gen, n |-> Programs[name].n, has |-> FALSE] \in JobType
    BY <2>1 DEF JobType
  <2> QED BY <1>1, <2>2 DEF FdInv, Resources
<1>6. DOMAIN sh = Pid
  BY OwnFds
<1> QED BY <1>1, <1>4, <1>5, <1>6, GotoKeeps

LEMMA ExecFailsFds ==
  ASSUME IInv, FdInv, NEW p \in Pid, ExecFails(p)
  PROVE  FdInv'
<1> DEFINE g == Redirected(fd[p], sh[p].cmd1)
           t == AfterRun(sh[p], -1).s
           label == AfterRun(sh[p], -1).label
<1>1. /\ pc[p] = "child" /\ Goto(p, label, t)
      /\ fd' = [fd EXCEPT ![p] = g] /\ UNCHANGED <<parent, job, pipe, typed>>
  BY DEF ExecFails
<1>2. /\ p # 1 /\ g \in [Fd -> End] /\ g[0] # Closed /\ g[1] # Closed
      /\ \A n \in Fd : g[n].kind = "write" => n = 1
      /\ \A k : Writes(g, k) => Writes(fd[p], k)
      /\ Ready(fd[p], sh[p].cmd2) /\ Spares(sh[p].cmd1, sh[p].cmd2) => Ready(g, sh[p].cmd2)
  BY <1>1, ChildTable
<1>3. /\ Variables("child", sh[p]) /\ FdsByPlace(p, "child", fd[p], sh[p]) /\ fd[p] \in [Fd -> End]
      /\ DOMAIN sh[p] = Fields /\ DOMAIN sh = Pid
  BY <1>1, OwnFds
<1> HIDE DEF g
<1>4. Variables(label, t) /\ FdsByPlace(p, label, g, t) /\ label \in {"pipe", "wait"}
  BY <1>2, <1>3, AfterRunFds
<1> HIDE DEF t, label
<1>5. Moves(p, label, t, g)
  BY <1>1, <1>2, <1>4 DEF Moves, Places, ShellPc
<1>6. Resources'
  BY <1>1 DEF FdInv, Resources
<1> QED BY <1>1, <1>3, <1>5, <1>6, GotoKeeps

---------------------------------------------------------------------------
(* The programs, and the whole.                                            *)

LEMMA TakeFds ==
  ASSUME FdInv, NEW p \in Pid, Take(p)
  PROVE  FdInv'
<1>1. /\ UNCHANGED <<pc, parent, fd, sh, typed>> /\ Resources
  BY DEF Take, FdInv
<1>2. job \in [Pid -> JobType] /\ pipe \in [Pipe -> 0 .. PipeSize] /\ job[p] \in JobType
  BY <1>1 DEF Resources
<1> DEFINE less == IF job[p].n > 0 THEN job[p].n - 1 ELSE job[p].n
<1>3. less \in Nat \cup {-1}
  BY <1>2 DEF JobType
<1>4. \/ job' = [job EXCEPT ![p].has = TRUE, ![p].n = less]
      \/ job' = [job EXCEPT ![p].n = 0]
  BY DEF Take
<1> HIDE DEF less
<1>5. job' \in [Pid -> JobType]
  <2>1. CASE job' = [job EXCEPT ![p].has = TRUE, ![p].n = less]
    <3>1. [job[p] EXCEPT !.has = TRUE, !.n = less] \in JobType
      BY <1>2, <1>3 DEF JobType
    <3>2. job' = [job EXCEPT ![p] = [job[p] EXCEPT !.has = TRUE, !.n = less]]
      BY <1>2, <2>1
    <3> QED BY <1>2, <3>1, <3>2
  <2>2. CASE job' = [job EXCEPT ![p].n = 0]
    <3>1. [job[p] EXCEPT !.n = 0] \in JobType
      BY <1>2 DEF JobType
    <3> QED BY <1>2, <2>2, <3>1
  <2> QED BY <1>4, <2>1, <2>2
<1>6. pipe' \in [Pipe -> 0 .. PipeSize]
  <2>1. \/ pipe' = pipe
        \/ \E k : pipe[k] > 0 /\ pipe' = [pipe EXCEPT ![k] = @ - 1]
    BY DEF Take
  <2> QED BY <1>2, <2>1, ShellAssumption
<1>7. Resources'
  BY <1>1, <1>5, <1>6 DEF Resources
<1>8. \A r \in Pid : SameCommands(sh[r], sh'[r])
  BY <1>1 DEF SameCommands
<1> QED BY <1>1, <1>7, <1>8, SamePlacesKeep

LEMMA PutFds ==
  ASSUME FdInv, NEW p \in Pid, Put(p)
  PROVE  FdInv'
<1>1. /\ UNCHANGED <<pc, parent, fd, sh, typed>> /\ Resources
      /\ job' = [job EXCEPT ![p].has = FALSE]
  BY DEF Put, FdInv
<1>2. job \in [Pid -> JobType] /\ pipe \in [Pipe -> 0 .. PipeSize] /\ job[p] \in JobType
  BY <1>1 DEF Resources
<1>3. job' \in [Pid -> JobType]
  BY <1>1, <1>2 DEF JobType
<1>4. pipe' \in [Pipe -> 0 .. PipeSize]
  <2>1. \/ pipe' = pipe
        \/ \E k : pipe[k] < PipeSize /\ pipe' = [pipe EXCEPT ![k] = @ + 1]
    BY DEF Put
  <2> QED BY <1>2, <2>1, ShellAssumption
<1>5. Resources'
  BY <1>1, <1>3, <1>4 DEF Resources
<1>6. \A r \in Pid : SameCommands(sh[r], sh'[r])
  BY <1>1 DEF SameCommands
<1> QED BY <1>1, <1>5, <1>6, SamePlacesKeep

LEMMA QuitFds ==
  ASSUME IInv, FdInv, NEW p \in Pid, pc[p] \notin {"free", "zombie"}, Quit(p)
  PROVE  FdInv'
BY OwnFds, ExitKeeps DEF Quit

LEMMA InitFds == Init => FdInv
<1> SUFFICES ASSUME Init PROVE FdInv
  OBVIOUS
<1>1. Resources
  <2>1. NoJob \in JobType
    BY DEF NoJob, JobType
  <2> QED BY <2>1, ShellAssumption DEF Init, Resources
<1>2. Processes
  BY Kinds, Constants DEF Init, Processes, Places, ShellPc
<1>3. ASSUME NEW p \in Pid PROVE Kept(p)
  <2>1. /\ pc[p] = IF p = 1 THEN "read" ELSE "free"
        /\ sh[p] = NoShell /\ fd[p] = [n \in Fd |-> IF p = 1 /\ n <= 2 THEN Tty ELSE Closed]
    BY <1>3 DEF Init
  <2>2. Variables(pc[p], sh[p])
    BY <2>1, NoShellVariables DEF Variables
  <2>3. \A n \in Fd : fd[p][n].kind # "write"
    BY <2>1, Kinds
  <2>4. p = 1 => fd[p][0] # Closed /\ fd[p][1] # Closed
    BY <2>1, Kinds, Fds
  <2>5. FdsByPlace(p, pc[p], fd[p], sh[p])
    BY <2>1, <2>3, <2>4, Fds DEF FdsByPlace
  <2>6. Children(p) = {}
    BY <1>3 DEF Init, Children, Pid
  <2>7. ChildrenOf(p)
    BY <2>1, <2>6 DEF ChildrenOf, Commands
  <2> QED BY <2>2, <2>5, <2>7 DEF Kept
<1> QED BY <1>1, <1>2, <1>3 DEF FdInv

LEMMA StepFds == IInv /\ FdInv /\ [Next]_vars => FdInv'
<1> SUFFICES ASSUME IInv, FdInv, [Next]_vars PROVE FdInv'
  OBVIOUS
<1>1. CASE UNCHANGED vars
  <2>1. /\ UNCHANGED <<pc, parent, fd>> /\ \A r \in Pid : SameCommands(sh[r], sh'[r])
    BY <1>1 DEF vars, SameCommands
  <2>2. Resources'
    BY <1>1 DEF vars, FdInv, Resources
  <2>3. 1 \in Pid
    BY ShellAssumption DEF Pid
  <2> QED BY <2>1, <2>2, <2>3, SamePlacesKeep
<1>2. ASSUME NEW p \in Pid, ShellStep(p)
      PROVE  FdInv'
  <2>1. CASE ReadLine(p)      BY <2>1, ReadLineFds
  <2>2. CASE EndOfInput(p)    BY <2>2, QuitFds DEF EndOfInput
  <2>3. CASE NextList(p)      BY <2>3, NextListFds
  <2>4. CASE PipeCmd(p)       BY <2>4, PipeCmdFds
  <2>5. CASE LastCmd(p)       BY <2>5, LastCmdFds
  <2>6. CASE Fork(p)          BY <2>6, ForkKeeps
  <2>7. CASE ForkFails(p)     BY <2>7, ForkFailsFds
  <2>8. CASE CloseInParent(p) BY <2>8, CloseInParentFds
  <2>9. CASE Exec(p)          BY <2>9, ExecFds
  <2>10. CASE ExecFails(p)    BY <2>10, ExecFailsFds
  <2>11. CASE WaitPid(p)      BY <2>11, WaitPidFds
  <2>12. CASE EndList(p)      BY <2>12, EndListFds
  <2>13. CASE ReapEnded(p)    BY <2>13, ReapEndedFds
  <2> QED BY <1>2, <2>1, <2>2, <2>3, <2>4, <2>5, <2>6, <2>7, <2>8, <2>9, <2>10,
             <2>11, <2>12, <2>13 DEF ShellStep
<1>3. ASSUME NEW p \in Pid, ProgramStep(p)
      PROVE  FdInv'
  <2>1. CASE Take(p)   BY <2>1, TakeFds
  <2>2. CASE Put(p)    BY <2>2, PutFds
  <2>3. CASE Finish(p) BY <2>3, QuitFds DEF Finish
  <2> QED BY <1>3, <2>1, <2>2, <2>3 DEF ProgramStep
<1> QED BY <1>1, <1>2, <1>3 DEF Next, Proc

LEMMA FdInvariance == Spec => []FdInv
<1> QED BY InitFds, StepFds, Invariance, PTL DEF Spec

\* The variables of run_cmd_list, the descriptors, the programs and the pipes have
\* their types in every process: a descriptor of a command is one of the table's,
\* never the -1 of an open that failed, and a pid is that of a process or -1.
THEOREM TypeCorrect == Spec => []TypeOK
<1>1. IInv /\ FdInv => TypeOK
  <2> SUFFICES ASSUME IInv, FdInv PROVE TypeOK
    OBVIOUS
  <2>1. Resources /\ Processes
    BY DEF FdInv
  <2>2. ASSUME NEW p \in Pid
        PROVE  /\ sh[p].pos \in Nat /\ sh[p].cmd1 \in CommandType /\ sh[p].cmd2 \in CommandType
               /\ sh[p].i \in Nat \cup {-1} /\ sh[p].pids \in Seq(Pid \cup {-1})
               /\ job[p].gen \in BOOLEAN /\ job[p].n \in Nat \cup {-1} /\ job[p].has \in BOOLEAN
    <3>1. sh[p].pids \in Seq(Forked) /\ sh[p].i \in Nat \cup {-1} /\ Variables(pc[p], sh[p])
      BY OwnState, OwnFds
    <3>2. job[p] \in JobType
      BY <2>1 DEF Resources
    <3> QED BY <3>1, <3>2 DEF Variables, JobType, Forked
  <2> QED BY <2>1, <2>2 DEF TypeOK, Resources, Processes, Places
<1> QED BY <1>1, Invariance, FdInvariance, PTL

\* After fork, dup2 and close the write end of a pipe is with the one command that
\* writes to it, whatever children are running and whatever failed (lines 111-165).
THEOREM WriteEndOnce == Spec => []WriteEndHeldOnce
<1>1. IInv /\ FdInv => WriteEndHeldOnce
  <2> SUFFICES ASSUME IInv, FdInv PROVE WriteEndHeldOnce
    OBVIOUS
  <2>1. ASSUME NEW p \in Pid, NEW n \in Fd, fd[p][n].kind = "write"
        PROVE  pc[p] \in {"fork", "close", "child"} \/ (n = 1 /\ p # 1)
    <3>1. FdsByPlace(p, pc[p], fd[p], sh[p])
      BY OwnFds
    <3> QED BY <2>1, <3>1 DEF FdsByPlace
  <2>2. ASSUME NEW p \in Pid, NEW k \in Pipe, fd[p][1] # WriteEnd(k)
        PROVE  Cardinality(Writers(k) \cap Commands(p)) <= 1
    <3> DEFINE A == Writers(k) \cap Commands(p)
    <3>1. \A x, y \in A : x = y
      BY <2>2 DEF FdInv, Kept, ChildrenOf
    <3>2. CASE A = {}
      BY <3>2, FS_EmptySet
    <3>3. CASE A # {}
      <4>1. PICK x \in A : A = {x}
        BY <3>1, <3>3
      <4> QED BY <4>1, FS_Singleton
    <3> QED BY <3>2, <3>3
  <2> QED BY <2>1, <2>2 DEF WriteEndHeldOnce
<1> QED BY <1>1, Invariance, FdInvariance, PTL

=============================================================================
