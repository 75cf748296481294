------------------------- MODULE RemoteShellProofs -------------------------
(***************************************************************************)
(* Proofs about module RemoteShell, for any clients, any number of          *)
(* processes and any sizes: each direction of a connection keeps its order, *)
(* whichever processes read and write it, and a client that is told it is   *)
(* disconnected has shown all, unless a line of its own was lost.           *)
(* The invariant describes a direction of a connection as one sequence cut  *)
(* in three: what has arrived, what is on its way, and what the sender has  *)
(* in hand; and what a shell has in its input buffer as a stretch of the    *)
(* lines read from the connection.                                         *)
(***************************************************************************)
EXTENDS RemoteShell, TLAPS

Places == {"none", "stuck", "write", "read", "list", "wait", "last words", "exit", "program"}

Fates == {"out", "running", "disconnected", "end of input", "killed"}

\* The types of the variables that the invariant is about.
TypeOK ==
  /\ buf \in [Client -> Nat] /\ typed \in [Client -> Nat] /\ wrote \in [Client -> Nat]
  /\ left \in [Client -> Fates]
  /\ shown \in [Client -> Seq(Nat)] /\ down \in [Client -> Seq(Nat)]
  /\ up \in [Client -> Seq(Nat)] /\ got \in [Client -> Seq(Nat)]
  /\ conn \in [Proc -> Client \cup {0}]
  /\ at \in [Proc -> Places]
  /\ inbuf \in [Proc -> Seq(Nat)] /\ cmdline \in [Proc -> Nat]
  /\ backlog \in Seq(Client)
  /\ cfd \in Client \cup {0}
  /\ held \subseteq Client
  /\ server \in {"accept", "fork", "close"}

\* No process has had the connection.
Unserved(c) == got[c] = <<>> /\ \A p \in Proc : conn[p] # c

\* A connection is accepted at most once, and has no shell before.
AcceptedOnce ==
  /\ \A c \in Client : left[c] = "out" => Unserved(c) /\ c \notin held
  /\ \A i \in DOMAIN backlog :
       /\ Unserved(backlog[i]) /\ left[backlog[i]] # "out" /\ backlog[i] \notin held
       /\ \A j \in DOMAIN backlog : backlog[i] = backlog[j] => i = j
  /\ server = "fork" /\ cfd # 0 => cfd \in held /\ Unserved(cfd)

\* The chunks of s are those after the k-th.
CountsFrom(k, s) == \A i \in DOMAIN s : s[i] = k + i

\* The lines on their way continue those that were read; while the client runs and
\* the other end is open, the one in buf continues these.
UpOK(c) ==
  /\ CountsFrom(0, got[c]) /\ CountsFrom(Len(got[c]), up[c])
  /\ buf[c] # 0 => left[c] = "running"
  /\ left[c] = "out" => typed[c] = 0 /\ up[c] = <<>>
  /\ <<c, "shell">> \in reset => Gone(c)
  /\ Len(got[c]) + Len(up[c]) <= typed[c]
  /\ buf[c] # 0 => Len(got[c]) + Len(up[c]) < typed[c]
  /\ ServerOpen(c) /\ left[c] = "running" =>
       /\ buf[c] = 0 => typed[c] = Len(got[c]) + Len(up[c])
       /\ buf[c] # 0 => buf[c] = typed[c] /\ typed[c] = Len(got[c]) + Len(up[c]) + 1

\* Some of what was written may be lost: a line of the user's is lost too.
Broken(c) == ~ServerOpen(c) /\ Len(got[c]) < typed[c]

\* The chunks on their way to the client continue those it has shown.
DownOK(c) ==
  /\ CountsFrom(0, shown[c]) /\ CountsFrom(Len(shown[c]), down[c])
  /\ ~Gone(c) => wrote[c] = Len(shown[c]) + Len(down[c]) \/ Broken(c)
  /\ left[c] = "disconnected" =>
       ~ServerOpen(c) /\ (wrote[c] = Len(shown[c]) \/ Len(got[c]) < typed[c])

\* A shell has in its buffer lines that were read after the one in cmdline, without
\* a gap between them.
ProcOK(p) ==
  /\ at[p] = "none" <=> conn[p] = 0
  /\ at[p] = "none" => inbuf[p] = <<>> /\ cmdline[p] = 0
  /\ p \in Client => conn[p] \in {0, p}
  /\ at[p] # "none" =>
       \E k \in Nat : /\ cmdline[p] <= k /\ CountsFrom(k, inbuf[p])
                      /\ k + Len(inbuf[p]) <= Len(got[conn[p]])

\* The first shell has all that were read after that one, if it alone reads.
FirstOK(c) ==
  at[c] # "none" /\ c \notin shared =>
    /\ CountsFrom(cmdline[c], inbuf[c])
    /\ cmdline[c] + Len(inbuf[c]) = Len(got[c])

ClientOK(c) == UpOK(c) /\ DownOK(c) /\ FirstOK(c)

IInv ==
  /\ TypeOK /\ AcceptedOnce
  /\ \A c \in Client : ClientOK(c)
  /\ \A p \in Proc : ProcOK(p)

---------------------------------------------------------------------------
(* Sequences.                                                              *)

LEMMA EmptyChannel == <<>> \in Seq(Nat) /\ Len(<<>>) = 0 /\ DOMAIN <<>> = {}
OBVIOUS

LEMMA LenInNat == \A s \in Seq(Nat) : Len(s) \in Nat
OBVIOUS

LEMMA NoLonger == \A s \in Seq(Nat) : Len(s) <= Len(s)
OBVIOUS

LEMMA Appended ==
  ASSUME NEW S, NEW s \in Seq(S), NEW x \in S
  PROVE  /\ Append(s, x) \in Seq(S) /\ Len(Append(s, x)) = Len(s) + 1
         /\ DOMAIN Append(s, x) = 1 .. Len(s) + 1 /\ DOMAIN s = 1 .. Len(s)
         /\ \A i \in DOMAIN s : Append(s, x)[i] = s[i]
         /\ Append(s, x)[Len(s) + 1] = x
OBVIOUS

LEMMA Removed ==
  ASSUME NEW S, NEW s \in Seq(S), s # <<>>
  PROVE  /\ Head(s) \in S /\ Head(s) = s[1] /\ Len(s) \in Nat \ {0}
         /\ Tail(s) \in Seq(S) /\ Len(Tail(s)) = Len(s) - 1
         /\ DOMAIN Tail(s) = 1 .. Len(s) - 1 /\ DOMAIN s = 1 .. Len(s)
         /\ \A i \in DOMAIN Tail(s) : Tail(s)[i] = s[i + 1]
OBVIOUS

LEMMA CountsOn ==
  ASSUME NEW s \in Seq(Nat), NEW k \in Nat, CountsFrom(k, s), NEW x, x = k + Len(s) + 1
  PROVE  /\ CountsFrom(k, Append(s, x))
         /\ Append(s, x) \in Seq(Nat) /\ Len(Append(s, x)) = Len(s) + 1
<1> DEFINE a == Append(s, x)
<1>1. x \in Nat /\ Len(s) \in Nat
  OBVIOUS
<1>2. /\ DOMAIN s = 1 .. Len(s) /\ DOMAIN a = 1 .. Len(s) + 1
      /\ \A i \in 1 .. Len(s) : a[i] = s[i]
      /\ a[Len(s) + 1] = x /\ a \in Seq(Nat) /\ Len(a) = Len(s) + 1
  BY <1>1
<1> SUFFICES ASSUME NEW i \in 1 .. Len(s) + 1
             PROVE  a[i] = k + i
  BY <1>2 DEF CountsFrom
<1>3. CASE i = Len(s) + 1
  BY <1>1, <1>2, <1>3
<1>4. CASE i \in 1 .. Len(s)
  BY <1>2, <1>4 DEF CountsFrom
<1> QED BY <1>1, <1>3, <1>4

LEMMA CountsAfter ==
  ASSUME NEW s \in Seq(Nat), NEW k \in Nat, CountsFrom(k, s), s # <<>>
  PROVE  /\ CountsFrom(k + 1, Tail(s)) /\ Head(s) = k + 1
         /\ Tail(s) \in Seq(Nat) /\ Len(s) \in Nat /\ Len(s) = Len(Tail(s)) + 1
<1>1. /\ Len(s) \in Nat \ {0} /\ DOMAIN s = 1 .. Len(s) /\ DOMAIN Tail(s) = 1 .. Len(s) - 1
      /\ \A i \in 1 .. Len(s) - 1 : Tail(s)[i] = s[i + 1]
      /\ Head(s) = s[1] /\ Tail(s) \in Seq(Nat) /\ Len(Tail(s)) = Len(s) - 1
  BY Removed
<1>2. SUFFICES ASSUME NEW i \in 1 .. Len(s) - 1
               PROVE  Tail(s)[i] = k + 1 + i
  BY <1>1 DEF CountsFrom
<1>3. i + 1 \in 1 .. Len(s)
  BY <1>1
<1>4. s[i + 1] = k + (i + 1)
  BY <1>1, <1>3 DEF CountsFrom
<1> QED BY <1>1, <1>4

\* A stretch of a sequence that counts on.
LEMMA Stretch ==
  ASSUME NEW s \in Seq(Nat), NEW k \in Nat, CountsFrom(k, s),
         NEW m \in 0 .. Len(s), NEW n \in m .. Len(s)
  PROVE  /\ SubSeq(s, m + 1, n) \in Seq(Nat) /\ Len(SubSeq(s, m + 1, n)) = n - m
         /\ CountsFrom(k + m, SubSeq(s, m + 1, n))
<1> DEFINE t == SubSeq(s, m + 1, n)
<1>1. /\ Len(s) \in Nat /\ m \in Nat /\ n \in Nat /\ m <= n /\ n <= Len(s)
      /\ DOMAIN s = 1 .. Len(s) /\ \A i \in 1 .. Len(s) : s[i] \in Nat
  OBVIOUS
<1>2. t = [i \in 1 .. n - m |-> s[m + i]]
  BY <1>1
<1>3. ASSUME NEW i \in 1 .. n - m
      PROVE  m + i \in 1 .. Len(s)
  BY <1>1, <1>3
<1>4. t \in Seq(Nat) /\ Len(t) = n - m /\ DOMAIN t = 1 .. n - m
  BY <1>1, <1>2, <1>3
<1>5. ASSUME NEW i \in 1 .. n - m
      PROVE  t[i] = k + m + i
  <2>1. s[m + i] = k + (m + i)
    BY <1>1, <1>3, <1>5 DEF CountsFrom
  <2> QED BY <1>1, <1>2, <2>1
<1> QED BY <1>4, <1>5 DEF CountsFrom

LEMMA Cut ==
  ASSUME NEW s \in Seq(Nat), NEW k \in Nat, CountsFrom(k, s), NEW n \in 0 .. Len(s)
  PROVE  /\ SubSeq(s, 1, n) \in Seq(Nat) /\ Len(SubSeq(s, 1, n)) = n
         /\ Len(SubSeq(s, 1, n)) <= Len(s) /\ CountsFrom(k, SubSeq(s, 1, n))
<1>1. 0 \in 0 .. Len(s) /\ 0 + 1 = 1 /\ n - 0 = n /\ k + 0 = k
  OBVIOUS
<1>2. /\ SubSeq(s, 0 + 1, n) \in Seq(Nat) /\ Len(SubSeq(s, 0 + 1, n)) = n - 0
      /\ CountsFrom(k + 0, SubSeq(s, 0 + 1, n))
  BY <1>1, Stretch
<1> QED BY <1>1, <1>2

LEMMA CountsJoined ==
  ASSUME NEW r \in Seq(Nat), NEW s \in Seq(Nat), CountsFrom(0, r), CountsFrom(Len(r), s)
  PROVE  /\ r \o s \in Seq(Nat) /\ Len(r \o s) = Len(r) + Len(s)
         /\ CountsFrom(0, r \o s)
<1> DEFINE t == r \o s
<1>1. /\ Len(r) \in Nat /\ Len(s) \in Nat /\ t \in Seq(Nat) /\ Len(t) = Len(r) + Len(s)
      /\ DOMAIN r = 1 .. Len(r) /\ DOMAIN s = 1 .. Len(s) /\ DOMAIN t = 1 .. Len(r) + Len(s)
      /\ \A i \in 1 .. Len(r) + Len(s) : t[i] = IF i <= Len(r) THEN r[i] ELSE s[i - Len(r)]
  OBVIOUS
<1>2. SUFFICES ASSUME NEW i \in 1 .. Len(r) + Len(s)
               PROVE  t[i] = 0 + i
  BY <1>1 DEF CountsFrom
<1>3. CASE i <= Len(r)
  BY <1>1, <1>3 DEF CountsFrom
<1>4. CASE i > Len(r)
  <2>1. i - Len(r) \in 1 .. Len(s)
    BY <1>1, <1>4
  <2>2. s[i - Len(r)] = Len(r) + (i - Len(r))
    BY <1>1, <2>1 DEF CountsFrom
  <2> QED BY <1>1, <1>4, <2>2
<1> QED BY <1>1, <1>3, <1>4

\* Two sequences of one length that count from the same number are the same.
LEMMA SameCount ==
  ASSUME NEW r \in Seq(Nat), NEW s \in Seq(Nat), NEW k \in Nat,
         CountsFrom(k, r), CountsFrom(k, s), Len(r) = Len(s)
  PROVE  r = s
<1>1. DOMAIN r = 1 .. Len(r) /\ DOMAIN s = 1 .. Len(r)
  OBVIOUS
<1>2. \A i \in DOMAIN r : r[i] = s[i]
  BY <1>1 DEF CountsFrom
<1>3. r = [i \in DOMAIN r |-> r[i]] /\ s = [i \in DOMAIN s |-> s[i]]
  OBVIOUS
<1> QED BY <1>1, <1>2, <1>3

---------------------------------------------------------------------------
(* From one state to the next, the parts of the invariant that a step       *)
(* leaves alone.                                                           *)

LEMMA TypesOf ==
  ASSUME TypeOK, NEW c \in Client
  PROVE  /\ buf[c] \in Nat /\ typed[c] \in Nat /\ wrote[c] \in Nat
         /\ shown[c] \in Seq(Nat) /\ down[c] \in Seq(Nat)
         /\ up[c] \in Seq(Nat) /\ got[c] \in Seq(Nat)
         /\ Len(shown[c]) \in Nat /\ Len(down[c]) \in Nat
         /\ Len(up[c]) \in Nat /\ Len(got[c]) \in Nat
<1>1. /\ buf[c] \in Nat /\ typed[c] \in Nat /\ wrote[c] \in Nat
      /\ shown[c] \in Seq(Nat) /\ down[c] \in Seq(Nat)
      /\ up[c] \in Seq(Nat) /\ got[c] \in Seq(Nat)
  BY DEF TypeOK
<1> QED BY <1>1

LEMMA TypesOfProcess ==
  ASSUME TypeOK, NEW p \in Proc
  PROVE  /\ conn[p] \in Client \cup {0} /\ inbuf[p] \in Seq(Nat) /\ cmdline[p] \in Nat
         /\ Len(inbuf[p]) \in Nat
<1>1. conn[p] \in Client \cup {0} /\ inbuf[p] \in Seq(Nat) /\ cmdline[p] \in Nat
  BY DEF TypeOK
<1> QED BY <1>1

LEMMA ZeroIsNobody == \A d \in Client : d # 0 /\ d \in Proc
BY RemoteAssumption DEF Proc

LEMMA BacklogOfClients ==
  ASSUME TypeOK, NEW i \in DOMAIN backlog
  PROVE  backlog[i] \in Client
<1>1. backlog \in Seq(Client)
  BY DEF TypeOK
<1> QED BY <1>1

\* Nothing happens to connection d, or it is closed.
SameUp(d) ==
  /\ buf'[d] = buf[d] /\ typed'[d] = typed[d] /\ left'[d] = left[d]
  /\ up'[d] = up[d] /\ got'[d] = got[d]
  /\ <<d, "shell">> \in reset' => <<d, "shell">> \in reset
  /\ ServerOpen(d)' => ServerOpen(d)

SameDown(d) ==
  /\ typed'[d] = typed[d] /\ left'[d] = left[d] /\ got'[d] = got[d]
  /\ shown'[d] = shown[d] /\ down'[d] = down[d] /\ wrote'[d] = wrote[d]
  /\ ServerOpen(d)' => ServerOpen(d)

LEMMA UpKept ==
  ASSUME NEW d \in Client, UpOK(d), SameUp(d)
  PROVE  UpOK(d)'
BY DEF UpOK, SameUp, Gone

LEMMA DownKept ==
  ASSUME NEW d \in Client, DownOK(d), SameDown(d)
  PROVE  DownOK(d)'
BY DEF DownOK, SameDown, Gone, Broken

\* The parts about the processes, when they and what they have read stay the same.
SameProcesses ==
  /\ UNCHANGED <<got, shared, conn, inbuf, cmdline>>
  /\ \A p \in Proc : at'[p] = "none" <=> at[p] = "none"

LEMMA ProcessesKept ==
  ASSUME SameProcesses, \A p \in Proc : ProcOK(p), \A c \in Client : FirstOK(c)
  PROVE  (\A p \in Proc : ProcOK(p)') /\ \A c \in Client : FirstOK(c)'
<1>1. ASSUME NEW p \in Proc
      PROVE  ProcOK(p)'
  <2>1. ProcOK(p)
    OBVIOUS
  <2> QED BY <2>1 DEF SameProcesses, ProcOK
<1>2. ASSUME NEW c \in Client
      PROVE  FirstOK(c)'
  <2>1. FirstOK(c) /\ c \in Proc
    BY DEF Proc
  <2> QED BY <2>1 DEF SameProcesses, FirstOK
<1> QED BY <1>1, <1>2

\* A step of client c, between its first and its last one.
ClientMoves(c) ==
  /\ left[c] = "running"
  /\ left' \in [Client -> Fates]
  /\ left'[c] # "out"
  /\ buf' \in [Client -> Nat] /\ typed' \in [Client -> Nat]
  /\ shown' \in [Client -> Seq(Nat)] /\ down' \in [Client -> Seq(Nat)]
  /\ up' \in [Client -> Seq(Nat)]
  /\ \A d \in Client \ {c} :
       /\ buf'[d] = buf[d] /\ typed'[d] = typed[d] /\ left'[d] = left[d]
       /\ shown'[d] = shown[d] /\ down'[d] = down[d] /\ up'[d] = up[d]
       /\ <<d, "shell">> \in reset' => <<d, "shell">> \in reset
  /\ UNCHANGED <<wrote, readVars, procVars, serverVars>>

LEMMA ClientMovesInv ==
  ASSUME IInv, NEW c \in Client, ClientMoves(c), UpOK(c)', DownOK(c)'
  PROVE  IInv'
<1>0. /\ TypeOK /\ AcceptedOnce
      /\ \A d \in Client : UpOK(d) /\ DownOK(d) /\ FirstOK(d)
      /\ \A p \in Proc : ProcOK(p)
  BY DEF IInv, ClientOK
<1>1. TypeOK'
  BY <1>0 DEF TypeOK, ClientMoves, readVars, procVars, shellVars, serverVars
<1>2. AcceptedOnce'
  <2>1. \A d \in Client : left'[d] = "out" <=> left[d] = "out"
    BY DEF ClientMoves
  <2>2. UNCHANGED <<got, conn, backlog, cfd, held, server>>
    BY DEF ClientMoves, readVars, procVars, serverVars
  <2> QED BY <1>0, <2>1, <2>2, BacklogOfClients DEF AcceptedOnce, Unserved
<1>3. (\A p \in Proc : ProcOK(p)') /\ \A d \in Client : FirstOK(d)'
  <2>1. SameProcesses
    BY DEF ClientMoves, SameProcesses, readVars, procVars, shellVars
  <2> QED BY <1>0, <2>1, ProcessesKept
<1>4. ASSUME NEW d \in Client, d # c
      PROVE  UpOK(d)' /\ DownOK(d)'
  <2>1. ServerOpen(d)' => ServerOpen(d)
    BY DEF ServerOpen, ClientMoves, procVars, serverVars
  <2>2. SameUp(d) /\ SameDown(d)
    BY <1>4, <2>1 DEF ClientMoves, SameUp, SameDown, readVars
  <2> QED BY <1>0, <2>2, UpKept, DownKept
<1> QED BY <1>1, <1>2, <1>3, <1>4 DEF IInv, ClientOK

\* A step of a process on connection c.
ProcessMoves(c) ==
  /\ UNCHANGED <<clientVars, serverVars>>
  /\ wrote' \in [Client -> Nat] /\ down' \in [Client -> Seq(Nat)]
  /\ up' \in [Client -> Seq(Nat)] /\ got' \in [Client -> Seq(Nat)]
  /\ conn' \in [Proc -> Client \cup {0}]
  /\ at' \in [Proc -> Places]
  /\ inbuf' \in [Proc -> Seq(Nat)] /\ cmdline' \in [Proc -> Nat]
  /\ \E p \in Proc : conn[p] = c
  /\ \A p \in Proc : conn'[p] \in {0, c, conn[p]}
  /\ \A d \in Client \ {c} :
       /\ wrote'[d] = wrote[d] /\ down'[d] = down[d] /\ up'[d] = up[d] /\ got'[d] = got[d]
       /\ <<d, "shell">> \in reset' => <<d, "shell">> \in reset

LEMMA ProcessMovesInv ==
  ASSUME IInv, NEW c \in Client, ProcessMoves(c), UpOK(c)', DownOK(c)',
         \A p \in Proc : ProcOK(p)', \A d \in Client : FirstOK(d)'
  PROVE  IInv'
<1>0. /\ TypeOK /\ AcceptedOnce
      /\ \A d \in Client : UpOK(d) /\ DownOK(d) /\ FirstOK(d)
  BY DEF IInv, ClientOK
<1>1. TypeOK'
  BY <1>0 DEF TypeOK, ProcessMoves, clientVars, serverVars
<1>2. AcceptedOnce'
  <2>1. ASSUME NEW d \in Client, Unserved(d)
        PROVE  Unserved(d)'
    <3>1. d # c /\ d # 0
      BY <2>1, ZeroIsNobody DEF Unserved, ProcessMoves
    <3>2. got'[d] = got[d]
      BY <3>1 DEF ProcessMoves
    <3> QED BY <2>1, <3>1, <3>2 DEF Unserved, ProcessMoves
  <2>2. UNCHANGED <<left, backlog, cfd, held, server>> /\ cfd \in Client \cup {0}
    BY <1>0 DEF ProcessMoves, clientVars, serverVars, TypeOK
  <2> HIDE DEF Unserved
  <2> QED BY <1>0, <2>1, <2>2, BacklogOfClients DEF AcceptedOnce
<1>3. ASSUME NEW d \in Client, d # c
      PROVE  UpOK(d)' /\ DownOK(d)'
  <2>1. ServerOpen(d)' => ServerOpen(d)
    BY <1>3, ZeroIsNobody DEF ServerOpen, ProcessMoves, serverVars
  <2>2. SameUp(d) /\ SameDown(d)
    BY <1>3, <2>1 DEF ProcessMoves, SameUp, SameDown, clientVars
  <2> QED BY <1>0, <2>2, UpKept, DownKept
<1> QED BY <1>1, <1>2, <1>3 DEF IInv, ClientOK

---------------------------------------------------------------------------
(* From the client: what a step does to the lines.                         *)

\* The client reads a line.
LEMMA UpTyped ==
  ASSUME NEW c \in Client, TypeOK, UpOK(c), left[c] = "running", buf[c] = 0,
         buf'[c] = typed[c] + 1, typed'[c] = typed[c] + 1,
         left'[c] = left[c], up'[c] = up[c], got'[c] = got[c],
         <<c, "shell">> \in reset' => <<c, "shell">> \in reset,
         ServerOpen(c)' => ServerOpen(c)
  PROVE  UpOK(c)'
<1> DEFINE g == Len(got[c])  u == Len(up[c])
<1>1. typed[c] \in Nat /\ u \in Nat /\ g \in Nat
  BY TypesOf
<1>2. /\ CountsFrom(0, got[c]) /\ CountsFrom(g, up[c])
      /\ g + u <= typed[c] /\ (ServerOpen(c) => typed[c] = g + u)
  BY DEF UpOK
<1>3. <<c, "shell">> \in reset' => Gone(c)'
  BY DEF UpOK, Gone
<1>4. g = Len(got'[c]) /\ u = Len(up'[c])
  OBVIOUS
<1> HIDE DEF g, u
<1>5. /\ typed[c] + 1 # 0 /\ g + u <= typed[c] + 1 /\ g + u < typed[c] + 1
      /\ ServerOpen(c) => typed[c] + 1 = g + u + 1
  BY <1>1, <1>2
<1>6. CountsFrom(0, got'[c]) /\ CountsFrom(Len(got'[c]), up'[c])
  BY <1>2 DEF g
<1> QED BY <1>3, <1>4, <1>5, <1>6 DEF UpOK

\* It sends it.
LEMMA UpSent ==
  ASSUME NEW c \in Client, TypeOK, UpOK(c), left[c] = "running", buf[c] # 0, ServerOpen(c),
         buf'[c] = 0, up'[c] = Append(up[c], buf[c]),
         typed'[c] = typed[c], left'[c] = left[c], got'[c] = got[c],
         <<c, "shell">> \in reset' => <<c, "shell">> \in reset
  PROVE  UpOK(c)'
<1> DEFINE g == got[c]  u == up[c]
<1>1. u \in Seq(Nat) /\ Len(g) \in Nat /\ Len(u) \in Nat
  BY TypesOf
<1>2. /\ CountsFrom(0, g) /\ CountsFrom(Len(g), u)
      /\ buf[c] = typed[c] /\ typed[c] = Len(g) + Len(u) + 1
  BY DEF UpOK
<1>3. CountsFrom(Len(g), Append(u, buf[c])) /\ Len(Append(u, buf[c])) = Len(u) + 1
  BY <1>1, <1>2, CountsOn
<1>4. <<c, "shell">> \in reset' => Gone(c)'
  BY DEF UpOK, Gone
<1> HIDE DEF g, u
<1>5. typed[c] = Len(g) + (Len(u) + 1) /\ typed[c] <= typed[c]
  BY <1>1, <1>2
<1>6. got'[c] = g /\ up'[c] = Append(u, buf[c])
  BY DEF g, u
<1>7. /\ CountsFrom(0, got'[c]) /\ CountsFrom(Len(got'[c]), up'[c])
      /\ Len(got'[c]) + Len(up'[c]) = typed'[c] /\ typed'[c] <= typed'[c]
  BY <1>2, <1>3, <1>5, <1>6
<1> QED BY <1>4, <1>7 DEF UpOK

\* Lines are lost, or the one in buf, and no more will come.
LEMMA UpLost ==
  ASSUME NEW c \in Client, TypeOK, UpOK(c),
         up'[c] \in Seq(Nat), CountsFrom(Len(got[c]), up'[c]), Len(up'[c]) <= Len(up[c]),
         buf'[c] \in {0, buf[c]}, buf'[c] # 0 => left'[c] = "running",
         typed'[c] = typed[c], got'[c] = got[c],
         left'[c] = "out" => left[c] = "out",
         <<c, "shell">> \in reset' => Gone(c)',
         ~ServerOpen(c)' \/ left'[c] # "running"
  PROVE  UpOK(c)'
<1> DEFINE g == got[c]  u == up[c]  v == up'[c]
<1>1. /\ Len(g) \in Nat /\ Len(u) \in Nat /\ Len(v) \in Nat /\ typed[c] \in Nat
      /\ u \in Seq(Nat) /\ (v = <<>> <=> Len(v) = 0)
  BY TypesOf
<1>2. /\ CountsFrom(0, g) /\ Len(g) + Len(u) <= typed[c]
      /\ buf[c] # 0 => Len(g) + Len(u) < typed[c]
      /\ left[c] = "out" => typed[c] = 0 /\ Len(u) = 0
  BY EmptyChannel DEF UpOK
<1> HIDE DEF g, u, v
<1>3. /\ Len(g) + Len(v) <= typed[c]
      /\ buf[c] # 0 => Len(g) + Len(v) < typed[c]
      /\ left[c] = "out" => typed[c] = 0 /\ v = <<>>
  BY <1>1, <1>2 DEF u, v
<1>4. got'[c] = g /\ up'[c] = v /\ CountsFrom(Len(g), v)
  BY DEF g, v
<1> QED BY <1>2, <1>3, <1>4 DEF UpOK

\* A process takes n lines.
LEMMA UpTaken ==
  ASSUME NEW c \in Client, TypeOK, UpOK(c), NEW n \in 1 .. Len(up[c]),
         got'[c] = got[c] \o SubSeq(up[c], 1, n), up'[c] = SubSeq(up[c], n + 1, Len(up[c])),
         buf'[c] = buf[c], typed'[c] = typed[c], left'[c] = left[c],
         <<c, "shell">> \in reset' => <<c, "shell">> \in reset,
         ServerOpen(c)
  PROVE  /\ UpOK(c)' /\ got'[c] \in Seq(Nat) /\ Len(got'[c]) = Len(got[c]) + n
         /\ up'[c] \in Seq(Nat)
<1> DEFINE g == got[c]  u == up[c]  t == SubSeq(u, 1, n)
           h == got'[c]  v == up'[c]
<1>1. /\ g \in Seq(Nat) /\ u \in Seq(Nat) /\ Len(g) \in Nat /\ Len(u) \in Nat
      /\ n \in Nat /\ n >= 1 /\ n <= Len(u)
  BY TypesOf
<1>2. CountsFrom(0, g) /\ CountsFrom(Len(g), u)
  BY DEF UpOK
<1>3. t \in Seq(Nat) /\ Len(t) = n /\ CountsFrom(Len(g), t)
  <2>1. n \in 0 .. Len(u)
    BY <1>1
  <2> HIDE DEF g, u
  <2> QED BY <1>1, <1>2, <2>1, Cut
<1>4. v \in Seq(Nat) /\ Len(v) = Len(u) - n /\ CountsFrom(Len(g) + n, v)
  <2>1. n \in 0 .. Len(u) /\ Len(u) \in n .. Len(u) /\ v = SubSeq(u, n + 1, Len(u))
    BY <1>1
  <2> HIDE DEF g, u, v
  <2> QED BY <1>1, <1>2, <2>1, Stretch
<1>5. h \in Seq(Nat) /\ Len(h) = Len(g) + n /\ CountsFrom(0, h)
  BY <1>1, <1>2, <1>3, CountsJoined
<1>6. u # <<>>
  BY <1>1
<1>7. /\ buf[c] # 0 => left[c] = "running"
      /\ left[c] # "out"
      /\ <<c, "shell">> \in reset => Gone(c)
      /\ Len(g) + Len(u) <= typed[c]
      /\ buf[c] # 0 => Len(g) + Len(u) < typed[c]
      /\ left[c] = "running" =>
           /\ buf[c] = 0 => typed[c] = Len(g) + Len(u)
           /\ buf[c] # 0 => buf[c] = typed[c] /\ typed[c] = Len(g) + Len(u) + 1
  BY <1>6 DEF UpOK
<1>8. Gone(c)' <=> Gone(c)
  BY DEF Gone
<1> HIDE DEF g, u, t, h, v
<1>9. Len(h) + Len(v) = Len(g) + Len(u)
  BY <1>1, <1>4, <1>5
<1>10. h = got'[c] /\ v = up'[c] /\ g = got[c]
  BY DEF h, v, g
<1>11. UpOK(c)'
  BY <1>4, <1>5, <1>7, <1>8, <1>9, <1>10 DEF UpOK
<1> QED BY <1>4, <1>5, <1>10, <1>11

---------------------------------------------------------------------------
(* To the client: what a step does to the output.                          *)

LEMMA DownSame ==
  ASSUME NEW c \in Client, DownOK(c), left[c] # "disconnected",
         shown'[c] = shown[c], down'[c] = down[c], wrote'[c] = wrote[c], left'[c] = left[c],
         Broken(c) => Broken(c)'
  PROVE  DownOK(c)'
BY DEF DownOK, Gone

\* The client shows a chunk.
LEMMA DownShown ==
  ASSUME NEW c \in Client, TypeOK, DownOK(c), left[c] = "running", down[c] # <<>>,
         shown'[c] = Append(shown[c], Head(down[c])), down'[c] = Tail(down[c]),
         wrote'[c] = wrote[c], left'[c] = left[c], Broken(c) => Broken(c)'
  PROVE  DownOK(c)'
<1> DEFINE s == shown[c]  d == down[c]
<1>1. s \in Seq(Nat) /\ d \in Seq(Nat) /\ Len(s) \in Nat
  BY TypesOf
<1>2. /\ CountsFrom(0, s) /\ CountsFrom(Len(s), d)
      /\ wrote[c] = Len(s) + Len(d) \/ Broken(c)
  BY DEF DownOK, Gone
<1>3. /\ CountsFrom(Len(s) + 1, Tail(d)) /\ Head(d) = Len(s) + 1
      /\ Tail(d) \in Seq(Nat) /\ Len(d) = Len(Tail(d)) + 1
  BY <1>1, <1>2, CountsAfter
<1>4. Head(d) = 0 + Len(s) + 1 /\ Len(Tail(d)) \in Nat
  BY <1>1, <1>3
<1>5. CountsFrom(0, Append(s, Head(d))) /\ Len(Append(s, Head(d))) = Len(s) + 1
  BY <1>1, <1>2, <1>4, CountsOn
<1>6. shown'[c] = Append(s, Head(d)) /\ down'[c] = Tail(d)
  OBVIOUS
<1> HIDE DEF s, d
<1>7. Len(s) + Len(d) = Len(s) + 1 + Len(Tail(d))
  BY <1>1, <1>3, <1>4
<1> QED BY <1>2, <1>3, <1>5, <1>6, <1>7 DEF DownOK

\* A process writes a chunk.
LEMMA DownWritten ==
  ASSUME NEW c \in Client, TypeOK, DownOK(c), ~Gone(c), ServerOpen(c),
         down'[c] = Append(down[c], wrote[c] + 1), wrote'[c] = wrote[c] + 1,
         shown'[c] = shown[c], left'[c] = left[c]
  PROVE  DownOK(c)'
<1> DEFINE s == shown[c]  d == down[c]
<1>1. s \in Seq(Nat) /\ d \in Seq(Nat) /\ Len(s) \in Nat /\ Len(d) \in Nat
  BY TypesOf
<1>2. /\ CountsFrom(0, s) /\ CountsFrom(Len(s), d)
      /\ wrote[c] = Len(s) + Len(d)
  BY DEF DownOK, Broken
<1>3. CountsFrom(Len(s), Append(d, wrote[c] + 1)) /\ Len(Append(d, wrote[c] + 1)) = Len(d) + 1
  BY <1>1, <1>2, CountsOn
<1>4. left'[c] # "disconnected"
  BY DEF Gone
<1>5. shown'[c] = s /\ down'[c] = Append(d, wrote[c] + 1)
  OBVIOUS
<1> HIDE DEF s, d
<1>6. wrote[c] + 1 = Len(s) + (Len(d) + 1)
  BY <1>1, <1>2
<1> QED BY <1>2, <1>3, <1>4, <1>5, <1>6 DEF DownOK

\* A reset cuts what is on its way off.
LEMMA DownCutOff ==
  ASSUME NEW c \in Client, TypeOK, DownOK(c), left'[c] # "disconnected", Broken(c)',
         shown'[c] = shown[c], NEW n \in 0 .. Len(down[c]), down'[c] = SubSeq(down[c], 1, n)
  PROVE  DownOK(c)' /\ down'[c] \in Seq(Nat)
<1> DEFINE s == shown[c]  d == down[c]
<1>1. d \in Seq(Nat) /\ Len(s) \in Nat /\ Len(d) \in Nat
  BY TypesOf
<1>2. CountsFrom(0, s) /\ CountsFrom(Len(s), d)
  BY DEF DownOK
<1>3. SubSeq(d, 1, n) \in Seq(Nat) /\ CountsFrom(Len(s), SubSeq(d, 1, n))
  BY <1>1, <1>2, Cut
<1> QED BY <1>2, <1>3 DEF DownOK

\* The client leaves.
LEMMA DownLeft ==
  ASSUME NEW c \in Client, DownOK(c), Gone(c)', down'[c] = <<>>, shown'[c] = shown[c],
         left'[c] = "disconnected" =>
           ~ServerOpen(c)' /\ (wrote'[c] = Len(shown[c]) \/ Broken(c)')
  PROVE  DownOK(c)'
BY EmptyChannel DEF DownOK, CountsFrom, Broken

---------------------------------------------------------------------------
(* The client's steps.                                                     *)

LEMMA PartsOf ==
  ASSUME IInv
  PROVE  /\ TypeOK /\ AcceptedOnce
         /\ \A c \in Client : UpOK(c) /\ DownOK(c) /\ FirstOK(c)
         /\ \A p \in Proc : ProcOK(p)
BY DEF IInv, ClientOK

LEMMA ClientKeepsOpen ==
  ASSUME NEW c, UNCHANGED <<procVars, serverVars>>
  PROVE  ServerOpen(c)' <=> ServerOpen(c)
BY DEF ServerOpen, procVars, serverVars

LEMMA ShowInv ==
  ASSUME IInv, NEW c \in Client, Show(c), left[c] = "running", down[c] # <<>>
  PROVE  IInv'
<1>0. TypeOK /\ UpOK(c) /\ DownOK(c)
  BY PartsOf
<1>1. /\ UNCHANGED <<input, buf, typed, left, up, reset, dead, wrote, readVars, procVars, serverVars>>
      /\ shown' = [shown EXCEPT ![c] = Append(@, Head(down[c]))]
      /\ down' = [down EXCEPT ![c] = Tail(@)]
  BY DEF Show
<1>2. /\ shown[c] \in Seq(Nat) /\ down[c] \in Seq(Nat)
      /\ shown \in [Client -> Seq(Nat)] /\ down \in [Client -> Seq(Nat)]
  BY <1>0 DEF TypeOK
<1>3. Tail(down[c]) \in Seq(Nat) /\ Append(shown[c], Head(down[c])) \in Seq(Nat)
  BY <1>2, Removed, Appended
<1>4. shown' \in [Client -> Seq(Nat)] /\ down' \in [Client -> Seq(Nat)]
  BY <1>1, <1>2, <1>3
<1>5. ClientMoves(c)
  BY <1>0, <1>1, <1>2, <1>4 DEF ClientMoves, TypeOK
<1>6. ServerOpen(c)' <=> ServerOpen(c)
  BY <1>1, ClientKeepsOpen
<1>7. UpOK(c)'
  BY <1>0, <1>1, <1>6, UpKept DEF SameUp, readVars
<1>8. Broken(c) => Broken(c)'
  BY <1>1, <1>6 DEF Broken, readVars
<1>9. DownOK(c)'
  BY <1>0, <1>1, <1>2, <1>8, DownShown
<1> QED BY <1>5, <1>7, <1>9, ClientMovesInv

LEMMA LeaveInv ==
  ASSUME IInv, NEW c \in Client, NEW why, why \in Fates, why \notin {"out", "running"},
         Leave(c, why), left[c] = "running",
         why = "disconnected" => ~ServerOpen(c) /\ down[c] = <<>>
  PROVE  IInv'
<1>0. TypeOK /\ UpOK(c) /\ DownOK(c)
  BY PartsOf
<1>1. /\ UNCHANGED <<input, typed, shown, wrote, readVars, procVars, serverVars>>
      /\ left' = [left EXCEPT ![c] = why] /\ buf' = [buf EXCEPT ![c] = 0]
      /\ down' = [down EXCEPT ![c] = <<>>]
      /\ \/ reset' = reset \cup {<<c, "shell">>} /\ UpCut(c)
         \/ reset' = reset \ {<<c, "client">>} /\ up' = up
  BY DEF Leave, ResetTo
<1>2. /\ down \in [Client -> Seq(Nat)] /\ up \in [Client -> Seq(Nat)] /\ up[c] \in Seq(Nat)
      /\ buf \in [Client -> Nat] /\ Len(up[c]) \in Nat
      /\ left \in [Client -> Fates]
      /\ CountsFrom(Len(got[c]), up[c]) /\ Len(got[c]) \in Nat
  BY <1>0, TypesOf DEF TypeOK, UpOK
<1>3. /\ up' \in [Client -> Seq(Nat)] /\ \A d \in Client \ {c} : up'[d] = up[d]
      /\ up'[c] \in Seq(Nat) /\ CountsFrom(Len(got[c]), up'[c]) /\ Len(up'[c]) <= Len(up[c])
  <2>1. CASE UpCut(c)
    <3>1. PICK n \in 0 .. Len(up[c]) : up' = [up EXCEPT ![c] = SubSeq(@, 1, n)]
      BY <2>1 DEF UpCut
    <3>2. /\ SubSeq(up[c], 1, n) \in Seq(Nat) /\ Len(SubSeq(up[c], 1, n)) <= Len(up[c])
          /\ CountsFrom(Len(got[c]), SubSeq(up[c], 1, n))
      BY <1>2, <3>1, Cut
    <3>3. up'[c] = SubSeq(up[c], 1, n)
      BY <1>2, <3>1
    <3>4. up' \in [Client -> Seq(Nat)] /\ \A d \in Client \ {c} : up'[d] = up[d]
      BY <1>2, <3>1, <3>2
    <3> QED BY <3>2, <3>3, <3>4
  <2>2. CASE up' = up
    <3>1. up'[c] = up[c] /\ Len(up[c]) <= Len(up[c])
      BY <1>2, <2>2, NoLonger
    <3> QED BY <1>2, <2>2, <3>1
  <2> QED BY <1>1, <2>1, <2>2
<1>4. /\ down' \in [Client -> Seq(Nat)] /\ buf' \in [Client -> Nat]
      /\ left' \in [Client -> Fates]
  BY <1>1, <1>2, EmptyChannel
<1>5. /\ left'[c] = why /\ buf'[c] = 0 /\ down'[c] = <<>> /\ Gone(c)'
      /\ typed'[c] = typed[c] /\ shown'[c] = shown[c] /\ wrote'[c] = wrote[c]
      /\ got'[c] = got[c]
  BY <1>1, <1>2 DEF Gone, readVars, Fates
<1>6. ClientMoves(c)
  <2>1. \A d \in Client \ {c} : <<d, "shell">> \in reset' => <<d, "shell">> \in reset
    <3>1. reset' \subseteq reset \cup {<<c, "shell">>}
      BY <1>1
    <3> QED BY <3>1
  <2>2. \A d \in Client \ {c} : /\ buf'[d] = buf[d] /\ left'[d] = left[d] /\ down'[d] = down[d]
    BY <1>1, <1>2
  <2> QED BY <1>0, <1>1, <1>3, <1>4, <1>5, <2>1, <2>2 DEF ClientMoves, TypeOK
<1>7. UpOK(c)'
  BY <1>0, <1>3, <1>5, UpLost
<1>8. DownOK(c)'
  <2>1. ASSUME why = "disconnected"
        PROVE  ~ServerOpen(c)' /\ (wrote'[c] = Len(shown[c]) \/ Broken(c)')
    <3>1. ~ServerOpen(c)'
      BY <1>1, <2>1, ClientKeepsOpen
    <3>2. wrote[c] = Len(shown[c]) + Len(down[c]) \/ Broken(c)
      BY <1>0 DEF DownOK, Gone
    <3>3. Len(down[c]) = 0 /\ Len(shown[c]) \in Nat /\ Len(shown[c]) + 0 = Len(shown[c])
      BY <1>0, <2>1, EmptyChannel, TypesOf
    <3>4. wrote[c] = Len(shown[c]) + Len(down[c]) => wrote[c] = Len(shown[c])
      BY <3>3
    <3>5. Broken(c) => Broken(c)'
      BY <1>5, <3>1 DEF Broken
    <3> QED BY <1>5, <3>1, <3>2, <3>4, <3>5
  <2> QED BY <1>0, <1>5, <2>1, DownLeft
<1> QED BY <1>6, <1>7, <1>8, ClientMovesInv

LEMMA ReceiveInv ==
  ASSUME IInv, NEW c \in Client, Receive(c)
  PROVE  IInv'
<1>0. TypeOK /\ UpOK(c) /\ DownOK(c) /\ left[c] = "running" /\ Readable(c)
  BY PartsOf DEF Receive, Idle
<1>1. CASE down[c] # <<>> /\ Show(c)
  BY <1>0, <1>1, ShowInv
<1>2. CASE /\ reset' = reset \ {<<c, "client">>}
           /\ UNCHANGED <<input, buf, typed, shown, left, up, down, dead, wrote,
                          readVars, procVars, serverVars>>
  <2>1. ClientMoves(c)
    BY <1>0, <1>2 DEF ClientMoves, TypeOK
  <2>2. ServerOpen(c)' => ServerOpen(c)
    BY <1>2, ClientKeepsOpen
  <2>3. SameUp(c) /\ SameDown(c)
    BY <1>2, <2>2 DEF SameUp, SameDown, readVars
  <2> QED BY <1>0, <2>1, <2>3, UpKept, DownKept, ClientMovesInv
<1>3. CASE down[c] = <<>> /\ <<c, "client">> \notin reset /\ Leave(c, "disconnected")
  <2>1. ~ServerOpen(c)
    BY <1>0, <1>3 DEF Readable
  <2> QED BY <1>0, <1>3, <2>1, LeaveInv DEF Fates
<1> QED BY <1>1, <1>2, <1>3 DEF Receive

LEMMA ReadInputInv ==
  ASSUME IInv, NEW c \in Client, ReadInput(c)
  PROVE  IInv'
<1>0. TypeOK /\ UpOK(c) /\ DownOK(c) /\ left[c] = "running" /\ buf[c] = 0
  BY PartsOf DEF ReadInput, Idle
<1>1. CASE Leave(c, "end of input")
  BY <1>0, <1>1, LeaveInv DEF Fates
<1>2. CASE /\ typed' = [typed EXCEPT ![c] = @ + 1]
           /\ buf' = [buf EXCEPT ![c] = typed[c] + 1]
           /\ UNCHANGED <<input, shown, left, connVars, readVars, procVars, serverVars>>
  <2>1. typed \in [Client -> Nat] /\ buf \in [Client -> Nat] /\ typed[c] \in Nat
    BY <1>0 DEF TypeOK
  <2>2. /\ typed' \in [Client -> Nat] /\ buf' \in [Client -> Nat]
        /\ typed'[c] = typed[c] + 1 /\ buf'[c] = typed[c] + 1
        /\ \A d \in Client \ {c} : typed'[d] = typed[d] /\ buf'[d] = buf[d]
    BY <1>2, <2>1
  <2>3. ClientMoves(c)
    BY <1>0, <1>2, <2>2 DEF ClientMoves, TypeOK, connVars
  <2>4. ServerOpen(c)' <=> ServerOpen(c)
    BY <1>2, ClientKeepsOpen
  <2>5. UpOK(c)'
    BY <1>0, <1>2, <2>2, <2>4, UpTyped DEF connVars, readVars
  <2>6. Broken(c) => Broken(c)'
    <3>1. Len(got[c]) < typed[c] => Len(got[c]) < typed[c] + 1
      BY <1>0, <2>1, TypesOf
    <3> QED BY <1>2, <2>2, <2>4, <3>1 DEF Broken, readVars
  <2>7. DownOK(c)'
    BY <1>0, <1>2, <2>6, DownSame DEF connVars
  <2> QED BY <2>3, <2>5, <2>7, ClientMovesInv
<1> QED BY <1>1, <1>2 DEF ReadInput

LEMMA SendInv ==
  ASSUME IInv, NEW c \in Client, Send(c)
  PROVE  IInv'
<1>0. /\ TypeOK /\ UpOK(c) /\ DownOK(c) /\ left[c] = "running" /\ buf[c] # 0
  BY PartsOf DEF Send, UpOK
<1>1. CASE Leave(c, "killed")
  BY <1>0, <1>1, LeaveInv DEF Fates
<1>2. CASE /\ \/ /\ ServerOpen(c)
                 /\ up' = [up EXCEPT ![c] = Append(@, buf[c])]
                 /\ UNCHANGED <<down, reset, dead>>
              \/ ~ServerOpen(c) /\ ResetTo(c, "client") /\ DownCut(c) /\ UNCHANGED up
              \/ /\ ~ServerOpen(c) /\ reset' = reset \ {<<c, "client">>}
                 /\ UNCHANGED <<up, down, dead>>
           /\ buf' = [buf EXCEPT ![c] = 0]
           /\ UNCHANGED <<input, typed, shown, left, wrote, readVars, procVars, serverVars>>
  <2>1. /\ buf \in [Client -> Nat] /\ up \in [Client -> Seq(Nat)] /\ down \in [Client -> Seq(Nat)]
        /\ buf[c] \in Nat /\ up[c] \in Seq(Nat) /\ typed[c] \in Nat
        /\ Len(got[c]) \in Nat /\ Len(up[c]) \in Nat
        /\ CountsFrom(Len(got[c]), up[c]) /\ Len(got[c]) + Len(up[c]) < typed[c]
    BY <1>0, TypesOf DEF TypeOK, UpOK
  <2>2. /\ buf' \in [Client -> Nat] /\ buf'[c] = 0
        /\ \A d \in Client \ {c} : buf'[d] = buf[d]
    BY <1>2, <2>1
  <2>3. /\ typed'[c] = typed[c] /\ left'[c] = left[c] /\ got'[c] = got[c]
        /\ shown'[c] = shown[c] /\ wrote'[c] = wrote[c]
        /\ ServerOpen(c)' <=> ServerOpen(c)
    BY <1>2, ClientKeepsOpen DEF readVars
  <2>4. Len(got[c]) < typed[c]
    BY <2>1
  <2>5. CASE ServerOpen(c) /\ up' = [up EXCEPT ![c] = Append(@, buf[c])] /\ UNCHANGED <<down, reset>>
    <3>1. up' \in [Client -> Seq(Nat)] /\ up'[c] = Append(up[c], buf[c])
          /\ \A d \in Client \ {c} : up'[d] = up[d]
      BY <2>1, <2>5, Appended
    <3>2. ClientMoves(c)
      BY <1>0, <1>2, <2>2, <2>5, <3>1 DEF ClientMoves, TypeOK
    <3>3. UpOK(c)'
      BY <1>0, <2>2, <2>3, <2>5, <3>1, UpSent
    <3>4. DownOK(c)'
      BY <1>0, <2>3, <2>5, DownKept DEF SameDown
    <3> QED BY <3>2, <3>3, <3>4, ClientMovesInv
  <2>6. CASE ~ServerOpen(c) /\ UNCHANGED up
    <3>1. UpOK(c)'
      <4>1. <<c, "shell">> \in reset' => Gone(c)'
        <5>1. <<c, "shell">> \in reset => Gone(c)
          BY <1>0 DEF UpOK
        <5>2. <<c, "shell">> \in reset' => <<c, "shell">> \in reset
          BY <1>2 DEF ResetTo
        <5> QED BY <2>3, <5>1, <5>2 DEF Gone
      <4>2. up'[c] = up[c] /\ Len(up'[c]) <= Len(up[c])
        BY <2>1, <2>6
      <4> QED BY <1>0, <2>1, <2>2, <2>3, <2>6, <4>1, <4>2, UpLost
    <3>2. DownOK(c)' /\ down' \in [Client -> Seq(Nat)] /\ \A d \in Client \ {c} : down'[d] = down[d]
      <4>1. CASE UNCHANGED down
        BY <1>0, <2>1, <2>3, <4>1, DownKept DEF SameDown
      <4>2. CASE DownCut(c)
        <5>1. PICK n \in 0 .. Len(down[c]) : down' = [down EXCEPT ![c] = SubSeq(@, 1, n)]
          BY <4>2 DEF DownCut
        <5>2. down'[c] = SubSeq(down[c], 1, n) /\ Broken(c)'
          BY <2>1, <2>3, <2>4, <2>6, <5>1 DEF Broken
        <5>3. DownOK(c)' /\ down'[c] \in Seq(Nat)
          BY <1>0, <2>3, <5>2, DownCutOff
        <5> QED BY <2>1, <5>1, <5>2, <5>3
      <4> QED BY <1>2, <2>6, <4>1, <4>2
    <3>3. ClientMoves(c)
      <4>1. \A d \in Client \ {c} : <<d, "shell">> \in reset' => <<d, "shell">> \in reset
        BY <1>2 DEF ResetTo
      <4> QED BY <1>0, <1>2, <2>1, <2>2, <2>6, <3>2, <4>1 DEF ClientMoves, TypeOK
    <3> QED BY <3>1, <3>2, <3>3, ClientMovesInv
  <2> QED BY <1>2, <2>5, <2>6
<1> QED BY <1>1, <1>2 DEF Send

LEMMA ConnectInv ==
  ASSUME IInv, NEW c \in Client, Connect(c)
  PROVE  IInv'
<1>0. /\ TypeOK /\ AcceptedOnce
      /\ \A d \in Client : UpOK(d) /\ DownOK(d) /\ FirstOK(d)
      /\ \A p \in Proc : ProcOK(p)
  BY PartsOf
<1>1. /\ left[c] = "out" /\ left' = [left EXCEPT ![c] = "running"]
      /\ backlog' = Append(backlog, c)
      /\ UNCHANGED <<input, buf, typed, shown, connVars, readVars, procVars,
                     cfd, held, server, children>>
  BY DEF Connect
<1>2. /\ left \in [Client -> Fates]
      /\ backlog \in Seq(Client)
  BY <1>0 DEF TypeOK
<1>3. /\ left' \in [Client -> Fates]
      /\ left'[c] = "running" /\ \A d \in Client \ {c} : left'[d] = left[d]
  BY <1>1, <1>2 DEF Fates
<1>4. /\ backlog' \in Seq(Client) /\ Len(backlog) \in Nat
      /\ DOMAIN backlog = 1 .. Len(backlog) /\ DOMAIN backlog' = 1 .. Len(backlog) + 1
      /\ \A i \in 1 .. Len(backlog) : backlog'[i] = backlog[i]
      /\ backlog'[Len(backlog) + 1] = c
  <2>0. backlog \in Seq(Client)
    BY <1>2
  <2>1. DOMAIN backlog = 1 .. Len(backlog) /\ Len(backlog) \in Nat
    BY <2>0
  <2>2. /\ Append(backlog, c) \in Seq(Client) /\ Append(backlog, c)[Len(backlog) + 1] = c
        /\ DOMAIN Append(backlog, c) = 1 .. Len(backlog) + 1
        /\ \A i \in 1 .. Len(backlog) : Append(backlog, c)[i] = backlog[i]
    BY <2>0
  <2> QED BY <1>1, <2>1, <2>2
<1>5. TypeOK'
  BY <1>0, <1>1, <1>3, <1>4 DEF TypeOK, connVars, readVars, procVars, shellVars
<1>6. AcceptedOnce'
  <2>1. \A d \in Client : Unserved(d)' <=> Unserved(d)
    BY <1>1 DEF Unserved, readVars, procVars
  <2>2. Unserved(c) /\ c \notin held
    BY <1>0, <1>1 DEF AcceptedOnce
  <2>3. \A i \in 1 .. Len(backlog) :
          /\ backlog[i] \in Client /\ Unserved(backlog[i])
          /\ left[backlog[i]] # "out" /\ backlog[i] \notin held /\ backlog[i] # c
          /\ \A j \in 1 .. Len(backlog) : backlog[i] = backlog[j] => i = j
    BY <1>0, <1>1, <1>4, BacklogOfClients DEF AcceptedOnce
  <2>4. \A i \in DOMAIN backlog' : i \in 1 .. Len(backlog) \/ i = Len(backlog) + 1
    BY <1>4
  <2>5. \A d \in Client : left'[d] = "out" => Unserved(d)' /\ d \notin held'
    BY <1>0, <1>1, <1>3, <2>1 DEF AcceptedOnce
  <2>6. ASSUME NEW i \in DOMAIN backlog'
        PROVE  /\ Unserved(backlog[i])' /\ left'[backlog'[i]] # "out" /\ backlog'[i] \notin held'
               /\ \A j \in DOMAIN backlog' : backlog'[i] = backlog'[j] => i = j
    <3>1. CASE i \in 1 .. Len(backlog)
      <4>1. backlog'[i] = backlog[i] /\ backlog[i] \in Client /\ backlog[i] # c
        BY <1>4, <2>3, <3>1
      <4>2. Unserved(backlog[i])' /\ left'[backlog'[i]] # "out" /\ backlog'[i] \notin held'
        <5>1. Unserved(backlog[i])'
          BY <1>1, <2>3, <3>1, <4>1 DEF Unserved, readVars, procVars
        <5> QED BY <1>1, <1>3, <2>3, <3>1, <4>1, <5>1
      <4>3. \A j \in DOMAIN backlog' : backlog'[i] = backlog'[j] => i = j
        BY <1>4, <2>3, <2>4, <3>1, <4>1
      <4> QED BY <4>2, <4>3
    <3>2. CASE i = Len(backlog) + 1
      <4>1. backlog'[i] = c
        BY <1>4, <3>2
      <4>2. Unserved(backlog[i])'
        BY <1>1, <2>2, <4>1 DEF Unserved, readVars, procVars
      <4>3. \A j \in DOMAIN backlog' : backlog'[i] = backlog'[j] => i = j
        BY <1>4, <2>3, <2>4, <3>2, <4>1
      <4> QED BY <1>1, <1>3, <2>2, <4>1, <4>2, <4>3
    <3> QED BY <2>4, <3>1, <3>2
  <2>7. server' = "fork" /\ cfd' # 0 => cfd' \in held' /\ Unserved(cfd)'
    BY <1>0, <1>1 DEF AcceptedOnce, Unserved, readVars, procVars
  <2> QED BY <2>5, <2>6, <2>7 DEF AcceptedOnce
<1>7. (\A p \in Proc : ProcOK(p)') /\ \A d \in Client : FirstOK(d)'
  <2>1. SameProcesses
    BY <1>1 DEF SameProcesses, readVars, procVars, shellVars
  <2> QED BY <1>0, <2>1, ProcessesKept
<1>8. ASSUME NEW d \in Client, d # c
      PROVE  UpOK(d)' /\ DownOK(d)'
  <2>1. ServerOpen(d)' => ServerOpen(d)
    <3>1. ASSUME NEW i \in DOMAIN backlog', backlog'[i] = d
          PROVE  \E j \in DOMAIN backlog : backlog[j] = d
      <4>1. i \in 1 .. Len(backlog)
        BY <1>4, <1>8, <3>1
      <4> QED BY <1>4, <3>1, <4>1
    <3> QED BY <1>1, <3>1 DEF ServerOpen, procVars
  <2>2. SameUp(d) /\ SameDown(d)
    BY <1>1, <1>3, <1>8, <2>1 DEF SameUp, SameDown, connVars, readVars
  <2> QED BY <1>0, <2>2, UpKept, DownKept
<1>9. UpOK(c)' /\ DownOK(c)'
  <2>1. /\ typed[c] = 0 /\ up[c] = <<>> /\ got[c] = <<>> /\ buf[c] = 0
        /\ <<c, "shell">> \notin reset
    BY <1>0, <1>1 DEF UpOK, AcceptedOnce, Unserved, Gone
  <2>2. /\ typed'[c] = 0 /\ up'[c] = <<>> /\ got'[c] = <<>> /\ buf'[c] = 0
        /\ <<c, "shell">> \notin reset' /\ left'[c] = "running"
    BY <1>1, <1>3, <2>1 DEF connVars, readVars
  <2>3. UpOK(c)'
    <3>1. Len(<<>>) = 0 /\ 0 + 0 = 0 /\ 0 <= 0
      BY EmptyChannel
    <3> QED BY <2>2, <3>1, EmptyChannel DEF UpOK, CountsFrom
  <2>4. wrote[c] = Len(shown[c]) + Len(down[c])
    <3>1. ~(Len(got[c]) < typed[c])
      BY <2>1, EmptyChannel
    <3> QED BY <1>0, <1>1, <3>1 DEF DownOK, Gone, Broken
  <2>5. DownOK(c)'
    BY <1>0, <1>1, <1>3, <2>4 DEF DownOK, connVars
  <2> QED BY <2>3, <2>5
<1> QED BY <1>5, <1>6, <1>7, <1>8, <1>9 DEF IInv, ClientOK

LEMMA ClientStepInv ==
  ASSUME IInv, NEW c \in Client, ClientStep(c)
  PROVE  IInv'
BY ConnectInv, ReceiveInv, ReadInputInv, SendInv DEF ClientStep

---------------------------------------------------------------------------
(* Steps that concern no connection's contents: the server's, and most of   *)
(* the processes'.                                                         *)

LEMMA AsideInv ==
  ASSUME IInv, TypeOK', AcceptedOnce',
         UNCHANGED <<clientVars, up, down, wrote, readVars>>, reset' \subseteq reset,
         \A d \in Client : ServerOpen(d)' => ServerOpen(d),
         \A p \in Proc : ProcOK(p)', \A d \in Client : FirstOK(d)'
  PROVE  IInv'
<1>1. ASSUME NEW d \in Client
      PROVE  UpOK(d)' /\ DownOK(d)'
  <2>1. UpOK(d) /\ DownOK(d)
    BY PartsOf
  <2>2. SameUp(d) /\ SameDown(d)
    BY DEF SameUp, SameDown, clientVars, readVars
  <2> QED BY <2>1, <2>2, UpKept, DownKept
<1> QED BY <1>1 DEF IInv, ClientOK

LEMMA AcceptInv ==
  ASSUME IInv, Accept
  PROVE  IInv'
<1>0. TypeOK /\ AcceptedOnce
  BY PartsOf
<1>1. /\ backlog # <<>> /\ cfd' = Head(backlog) /\ backlog' = Tail(backlog)
      /\ held' = held \cup {Head(backlog)} /\ server' = "fork"
      /\ UNCHANGED <<clientVars, connVars, readVars, procVars, children>>
  BY DEF Accept
<1>2. backlog \in Seq(Client)
  BY <1>0 DEF TypeOK
<1>3. /\ Head(backlog) \in Client /\ Head(backlog) = backlog[1] /\ Len(backlog) \in Nat \ {0}
      /\ backlog' \in Seq(Client)
      /\ DOMAIN backlog = 1 .. Len(backlog) /\ DOMAIN backlog' = 1 .. Len(backlog) - 1
      /\ \A i \in DOMAIN backlog' : backlog'[i] = backlog[i + 1]
  <2>1. /\ Head(backlog) \in Client /\ Head(backlog) = backlog[1] /\ Len(backlog) \in Nat \ {0}
        /\ Tail(backlog) \in Seq(Client)
        /\ DOMAIN backlog = 1 .. Len(backlog) /\ DOMAIN Tail(backlog) = 1 .. Len(backlog) - 1
        /\ \A i \in DOMAIN Tail(backlog) : Tail(backlog)[i] = backlog[i + 1]
    BY <1>1, <1>2, Removed
  <2> QED BY <1>1, <2>1
<1>4. ASSUME NEW i \in DOMAIN backlog'
      PROVE  /\ i + 1 \in DOMAIN backlog /\ i + 1 # 1 /\ 1 \in DOMAIN backlog
             /\ \A j \in DOMAIN backlog' : j + 1 = i + 1 => i = j
  BY <1>3
<1>5. TypeOK'
  BY <1>0, <1>1, <1>3 DEF TypeOK, clientVars, connVars, readVars, procVars, shellVars
<1>6. AcceptedOnce'
  <2>1. UNCHANGED <<left, got, conn>>
    BY <1>1 DEF clientVars, readVars, procVars
  <2>2. 1 \in DOMAIN backlog
    BY <1>3
  <2>3. Unserved(Head(backlog)) /\ left[Head(backlog)] # "out"
    BY <1>0, <1>3, <2>2 DEF AcceptedOnce
  <2>4. \A d \in Client : left'[d] = "out" => Unserved(d)' /\ d \notin held'
    BY <1>0, <1>1, <1>3, <2>1, <2>3 DEF AcceptedOnce, Unserved
  <2>5. ASSUME NEW i \in DOMAIN backlog'
        PROVE  /\ Unserved(backlog[i])' /\ left'[backlog'[i]] # "out" /\ backlog'[i] \notin held'
               /\ \A j \in DOMAIN backlog' : backlog'[i] = backlog'[j] => i = j
    <3>1. backlog'[i] = backlog[i + 1] /\ i + 1 \in DOMAIN backlog
      BY <1>3, <1>4
    <3>2. /\ Unserved(backlog[i + 1]) /\ left[backlog[i + 1]] # "out"
          /\ backlog[i + 1] \notin held /\ backlog[i + 1] # Head(backlog)
      BY <1>0, <1>3, <1>4, <2>2, <3>1 DEF AcceptedOnce
    <3>3. Unserved(backlog[i])'
      BY <2>1, <3>1, <3>2 DEF Unserved
    <3>4. \A j \in DOMAIN backlog' : backlog'[i] = backlog'[j] => i = j
      BY <1>0, <1>3, <1>4 DEF AcceptedOnce
    <3> QED BY <1>1, <2>1, <3>1, <3>2, <3>3, <3>4
  <2>6. cfd' \in held' /\ Unserved(cfd)'
    BY <1>1, <2>1, <2>3 DEF Unserved
  <2> QED BY <2>4, <2>5, <2>6 DEF AcceptedOnce
<1>7. ASSUME NEW d \in Client
      PROVE  ServerOpen(d)' => ServerOpen(d)
  <2>1. (\E i \in DOMAIN backlog' : backlog'[i] = d) => \E i \in DOMAIN backlog : backlog[i] = d
    BY <1>3, <1>4
  <2>2. d \in held' => d \in held \/ \E i \in DOMAIN backlog : backlog[i] = d
    <3>1. 1 \in DOMAIN backlog
      BY <1>3
    <3> QED BY <1>1, <1>3, <3>1
  <2> QED BY <1>1, <2>1, <2>2 DEF ServerOpen, procVars
<1>8. SameProcesses
  BY <1>1 DEF SameProcesses, readVars, procVars, shellVars
<1> QED BY <1>1, <1>5, <1>6, <1>7, <1>8, PartsOf, ProcessesKept, AsideInv DEF connVars

LEMMA NoForkInv ==
  ASSUME IInv, AcceptFails \/ ForkFails
  PROVE  IInv'
<1>0. TypeOK /\ AcceptedOnce
  BY PartsOf
<1>1. /\ cfd' \in {0, cfd} /\ server' \in {"fork", "close"}
      /\ server' = "fork" => cfd' = 0
      /\ UNCHANGED <<clientVars, connVars, readVars, procVars, backlog, held>>
  BY DEF AcceptFails, ForkFails
<1>2. TypeOK'
  BY <1>0, <1>1 DEF TypeOK, clientVars, connVars, readVars, procVars, shellVars
<1>3. AcceptedOnce'
  BY <1>0, <1>1 DEF AcceptedOnce, Unserved, clientVars, readVars, procVars
<1>4. \A d \in Client : ServerOpen(d)' => ServerOpen(d)
  BY <1>1 DEF ServerOpen, procVars
<1>5. SameProcesses
  BY <1>1 DEF SameProcesses, readVars, procVars, shellVars
<1> QED BY <1>1, <1>2, <1>3, <1>4, <1>5, PartsOf, ProcessesKept, AsideInv DEF connVars

LEMMA ForkChildInv ==
  ASSUME IInv, ForkChild
  PROVE  IInv'
<1>0. /\ TypeOK /\ AcceptedOnce
      /\ \A c \in Client : FirstOK(c)
      /\ \A p \in Proc : ProcOK(p)
  BY PartsOf
<1>1. /\ server = "fork" /\ server' = "close"
      /\ UNCHANGED <<clientVars, connVars, readVars, inbuf, cmdline, backlog, cfd, held>>
  BY DEF ForkChild
<1>2. CASE cfd = 0
  <2>1. UNCHANGED <<conn, at>>
    BY <1>2 DEF ForkChild
  <2>2. TypeOK'
    BY <1>0, <1>1, <2>1 DEF TypeOK, clientVars, connVars, readVars
  <2>3. AcceptedOnce'
    BY <1>0, <1>1, <2>1 DEF AcceptedOnce, Unserved, clientVars, readVars
  <2>4. \A d \in Client : ServerOpen(d)' => ServerOpen(d)
    BY <1>1, <2>1 DEF ServerOpen
  <2>5. SameProcesses
    BY <1>1, <2>1 DEF SameProcesses, readVars
  <2> QED BY <1>0, <1>1, <2>2, <2>3, <2>4, <2>5, ProcessesKept, AsideInv DEF connVars
<1>3. CASE cfd # 0
  <2> DEFINE c == cfd
  <2>1. c \in Client /\ c \in Proc /\ c # 0
    BY <1>0, <1>3, ZeroIsNobody DEF TypeOK
  <2>2. c \in held /\ Unserved(c)
    BY <1>0, <1>1, <1>3 DEF AcceptedOnce
  <2>3. /\ conn \in [Proc -> Client \cup {0}]
        /\ at \in [Proc -> Places]
    BY <1>0 DEF TypeOK
  <2>4. PICK to \in {"write", "stuck"} : at' = [at EXCEPT ![c] = to]
    BY <1>3 DEF ForkChild
  <2>5. conn' = [conn EXCEPT ![c] = c]
    BY <1>3 DEF ForkChild
  <2>6. /\ conn' \in [Proc -> Client \cup {0}] /\ conn'[c] = c
        /\ \A p \in Proc \ {c} : conn'[p] = conn[p]
    BY <2>1, <2>3, <2>5
  <2>7. /\ at' \in [Proc -> Places]
        /\ at'[c] # "none" /\ \A p \in Proc \ {c} : at'[p] = at[p]
    BY <2>1, <2>3, <2>4 DEF Places
  <2>8. inbuf[c] = <<>> /\ cmdline[c] = 0 /\ got[c] = <<>>
    BY <1>0, <2>1, <2>2 DEF ProcOK, Unserved
  <2>9. TypeOK'
    BY <1>0, <1>1, <2>6, <2>7 DEF TypeOK, clientVars, connVars, readVars
  <2>10. AcceptedOnce'
    <3>1. ASSUME NEW d \in Client, d # c, Unserved(d)
          PROVE  Unserved(d)'
      BY <1>1, <2>6, <3>1 DEF Unserved, readVars
    <3>2. \A d \in Client : left'[d] = "out" => Unserved(d)' /\ d \notin held'
      BY <1>0, <1>1, <2>2, <3>1 DEF AcceptedOnce, clientVars
    <3>3. ASSUME NEW i \in DOMAIN backlog
          PROVE  Unserved(backlog[i])'
      <4>1. backlog[i] \in Client /\ backlog[i] # c /\ Unserved(backlog[i])
        BY <1>0, <2>2, BacklogOfClients DEF AcceptedOnce
      <4>2. backlog'[i] = backlog[i]
        BY <1>1
      <4> QED BY <1>1, <2>6, <4>1, <4>2 DEF Unserved, readVars
    <3> QED BY <1>0, <1>1, <3>2, <3>3 DEF AcceptedOnce, clientVars
  <2>11. \A d \in Client : ServerOpen(d)' => ServerOpen(d)
    BY <1>1, <2>2, <2>6 DEF ServerOpen
  <2>12. ASSUME NEW p \in Proc
         PROVE  ProcOK(p)'
    <3>1. CASE p # c
      BY <1>0, <1>1, <2>6, <2>7, <3>1 DEF ProcOK, readVars
    <3>2. CASE p = c
      <4>1. /\ inbuf'[p] = <<>> /\ cmdline'[p] = 0 /\ got'[c] = <<>> /\ conn'[p] = c
            /\ at'[p] # "none"
        BY <1>1, <2>6, <2>7, <2>8, <3>2 DEF readVars
      <4>2. 0 \in Nat /\ 0 <= 0 /\ CountsFrom(0, <<>>) /\ 0 + Len(<<>>) <= Len(<<>>)
        BY EmptyChannel DEF CountsFrom
      <4>3. \E k \in Nat : /\ cmdline'[p] <= k /\ CountsFrom(k, inbuf'[p])
                           /\ k + Len(inbuf'[p]) <= Len(got'[conn'[p]])
        BY <4>1, <4>2
      <4> QED BY <2>1, <3>2, <4>1, <4>3 DEF ProcOK
    <3> QED BY <3>1, <3>2
  <2>13. ASSUME NEW d \in Client
         PROVE  FirstOK(d)'
    <3>1. CASE d # c
      BY <1>0, <1>1, <2>7, <3>1, ZeroIsNobody DEF FirstOK, readVars
    <3>2. CASE d = c
      <4>1. inbuf'[d] = <<>> /\ cmdline'[d] = 0 /\ got'[d] = <<>>
        BY <1>1, <2>8, <3>2 DEF readVars
      <4>2. CountsFrom(0, <<>>) /\ 0 + Len(<<>>) = Len(<<>>)
        BY EmptyChannel DEF CountsFrom
      <4> QED BY <4>1, <4>2 DEF FirstOK
    <3> QED BY <3>1, <3>2
  <2> QED BY <1>1, <2>9, <2>10, <2>11, <2>12, <2>13, AsideInv DEF connVars
<1> QED BY <1>2, <1>3

\* A connection is closed by a process or by the server.
LEMMA HungUp ==
  ASSUME IInv, NEW c \in Client, HangUp(c), UNCHANGED <<clientVars, readVars>>,
         ServerOpen(c)' => ServerOpen(c)
  PROVE  /\ UpOK(c)' /\ DownOK(c)' /\ wrote' = wrote
         /\ up' \in [Client -> Seq(Nat)] /\ down' \in [Client -> Seq(Nat)]
         /\ \A d \in Client \ {c} :
              /\ up'[d] = up[d] /\ down'[d] = down[d]
              /\ <<d, "shell">> \in reset' => <<d, "shell">> \in reset
<1>0. /\ TypeOK /\ UpOK(c) /\ DownOK(c)
      /\ buf'[c] = buf[c] /\ typed'[c] = typed[c] /\ left'[c] = left[c]
      /\ got'[c] = got[c] /\ shown'[c] = shown[c]
  BY PartsOf DEF clientVars, readVars
<1>1. /\ up \in [Client -> Seq(Nat)] /\ down \in [Client -> Seq(Nat)]
      /\ up[c] \in Seq(Nat) /\ Len(up[c]) \in Nat /\ Len(got[c]) \in Nat /\ typed[c] \in Nat
  BY <1>0, TypesOf DEF TypeOK
<1>2. CASE UNCHANGED connVars
  <2>1. SameUp(c) /\ SameDown(c)
    BY <1>0, <1>2 DEF SameUp, SameDown, connVars
  <2> QED BY <1>0, <1>1, <1>2, <2>1, UpKept, DownKept DEF connVars
<1>3. CASE /\ ~ServerOpen(c)' /\ up' = [up EXCEPT ![c] = <<>>] /\ wrote' = wrote
           /\ \/ UNCHANGED <<down, reset>>
              \/ up[c] # <<>> /\ ~Gone(c) /\ ResetTo(c, "client") /\ DownCut(c)
  <2>1. /\ up' \in [Client -> Seq(Nat)] /\ up'[c] = <<>>
        /\ \A d \in Client \ {c} : up'[d] = up[d]
    BY <1>1, <1>3, EmptyChannel
  <2>2. \A d \in Client : <<d, "shell">> \in reset' => <<d, "shell">> \in reset
    BY <1>3 DEF ResetTo
  <2>3. UpOK(c)'
    <3>1. CountsFrom(Len(got[c]), <<>>) /\ Len(<<>>) <= Len(up[c])
      BY <1>1, EmptyChannel DEF CountsFrom
    <3>2. /\ <<c, "shell">> \in reset' => Gone(c)'
          /\ buf'[c] # 0 => left'[c] = "running"
      BY <1>0, <2>2 DEF UpOK, Gone
    <3> QED BY <1>0, <1>3, <2>1, <3>1, <3>2, EmptyChannel, UpLost
  <2>4. CASE UNCHANGED <<down, reset>>
    <3>1. SameDown(c)
      BY <1>0, <1>3, <2>4 DEF SameDown
    <3> QED BY <1>0, <1>1, <1>3, <2>1, <2>2, <2>3, <2>4, <3>1, DownKept
  <2>5. CASE up[c] # <<>> /\ ~Gone(c) /\ DownCut(c)
    <3>1. PICK n \in 0 .. Len(down[c]) : down' = [down EXCEPT ![c] = SubSeq(@, 1, n)]
      BY <2>5 DEF DownCut
    <3>2. Len(got[c]) + Len(up[c]) <= typed[c] /\ Len(up[c]) # 0
      BY <1>0, <1>1, <2>5 DEF UpOK
    <3>3. Broken(c)' /\ left'[c] # "disconnected"
      <4>1. Len(got[c]) < typed[c]
        BY <1>1, <3>2
      <4> QED BY <1>0, <1>3, <2>5, <4>1 DEF Broken, Gone
    <3>4. down'[c] = SubSeq(down[c], 1, n)
      BY <1>1, <3>1
    <3>5. DownOK(c)' /\ down'[c] \in Seq(Nat)
      BY <1>0, <3>1, <3>3, <3>4, DownCutOff
    <3> QED BY <1>1, <1>3, <2>1, <2>2, <2>3, <3>1, <3>5
  <2> QED BY <1>3, <2>4, <2>5
<1> QED BY <1>2, <1>3 DEF HangUp

LEMMA CloseConnectionInv ==
  ASSUME IInv, CloseConnection
  PROVE  IInv'
<1>0. TypeOK /\ AcceptedOnce /\ \A d \in Client : UpOK(d) /\ DownOK(d)
  BY PartsOf
<1>1. /\ server' = "accept" /\ cfd' = 0 /\ held' = held \ {cfd}
      /\ UNCHANGED <<clientVars, readVars, procVars, backlog, children>>
  BY DEF CloseConnection
<1>2. \A d \in Client : ServerOpen(d)' => ServerOpen(d)
  BY <1>1 DEF ServerOpen, procVars
<1>3. AcceptedOnce'
  BY <1>0, <1>1 DEF AcceptedOnce, Unserved, clientVars, readVars, procVars
<1>4. (\A p \in Proc : ProcOK(p)') /\ \A d \in Client : FirstOK(d)'
  <2>1. SameProcesses
    BY <1>1 DEF SameProcesses, readVars, procVars, shellVars
  <2> QED BY <2>1, PartsOf, ProcessesKept
<1>5. CASE UNCHANGED connVars
  <2>1. TypeOK'
    BY <1>0, <1>1, <1>5 DEF TypeOK, clientVars, connVars, readVars, procVars, shellVars
  <2> QED BY <1>1, <1>2, <1>3, <1>4, <1>5, <2>1, AsideInv DEF connVars
<1>6. ASSUME NEW c \in Client, HangUp(c)
      PROVE  IInv'
  <2>1. /\ UpOK(c)' /\ DownOK(c)' /\ wrote' = wrote
        /\ up' \in [Client -> Seq(Nat)] /\ down' \in [Client -> Seq(Nat)]
        /\ \A d \in Client \ {c} :
             /\ up'[d] = up[d] /\ down'[d] = down[d]
             /\ <<d, "shell">> \in reset' => <<d, "shell">> \in reset
    BY <1>1, <1>2, <1>6, HungUp
  <2>2. TypeOK'
    BY <1>0, <1>1, <2>1 DEF TypeOK, clientVars, readVars, procVars, shellVars
  <2>3. ASSUME NEW d \in Client, d # c
        PROVE  UpOK(d)' /\ DownOK(d)'
    <3>1. SameUp(d) /\ SameDown(d)
      BY <1>1, <1>2, <2>1, <2>3 DEF SameUp, SameDown, clientVars, readVars
    <3> QED BY <1>0, <3>1, UpKept, DownKept
  <2> QED BY <1>3, <1>4, <2>1, <2>2, <2>3 DEF IInv, ClientOK
<1> QED BY <1>5, <1>6 DEF CloseConnection

LEMMA ServerInv ==
  ASSUME IInv, Server
  PROVE  IInv'
BY AcceptInv, NoForkInv, ForkChildInv, CloseConnectionInv DEF Server

---------------------------------------------------------------------------
(* The processes' steps.                                                   *)

LEMMA ServedBy ==
  ASSUME IInv, NEW p \in Proc, at[p] # "none"
  PROVE  /\ conn[p] \in Client /\ ServerOpen(conn[p])
         /\ p \in Client => conn[p] = p
BY PartsOf DEF ProcOK, ServerOpen, TypeOK

\* A process goes on without its connection, or is told of a reset.
LEMMA QuietInv ==
  ASSUME IInv, UNCHANGED <<clientVars, up, down, wrote, readVars, serverVars>>,
         UNCHANGED <<conn, inbuf, cmdline>>, reset' \subseteq reset,
         at' \in [Proc -> Places],
         \A p \in Proc : at'[p] = "none" <=> at[p] = "none"
  PROVE  IInv'
<1>0. TypeOK /\ AcceptedOnce
  BY PartsOf
<1>1. TypeOK'
  BY <1>0 DEF TypeOK, clientVars, readVars, serverVars
<1>2. AcceptedOnce'
  BY <1>0 DEF AcceptedOnce, Unserved, clientVars, readVars, serverVars
<1>3. \A d \in Client : ServerOpen(d)' => ServerOpen(d)
  BY DEF ServerOpen, serverVars
<1>4. SameProcesses
  BY DEF SameProcesses, readVars
<1> QED BY <1>1, <1>2, <1>3, <1>4, PartsOf, ProcessesKept, AsideInv

\* It writes to it.
LEMMA EmitInv ==
  ASSUME IInv, NEW p \in Proc, at[p] # "none", Emit(conn[p]),
         UNCHANGED <<clientVars, readVars, conn, inbuf, cmdline, serverVars>>,
         at' \in [Proc -> Places],
         \A q \in Proc : at'[q] = "none" <=> at[q] = "none"
  PROVE  IInv'
<1> DEFINE c == conn[p]
<1>0. TypeOK /\ c \in Client /\ ServerOpen(c) /\ UpOK(c) /\ DownOK(c)
  BY PartsOf, ServedBy
<1>1. (\A q \in Proc : ProcOK(q)') /\ \A d \in Client : FirstOK(d)'
  <2>1. SameProcesses
    BY DEF SameProcesses, readVars
  <2> QED BY <2>1, PartsOf, ProcessesKept
<1>2. /\ buf'[c] = buf[c] /\ typed'[c] = typed[c] /\ left'[c] = left[c]
      /\ got'[c] = got[c] /\ shown'[c] = shown[c]
      /\ ServerOpen(c)'
  BY <1>0 DEF clientVars, readVars, serverVars, ServerOpen
<1>3. /\ wrote \in [Client -> Nat] /\ down \in [Client -> Seq(Nat)] /\ up \in [Client -> Seq(Nat)]
      /\ wrote[c] \in Nat /\ down[c] \in Seq(Nat) /\ up[c] \in Seq(Nat) /\ Len(got[c]) \in Nat
  BY <1>0, TypesOf DEF TypeOK
<1>4. CASE /\ ~Gone(c) /\ wrote' = [wrote EXCEPT ![c] = @ + 1]
           /\ down' = [down EXCEPT ![c] = Append(@, wrote[c] + 1)]
           /\ UNCHANGED <<up, reset, dead>>
  <2>1. /\ wrote' \in [Client -> Nat] /\ wrote'[c] = wrote[c] + 1
        /\ \A d \in Client \ {c} : wrote'[d] = wrote[d]
    BY <1>0, <1>3, <1>4
  <2>2. /\ down' \in [Client -> Seq(Nat)] /\ down'[c] = Append(down[c], wrote[c] + 1)
        /\ \A d \in Client \ {c} : down'[d] = down[d]
    <3>1. Append(down[c], wrote[c] + 1) \in Seq(Nat)
      BY <1>3
    <3> QED BY <1>0, <1>3, <1>4, <3>1
  <2>3. ProcessMoves(c)
    BY <1>0, <1>4, <2>1, <2>2 DEF ProcessMoves, TypeOK, readVars
  <2>4. UpOK(c)'
    BY <1>0, <1>2, <1>4, UpKept DEF SameUp
  <2>5. DownOK(c)'
    BY <1>0, <1>2, <1>4, <2>1, <2>2, DownWritten
  <2> QED BY <1>0, <1>1, <2>3, <2>4, <2>5, ProcessMovesInv
<1>5. CASE /\ Gone(c) /\ ResetTo(c, "shell") /\ UpCut(c)
           /\ UNCHANGED <<down, wrote>>
  <2>1. PICK n \in 0 .. Len(up[c]) : up' = [up EXCEPT ![c] = SubSeq(@, 1, n)]
    BY <1>5 DEF UpCut
  <2>2. CountsFrom(Len(got[c]), up[c])
    BY <1>0 DEF UpOK
  <2>3. /\ SubSeq(up[c], 1, n) \in Seq(Nat) /\ Len(SubSeq(up[c], 1, n)) <= Len(up[c])
        /\ CountsFrom(Len(got[c]), SubSeq(up[c], 1, n))
    BY <1>3, <2>1, <2>2, Cut
  <2>4. /\ up' \in [Client -> Seq(Nat)] /\ up'[c] = SubSeq(up[c], 1, n)
        /\ \A d \in Client \ {c} : up'[d] = up[d]
    BY <1>0, <1>3, <2>1, <2>3
  <2>5. \A d \in Client \ {c} : <<d, "shell">> \in reset' => <<d, "shell">> \in reset
    <3>1. reset' \subseteq reset \cup {<<c, "shell">>}
      BY <1>5 DEF ResetTo
    <3> QED BY <3>1
  <2>6. ProcessMoves(c)
    BY <1>0, <1>5, <2>4, <2>5 DEF ProcessMoves, TypeOK, readVars
  <2>7. UpOK(c)'
    <3>1. Gone(c)' /\ left'[c] # "running" /\ left'[c] # "out"
      BY <1>2, <1>5 DEF Gone
    <3>2. buf'[c] = 0
      BY <1>0, <1>2, <3>1 DEF UpOK
    <3> QED BY <1>0, <1>2, <2>3, <2>4, <3>1, <3>2, UpLost
  <2>8. DownOK(c)'
    BY <1>0, <1>2, <1>5, DownKept DEF SameDown
  <2> QED BY <1>0, <1>1, <2>6, <2>7, <2>8, ProcessMovesInv
<1>6. CASE reset' \subseteq reset /\ UNCHANGED <<up, down, wrote>>
  BY <1>6, QuietInv
<1> QED BY <1>4, <1>5, <1>6 DEF Emit

\* It ends, and its connection is closed.
LEMMA EndsInv ==
  ASSUME IInv, NEW p \in Proc, Ends(p)
  PROVE  IInv'
<1>0. /\ TypeOK
      /\ \A d \in Client : FirstOK(d)
      /\ \A q \in Proc : ProcOK(q)
  BY PartsOf
<1>1. PICK c \in Client : c = conn[p] /\ HangUp(c)
  BY DEF Ends
<1>2. /\ conn' = [conn EXCEPT ![p] = 0] /\ at' = [at EXCEPT ![p] = "none"]
      /\ inbuf' = [inbuf EXCEPT ![p] = <<>>] /\ cmdline' = [cmdline EXCEPT ![p] = 0]
      /\ UNCHANGED <<clientVars, readVars, serverVars>>
  BY DEF Ends
<1>3. /\ conn \in [Proc -> Client \cup {0}] /\ inbuf \in [Proc -> Seq(Nat)]
      /\ cmdline \in [Proc -> Nat]
      /\ at \in [Proc -> Places]
  BY <1>0 DEF TypeOK
<1>4. /\ conn' \in [Proc -> Client \cup {0}] /\ conn'[p] = 0
      /\ \A q \in Proc \ {p} : conn'[q] = conn[q]
  BY <1>2, <1>3
<1>5. /\ at' \in [Proc -> Places]
      /\ at'[p] = "none" /\ \A q \in Proc \ {p} : at'[q] = at[q]
  BY <1>2, <1>3 DEF Places
<1>6. /\ inbuf' \in [Proc -> Seq(Nat)] /\ cmdline' \in [Proc -> Nat]
      /\ inbuf'[p] = <<>> /\ cmdline'[p] = 0
      /\ \A q \in Proc \ {p} : inbuf'[q] = inbuf[q] /\ cmdline'[q] = cmdline[q]
  BY <1>2, <1>3, EmptyChannel
<1>7. ServerOpen(c)' => ServerOpen(c)
  BY <1>2, <1>4, ZeroIsNobody DEF ServerOpen, serverVars
<1>8. /\ UpOK(c)' /\ DownOK(c)' /\ wrote' = wrote
      /\ up' \in [Client -> Seq(Nat)] /\ down' \in [Client -> Seq(Nat)]
      /\ \A d \in Client \ {c} :
           /\ up'[d] = up[d] /\ down'[d] = down[d]
           /\ <<d, "shell">> \in reset' => <<d, "shell">> \in reset
  BY <1>1, <1>2, <1>7, HungUp
<1>9. ProcessMoves(c)
  BY <1>0, <1>1, <1>2, <1>4, <1>5, <1>6, <1>8 DEF ProcessMoves, TypeOK, readVars
<1>10. ASSUME NEW q \in Proc
       PROVE  ProcOK(q)'
  <2>1. CASE q = p
    BY <1>4, <1>5, <1>6, <2>1 DEF ProcOK
  <2>2. CASE q # p
    BY <1>0, <1>2, <1>4, <1>5, <1>6, <2>2 DEF ProcOK, readVars
  <2> QED BY <2>1, <2>2
<1>11. ASSUME NEW d \in Client
       PROVE  FirstOK(d)'
  <2>1. CASE d = p
    BY <1>5, <2>1 DEF FirstOK
  <2>2. CASE d # p
    BY <1>0, <1>2, <1>5, <1>6, <2>2, ZeroIsNobody DEF FirstOK, readVars
  <2> QED BY <2>1, <2>2
<1> QED BY <1>8, <1>9, <1>10, <1>11, ProcessMovesInv

\* It takes lines off its connection: a shell, or another process, which leaves its
\* own buffer as it is.
LEMMA TakeInv ==
  ASSUME IInv, NEW p \in Proc, at[p] # "none", NEW n \in 1 .. Len(up[conn[p]]), Take(p, n),
         UNCHANGED <<clientVars, conn, serverVars>>,
         at' \in [Proc -> Places],
         \A q \in Proc : at'[q] = "none" <=> at[q] = "none",
         \/ p \in Extra /\ UNCHANGED <<inbuf, cmdline>>
         \/ /\ inbuf' = [inbuf EXCEPT ![p] = SubSeq(up[conn[p]], 2, n)]
            /\ cmdline' = [cmdline EXCEPT ![p] = Head(up[conn[p]])]
  PROVE  IInv'
<1> DEFINE c == conn[p]  m == Len(got[c])
<1>0. /\ TypeOK /\ c \in Client /\ ServerOpen(c) /\ UpOK(c) /\ DownOK(c)
      /\ p \in Client => c = p
      /\ \A d \in Client : FirstOK(d)
      /\ \A q \in Proc : ProcOK(q)
  BY PartsOf, ServedBy
<1>1. /\ buf'[c] = buf[c] /\ typed'[c] = typed[c] /\ left'[c] = left[c]
      /\ shown'[c] = shown[c] /\ down'[c] = down[c] /\ wrote'[c] = wrote[c]
      /\ reset' = reset
  BY DEF clientVars, Take
<1>2. /\ up \in [Client -> Seq(Nat)] /\ got \in [Client -> Seq(Nat)]
      /\ inbuf \in [Proc -> Seq(Nat)] /\ cmdline \in [Proc -> Nat]
      /\ up[c] \in Seq(Nat) /\ m \in Nat /\ Len(up[c]) \in Nat
  BY <1>0, TypesOf DEF TypeOK
<1>3. /\ got' = [got EXCEPT ![c] = got[c] \o SubSeq(up[c], 1, n)]
      /\ up' = [up EXCEPT ![c] = SubSeq(up[c], n + 1, Len(up[c]))]
      /\ shared' = IF p \in Client THEN shared ELSE shared \cup {c}
      /\ UNCHANGED <<down, reset, wrote>>
  BY DEF Take
<1>4. /\ got'[c] = got[c] \o SubSeq(up[c], 1, n)
      /\ up'[c] = SubSeq(up[c], n + 1, Len(up[c]))
      /\ \A d \in Client \ {c} : got'[d] = got[d] /\ up'[d] = up[d]
  BY <1>0, <1>2, <1>3
<1>5. /\ UpOK(c)' /\ got'[c] \in Seq(Nat) /\ Len(got'[c]) = m + n
      /\ up'[c] \in Seq(Nat)
  BY <1>0, <1>1, <1>4, UpTaken
<1>6. got' \in [Client -> Seq(Nat)] /\ up' \in [Client -> Seq(Nat)]
  BY <1>0, <1>2, <1>3, <1>4, <1>5
<1>7. DownOK(c)'
  <2>1. ~Broken(c) /\ left[c] # "disconnected"
    BY <1>0 DEF Broken, DownOK
  <2> QED BY <1>0, <1>1, <2>1, DownSame
<1>8. up[c] # <<>> /\ n \in Nat /\ n >= 1 /\ n <= Len(up[c])
  BY <1>2
<1>9. \A d \in Client : Len(got[d]) \in Nat /\ Len(got[d]) <= Len(got'[d])
  <2> TAKE d \in Client
  <2>1. Len(got[d]) \in Nat
    BY <1>0, TypesOf
  <2>2. CASE d = c
    <3> HIDE DEF m, c
    <3>1. m <= m + n /\ m = Len(got[d]) /\ Len(got'[d]) = m + n
      BY <1>2, <1>5, <1>8, <2>2 DEF m
    <3> QED BY <2>1, <3>1
  <2>3. CASE d # c
    <3>1. got'[d] = got[d]
      BY <1>4, <2>3
    <3> QED BY <2>1, <3>1
  <2> QED BY <2>2, <2>3
<1>10. CASE p \in Extra /\ UNCHANGED <<inbuf, cmdline>>
  <2>1. ProcessMoves(c)
    BY <1>0, <1>3, <1>4, <1>6, <1>10 DEF ProcessMoves, TypeOK
  <2>2. ASSUME NEW q \in Proc
        PROVE  ProcOK(q)'
    <3>1. ProcOK(q)
      BY <1>0
    <3>2. ASSUME at[q] # "none"
          PROVE  \E k \in Nat : /\ cmdline[q] <= k /\ CountsFrom(k, inbuf[q])
                                /\ k + Len(inbuf[q]) <= Len(got'[conn[q]])
      <4>1. conn[q] \in Client /\ Len(inbuf[q]) \in Nat
        BY <1>0, <3>2, ServedBy, TypesOfProcess
      <4>2. PICK k \in Nat : /\ cmdline[q] <= k /\ CountsFrom(k, inbuf[q])
                             /\ k + Len(inbuf[q]) <= Len(got[conn[q]])
        BY <3>1, <3>2 DEF ProcOK
      <4>3. Len(got'[conn[q]]) \in Nat /\ Len(got[conn[q]]) \in Nat
            /\ Len(got[conn[q]]) <= Len(got'[conn[q]])
        BY <1>6, <1>9, <4>1
      <4>4. k + Len(inbuf[q]) <= Len(got'[conn[q]])
        BY <4>1, <4>2, <4>3
      <4> QED BY <4>2, <4>4
    <3> QED BY <1>10, <3>1, <3>2 DEF ProcOK
  <2>3. ASSUME NEW d \in Client
        PROVE  FirstOK(d)'
    <3>1. p \notin Client
      BY <1>10, RemoteAssumption
    <3>2. CASE d = c
      BY <1>3, <3>1, <3>2 DEF FirstOK
    <3>3. CASE d # c
      BY <1>0, <1>3, <1>4, <1>10, <3>3, ZeroIsNobody DEF FirstOK
    <3> QED BY <3>2, <3>3
  <2> QED BY <1>0, <1>5, <1>7, <2>1, <2>2, <2>3, ProcessMovesInv
<1>11. CASE /\ inbuf' = [inbuf EXCEPT ![p] = SubSeq(up[c], 2, n)]
            /\ cmdline' = [cmdline EXCEPT ![p] = Head(up[c])]
  <2>1. CountsFrom(m, up[c])
    BY <1>0 DEF UpOK
  <2>2. Head(up[c]) = m + 1
    BY <1>2, <1>8, <2>1, CountsAfter
  <2>3. /\ SubSeq(up[c], 2, n) \in Seq(Nat) /\ Len(SubSeq(up[c], 2, n)) = n - 1
        /\ CountsFrom(m + 1, SubSeq(up[c], 2, n))
    <3>1. 1 \in 0 .. Len(up[c]) /\ n \in 1 .. Len(up[c]) /\ 1 + 1 = 2
      BY <1>8
    <3> HIDE DEF c, m
    <3>2. /\ SubSeq(up[c], 1 + 1, n) \in Seq(Nat) /\ Len(SubSeq(up[c], 1 + 1, n)) = n - 1
          /\ CountsFrom(m + 1, SubSeq(up[c], 1 + 1, n))
      BY <1>2, <2>1, <3>1, Stretch
    <3> QED BY <3>1, <3>2
  <2>4. /\ inbuf' \in [Proc -> Seq(Nat)] /\ cmdline' \in [Proc -> Nat]
        /\ inbuf'[p] = SubSeq(up[c], 2, n) /\ cmdline'[p] = m + 1
        /\ \A q \in Proc \ {p} : inbuf'[q] = inbuf[q] /\ cmdline'[q] = cmdline[q]
    <3>1. m + 1 \in Nat
      BY <1>2
    <3> HIDE DEF m
    <3> QED BY <1>2, <1>11, <2>2, <2>3, <3>1
  <2>5. /\ CountsFrom(cmdline'[p], inbuf'[p]) /\ cmdline'[p] \in Nat
        /\ cmdline'[p] + Len(inbuf'[p]) = Len(got'[c])
    <3>1. m + 1 \in Nat /\ m + 1 + (n - 1) = m + n
      BY <1>2, <1>8
    <3> HIDE DEF m
    <3> QED BY <1>5, <2>3, <2>4, <3>1
  <2>6. ProcessMoves(c)
    BY <1>0, <1>3, <1>4, <1>6, <2>4 DEF ProcessMoves, TypeOK
  <2>7. ASSUME NEW q \in Proc
        PROVE  ProcOK(q)'
    <3>1. ProcOK(q)
      BY <1>0
    <3>2. CASE q # p
      <4>1. ASSUME at[q] # "none"
            PROVE  \E k \in Nat : /\ cmdline[q] <= k /\ CountsFrom(k, inbuf[q])
                                  /\ k + Len(inbuf[q]) <= Len(got'[conn[q]])
        <5>1. conn[q] \in Client /\ Len(inbuf[q]) \in Nat
          BY <1>0, <4>1, ServedBy, TypesOfProcess
        <5>2. PICK k \in Nat : /\ cmdline[q] <= k /\ CountsFrom(k, inbuf[q])
                               /\ k + Len(inbuf[q]) <= Len(got[conn[q]])
          BY <3>1, <4>1 DEF ProcOK
        <5>3. /\ Len(got'[conn[q]]) \in Nat /\ Len(got[conn[q]]) \in Nat
              /\ Len(got[conn[q]]) <= Len(got'[conn[q]])
          BY <1>6, <1>9, <5>1
        <5>4. k + Len(inbuf[q]) <= Len(got'[conn[q]])
          BY <5>1, <5>2, <5>3
        <5> QED BY <5>2, <5>4
      <4> QED BY <2>4, <3>1, <3>2, <4>1 DEF ProcOK
    <3>3. CASE q = p
      <4>1. cmdline'[p] <= cmdline'[p] /\ cmdline'[p] + Len(inbuf'[p]) <= Len(got'[c])
        <5>1. Len(got'[c]) \in Nat /\ Len(inbuf'[p]) \in Nat
          BY <1>5, <2>3, <2>4, LenInNat
        <5> QED BY <2>5, <5>1
      <4>2. \E k \in Nat : /\ cmdline'[p] <= k /\ CountsFrom(k, inbuf'[p])
                           /\ k + Len(inbuf'[p]) <= Len(got'[c])
        BY <2>5, <4>1
      <4> QED BY <3>1, <3>3, <4>2 DEF ProcOK
    <3> QED BY <3>2, <3>3
  <2>8. ASSUME NEW d \in Client
        PROVE  FirstOK(d)'
    <3>1. CASE d = p
      BY <1>0, <2>5, <3>1 DEF FirstOK
    <3>2. CASE d # p /\ (p \in Client \/ d # c)
      BY <1>0, <1>3, <1>4, <2>4, <3>2, ZeroIsNobody DEF FirstOK
    <3>3. CASE d # p /\ p \notin Client /\ d = c
      BY <1>3, <3>3 DEF FirstOK
    <3> QED BY <3>1, <3>2, <3>3
  <2> QED BY <1>0, <1>5, <1>7, <2>6, <2>7, <2>8, ProcessMovesInv
<1> QED BY <1>10, <1>11

\* A shell reads a line from its buffer.
LEMMA BufferInv ==
  ASSUME IInv, NEW p \in Proc, at[p] # "none", inbuf[p] # <<>>,
         inbuf' = [inbuf EXCEPT ![p] = Tail(@)],
         cmdline' = [cmdline EXCEPT ![p] = Head(inbuf[p])],
         UNCHANGED <<clientVars, connVars, readVars, conn, serverVars>>,
         at' \in [Proc -> Places], \A q \in Proc : at'[q] = "none" <=> at[q] = "none"
  PROVE  IInv'
<1>0. /\ TypeOK /\ AcceptedOnce
      /\ \A d \in Client : FirstOK(d)
      /\ \A q \in Proc : ProcOK(q)
  BY PartsOf
<1>1. inbuf \in [Proc -> Seq(Nat)] /\ cmdline \in [Proc -> Nat] /\ inbuf[p] \in Seq(Nat)
  BY <1>0 DEF TypeOK
<1>2. Tail(inbuf[p]) \in Seq(Nat) /\ Head(inbuf[p]) \in Nat
  BY <1>1, Removed
<1>3. /\ inbuf' \in [Proc -> Seq(Nat)] /\ cmdline' \in [Proc -> Nat]
      /\ inbuf'[p] = Tail(inbuf[p]) /\ cmdline'[p] = Head(inbuf[p])
      /\ \A q \in Proc \ {p} : inbuf'[q] = inbuf[q] /\ cmdline'[q] = cmdline[q]
  BY <1>1, <1>2
<1>4. TypeOK'
  BY <1>0, <1>3 DEF TypeOK, clientVars, connVars, readVars, serverVars
<1>5. AcceptedOnce'
  BY <1>0 DEF AcceptedOnce, Unserved, clientVars, readVars, serverVars
<1>6. \A d \in Client : ServerOpen(d)' => ServerOpen(d)
  BY DEF ServerOpen, serverVars
<1>7. ASSUME NEW k \in Nat, CountsFrom(k, inbuf[p])
      PROVE  /\ CountsFrom(k + 1, inbuf'[p]) /\ cmdline'[p] = k + 1 /\ k + 1 \in Nat
             /\ (k + 1) + Len(inbuf'[p]) = k + Len(inbuf[p]) /\ k + 1 <= k + 1
  <2>1. /\ CountsFrom(k + 1, Tail(inbuf[p])) /\ Head(inbuf[p]) = k + 1
        /\ Tail(inbuf[p]) \in Seq(Nat) /\ Len(inbuf[p]) = Len(Tail(inbuf[p])) + 1
    BY <1>1, <1>7, CountsAfter
  <2>2. Len(Tail(inbuf[p])) \in Nat
    BY <2>1, LenInNat
  <2>3. (k + 1) + Len(Tail(inbuf[p])) = k + Len(inbuf[p]) /\ k + 1 \in Nat /\ k + 1 <= k + 1
    <3> DEFINE t == Len(Tail(inbuf[p]))  u == Len(inbuf[p])
    <3>1. t \in Nat /\ u = t + 1
      BY <2>1, <2>2
    <3> HIDE DEF t, u
    <3>2. (k + 1) + t = k + u /\ k + 1 \in Nat /\ k + 1 <= k + 1
      BY <3>1
    <3> QED BY <3>2 DEF t, u
  <2> QED BY <1>3, <2>1, <2>3
<1>8. ASSUME NEW q \in Proc
      PROVE  ProcOK(q)'
  <2>1. ProcOK(q)
    BY <1>0
  <2>2. CASE q # p
    BY <1>3, <2>1, <2>2 DEF ProcOK, readVars
  <2>3. CASE q = p
    <3>1. PICK k \in Nat : /\ CountsFrom(k, inbuf[p])
                           /\ k + Len(inbuf[p]) <= Len(got[conn[p]])
      BY <2>1, <2>3 DEF ProcOK
    <3>2. /\ CountsFrom(k + 1, inbuf'[p]) /\ cmdline'[p] <= k + 1 /\ k + 1 \in Nat
          /\ (k + 1) + Len(inbuf'[p]) <= Len(got[conn[p]])
      BY <1>7, <3>1
    <3>3. \E j \in Nat : /\ cmdline'[p] <= j /\ CountsFrom(j, inbuf'[p])
                         /\ j + Len(inbuf'[p]) <= Len(got[conn[p]])
      BY <3>2
    <3> QED BY <2>1, <2>3, <3>3 DEF ProcOK, readVars
  <2> QED BY <2>2, <2>3
<1>9. ASSUME NEW d \in Client
      PROVE  FirstOK(d)'
  <2>1. FirstOK(d) /\ d \in Proc
    BY <1>0, ZeroIsNobody
  <2>2. CASE d # p
    BY <1>3, <2>1, <2>2 DEF FirstOK, readVars
  <2>3. CASE d = p
    <3>1. cmdline[p] \in Nat
      BY <1>1
    <3>2. CountsFrom(cmdline[p], inbuf[p]) =>
            /\ CountsFrom(cmdline'[p], inbuf'[p])
            /\ cmdline'[p] + Len(inbuf'[p]) = cmdline[p] + Len(inbuf[p])
      BY <1>7, <3>1
    <3> QED BY <2>1, <2>3, <3>2 DEF FirstOK, readVars
  <2> QED BY <2>2, <2>3
<1> QED BY <1>4, <1>5, <1>6, <1>8, <1>9, AsideInv DEF connVars

\* A shell starts a process, which has its connection and, if it is a shell, its buffer.
LEMMA StartInv ==
  ASSUME IInv, NEW p \in Proc, NEW q \in Extra, Start(p, q)
  PROVE  IInv'
<1>0. /\ TypeOK /\ AcceptedOnce
      /\ \A d \in Client : FirstOK(d)
      /\ \A r \in Proc : ProcOK(r)
      /\ q \in Proc /\ q \notin Client
  BY PartsOf, RemoteAssumption DEF Proc
<1>1. /\ at[p] = "list" /\ at[q] = "none" /\ conn' = [conn EXCEPT ![q] = conn[p]]
      /\ UNCHANGED <<clientVars, connVars, readVars, serverVars>>
  BY DEF Start
<1>2. /\ conn \in [Proc -> Client \cup {0}] /\ inbuf \in [Proc -> Seq(Nat)]
      /\ cmdline \in [Proc -> Nat] /\ at \in [Proc -> Places]
  BY <1>0 DEF TypeOK
<1>3. conn[p] \in Client
  BY <1>1, ServedBy
<1>4. /\ conn' \in [Proc -> Client \cup {0}] /\ conn'[q] = conn[p]
      /\ \A r \in Proc \ {q} : conn'[r] = conn[r]
  BY <1>0, <1>1, <1>2
<1>5. /\ at' \in [Proc -> Places] /\ at'[q] # "none"
      /\ \A r \in Proc \ {q} : at'[r] = at[r]
  <2>1. PICK to \in {"program", "list"} : at' = [at EXCEPT ![q] = to]
    BY DEF Start
  <2> QED BY <1>0, <1>2, <2>1 DEF Places
<1>6. \/ UNCHANGED <<inbuf, cmdline>>
      \/ /\ inbuf' = [inbuf EXCEPT ![q] = inbuf[p]]
         /\ cmdline' = [cmdline EXCEPT ![q] = cmdline[p]]
  BY DEF Start
<1>7. /\ inbuf' \in [Proc -> Seq(Nat)] /\ cmdline' \in [Proc -> Nat]
      /\ \A r \in Proc \ {q} : inbuf'[r] = inbuf[r] /\ cmdline'[r] = cmdline[r]
  BY <1>0, <1>2, <1>6
<1>8. \/ inbuf'[q] = <<>> /\ cmdline'[q] = 0
      \/ inbuf'[q] = inbuf[p] /\ cmdline'[q] = cmdline[p]
  <2>1. inbuf[q] = <<>> /\ cmdline[q] = 0
    BY <1>0, <1>1 DEF ProcOK
  <2> QED BY <1>0, <1>2, <1>6, <2>1
<1>9. TypeOK'
  BY <1>0, <1>1, <1>4, <1>5, <1>7 DEF TypeOK, clientVars, connVars, readVars, serverVars
<1>10. AcceptedOnce'
  <2>1. ASSUME NEW d \in Client, Unserved(d)
        PROVE  Unserved(d)'
    BY <1>1, <1>4, <2>1 DEF Unserved, readVars
  <2>2. UNCHANGED <<left, backlog, cfd, held, server>> /\ cfd \in Client \cup {0}
    BY <1>0, <1>1 DEF clientVars, serverVars, TypeOK
  <2> HIDE DEF Unserved
  <2> QED BY <1>0, <2>1, <2>2, BacklogOfClients DEF AcceptedOnce
<1>11. \A d \in Client : ServerOpen(d)' => ServerOpen(d)
  BY <1>1, <1>4 DEF ServerOpen, serverVars
<1>12. ASSUME NEW r \in Proc
       PROVE  ProcOK(r)'
  <2>1. CASE r # q
    BY <1>0, <1>1, <1>4, <1>5, <1>7, <2>1 DEF ProcOK, readVars
  <2>2. CASE r = q
    <3>1. PICK k \in Nat : /\ cmdline[p] <= k /\ CountsFrom(k, inbuf[p])
                           /\ k + Len(inbuf[p]) <= Len(got[conn[p]])
      BY <1>0, <1>1 DEF ProcOK
    <3>2. /\ 0 <= 0 /\ CountsFrom(0, <<>>) /\ 0 + Len(<<>>) <= Len(got[conn[p]])
      <4>1. Len(got[conn[p]]) \in Nat
        BY <1>0, <1>3, TypesOf
      <4> QED BY <4>1, EmptyChannel DEF CountsFrom
    <3>3. \E j \in Nat : /\ cmdline'[q] <= j /\ CountsFrom(j, inbuf'[q])
                         /\ j + Len(inbuf'[q]) <= Len(got[conn[p]])
      BY <1>8, <3>1, <3>2
    <3>4. conn'[q] # 0 /\ got' = got
      BY <1>1, <1>3, <1>4, ZeroIsNobody DEF readVars
    <3> QED BY <1>0, <1>4, <1>5, <2>2, <3>3, <3>4 DEF ProcOK
  <2> QED BY <2>1, <2>2
<1>13. ASSUME NEW d \in Client
       PROVE  FirstOK(d)'
  <2>1. FirstOK(d) /\ d \in Proc /\ d # q
    BY <1>0, ZeroIsNobody
  <2> QED BY <1>1, <1>5, <1>7, <2>1 DEF FirstOK, readVars
<1> QED BY <1>1, <1>9, <1>10, <1>11, <1>12, <1>13, AsideInv DEF connVars

\* Where one process goes on, no process comes or ends.
LEMMA GoesOn ==
  ASSUME TypeOK, NEW p \in Proc, at[p] # "none", NEW to, to \in Places, to # "none",
         at' = [at EXCEPT ![p] = to]
  PROVE  at' \in [Proc -> Places] /\ \A q \in Proc : at'[q] = "none" <=> at[q] = "none"
BY DEF TypeOK

LEMMA StaysThere ==
  ASSUME TypeOK, UNCHANGED at
  PROVE  at' \in [Proc -> Places] /\ \A q \in Proc : at'[q] = "none" <=> at[q] = "none"
BY DEF TypeOK

LEMMA GoesInv ==
  ASSUME IInv, NEW p \in Proc, at[p] # "none", NEW to, to \in Places, to # "none", Goes(p, to)
  PROVE  IInv'
<1>1. at' \in [Proc -> Places] /\ \A q \in Proc : at'[q] = "none" <=> at[q] = "none"
  BY PartsOf, GoesOn DEF Goes
<1> QED BY <1>1, QuietInv DEF Goes, connVars, shellVars

LEMMA WriteInv ==
  ASSUME IInv, NEW p \in Proc, Write(p)
  PROVE  IInv'
<1>1. CASE Ends(p)
  BY <1>1, EndsInv
<1>2. CASE /\ at' = [at EXCEPT ![p] = IF @ = "write" THEN "read" ELSE "exit"]
           /\ IF "out" \in uses[p] THEN Emit(conn[p]) ELSE UNCHANGED connVars
           /\ UNCHANGED <<clientVars, readVars, conn, shellVars, todo, parent, awaited, serverVars>>
  <2>1. at' \in [Proc -> Places] /\ \A q \in Proc : at'[q] = "none" <=> at[q] = "none"
    <3>1. at \in [Proc -> Places] /\ at[p] # "none"
      BY PartsOf DEF Write, TypeOK
    <3>2. PICK to \in {"read", "exit"} : at' = [at EXCEPT ![p] = to]
      BY <1>2, <3>1
    <3> QED BY <3>1, <3>2, PartsOf, GoesOn DEF Places
  <2>2. at[p] # "none"
    BY DEF Write
  <2>3. CASE Emit(conn[p])
    BY <1>2, <2>1, <2>2, <2>3, EmitInv DEF shellVars
  <2>4. CASE UNCHANGED connVars
    BY <1>2, <2>1, <2>4, QuietInv DEF connVars, shellVars
  <2> QED BY <1>2, <2>3, <2>4
<1> QED BY <1>1, <1>2 DEF Write

LEMMA ReadLineInv ==
  ASSUME IInv, NEW p \in Proc, ReadLine(p)
  PROVE  IInv'
<1>0. TypeOK /\ at[p] = "read"
  BY PartsOf DEF ReadLine
<1>1. /\ at' = [at EXCEPT ![p] = "list"]
      /\ UNCHANGED <<clientVars, conn, uses, todo, parent, awaited, serverVars>>
  BY DEF ReadLine, Evaluate
<1>2. at' \in [Proc -> Places] /\ \A q \in Proc : at'[q] = "none" <=> at[q] = "none"
  BY <1>0, <1>1, GoesOn DEF Places
<1>3. CASE /\ inbuf[p] # <<>> /\ inbuf' = [inbuf EXCEPT ![p] = Tail(@)]
           /\ Evaluate(p, Head(inbuf[p])) /\ UNCHANGED <<connVars, readVars>>
  BY <1>0, <1>1, <1>2, <1>3, BufferInv DEF Evaluate
<1>4. CASE /\ \E n \in 1 .. Len(up[conn[p]]) :
                /\ Take(p, n)
                /\ inbuf' = [inbuf EXCEPT ![p] = SubSeq(up[conn[p]], 2, n)]
           /\ Evaluate(p, Head(up[conn[p]]))
  BY <1>0, <1>1, <1>2, <1>4, TakeInv DEF Evaluate
<1> QED BY <1>3, <1>4 DEF ReadLine

LEMMA ReadFailsInv ==
  ASSUME IInv, NEW p \in Proc, ReadFails(p)
  PROVE  IInv'
<1>0. TypeOK /\ at[p] = "read"
  BY PartsOf DEF ReadFails, AtEnd
<1>1. /\ at' = [at EXCEPT ![p] = "list"] /\ reset' \subseteq reset
      /\ cmdline' = [cmdline EXCEPT ![p] = cmdline[p]]
      /\ UNCHANGED <<clientVars, up, down, wrote, readVars, inbuf, conn, serverVars>>
  BY DEF ReadFails, Evaluate
<1>2. at' \in [Proc -> Places] /\ \A q \in Proc : at'[q] = "none" <=> at[q] = "none"
  BY <1>0, <1>1, GoesOn DEF Places
<1>3. cmdline' = cmdline
  <2>1. cmdline \in [Proc -> Nat]
    BY <1>0 DEF TypeOK
  <2> QED BY <1>1, <2>1
<1> QED BY <1>1, <1>2, <1>3, QuietInv

LEMMA ShellStepInv ==
  ASSUME IInv, NEW p \in Proc, ShellStep(p)
  PROVE  IInv'
<1>0. TypeOK
  BY PartsOf
<1>1. CASE EndOfFile(p) \/ Exit(p)
  BY <1>1, EndsInv DEF EndOfFile, Exit
<1>2. CASE ReadElsewhere(p)
  <2>1. at' \in [Proc -> Places] /\ \A q \in Proc : at'[q] = "none" <=> at[q] = "none"
    BY <1>0, <1>2, GoesOn DEF ReadElsewhere, Places
  <2> QED BY <1>2, <2>1, QuietInv DEF ReadElsewhere, connVars
<1>3. CASE StartFails(p)
  BY <1>0, <1>3, StaysThere, QuietInv DEF StartFails, connVars
<1>4. CASE Background(p)
  BY <1>0, <1>4, StaysThere, QuietInv DEF Background, connVars, shellVars
<1>5. CASE Foreground(p)
  BY <1>5, GoesInv DEF Foreground, Places
<1>6. CASE Waited(p)
  BY <1>6, GoesInv DEF Waited, Places
<1>7. CASE EndLine(p)
  BY <1>7, GoesInv DEF EndLine, Places
<1>8. CASE Quit(p)
  BY <1>8, GoesInv DEF Quit, Places
<1> QED BY <1>1, <1>2, <1>3, <1>4, <1>5, <1>6, <1>7, <1>8,
           WriteInv, ReadLineInv, ReadFailsInv, StartInv DEF ShellStep

LEMMA ProgramStepInv ==
  ASSUME IInv, NEW q \in Extra, ProgramStep(q)
  PROVE  IInv'
<1>0. TypeOK /\ q \in Proc
  BY PartsOf DEF Proc
<1>1. CASE ProgramReads(q)
  <2>1. UNCHANGED <<clientVars, conn, at, inbuf, cmdline, serverVars>> /\ at[q] # "none"
    BY <1>1 DEF ProgramReads, procVars, shellVars
  <2>2. CASE \E n \in 1 .. Len(up[conn[q]]) : Take(q, n)
    BY <1>0, <2>1, <2>2, StaysThere, TakeInv
  <2>3. CASE reset' = reset \ {<<conn[q], "shell">>} /\ UNCHANGED <<up, down, dead, wrote, readVars>>
    BY <1>0, <2>1, <2>3, StaysThere, QuietInv
  <2> QED BY <1>1, <2>2, <2>3 DEF ProgramReads
<1>2. CASE ProgramWrites(q)
  <2>1. /\ at[q] # "none" /\ Emit(conn[q])
        /\ UNCHANGED <<clientVars, readVars, conn, at, inbuf, cmdline, serverVars>>
    BY <1>2 DEF ProgramWrites, shellVars
  <2> QED BY <1>0, <2>1, StaysThere, EmitInv
<1>3. CASE ProgramEnds(q)
  BY <1>0, <1>3, EndsInv DEF ProgramEnds
<1>4. CASE ProgramForks(q)
  BY <1>0, <1>4, StaysThere, QuietInv DEF ProgramForks, connVars, shellVars
<1> QED BY <1>1, <1>2, <1>3, <1>4 DEF ProgramStep

---------------------------------------------------------------------------
(* The theorems.                                                           *)

LEMMA InitInv ==
  ASSUME Init
  PROVE  IInv
<1>1. TypeOK
  BY EmptyChannel DEF Init, TypeOK, Places, Fates
<1>2. AcceptedOnce
  BY EmptyChannel, ZeroIsNobody DEF Init, AcceptedOnce, Unserved
<1>3. ASSUME NEW c \in Client
      PROVE  UpOK(c) /\ DownOK(c) /\ FirstOK(c)
  <2>1. 0 + 0 <= 0 /\ 0 = 0 + 0 /\ ~(0 < 0)
    OBVIOUS
  <2>2. /\ buf[c] = 0 /\ typed[c] = 0 /\ left[c] = "out" /\ reset = {} /\ wrote[c] = 0
        /\ up[c] = <<>> /\ down[c] = <<>> /\ got[c] = <<>> /\ shown[c] = <<>>
        /\ at[c] = "none"
    BY ZeroIsNobody DEF Init
  <2> QED BY <2>1, <2>2, EmptyChannel DEF UpOK, DownOK, FirstOK, CountsFrom, Broken, Gone
<1>4. ASSUME NEW p \in Proc
      PROVE  ProcOK(p)
  BY DEF Init, ProcOK
<1> QED BY <1>1, <1>2, <1>3, <1>4 DEF IInv, ClientOK

LEMMA NextInv ==
  ASSUME IInv, [Next]_vars
  PROVE  IInv'
<1>1. CASE UNCHANGED vars
  <2>1. TypeOK /\ reset' \subseteq reset
    BY <1>1, PartsOf DEF vars, connVars
  <2> QED BY <1>1, <2>1, StaysThere, QuietInv
      DEF vars, connVars, procVars, shellVars
<1> QED BY <1>1, ServerInv, ClientStepInv, ShellStepInv, ProgramStepInv DEF Next

\* The invariant holds: whatever the clients type and leave, however many processes
\* the shells start on a connection and whatever a reset loses, each direction of a
\* connection is one sequence (shell_client.c repeat, shell.c main and run_cmd).
THEOREM Invariance == Spec => []IInv
<1>1. Init => IInv
  BY InitInv
<1>2. IInv /\ [Next]_vars => IInv'
  BY NextInv
<1> QED BY <1>1, <1>2, PTL DEF Spec

LEMMA OrderOfInvariant ==
  ASSUME IInv, NEW c \in Client
  PROVE  OutputInOrder(c) /\ LinesInOrder(c)
<1>0. /\ TypeOK /\ UpOK(c) /\ DownOK(c) /\ FirstOK(c) /\ ProcOK(c) /\ c \in Proc /\ c # 0
  BY PartsOf, ZeroIsNobody
<1>1. shown[c] \in Seq(Nat) /\ got[c] \in Seq(Nat) /\ Len(got[c]) \in Nat
  BY <1>0, TypesOf
<1>2. OutputInOrder(c)
  <2>1. \A i \in DOMAIN shown[c] : i \in Nat /\ shown[c][i] = 0 + i
    BY <1>0, <1>1 DEF DownOK, CountsFrom
  <2> QED BY <2>1 DEF OutputInOrder
<1>3. \A i \in DOMAIN got[c] : got[c][i] = i
  <2>1. \A i \in DOMAIN got[c] : i \in Nat /\ got[c][i] = 0 + i
    BY <1>0, <1>1 DEF UpOK, CountsFrom
  <2> QED BY <2>1
<1>4. ASSUME conn[c] = c, c \notin shared
      PROVE  inbuf[c] = SubSeq(got[c], cmdline[c] + 1, Len(got[c]))
  <2> DEFINE k == cmdline[c]  g == got[c]  b == inbuf[c]
  <2>1. b \in Seq(Nat) /\ k \in Nat /\ Len(b) \in Nat /\ CountsFrom(0, g)
    BY <1>0, TypesOfProcess DEF UpOK
  <2>2. CountsFrom(k, b) /\ k + Len(b) = Len(g)
    BY <1>0, <1>4 DEF FirstOK, ProcOK
  <2> HIDE DEF k, b
  <2>3. k \in 0 .. Len(g) /\ Len(g) \in k .. Len(g) /\ 0 + k = k /\ Len(b) = Len(g) - k
    BY <1>1, <2>1, <2>2
  <2>4. /\ SubSeq(g, k + 1, Len(g)) \in Seq(Nat) /\ Len(SubSeq(g, k + 1, Len(g))) = Len(g) - k
        /\ CountsFrom(0 + k, SubSeq(g, k + 1, Len(g)))
    BY <1>1, <2>1, <2>3, Stretch
  <2>5. b = SubSeq(g, k + 1, Len(g))
    BY <2>1, <2>2, <2>3, <2>4, SameCount
  <2> QED BY <2>5 DEF k, b
<1> QED BY <1>2, <1>3, <1>4 DEF LinesInOrder

LEMMA LineOfStep ==
  ASSUME IInv, [Next]_vars, NEW p \in Proc
  PROVE  LaterLine(p)
<1> SUFFICES ASSUME at[p] = "read", at'[p] = "list"
             PROVE  cmdline'[p] > cmdline[p] \/ (Gone(conn[p]) /\ cmdline'[p] = cmdline[p])
  BY DEF LaterLine
<1>0. /\ TypeOK /\ ProcOK(p) /\ cmdline \in [Proc -> Nat] /\ inbuf[p] \in Seq(Nat)
      /\ cmdline[p] \in Nat /\ at \in [Proc -> Places] /\ conn[p] \in Client
      /\ UpOK(conn[p])
  BY PartsOf, ServedBy DEF TypeOK
<1>1. CASE ReadLine(p)
  <2>1. CASE inbuf[p] # <<>> /\ cmdline' = [cmdline EXCEPT ![p] = Head(inbuf[p])]
    <3>1. PICK k \in Nat : cmdline[p] <= k /\ CountsFrom(k, inbuf[p])
      BY <1>0 DEF ProcOK
    <3>2. Head(inbuf[p]) = k + 1
      BY <1>0, <2>1, <3>1, CountsAfter
    <3>3. cmdline'[p] = k + 1
      BY <1>0, <2>1, <3>2
    <3> QED BY <1>0, <3>1, <3>3
  <2>2. CASE /\ up[conn[p]] # <<>> /\ inbuf[p] = <<>>
             /\ cmdline' = [cmdline EXCEPT ![p] = Head(up[conn[p]])]
    <3> DEFINE m == Len(got[conn[p]])
    <3>1. up[conn[p]] \in Seq(Nat) /\ m \in Nat
      BY <1>0, TypesOf
    <3>2. CountsFrom(m, up[conn[p]])
      BY <1>0 DEF UpOK
    <3>3. Head(up[conn[p]]) = m + 1
      BY <2>2, <3>1, <3>2, CountsAfter
    <3>4. PICK k \in Nat : cmdline[p] <= k /\ k + Len(inbuf[p]) <= m
      BY <1>0 DEF ProcOK
    <3>5. k + 0 <= m
      BY <2>2, <3>4, EmptyChannel
    <3> HIDE DEF m
    <3>6. cmdline[p] < m + 1
      BY <1>0, <3>1, <3>4, <3>5
    <3>7. cmdline'[p] = m + 1
      BY <1>0, <2>2, <3>3
    <3> QED BY <1>0, <3>1, <3>6, <3>7
  <2>3. ASSUME NEW n \in 1 .. Len(up[conn[p]])
        PROVE  up[conn[p]] # <<>>
    BY <2>3, EmptyChannel
  <2> QED BY <1>1, <2>1, <2>2, <2>3 DEF ReadLine, Evaluate
<1>2. CASE ReadFails(p)
  <2>1. cmdline' = [cmdline EXCEPT ![p] = cmdline[p]] /\ Gone(conn[p])
    BY <1>0, <1>2 DEF ReadFails, Evaluate, UpOK
  <2> QED BY <1>0, <2>1
<1>3. ASSUME NEW q \in Proc, Ends(q)
      PROVE  FALSE
  BY <1>0, <1>3 DEF Ends
<1>4. CASE UNCHANGED at
  BY <1>4
<1>5. ASSUME Server
      PROVE  FALSE
  <2>1. CASE ForkChild
    <3>1. \/ UNCHANGED at
          \/ \E to \in {"write", "stuck"} : at' = [at EXCEPT ![cfd] = to]
      BY <2>1 DEF ForkChild
    <3> QED BY <1>0, <3>1
  <2>2. CASE ~ForkChild
    <3>1. UNCHANGED at
      BY <1>5, <2>2 DEF Server, Accept, AcceptFails, ForkFails, CloseConnection, procVars
    <3> QED BY <3>1
  <2> QED BY <2>1, <2>2
<1>6. ASSUME NEW c \in Client, ClientStep(c)
      PROVE  FALSE
  <2>1. UNCHANGED at
    BY <1>6 DEF ClientStep, Connect, Receive, ReadInput, Send, Show, Leave, procVars
  <2> QED BY <2>1
<1>7. ASSUME NEW q \in Proc, ShellStep(q), ~(q = p /\ (ReadLine(q) \/ ReadFails(q)))
      PROVE  FALSE
  <2>1. CASE Write(q)
    <3>1. at' = [at EXCEPT ![q] = IF @ = "write" THEN "read" ELSE "exit"]
      BY <1>3, <2>1 DEF Write
    <3> QED BY <1>0, <3>1
  <2>2. CASE ReadLine(q) \/ ReadFails(q)
    <3>1. q # p /\ at' = [at EXCEPT ![q] = "list"]
      BY <1>7, <2>2 DEF ReadLine, ReadFails, Evaluate
    <3> QED BY <1>0, <3>1
  <2>3. CASE EndOfFile(q) \/ Exit(q)
    BY <1>3, <2>3 DEF EndOfFile, Exit
  <2>4. CASE ReadElsewhere(q)
    <3>1. at' = [at EXCEPT ![q] = "program"]
      BY <2>4 DEF ReadElsewhere
    <3> QED BY <1>0, <3>1
  <2>5. ASSUME NEW r \in Extra, Start(q, r)
        PROVE  FALSE
    <3>1. at[r] = "none" /\ r # p
      BY <2>5 DEF Start
    <3>2. PICK to : at' = [at EXCEPT ![r] = to]
      BY <2>5 DEF Start
    <3> QED BY <1>0, <3>1, <3>2
  <2>6. CASE StartFails(q) \/ Background(q)
    BY <2>6 DEF StartFails, Background
  <2>7. CASE Foreground(q) \/ Waited(q) \/ EndLine(q) \/ Quit(q)
    <3>1. q # p
      BY <2>7 DEF Foreground, Waited, EndLine, Quit
    <3>2. PICK to : at' = [at EXCEPT ![q] = to]
      BY <2>7 DEF Foreground, Waited, EndLine, Quit, Goes
    <3> QED BY <1>0, <3>1, <3>2
  <2> QED BY <1>7, <2>1, <2>2, <2>3, <2>4, <2>5, <2>6, <2>7 DEF ShellStep
<1>8. ASSUME NEW q \in Extra, ProgramStep(q)
      PROVE  FALSE
  <2>1. CASE ProgramEnds(q)
    BY <1>3, <2>1 DEF ProgramEnds, Proc
  <2>2. CASE ~ProgramEnds(q)
    <3>1. UNCHANGED at
      BY <1>8, <2>2 DEF ProgramStep, ProgramReads, ProgramWrites, ProgramForks, procVars
    <3> QED BY <3>1
  <2> QED BY <2>1, <2>2
<1>9. CASE UNCHANGED vars
  <2>1. UNCHANGED at
    BY <1>9 DEF vars, procVars
  <2> QED BY <1>4, <2>1
<1> QED BY <1>1, <1>2, <1>5, <1>6, <1>7, <1>8, <1>9 DEF Next

\* Each client shows the output of its connection in order and without a gap; the
\* lines of its user are read in order and each once, whichever of the processes on
\* the connection read them; and no shell evaluates a line typed before its last
\* one, nor the last one again unless its client has gone.
THEOREM StreamsInOrder == Spec => BytesInOrder
<1>1. IInv => \A c \in Client : OutputInOrder(c) /\ LinesInOrder(c)
  BY OrderOfInvariant
<1>2. IInv /\ [Next]_vars => [\A p \in Proc : LaterLine(p)]_vars
  BY LineOfStep
<1> QED BY <1>1, <1>2, Invariance, PTL DEF BytesInOrder, Spec

\* A client that prints "Disconnected from server" because its read returned 0 has
\* shown all that was written to its connection, or a line that it had read from its
\* user was never read by anybody (shell_client.c:38-44).
THEOREM OutputOnlyLostWithInput == Spec => []OutputLostWithInput
<1>1. IInv => OutputLostWithInput
  <2>1. ASSUME IInv, NEW c \in Client, left[c] = "disconnected", Len(shown[c]) # wrote[c]
        PROVE  Len(got[c]) < typed[c]
    BY <2>1, PartsOf DEF DownOK
  <2> QED BY <2>1 DEF OutputLostWithInput
<1> QED BY <1>1, Invariance, PTL

=============================================================================
