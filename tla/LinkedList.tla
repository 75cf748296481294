----------------------------- MODULE LinkedList -----------------------------
(***************************************************************************)
(* linkedlist.c: rings of nodes with a head, a pool of free nodes, and      *)
(* reverse, which puts the characters of a word in nodes on a stack.        *)
(*                                                                         *)
(* remove_first has no return statement; at -O0, -O1 and -Os gcc 12 leaves  *)
(* the removed node in the register, which is what RemoveFirst's callers    *)
(* get here.                                                               *)
(***************************************************************************)
EXTENDS Naturals, Sequences

CONSTANTS Nodes,       \* nodes in free_list, 500 in the program
          MaxWord,     \* characters scanf takes, 99 in the program
          Letters

ASSUME ListAssumption == Nodes \in Nat /\ MaxWord \in Nat

Node      == 1 .. Nodes
free_head == Nodes + 1
stackHead == Nodes + 2
NULL      == 0
Elem      == 1 .. Nodes + 2

VARIABLES at,          \* "init", "scan", "push", "pop", "done", "exit"
          i,           \* the loops' i, from 1
          next, prev,  \* the links
          data,
          input,       \* the word read
          word         \* str, in which it is reversed

listVars == <<at, i, next, prev, data, input, word>>

---------------------------------------------------------------------------
(* The list functions, from links to links.                                *)

Links == [next |-> next, prev |-> prev]

\* init_head.
InitHead(l, head) ==
  [next |-> [l.next EXCEPT ![head] = head], prev |-> [l.prev EXCEPT ![head] = head]]

IsEmpty(head) == next[head] = head

AddToLast(l, head, list) ==
  [next |-> [l.next EXCEPT ![list] = head, ![l.prev[head]] = list],
   prev |-> [l.prev EXCEPT ![list] = l.prev[head], ![head] = list]]

AddToFirst(l, head, list) ==
  [next |-> [l.next EXCEPT ![list] = l.next[head], ![head] = list],
   prev |-> [l.prev EXCEPT ![l.next[head]] = list, ![list] = head]]

\* Mutation: the node before the removed one still points to it.
RemoveLastHalf(l, head) ==
  [next |-> [l.next EXCEPT ![l.prev[head]] = NULL],
   prev |-> [l.prev EXCEPT ![head] = l.prev[l.prev[head]], ![l.prev[head]] = NULL]]

RemoveLast(l, head) ==
  [next |-> [l.next EXCEPT ![l.prev[l.prev[head]]] = head, ![l.prev[head]] = NULL],
   prev |-> [l.prev EXCEPT ![head] = l.prev[l.prev[head]], ![l.prev[head]] = NULL]]

RemoveFirst(l, head) ==
  [next |-> [l.next EXCEPT ![head] = l.next[l.next[head]], ![l.next[head]] = NULL],
   prev |-> [l.prev EXCEPT ![l.next[l.next[head]]] = head, ![l.next[head]] = NULL]]

SetLinks(l) == next' = l.next /\ prev' = l.prev

---------------------------------------------------------------------------
(* The program.                                                            *)

\* init_free_list's loop.
LinkFree ==
  /\ at = "init"
  /\ IF i <= Nodes
     THEN SetLinks(AddToLast(Links, free_head, i)) /\ i' = i + 1 /\ UNCHANGED at
     ELSE at' = "scan" /\ UNCHANGED <<i, next, prev>>
  /\ UNCHANGED <<data, input, word>>

\* scanf, and the call of reverse.
ScanWord ==
  /\ at = "scan"
  /\ \E k \in 0 .. MaxWord : \E w \in [1 .. k -> Letters] : input' = w /\ word' = w
  /\ at' = "push" /\ i' = 1
  /\ SetLinks(InitHead(Links, stackHead))
  /\ UNCHANGED data

\* new_list with no node left ends the program.
OutOfList ==
  /\ at = "push" /\ i <= Len(word) /\ IsEmpty(free_head)
  /\ at' = "exit"
  /\ UNCHANGED <<i, next, prev, data, input, word>>

PushChar ==
  /\ at = "push" /\ i <= Len(word) /\ ~IsEmpty(free_head)
  /\ LET list == next[free_head] IN
       /\ data' = [data EXCEPT ![list] = word[i]]
       /\ SetLinks(AddToLast(RemoveFirst(Links, free_head), stackHead, list))
  /\ i' = i + 1
  /\ UNCHANGED <<at, input, word>>

EndPush ==
  /\ at = "push" /\ i > Len(word)
  /\ at' = "pop" /\ i' = 1
  /\ UNCHANGED <<next, prev, data, input, word>>

\* Mutation: characters are taken from the other end.
PopFirst ==
  /\ at = "pop" /\ ~IsEmpty(stackHead)
  /\ LET list == next[stackHead] IN
       /\ word' = [word EXCEPT ![i] = data[list]]
       /\ SetLinks(AddToFirst(RemoveFirst(Links, stackHead), free_head, list))
  /\ i' = i + 1
  /\ UNCHANGED <<at, data, input>>

PopChar ==
  /\ at = "pop" /\ ~IsEmpty(stackHead)
  /\ LET list == prev[stackHead] IN
       /\ word' = [word EXCEPT ![i] = data[list]]
       /\ SetLinks(AddToFirst(RemoveLast(Links, stackHead), free_head, list))
  /\ i' = i + 1
  /\ UNCHANGED <<at, data, input>>

EndPop ==
  /\ at = "pop" /\ IsEmpty(stackHead)
  /\ at' = "done"
  /\ UNCHANGED <<i, next, prev, data, input, word>>

ListInit ==
  /\ at = "init" /\ i = 1
  /\ next = [x \in Elem |-> IF x = free_head THEN free_head ELSE NULL]
  /\ prev = [x \in Elem |-> IF x = free_head THEN free_head ELSE NULL]
  /\ data = [x \in Node |-> NULL]
  /\ input = <<>> /\ word = <<>>

ListNext ==
  LinkFree \/ ScanWord \/ OutOfList \/ PushChar \/ EndPush \/ PopChar \/ EndPop

ListSpec == ListInit /\ [][ListNext]_listVars

---------------------------------------------------------------------------

Linked(x) == next[x] # NULL

LinksInverse ==
  \A x \in Elem : Linked(x) => /\ next[x] \in Elem /\ prev[next[x]] = x
                               /\ prev[x] \in Elem /\ next[prev[x]] = x

\* The two rings have no node in common: following next never leads from one head
\* to the other.
RingsApart ==
  \E ring \in [Elem -> {free_head, stackHead}] :
    /\ ring[free_head] = free_head /\ ring[stackHead] = stackHead
    /\ \A x \in Elem : Linked(x) => ring[next[x]] = ring[x]

\* After any number of moves of nodes between the rings, next and prev are inverse
\* to each other and the rings are apart: no half-made link, no lost or shared node.
RingsWellLinked == LinksInverse /\ RingsApart

Walk[k \in 0 .. Nodes] == IF k = 0 THEN free_head ELSE next[Walk[k - 1]]

\* At the end the word is reversed, and every node is back in the free ring.
Reversed ==
  at = "done" =>
    /\ \A k \in DOMAIN input : word[k] = input[Len(input) + 1 - k]
    /\ Node \subseteq {Walk[k] : k \in 0 .. Nodes}

=============================================================================
