# A verification project for CSE_320_hws

The repository holds the programs of a systems course, each a self-contained C
program. This directory models them in TLA+, model-checks the models with TLC
and proves theorems about some of them with TLAPS.

## Inventory

| Component | State | Operations | What is hard | What makes it correct |
|---|---|---|---|---|
| Dining philosophers, `philosophers.c` | N semaphores, N threads, main's loops | `sem_wait`, `sem_post`, create, join, destroy | interleaving; circular wait; waits and posts that do not nest | no shared stick, no deadlock, everybody eats, no use after destroy |
| Cache, `cache.c` 64-235 | sets of lines (valid, tag, buffer), memory | `tryRead/WriteToCache`, `loadCacheLine`, `writeToCache`, `flushCache`, `read/writeToPhysicalMem` | long call sequences; random eviction; write-back of old blocks | it behaves as a memory; one line per block; what is loaded is found |
| Virtual memory, `cache.c` 236-368 | memory, disk, Lx, TLB, PTBR, rmap | `readPTE`, `readPageFromDisk`, `writePageToDisk`, `read/writeToVirtualMem`, `initProcess`, `switchToProcess` | two caches over one memory; swapping behind their backs; stale TLB | each process has its own memory; rmap is the inverse of the page tables; the TLB agrees with the table |
| Allocator, `alloc.c` | the words of the heap, `brk` | `Malloc`, `Free`, `ExtendHeap`, `Coalesce`, `Sbrk` | tags written in several places and read by neighbours later; heap full | regions are disjoint and large enough; tags agree; free neighbours are merged |
| Tic-tac-toe with threads, `tictactoe2 (1).c` | shared board, two semaphores | `game`, `mark`, `simulatePlay`, main | tried marks on a shared board; both threads must end | one turn; the game is the sequential one; it terminates |
| Tic-tac-toe with processes, `tictactoe.c` | a file, SIGUSR1, `my_turn`, two boards | the loop of main, the handler | a signal between any two steps; signals are not queued | one turn; the game is the sequential one; no signal is lost |
| Shell, `shell.c` | tokens, commands, descriptors, children | `run_cmd_list`, `run_cmd`, redirection, pipes, background | inherited descriptors, failing fork and exec, reaping | a pipe's end is met, the right children are waited for, the array of pids is not overrun |
| Shell, first version, `shell_base (1).c` | PATH, tokens, children | `parse_path`, the search in `run_cmd`, background | entries that cannot be executed, the ends of PATH | the first program of the name runs; the right children are waited for |
| Remote shell, `remoteshell/` | sockets, one shell per client, the processes these start | accept loop, the client's select loop | processes that share a connection and may never end, full buffers in both directions, either side closing first, resets, failing accept, fork and exec | bytes arrive in order; output is lost only together with input; a client ends, or is blocked behind a process that does not read |
| Expression compiler, `parse_expr.c` | buffer, position, label counter | recursive descent that prints assembly | unsigned division of negatives, nesting | the code computes the value; nothing is left on the stack |
| List, `linkedlist.c` | two rings of nodes, the characters | add, remove, new, del, reverse | moves by half-updates, pool of 500 used up, a missing return | the rings are well linked and apart; the word is reversed, nothing leaks |
| `printbin.c` | depth of the recursion | recursion on a shift | shift at the sign bit | the digits are those of the number |
| `sections.c` | none | none | none | an annotated assembly listing |

The programs do not call each other, except that the remote server executes a
shell: `remoteshell/shell.c` is `shell.c` with a flush of the prompt. `cache.c` is layered: virtual memory uses the cache twice, as Lx in front
of the memory and as the TLB.

## Modules

| Module | Models | Uses |
|---|---|---|
| `Philosophers` | `philosophers.c` | |
| `CacheOps` | the cache of `cache.c` as operators | |
| `Cache`, `MCCache`, `CacheProofs` | one cache over a memory, any sequence of calls | `CacheOps`, `Memory` |
| `Memory` | abstract: a memory | |
| `MemSystem`, `MemSystemProofs` | the virtual memory of `cache.c` | `CacheOps` twice (Lx and TLB), `AddressSpaces`, `CacheProofs` twice |
| `AddressSpaces` | abstract: one memory per process | |
| `Alloc`, `AllocProofs` | `alloc.c` | `Allocator` |
| `Allocator` | abstract: disjoint regions | |
| `TicTacToe` | `hasWinner`, `simulatePlay`, `mark` | |
| `Game` | abstract: the sequential game | `TicTacToe` |
| `TicTacToeThreads`, `TicTacToeThreadsProofs` | `tictactoe2 (1).c` | `TicTacToe`, `Game` |
| `TicTacToeSignals`, `TicTacToeSignalsProofs` | `tictactoe.c` | `TicTacToe`, `Game` |
| `Shell`, `MCShell`, `ShellProofs` | `shell.c` | |
| `RemoteShell`, `MCRemoteShell`, `RemoteShellProofs` | `remoteshell/` | |
| `ParseExpr` | `parse_expr.c`, the assembler's view of its output, the run of the code | |
| `LinkedList` | `linkedlist.c` | |
| `PrintBin` | `printbin.c` | |
| `ShellBase` | `shell_base (1).c` | |
| `Exercises` | one of the last four programs | `ParseExpr`, `LinkedList`, `PrintBin`, `ShellBase` |
| `ExercisesProofs` | proofs about the small programs | `Philosophers`, `ParseExpr`, `LinkedList`, `PrintBin`, `ShellBase` |

Operators carry the names of the functions they model. An operator whose comment
begins with "Mutation:" is a wrong version of the definition below it; it is not
part of the model and serves to show that a property can fail.

**Philosophers.** A step is one `sem_wait`, `sem_post`, `pthread_*` or
`sem_destroy` call. `pc[p]` is the place in the loop body, `meals[p]` the loop
counter, `mainPc` and `mainI` main's loops. The traces on stderr are left out.

**CacheOps, Cache.** Addresses count words: a `Word` is taken to be aligned. The
PTEs, and most accesses of the unit tests, are; the odd addresses
that `unitTestVirtualMemory` uses (`0x12345` and `0x11345`) are not, and a `Word` that overlaps
two words, or two blocks, is not modelled. Masks and shifts become `%` and `\div` by `NSets` (2^s),
`BlockSize` and `NTags` (2^t). `loadCacheLine` and `findCacheLine` compute the
tag differently in the code and in the model (`LoadTag`, `TagOf`). `rand()` is a
choice of any line: every operation that can evict is the set of its outcomes.
A call of `err_quit` is an outcome with `quit`. `Cache` drives one cache with
every call that the unit tests and the memory functions make.

**MemSystem.** The state is the record `ms`, the fields of `MemSystem` in the
code plus the out parameter of the last read and `quit`. Each function is an
operator from a state to the set of states it may end in; `Then` sequences them
and stops at `err_quit`. PTEs are words of the same memory the pages are in, so
that Lx holds both. A client creates each process once, before it runs it.

**Alloc.** The heap is an array of words; a word keeps the last tag written to
it, also inside a payload, as in the program. The list that `FindFreeBlock`
walks is computed from the headers and so follows them when they are wrong.
`Coalesce` returns a register's value where the source has no `return`;
`Garbage` says which (see the findings).

**TicTacToeThreads.** Inside `simulatePlay` each cell takes two steps, the mark
put on trial and taken back, since the board is shared. **TicTacToeSignals.** A
step is one test, assignment or call, and `Deliver`, the handler, may come
between any two. The failing `sigprocmask` leaves `prev` uninitialised:
`prevBlocks` is chosen freely at the start.

**Shell.** Every process has the variables of a shell, since a child whose
`execvpe` fails goes on as one; process 1 is the shell of the terminal. `pc` names
the place in `run_cmd_list` and `run_cmd`, `fd[p]` is a descriptor table whose
numbers matter (`run_cmd` compares them with 0 and 1), `sh[p]` holds the local
variables, copied by `fork`. The kernel is modelled from how the code uses it:
lowest free descriptor, a pipe that ends when its writers are gone, `SIGPIPE` when
its readers are, zombies, orphans reaped by init. What falls out of `run_cmd`
without a `return` is -1 or 0 as built by gcc 12, which `waitpid` takes for any
child. A program generates or copies chunks, a bounded number or without end.

**RemoteShell.** A chunk upwards is a line the user types, a chunk downwards what one
call writes (a prompt goes with what the line before left in stdout's buffer); both are
numbered, so that order, gaps and repetition show. A connection is two bounded sequences, `up`
and `down`. Closing an end with something unread, or writing to an end that is closed, resets
it, as TCP does: of what is under way an arbitrary tail is lost, the next call at the other
end fails, and later ones return 0, or kill. `select` is part of the guards `Idle` and
`Readable`. What the users type, `input`, is chosen at the start.

A process has a connection open (`conn`): the server, the shell it starts on connection c, which
is process c, and those that shells start, in the slots `Extra`. To the connection a line
is a number of commands that fork. A child becomes a program, which may read the
connection, write to it a bounded number of times, leave a process behind, and
need not end; or, where `execvpe` fails, a second shell, which returns into the main
loop with copies of `cmdline`, of the rest of the line and of stdin's buffer (`inbuf`), and from
then on takes lines from the same connection. A pipe or a redirection may take the
connection away as a second shell's stdin or stdout (`uses`). `fgets` fills the buffer with
any part of what has arrived; after a reset it fails once without `feof`, and the
shell evaluates `cmdline` again. The failing `accept`, `fork` and `execve` are steps
of the server.

**ParseExpr, LinkedList, PrintBin, ShellBase.** The parser's functions are one
recursive function on a nonterminal and a position; what the generated code does
is executed instruction by instruction and compared with the value of the
expression, defined by splitting it where it binds least (`Value`). The list functions map
links to links; `reverse` is a step per loop round. `printbin` is a step per call
and return. In `ShellBase` a step of a child is a round of its search.

## Runs

| Run | Instance | Shows |
|---|---|---|
| `philosophers` | 4 threads, 2 meals | TypeOK, NoSharedStick, StickAccounted, NoCircularWait, NoUseAfterDestroy, Termination |
| `cache` | 2 sets of 2 lines, 3 tags, 2-word blocks, words {0,1}, 4 client addresses in 4 blocks | TypeOK, UniqueLine, NeverQuits, ImplementsMemory, MemoryChangesByWriteBack, FlushMakesMemoryCurrent |
| `memsystem` | 2 processes, 4 pages of 2 words each of which 2 are used, 2 frames for pages, TLB of 1 line, Lx of 2 sets of 1 line | TypeOK (and that no error path is taken), RmapInvertsPageTables, TLBCoherent, ImplementsAddressSpaces |
| `memsystem_tlb` | the same with all 4 pages in use | violates ReadsLatestWrite |
| `alloc` | 18 words, growth by 4 or 6, requests of 0, 1 and 4 words | BoundaryTagsAgree (with the types), NoAdjacentFree, PayloadUntouched, ImplementsAllocator |
| `alloc_extend` | the same, `Coalesce` as built by gcc -O0 | violates ReturnsCoalescedBlock |
| `threads` | the 3 x 3 board | TypeOK, OneTurn, ImplementsGame, Termination |
| `signals` | the 3 x 3 board, both values of `prevBlocks` | OneTurn, StopsOnlyByLostSignal, ImplementsGame |
| `signals_lost` | the same | violates WaitsOnlyWithoutTurn |
| `shell` | 5 processes, 3 pipes of one chunk, MAXPIDS 2, any two of 19 lines | TypeOK, WriteEndHeldOnce, OverrunByLastOnly, ForegroundReaped, HangsOnlySelfTied |
| `remote` | one client that types 4 lines or 2, or two with a line each; connections of 2 chunks up and 1 down; one process besides the shells; a server that may fork once | BytesInOrder, OutputLostWithInput, EndsOrBlocked |
| `exercises` | all right expressions of 9 characters with the digits 0 and 8 and every wrong one's first wrong character, in words of 6 bits of which 5 are shown; words of 4 letters with 3 nodes; all ints of 6 bits; a command in 3 directories | ExprComputed, RingsWellLinked, Reversed, PrintsBinary, SearchAndWait |

Why the bounds are enough. Four philosophers are one more than in the program; two meals
let every thread be in its first and in its last round. The cache has one set
with more blocks than lines (evictions with both choices of victim, of clean and
dirty lines) and one with fewer. The memory system has four pages in use for two
frames, so that a page is swapped out for its own process and for the other, and
Lx is so small that PTEs and pages evict each other. The heap holds several of the
smallest blocks, so that a block is freed between two free, two used
and one of each, and the heap is extended behind a used and behind a free block
and runs out. The game has one course from the empty board.

The lines of `MCShell` take every branch of the parser and of `run_cmd_list`; with
MAXPIDS 2 a list of three commands overruns the array and one of four is refused.
Two lines let one inherit what the other left: children in the background,
descriptors, second shells. Five processes make `fork` fail in some courses only.
In `remote`, four lines are what it takes to block a client behind a program of the first
one: that line with the shell, two in the connection, one in the client's buffer. With a connection of
two lines `fgets` may buffer one or leave it to another reader. The one process besides the
shells is in some courses a program and in others a second shell, which reads the lines that the first
does not, waits for it or not, and outlives it or not; while it runs, the first shell's next `fork` fails.
The shell's first line has two commands, so that it starts one more, or fails to, while the
first lives. With two clients and one process the server turns the second client away. More
processes, and longer connections, are the theorems' part. Nine characters hold a conditional with a negated or
parenthesised operand, and `8*8?0:0/0`, whose product is 0 in a word. In `exercises` a word may be longer than the pool, a shift
passes the sign bit and the width, and PATH is unset, or has one, two or three
entries, one of them the current directory. `Reversed` and `PrintsBinary` compare
with definitions of their own.

No state constraint cuts any run: all state spaces are finite. `signals` has
`CHECK_DEADLOCK FALSE`, because the program does stop: at its end, and for ever
when a signal is lost; `StopsOnlyByLostSignal` says that there is no other case.
`shell`, `remote` and `exercises` have it too: their programs end, and the first
two may hang as their liveness properties say.
`cache` and `memsystem` go on until `err_quit`, which they never call; `alloc`,
`philosophers` and `threads` stutter once the program has exited.

**Fairness.** `FairSpec` of `Philosophers` and `TicTacToeThreads` is weak
fairness of main and of each thread: the kernel goes on running a thread that
stays able to run. Nothing is assumed about which waiter a `sem_post` wakes;
`Termination` of the philosophers holds without it because each thread eats a
bounded number of times. `FairSpec` of `Shell` is weak fairness of every process,
and so of the user, who goes on typing or ends the input; that of `RemoteShell` is
weak fairness of the server, each client and each shell, a shell excepted that writes into a
pipe, which may be full (`Scheduled`), and strong fairness of `Accept`, which may fail any number of times
but not for ever. Nothing is assumed of the programs: they may never end, read or write. A
system call that can return does; nothing is assumed of a call that blocks. The
sequential modules and `TicTacToeSignals` state safety only.

## Findings

1. `memsystem_tlb`: `initMemSystem` gives the TLB `VPNBITS` address bits although
   its addresses are `vpn * PTEBYTES`; `findCacheLine` compares 9 bits of the
   page number, `loadCacheLine` stores 10. Once a process uses pages 512 apart,
   a lookup answers with another page's PTE (or `writeToCache` quits). In the
   model's scale that is pages 0 and 2 of 4.
2. `alloc_extend`: `Coalesce` has no `return` where it merges. gcc 12 returns
   `next` at -O0, `curr` at -O3, the right block at -Os and no heap address at
   -O1 and -O2. `alloc` checks the program as -Os builds it.
3. `signals_lost`: `sigprocmask(SIGUSR1, ...)` blocks nothing, so that a signal
   between the test of `my_turn` and `sigsuspend` is lost and both processes wait
   for ever.

The other disagreements are properties' exceptions, stated where they are allowed.

- `shell.c`: `HangsOnlySelfTied` admits exactly the cases in which the shell waits
  for ever: `yes | head` (the writer holds the read end it inherited),
  `nosuch | cat` (the second shell holds the write end), and lists with `cd` in a
  pipe. `OverrunByLastOnly` admits one pid too many. After `nosuch ; echo hi` the
  second shell runs the rest of the line too, and `hi` appears twice.
- `remoteshell/`: `BytesInOrder` admits that the last line is evaluated again after a reset, with
  the client gone, and that the lines of one user are shared out among several shells and programs: the
  first shell has them all only while nobody else reads. `OutputLostWithInput` admits output that is lost
  when a line of the user's was never read. `EndsOrBlocked` admits a client that waits in `write(sfd)`, which
  does not look at what comes in: for shells that write to it, that wait for a program
  or that try `execve` for ever, and for programs that do not end. The server never waits for its children,
  so that it is turned into one that cannot fork.
- `parse_expr.c`: `5`, `-5` and `1?2:3` produce text the assembler refuses (state
  `rejected`), because not every piece ends its line; a division whose operand is
  negative (`-4/3`) or too large for a word is another in the program, and so is the
  test of a number that is 0 in a word only: `ExprComputed` excludes both, and needs to
  (`8*8/8` and `8*8?0:0/0` in words of 6 bits); digits are the only numbers.
- `linkedlist.c` works at -O0, -O1 and -Os only, where the missing `return` of
  `remove_first` leaves the node in the register.
- `printbin.c`: from 2^30 on the recursion has no end.
- `shell_base (1).c`: the last directory of PATH is never searched, and a directory
  of the command's name hides every later program, because `argv[0]` is by then
  the buffer that the next `snprintf` writes.

## Proofs

All proofs hold for every value of the constants that satisfies the named
assumptions, and are checked to the last leaf.

**CacheProofs** (all geometries positive). `IInv` is TypeOK with UniqueLine:
a load that misses leaves at most one line per tag, and only then does
`findCacheLine` find what was loaded (NeverQuits) and does a write-back write
the latest words. `View`, the word a reader gets, is unchanged by loads,
evictions and flushes; that is the refinement of `Memory`. WriteBackOnly and
FlushWritesAll come from the same lemmas.

**MemSystemProofs** (any sizes for which the page tables and the caches fit). The
proof is in three layers, and rests on `CacheProofs`, instanced once for Lx (`LxCache`)
and once for the TLB (`TLBCache`). The first layer says what each operator does to
`Phys`, the words that a reader gets at the physical addresses: loads, evictions and
flushes change none, and the memcpys of a page are right because Lx is flushed before.
The TLB has no memory behind it (`writeToCache` with NULL loads a line of zeros), which
is harmless because its lines have one word, overwritten at once.
The second layer is about pages. `Tidy` says that each entry of a page table is 0
or the PTE of a data frame that rmap gives back to it, and the reverse, and that
pages hold data only; `PageWord` is a word of a page, in its frame or on the disk.
Evicting a page (`Eviction`) and giving a frame to another (`Giving`) keep `Tidy` and every
`PageWord`, for any frame that `rand()` picks. The third layer is about calls. `IInv`
adds to `Tidy` that the two caches are good, that the TLB agrees with the table of the
process that runs, and that the tables of processes not created yet are empty, so
that `initProcess` writing zeros behind Lx changes nothing. Every call
but a write keeps all pages; a write changes the one word (`StepTaken`). TypeCorrect,
RmapInverse, TLBIsCoherent, ReadsLatest and Implementation read off these.
The theorems assume that processes use pages of the lower half only, as in `memsystem`
and in the unit test: without it they are false, as `memsystem_tlb` shows.

**TicTacToeThreadsProofs.** `IInv` is TypeOK, OneTurn and that a trial has a
cell. The semaphores stay at most 1 because the turn is one; the turn stays one
because only its holder posts. The board plays no part, so that the turn is
single whatever is on it. PlaysTheGame is the refinement of `Game`: `Thinking` says
what simulatePlay's loop has established about the board without the mark on trial
(no cell before `at` wins, `index` is the last free one, the opponent cannot win once
it tries for itself), so that the cell in `index` is the one that `Marked` defines at
once; OneTurn keeps the other thread from disturbing it.

**TicTacToeSignalsProofs.** `IInv` is TypeOK, OneTurn, that a process which is
about to reset `my_turn` has it set, and that the file is empty only before the
child's first write. Each step leaves the turn where it is or moves it: from the
pending signal to `my_turn` (the handler), to the process (the reset), to the
other's pending signal (`kill`); it ends with the process that reads a won board.
OnlyLostSignals rests on a second invariant, `Ending`: a process that has seen a win,
its own or the other's, has no turn and the file shows the win; who has the turn on
a won board got it from such a process. So when all processes are asleep, ended or
waiting for each other, somebody has the turn, and that process can only be asleep.

PlaysTheGame is the refinement of `Game`. `InTurn` says which board each process is
about to use: the turn comes to the player who has to move by the marks on the
file's board, the board it marks is the file's, and what it writes is that board
with its move. Only `write_board` changes what the file shows, so that each step is
a move of `Game` or a stutter. That a move is the only thing written after
`read_board` needs OneTurn, and that none follows a win needs `Ending`. The lemmas
on moves and on whose turn the marks tell, which count with the library's facts on
finite sets, are in `TicTacToeThreadsProofs`, and cited from there (`Threads`).

**RemoteShellProofs** (any clients, any number of processes, any bounds and inputs). `IInv` cuts each direction of a connection
in three: what was read, what is on its way and what the sender has in hand are
1, 2, ... without a gap as long as both ends are open (`UpOK`, `DownOK`); a loss needs that the
server's end is closed, or the client gone, and that a line was never read (`Broken`). Of a shell it says that its
buffer is a stretch of the lines read from its connection, after the one in `cmdline`
(`ProcOK`), and of the first shell that the stretch is the last one as long as it alone reads
(`FirstOK`). `AcceptedOnce` is needed for that: a connection is at any time at one place (out, in the backlog,
held by the server, with its shell), so that it gets one first shell. Each
action is then one of a few moves on a client and on a process (`ClientMoves`,
`ProcessMoves`), and the invariant is shown for the moves. StreamsInOrder is BytesInOrder, its state
part read off the invariant and its action part (`LaterLine`) shown for each step
that evaluates a line; OutputOnlyLostWithInput reads off `DownOK`.

**ExercisesProofs**, philosophers (N >= 2, Rounds >= 1). `TableInv` is TypeOK, NoSharedStick and
StickAccounted, with the facts that a thread in its loop has meals left and that
main has joined the threads below `mainI`. The three properties need each other: a
semaphore that is posted was 0 because its stick was held, and by nobody else.
NoUseAfterDestroy follows from what main has joined. If no
thread could step, the holder of any taken stick would wait for a higher stick
that is taken too; there is a highest one, hence NoCircularWait.

**ExercisesProofs**, linkedlist (any number of nodes, any words). `RingInv` is that
`next` and `prev` are inverse, that some labelling of the elements by their ring agrees
along `next`, and which elements are linked in each phase. Two lemmas, a node put
between neighbours and a node taken out, carry all four list functions;
WellLinkedRings follows. `OrderInv` says more: a ring is a function F on the integers,
whose values from `lo` to `hi` are its nodes in their order and which is the head
elsewhere, so that an element added or taken at either end changes F in one place
(`Cyclic`). In each phase such functions exist for both rings, they share out the
nodes, the stack's k-th node has the k-th character of the word, and the characters
popped are the word's last ones in reverse; WordReversed is the end of it. Taking at one
end is shown once, and mirrored (`Mirrored`) for the other.

**ExercisesProofs**, parse_expr (expressions of any length, any digits, any word size).
ExpressionComputed says that the compiler is right; the proof has four layers.
- The machine. `Moves` is a step of a program with its place and stack as parameters,
  `Leads` that one configuration comes to another: every set that holds the one and is
  closed under the steps holds the other. A piece of code `Computes` a value if in
  whatever program it stands, and whatever is on the stack, it pushes a word for that
  value, or stops at a division by zero that the value excuses. This is shown for a
  digit, a sign, the four operations and `?:`, where the piece's labels must stand
  nowhere else (`Fresh`).
- The value. `Value` is a recursive function over parts of the string that splits at the
  last operator that binds least; that it exists is shown (`ValuesExist`). Where two whole
  expressions stand around an operator, the splits of the whole are those of the two
  sides and the operator (`SplitsJoin`, by counting parentheses), so that the place is
  the one at which the parser put its instruction (`ProductValue`, `SumValue`,
  `CondValue`).
- The parser. `Piece` joins the two: a part of the string, free of certain operators
  outside its parentheses, and the code for its value. Every nonterminal is `Sound`, given
  that those it calls are: what it returns continues what stands before it to a piece. It
  calls only what starts further right, or there with a lower rank (`AgreeBelow`), so
  that the recursion has one solution, and that one is sound (`ParserExists`,
  `ParserUnique`). ParsedExpression reads off this.
- The run. `ExprInv` says that the running program is on its way to its end: the footer
  with one word on the stack that stands for the value, or a division by zero that is
  excused. A step leaves no end and stays on the way (`EndsThere`, `RunsOn`), so that
  the footer finds that word alone on the stack. `Leads` speaks of all sets, so that
  TLC cannot evaluate this invariant; what it checks is ExprComputed.

**ExercisesProofs**, printbin (words of any width > 2). `BinInv` says of the way
down that the shift has not passed the highest bit of `n` by more than one, and of the
way up that the digits printed are those of `n` div 2^shift, the first of them 1
(`Upper`). 1 << shift is the power of two it should be only below the sign bit, which
is why numbers from 2^(Width - 2) on are excepted.

**ExercisesProofs**, shell_base (any PATH, files and lines). `BaseInv` says of a search
that it found nothing at the places it has passed, or has lost the name at the first
that held something it could not execute; and that a child that is not in the
background is the one the shell waits for. SearchesAndWaits adds that the places
searched are those of PATH without the last (`SearchedPlaces`).

**AllocProofs** (any memory, growth and requests). `IInv` describes the words by the
set S of the blocks' places: it holds 0 and the epilog, the size in each header leads
to the next member of S, the word there repeats the header (`Heap`); no free block is
followed by a free one (`Merged`); all members are even, so that no rest of a split is a
single word; and the blocks in use are those the client holds (`HeldAre`). The first layer
shows that walking the headers finds exactly S (`ListIs`), the second what one block in
place of several, a block cut in two and a longer heap do to it (`Retag`, `Split`,
`Extend`), the third what `Coalesce` and `Take` do, the last what a call does: `Hands`
for Malloc, `Frees` for Free. TagsAgree, FreeBlocksMerged, PayloadKept and
Implementation read off these. The theorems assume `ReturnsBlock` of the steps that
extend the heap: the build leaves the merged block in the return register, or the heap ends with a
block in use, where `Coalesce` reaches its `return`. Without it they are false, as
`alloc_extend` shows; merging in `Free` needs no assumption.

**ShellProofs** (any number of processes, any MAXPIDS, lines and programs). `IInv`
says, for each place in `run_cmd_list`, how many pids there are and whether the
list's last token has been read, which is when the check of line 162 is behind;
OverrunIsOne reads off the place of the loop that waits. It also says that in a
foreground list none of the pids the loop has passed is a child: `waitpid` takes it
or finds none, no pid is given out again while an array names it, and children of
another process never become one's own. ForegroundIsReaped is that fact at the end
of the loop, which is the only way out of it (LeavesByEndList).
`FdInv` is about types and descriptors: each variable of a process has its type, what is
open where depends on the place in the code (`FdsByPlace`: which descriptors `run_cmd` still has to
redirect or close, and that `open` and `pipe` gave free numbers), and no child of a process holds a
write end that the process has yet to hand out. TypeCorrect and WriteEndOnce read
off it.

Induction is used as a statement about sets: a set of naturals that is not empty has a
least element, from which follow `Induction` and the existence of functions defined by
recursion (`Recursion`, `Iteration`). A recursive function of the model is a CHOOSE
until its existence is shown.

Only model-checked: liveness (Termination of both thread programs, HangsOnlySelfTied,
EndsOrBlocked), which needs fairness. That the parser reads every right expression is
not stated anywhere: ExprComputed is about those it accepts.

## Not modelled

Widths: `size_t` and `int` sizes in `alloc.c`, 16-bit PTEs in `cache.c` (they
fit). The unit tests are not programs of their own here: their calls are among
those any client of the models makes. stdio buffering in `tictactoe.c` is taken
to do what `fseek` and `fflush` promise; that a forked child of a shell inherits
unread or unwritten stdio buffers is left out in `Shell`, and so are output and its order
there. In `RemoteShell` the buffer of stdin is modelled and copied, in lines; that of stdout is part of the
chunk that the next flush writes, and a read that ends within a line is left out. A `Word` that is
not aligned is left out in `cache.c`. A second shell of `Shell` that reads a pipe takes each chunk for an
empty line, and a line of `MCShell` starts a program that never ends only within a pipe. Words and paths have no length, so that the sizes of the shells' buffers
do not matter. `util.h` swaps bytes; `sections.c`, an annotated assembly listing,
has no behaviour. In `Shell` an `open` fails when the descriptors are used up; that `pipe`, whose
result the code does not look at, fails then is cut off by its guard (`CanPipe`, bounds `MaxFd` and
`MaxPipes`).

## Plan

Every component with a behaviour is modelled, and every safety property that a run
checks is proved. Next would be the other half of the parser, that it accepts
every expression of its grammar, and which of them assemble.
