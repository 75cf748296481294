----------------------------- MODULE MemSystem -----------------------------
(***************************************************************************)
(* The memory system of cache.c: processes whose page tables lie in the    *)
(* first frames of the physical memory, pages brought in from a disk on    *)
(* demand and swapped out when no frame is left, the cache Lx between them *)
(* and the memory, and the TLB in front of the page table of the process   *)
(* that runs.                                                              *)
(*                                                                         *)
(* Addresses count words.  A PTE is one word (main asserts it), so that    *)
(* entry vpn of the table at PTBR is at PTBR + vpn, and that address is    *)
(* also the number of the page's copy on the disk.                         *)
(*                                                                         *)
(* Every function of the code becomes the set of the states it may end in, *)
(* for rand() picks the lines and frames to evict.  The program is         *)
(* sequential: a step is one whole call.                                   *)
(***************************************************************************)
EXTENDS Integers

CONSTANTS
  MaxProcess,     \* MAXPROCESS
  NPages,         \* PAGECOUNT, as the number of pages of a process
  NFrames,        \* PAGECOUNT, as the number of page frames
  PageWords,      \* words of a page
  LxSets, LxLines, LxBlock,   \* geometry of Lx
  TLBLines,       \* lines of the TLB
  Data,           \* the words that processes write
  ClientPages,    \* the pages that processes use
  ClientOffsets   \* the words of a page that they use

VARIABLES
  ms,     \* the MemSystem; quit: err_quit was called; out: an out parameter
  ret     \* what the last call returned, as AddressSpaces describes it

vars == <<ms, ret>>

Pid == 0..MaxProcess-1
Page == 0..NPages-1
Frame == 0..NFrames-1
Offset == 0..PageWords-1

\* The page tables fill the frames below this one (2*MAXPROCESS in the code).
TableFrames == (MaxProcess * NPages) \div PageWords
DataFrame == TableFrames..NFrames-1

ASSUME MemSystemAssumption ==
  /\ {MaxProcess, NPages, NFrames, PageWords} \subseteq Nat \ {0}
  /\ {LxSets, LxLines, LxBlock, TLBLines} \subseteq Nat \ {0}
  /\ NPages % 2 = 0 /\ NPages % PageWords = 0
  /\ NFrames > TableFrames
  /\ (NFrames * PageWords) % (LxSets * LxBlock) = 0 /\ PageWords % LxBlock = 0
  /\ Data \subseteq 0..3*NFrames-1
  /\ ClientPages \subseteq Page /\ ClientOffsets \subseteq Offset

Lx == INSTANCE CacheOps WITH
  NSets <- LxSets, NLines <- LxLines, BlockSize <- LxBlock,
  NTags <- (NFrames * PageWords) \div (LxSets * LxBlock)

\* initMemSystem gives the TLB addresses of VPNBITS bits, although they count
\* bytes: the tag that findCacheLine compares has one bit less than a vpn.
TLB == INSTANCE CacheOps WITH
  NSets <- 1, NLines <- TLBLines, BlockSize <- 1, NTags <- NPages \div 2

\* ms->rmap[fn] == (DWord)-1: nobody uses the frame.
Unused == -1

\* What initProcess marks the frames of a page table with; nobody reads it.
TableMark == -2

VPNVALID == 2 * NFrames
PTE(fn) == VPNVALID + fn
Valid(pte) == pte >= VPNVALID
PFN(pte) == pte % NFrames

\* PTBR of process pid, in words: 2*PAGESIZE bytes hold one entry per page.
Table(pid) == pid * NPages

PTEAdrs(m, vpn) == m.PTBR + vpn

PhysAdrs(fn, vpo) == fn * PageWords + vpo

-----------------------------------------------------------------------------
(* Sequencing: Op runs on every outcome that has not called err_quit. *)

Then(outcomes, Op(_)) ==
  UNION {IF m.quit THEN {m} ELSE Op(m) : m \in outcomes}

Check(ok, m) == {[m EXCEPT !.quit = ~ ok]}

-----------------------------------------------------------------------------
(* Physical memory, TLB and page table *)

ReadFromPhysicalMem(m, padrs) ==
  {[m EXCEPT !.Lx = r.c, !.mem = r.mem, !.quit = r.quit, !.out = r.w] :
     r \in Lx!ReadFromPhysicalMem(m.Lx, m.mem, padrs)}

WriteToPhysicalMem(m, padrs, w) ==
  {[m EXCEPT !.Lx = r.c, !.mem = r.mem, !.quit = r.quit] :
     r \in Lx!WriteToPhysicalMem(m.Lx, m.mem, padrs, w)}

FlushLx(m, invalidate) ==
  [m EXCEPT !.mem = Lx!FlushedMem(m.Lx, @), !.Lx = Lx!FlushedCache(@, invalidate)]

\* Mutation: the TLB is never invalidated.
KeepTLB(m) == m

FlushTLB(m) == [m EXCEPT !.TLB = TLB!FlushedCache(@, TRUE)]

WriteToTLB(m, vpn, pte) ==
  {[m EXCEPT !.TLB = r.c, !.quit = r.quit] :
     r \in TLB!WriteToCache(m.TLB, TLB!NULL, vpn, pte)}

ReadPTE(m, vpn) ==
  IF TLB!InCache(m.TLB, vpn)
    THEN {[m EXCEPT !.out = TLB!CachedWord(m.TLB, vpn)]}
    ELSE Then(ReadFromPhysicalMem(m, PTEAdrs(m, vpn)),
              LAMBDA n : WriteToTLB(n, vpn, n.out))

-----------------------------------------------------------------------------
(* Paging *)

\* memcpy of frame fn to page doff of the disk.
CopyToDisk(m, fn, doff) ==
  [m EXCEPT !.disk[doff] = [o \in Offset |-> m.mem[PhysAdrs(fn, o)]]]

CopyFromDisk(m, doff, fn) ==
  [m EXCEPT !.mem = [a \in DOMAIN @ |->
     IF a \div PageWords = fn THEN m.disk[doff][a % PageWords] ELSE @[a]]]

\* Mutation: Lx is not flushed before the page is copied.
SwapOutStale(m, fn) ==
  {FlushTLB(n) :
     n \in WriteToPhysicalMem(CopyToDisk(m, fn, m.rmap[fn]), m.rmap[fn], 0)}

\* The page in frame fn goes to the disk and its owner's PTE becomes 0.
SwapOut(m, fn) ==
  {FlushTLB(n) :
     n \in WriteToPhysicalMem(CopyToDisk(FlushLx(m, FALSE), fn, m.rmap[fn]),
                              m.rmap[fn], 0)}

\* Mutation: rmap is written for a free frame only.
MapUnlessTaken(m, vpn, fn) ==
  Then(WriteToTLB([m EXCEPT !.rmap[fn] = IF @ = Unused THEN PTEAdrs(m, vpn) ELSE @,
                            !.out = PTE(fn)], vpn, PTE(fn)),
       LAMBDA n : WriteToPhysicalMem(n, PTEAdrs(n, vpn), PTE(fn)))

\* Frame fn becomes that of page vpn, in rmap, TLB and page table.
MapPage(m, vpn, fn) ==
  Then(WriteToTLB([m EXCEPT !.rmap[fn] = PTEAdrs(m, vpn), !.out = PTE(fn)],
                  vpn, PTE(fn)),
       LAMBDA n : WriteToPhysicalMem(n, PTEAdrs(n, vpn), PTE(fn)))

\* Mutation: the search for a free frame starts at frame 0.
FreeFromZero(m) == {fn \in Frame : m.rmap[fn] = Unused}

FreeFrames(m) == {fn \in DataFrame : m.rmap[fn] = Unused}

\* The first free frame, or whichever one rand() picks once it is swapped out.
AllocateFrame(m, vpn) ==
  IF FreeFrames(m) # {}
    THEN MapPage(m, vpn, CHOOSE fn \in FreeFrames(m) : \A g \in FreeFrames(m) : fn <= g)
    ELSE UNION {Then(SwapOut(m, fn), LAMBDA n : MapPage(n, vpn, fn)) : fn \in DataFrame}

ReadPageFromDisk(m, vpn) ==
  LET mapped == Then(ReadPTE(m, vpn),
                     LAMBDA n : IF Valid(n.out) THEN {n} ELSE AllocateFrame(n, vpn))
  IN  Then(mapped,
           LAMBDA n : {CopyFromDisk(FlushLx(n, TRUE), PTEAdrs(n, vpn), PFN(n.out))})

WritePageToDisk(m, vpn) ==
  Then(Then(ReadPTE(m, vpn), LAMBDA n : Check(Valid(n.out), n)),
       LAMBDA n : {CopyToDisk(FlushLx(n, FALSE), PFN(n.out), PTEAdrs(n, vpn))})

-----------------------------------------------------------------------------
(* Virtual memory *)

\* The PTE of page vpn, once the page is in memory.
Translate(m, vpn) ==
  Then(ReadPTE(m, vpn), LAMBDA n :
    IF Valid(n.out) THEN {n}
    ELSE Then(Then(ReadPageFromDisk(n, vpn),
                   LAMBDA k : ReadFromPhysicalMem(k, PTEAdrs(k, vpn))),
              LAMBDA k : Check(Valid(k.out), k)))

ReadFromVirtualMem(m, vpn, vpo) ==
  Then(Translate(m, vpn),
       LAMBDA n : ReadFromPhysicalMem(n, PhysAdrs(PFN(n.out), vpo)))

WriteToVirtualMem(m, vpn, vpo, w) ==
  Then(Translate(m, vpn),
       LAMBDA n : WriteToPhysicalMem(n, PhysAdrs(PFN(n.out), vpo), w))

-----------------------------------------------------------------------------
(* What the memory system shows *)

\* The word at a physical address, wherever its latest copy is.
PhysWord(a) == Lx!WordAt(ms.Lx, ms.mem, a)

\* The word at offset vpo of page vpn of process pid.
VirtualWord(pid, vpn, vpo) ==
  LET pte == PhysWord(Table(pid) + vpn) IN
  IF Valid(pte) THEN PhysWord(PhysAdrs(PFN(pte), vpo))
  ELSE ms.disk[Table(pid) + vpn][vpo]

-----------------------------------------------------------------------------
(* The calls of a client *)

Spaces == INSTANCE AddressSpaces WITH
  Pids <- Pid, VAdrs <- Page \X Offset, Words <- Data \cup {0},
  current <- ms.PTBR \div NPages,
  space <- [p \in Pid |-> [v \in Page \X Offset |-> VirtualWord(p, v[1], v[2])]]

Quit == [op |-> "quit"]

\* initMemSystem; malloc of blocks this large returns pages of zeros.
Init ==
  /\ ms = [mem  |-> [a \in 0..NFrames*PageWords-1 |-> 0],
           disk |-> [d \in 0..MaxProcess*NPages-1 |-> [o \in Offset |-> 0]],
           Lx   |-> Lx!EmptyCache,
           TLB  |-> TLB!EmptyCache,
           rmap |-> [fn \in Frame |-> Unused],
           PTBR |-> 0,
           out  |-> 0,
           quit |-> FALSE]
  /\ ret = Spaces!Done

\* The frames that the page table of pid fills.
TableOf(pid) == {fn \in Frame : (fn * PageWords) \div NPages = pid}

Created(pid) == \A fn \in TableOf(pid) : ms.rmap[fn] = TableMark

\* A call has returned, in state m and with answer r.
Return(m, r) ==
  /\ ms' = [m EXCEPT !.out = 0]
  /\ ret' = IF m.quit THEN Quit ELSE r

\* initProcess; a process is created once.
InitProcess(pid) ==
  /\ ~ Created(pid)
  /\ Return([ms EXCEPT
       !.rmap = [fn \in Frame |-> IF fn \in TableOf(pid) THEN TableMark ELSE @[fn]],
       !.mem  = [a \in DOMAIN @ |-> IF a \div NPages = pid THEN 0 ELSE @[a]]],
       Spaces!Done)

SwitchToProcess(pid) ==
  /\ Created(pid)
  /\ Return([FlushTLB(ms) EXCEPT !.PTBR = Table(pid)], Spaces!Done)

\* Virtual memory is used once the process at PTBR has been created.
Running == \E pid \in Pid : ms.PTBR = Table(pid) /\ Created(pid)

DoReadFromVirtualMem(vpn, vpo) ==
  /\ Running
  /\ \E m \in ReadFromVirtualMem(ms, vpn, vpo) :
       Return(m, Spaces!Got(<<vpn, vpo>>, m.out))

DoWriteToVirtualMem(vpn, vpo, w) ==
  /\ Running
  /\ \E m \in WriteToVirtualMem(ms, vpn, vpo, w) :
       Return(m, Spaces!Wrote(<<vpn, vpo>>, w))

\* "writing an invalid page" is an error of the caller, who saves a page only
\* when it is in memory.
DoWritePageToDisk(vpn) ==
  /\ Running
  /\ Valid(PhysWord(PTEAdrs(ms, vpn)))
  /\ \E m \in WritePageToDisk(ms, vpn) : Return(m, Spaces!Done)

Next ==
  /\ ~ ms.quit
  /\ \/ \E pid \in Pid : InitProcess(pid) \/ SwitchToProcess(pid)
     \/ \E vpn \in ClientPages :
          \/ DoWritePageToDisk(vpn)
          \/ \E vpo \in ClientOffsets :
               \/ DoReadFromVirtualMem(vpn, vpo)
               \/ \E w \in Data : DoWriteToVirtualMem(vpn, vpo, w)

Spec == Init /\ [][Next]_vars

-----------------------------------------------------------------------------

Word == Data \cup {0} \cup {PTE(fn) : fn \in DataFrame}

\* err_quit is never called: "cache is not loaded" (189, 220), "Physical memory
\* not loaded" (232), "valid bit is not set after reading the page" (323, 338),
\* "writing an invalid page" (301).
NeverQuits == ~ ms.quit

\* The type invariant, and that no error path is taken.
TypeOK ==
  /\ ms.mem \in [0..NFrames*PageWords-1 -> Word]
  /\ ms.disk \in [0..MaxProcess*NPages-1 -> [Offset -> Data \cup {0}]]
  /\ ms.rmap \in [Frame -> {Unused, TableMark} \cup 0..MaxProcess*NPages-1]
  /\ ms.PTBR \in {Table(pid) : pid \in Pid}
  /\ ms.out = 0 /\ ms.quit \in BOOLEAN /\ NeverQuits
  /\ ret \in {Spaces!Done, Quit} \cup
             {Spaces!Got(v, w) : v \in Page \X Offset, w \in Word}
         \cup {Spaces!Wrote(v, w) : v \in Page \X Offset, w \in Data}

\* A PTE of pid's table is valid exactly when rmap says so: every frame in use
\* belongs to one page of one process, and its owner's PTE names that frame.
RmapInvertsPageTables ==
  /\ \A pid \in Pid, vpn \in Page :
       LET pte == PhysWord(Table(pid) + vpn) IN
       Valid(pte) => PFN(pte) \in DataFrame /\ ms.rmap[PFN(pte)] = Table(pid) + vpn
  /\ \A fn \in DataFrame :
       ms.rmap[fn] # Unused => PhysWord(ms.rmap[fn]) = PTE(fn)

\* What the TLB holds for a page is the PTE in the table of the process that
\* runs: no entry outlives a swap of its page or a switch of processes.
TLBCoherent ==
  \A vpn \in ClientPages :
    TLB!InCache(ms.TLB, vpn) =>
      TLB!CachedWord(ms.TLB, vpn) = PhysWord(PTEAdrs(ms, vpn))

\* The pages of all processes, swapped between frames and disk behind two
\* caches, are memories of their own: no word is lost or shown to another.
ImplementsAddressSpaces == Spaces!Spec

\* A read returns the last word the process wrote there: "incorrect read"
\* (505, 512, 518), "incorrect value is read" (464, 482, 496).
ReadsLatestWrite ==
  [][\A v \in Page \X Offset :
       ret'.op = "read" /\ ret' = Spaces!Got(v, ret'.w) =>
         ret'.w = VirtualWord(ms.PTBR \div NPages, v[1], v[2])]_vars
=============================================================================
