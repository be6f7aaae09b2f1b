------------------------------ MODULE MemoryTest ------------------------------
(***************************************************************************)
(* memoryTest.c with the library pageAllocator.c, the one program that     *)
(* uses the page allocator: testMemory allocates the memory of a zone in   *)
(* blocks, fills each with a pattern, reads it back, and frees the blocks. *)
(*                                                                         *)
(* The program makes one system call at a time; the steps of an allocation *)
(* in the kernel interleave with the rest of the system, which takes pages *)
(* and gives them back.  The driver is loaded and unloaded around tests    *)
(* (functionalTest in TDTestFunctions.c).                                  *)
(***************************************************************************)
EXTENDS PageAllocator

CONSTANTS
  BlocksOf,     \* [Zones -> maxCount], the blocks before the last one
  DivisorOf,    \* [Zones -> dividor]
  FaultySets,   \* the sets of pages that may turn out to be faulty
  MaxOthers     \* bound of the model: pages the rest of the system has

ASSUME TestAssumption ==
  /\ BlocksOf \in [Zones -> Nat \ {0}] /\ DivisorOf \in [Zones -> Nat \ {0}]
  /\ \A z \in Zones : BlocksOf[z] < MaxBlocks   \* 31 and 2 of 32
  /\ FaultySets \subseteq SUBSET Pages /\ MaxOthers \in Nat

VARIABLES
  step,       \* what the program does next
  zone,       \* memType
  j,          \* the number of blocks so far
  want,       \* pages_to_allocate
  nomem,      \* nomem
  block,      \* block: the result of the last allocation
  pattern,    \* what the present block is filled with
  buffer,     \* data: what the last page read left there
  failed,     \* failures > 0
  faulty,     \* the pages that do not keep what is written
  others,     \* the pages the rest of the system has
  clean       \* history: the zone had no blocks when testMemory began

memtest == <<step, zone, j, want, nomem, block, pattern, buffer, failed, clean>>
memoryVars == <<kernel, memtest, faulty, others>>

\* available_pages, whose two readings of the number of free pages are one here.
available(z) == IF Loaded THEN Max({0, freePages(z) - (PagesMin + 2)}) ELSE 0

\* The digits are copied without an end: others may follow on the kernel's stack.
Parsed(n) == {n, ULong - 1}

block_size(z, b) == IF b \in Blocks THEN allocated[z][b] ELSE 0

OtherZone(z) == IF z = Low THEN High ELSE Low
NoneAllocated(z) == \A b \in Blocks : allocated[z][b] = 0

MemoryInit ==
  /\ AllocatorInit
  /\ step = "idle" /\ zone = High /\ j = 0 /\ want = 0 /\ nomem = FALSE
  /\ block = EFAULT /\ pattern = Zeros /\ buffer = Zeros /\ failed = FALSE
  /\ faulty \in FaultySets /\ others = {} /\ clean = TRUE

\* The local variables of testMemory.
locals == <<j, want, nomem, block, pattern, buffer>>
LocalsEnd ==
  /\ j' = 0 /\ want' = 0 /\ nomem' = FALSE
  /\ block' = EFAULT /\ pattern' = Zeros /\ buffer' = Zeros

-------------------------------------------------------------------------------
\* main, or burninMemTest, calls testMemory: first for low, then for high memory.
TestMemory ==
  /\ step = "idle"
  /\ zone' = OtherZone(zone)
  /\ clean' = NoneAllocated(zone')
  /\ failed' = (failed /\ zone' = High)
  /\ IF available(zone') = 0
     THEN UNCHANGED <<step, locals>>
     ELSE /\ step' = "block" /\ j' = 0 /\ nomem' = FALSE
          /\ want' = available(zone') \div DivisorOf[zone']
          /\ pattern' = Zeros /\ buffer' = Zeros /\ block' = EFAULT
  /\ UNCHANGED <<kernel, faulty, others>>

LastBlock == j = BlocksOf[zone]

\* The kernel's part of allocate_pages: refused at once, or begun.
Request(n) ==
  \E w \in Parsed(n) :
    \/ AllocateBegin(zone, w) /\ step' = "allocate" /\ UNCHANGED block
    \/ /\ ~Admitted(zone, w)
       /\ step' = "write" /\ block' = EFAULT
       /\ UNCHANGED kernel

NextBlock ==
  /\ step = "block" /\ (LastBlock \/ available(zone) > 0)
  /\ pattern' = pattern + 1
  /\ want' = IF LastBlock THEN available(zone) ELSE want
  /\ Request(want')
  /\ UNCHANGED <<zone, j, nomem, buffer, failed, clean, faulty, others>>

\* Nothing is left before the last block: one block less is freed than there are.
NoMemory ==
  /\ step = "block" /\ ~LastBlock /\ available(zone) = 0
  /\ nomem' = TRUE /\ j' = j - 1 /\ step' = "free"
  /\ UNCHANGED <<kernel, zone, want, block, pattern, buffer, failed, clean, faulty, others>>

Allocating ==
  /\ AllocateEntry \/ AllocateFails \/ MapFails \/ AllocateStops
  /\ UNCHANGED <<memtest, faulty, others>>

Allocated ==
  /\ \E created \in SUBSET BlockFiles(call.zone, call.block) :
       AllocateEnd(created) /\ block' = Result(created)
  /\ step' = "write"
  /\ UNCHANGED <<zone, j, want, nomem, pattern, buffer, failed, clean, faulty, others>>

\* A block that misses a file cannot be written, or read: opening it fails.
HasFile(kind) == <<zone, block, kind>> \in files

WriteBlock ==
  /\ step = "write"
  /\ \/ /\ HasFile("write")
        /\ WritePages(zone, block, block_size(zone, block), pattern, faulty)
     \/ ~HasFile("write") /\ UNCHANGED kernel
  /\ step' = "read"
  /\ UNCHANGED <<zone, j, want, nomem, block, pattern, buffer, failed, clean, faulty, others>>

\* What the buffer holds after the first k pages of the block were read.
BufferAfter(k) == IF HasFile("read") THEN ReadPages(zone, block, k, buffer) ELSE buffer

\* Mutant: the failures of earlier blocks are forgotten.
ReadBlockForgets ==
  /\ step = "read"
  /\ LET span == block_size(zone, block)
     IN /\ HasFile("read") /\ span > 0 => ~lock[zone]
        /\ buffer' = BufferAfter(span)
        /\ failed' = \E k \in 1..span : BufferAfter(k) # pattern
  /\ j' = j + 1
  /\ step' = IF LastBlock THEN "free" ELSE "block"
  /\ UNCHANGED <<kernel, zone, want, nomem, block, pattern, clean, faulty, others>>

\* In the last block a mismatch moves the pointer, not the number of failures.
ReadBlock ==
  /\ step = "read"
  /\ LET span == block_size(zone, block)
     IN /\ HasFile("read") /\ span > 0 => ~lock[zone]
        /\ buffer' = BufferAfter(span)
        /\ failed' = (failed \/ (~LastBlock /\ \E k \in 1..span : BufferAfter(k) # pattern))
  /\ j' = j + 1
  /\ step' = IF LastBlock THEN "free" ELSE "block"
  /\ UNCHANGED <<kernel, zone, want, nomem, block, pattern, clean, faulty, others>>

\* The elements of blocks from j on are not initialized.
FreeMemory ==
  /\ step = "free"
  /\ \E garbage \in SUBSET {b \in Blocks : b >= j} :
       let_my_pages_go(zone, {b \in Blocks : b < j} \cup garbage)
  /\ step' = "idle" /\ LocalsEnd
  /\ UNCHANGED <<zone, failed, clean, faulty, others>>

\* handle_signals frees every block of both zones and ends the program.  A signal
\* is delivered when the program is not in the kernel.
Signal ==
  /\ step \in {"block", "write", "read", "free"}
  /\ step' = "signal" /\ LocalsEnd
  /\ UNCHANGED <<kernel, zone, failed, clean, faulty, others>>

\* Mutant: only the low zone is freed.
HandleSignalLowOnly ==
  /\ step = "signal"
  /\ let_my_pages_go(Low, Blocks)
  /\ step' = "idle" /\ zone' = High
  /\ UNCHANGED <<locals, failed, clean, faulty, others>>

HandleSignal ==
  \/ /\ step = "signal"
     /\ let_my_pages_go(Low, Blocks)
     /\ step' = "signal high" /\ UNCHANGED zone
     /\ UNCHANGED <<locals, failed, clean, faulty, others>>
  \/ /\ step = "signal high"
     /\ let_my_pages_go(High, Blocks)
     /\ step' = "idle" /\ zone' = High
     /\ UNCHANGED <<locals, failed, clean, faulty, others>>

-------------------------------------------------------------------------------
OthersTake ==
  /\ Cardinality(others) < MaxOthers
  /\ \E p \in FromLow(free) \cup FromHigh(free) :
       free' = free \ {p} /\ others' = others \cup {p}
  /\ UNCHANGED <<allocated, pages, lock, contents, call, entries, files, fails, kept,
                 unfiled, halfFiled, memtest, faulty>>

OthersReturn ==
  /\ \E p \in others : free' = free \cup {p} /\ others' = others \ {p}
  /\ UNCHANGED <<allocated, pages, lock, contents, call, entries, files, fails, kept,
                 unfiled, halfFiled, memtest, faulty>>

\* functionalTest loads the driver before a test and unloads it afterwards.
LoadDriver ==
  /\ step = "idle" /\ zone = High
  /\ Load \/ (\E k \in 1..Len(CreationOrder) : LoadFails(k)) \/ Unload
  /\ UNCHANGED <<memtest, faulty, others>>

ProgramStep ==
  \/ TestMemory \/ NextBlock \/ NoMemory \/ Allocating \/ Allocated
  \/ WriteBlock \/ ReadBlock \/ FreeMemory \/ HandleSignal

MemoryNext == ProgramStep \/ Signal \/ OthersTake \/ OthersReturn \/ LoadDriver
MemorySpec == MemoryInit /\ [][MemoryNext]_memoryVars

-------------------------------------------------------------------------------
Entry == [page : Pages, high : UNION {[1..n -> Pages] : n \in 0..PagesPerPage}]

\* Variables keep to their ranges.
MemoryTypeOK ==
  /\ free \subseteq Pages /\ others \subseteq Pages
  /\ \A z \in Zones, b \in Blocks :
       /\ allocated[z][b] \in 0..Cardinality(Pages)
       /\ \A k \in DOMAIN pages[z][b] : pages[z][b][k] \in Entry
  /\ lock \in [Zones -> BOOLEAN]
  /\ call.i \in 0..ULong - 1 /\ call.count \in 0..ULong - 1
  /\ step \in {"idle", "block", "allocate", "write", "read", "free", "signal", "signal high"}
  /\ block \in Blocks \cup {EFAULT}
  /\ j \in -1..MaxBlocks /\ fails \in 0..MaxFails

BlockPages(z, b) == Held(z, b, Len(pages[z][b]))

\* No page is in two blocks, or in a block and given out again: a double free, or
\* a block overwritten while it is in use, would put one there.
PagesOnce ==
  /\ \A z \in Zones, b \in Blocks : BlockPages(z, b) \cap (free \cup others) = {}
  /\ \A z, y \in Zones, b, c \in Blocks :
       <<z, b>> # <<y, c>> => BlockPages(z, b) \cap BlockPages(y, c) = {}
  /\ \A z \in Zones, b \in Blocks : \A k \in DOMAIN pages[z][b] :
       LET entry == pages[z][b][k]
       IN /\ IsInjective(entry.high) /\ entry.page \notin Range(entry.high)
          /\ \A i \in DOMAIN pages[z][b] \ {k} :
               EntryPages(entry) \cap EntryPages(pages[z][b][i]) = {}

\* The range check never fires, so the reported size is all that keeps a program
\* within a block: what it reports, and what is freed by it, is there.
SizeCovered ==
  \A b \in Blocks :
    /\ allocated[Low][b] <= Len(pages[Low][b])
    /\ freeCnt(High, b) <= Len(pages[High][b])

\* A test of sound memory never fails, whatever allocations were cut short: every
\* page reads back the pattern of its own block.  Unless only one of a block's files could be
\* created: the program then writes pages it cannot read, or reads what it did not write.
NoFalseFailure == failed => faulty # {} \/ halfFiled

\* The pages of a block that the program can read.
TestedPages(b) ==
  {q \in Pages : /\ <<zone, b, "read">> \in files
                 /\ \E p \in 0..allocated[zone][b] - 1 : q \in PageAt(zone, b, p)}

\* A fault in any block but the last one of a test is reported at its end, whatever
\* the blocks after it were like, and whether or not the block could be written.  (A block
\* without its file for reading is not read.)
FaultReported ==
  step = "free" /\ clean
    => \A b \in Blocks : (nomem \/ b # block) /\ TestedPages(b) \cap faulty # {} => failed

\* A block has files only while it has pages, and then all that could be created.  The files
\* of the driver are there all or not at all, also after loading failed at any entry.
FilesMatchBlocks ==
  /\ \A z \in Zones, b \in Blocks :
       IF allocated[z][b] > 0 THEN BlockFiles(z, b) \subseteq files \cup unfiled
       ELSE BlockFiles(z, b) \cap files = {}
  /\ Range(CreationOrder) \subseteq entries \/ entries = {}

\* The driver's records of its blocks are true: no page twice, no size too large, and no
\* file of a block without pages (page_alloc.c).
BlocksInv == MemoryTypeOK /\ PagesOnce /\ SizeCovered /\ FilesMatchBlocks

\* A program that was stopped by a signal leaves no block of either zone.
SignalFreesAll ==
  [][(step \in {"signal", "signal high"} /\ step' = "idle")
       => allocated' = NoBlocks]_memoryVars

\* A test that found the zone empty, and did not run out of memory on the way,
\* leaves it empty.
TestFreesItsBlocks ==
  [][step = "free" /\ step' = "idle" /\ clean /\ ~nomem
       => allocated'[zone] = NoBlocks[zone]]_memoryVars

\* Whichever way a test ends, by a signal or by itself, its blocks are given back.
BlocksGivenBack == SignalFreesAll /\ TestFreesItsBlocks

\* No step of a test waits for a lock for ever, except after an allocation that
\* returned with the lock held.
NeverStuck == step # "idle" /\ ~kept => ENABLED ProgramStep
===============================================================================
