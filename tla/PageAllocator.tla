---------------------------- MODULE PageAllocator ----------------------------
(***************************************************************************)
(* The kernel module page_alloc.c: blocks of pages that a program in user  *)
(* space allocates, writes, reads and frees through files under /proc.     *)
(*                                                                         *)
(* A block of low memory is an array of pages.  A block of high memory is  *)
(* an array of low pages, each of which holds the pointers to up to        *)
(* PagesPerPage high pages.  Both are sequences of entries here: the page  *)
(* of the array and, for high memory, the pages it points to.              *)
(*                                                                         *)
(* What the kernel provides (alloc_pages, spin locks, /proc) is external.  *)
(* The content of a page is the pattern it was last filled with; what a    *)
(* page holds that is given back is not a pattern of anybody any more.     *)
(***************************************************************************)
EXTENDS Integers, Sequences, FiniteSets, FiniteSetsExt, SequencesExt

CONSTANTS
  LowPages, HighPages,  \* the pages of the two zones, as numbers
  PagesMin,             \* pages_min, the pages a zone keeps back
  PagesPerPage,         \* PAGES_PER_PAGE
  MaxBlocks,            \* MAX_PAGE_BLOCKS
  ULong,                \* the modulus of unsigned long
  MaxFails              \* bound of the model: failing alloc_pages, and blocks whose files
                        \* cannot all be created

ASSUME PageAssumption ==
  /\ LowPages \subseteq Nat /\ HighPages \subseteq Nat
  /\ IsFiniteSet(LowPages) /\ IsFiniteSet(HighPages)
  /\ LowPages \cap HighPages = {}
  /\ PagesMin \in Nat /\ PagesPerPage \in Nat \ {0} /\ MaxBlocks \in Nat \ {0}
  /\ MaxFails \in Nat
  /\ ULong \in Nat /\ Cardinality(LowPages \cup HighPages) * 2 < ULong

Low  == "low"    \* LOW_MEM_ZONE
High == "high"   \* HIGH_MEM_ZONE
Zones  == {Low, High}
Blocks == 0..MaxBlocks - 1
Pages  == LowPages \cup HighPages
EFAULT == -1     \* any negative result
Zeros  == 0      \* the pattern of a page or buffer that was cleared

VARIABLES
  free,       \* the pages the kernel can give out
  allocated,  \* allocated_pages: [Zones -> [Blocks -> number of pages]]
  pages,      \* pages: [Zones -> [Blocks -> entries, << >> for NULL]]
  lock,       \* [Zones -> is low_mem_lock, high_mem_lock held]
  contents,    \* [Pages -> pattern]
  call,       \* the proc_allocate_pages_write in progress, or NoCall
  entries,    \* the entries of the module under /proc
  files,      \* the files of blocks under /proc
  fails,      \* number of failures so far, up to the bound
  kept,       \* history: allocate_pages has returned with the lock held
  unfiled,    \* history: the files of blocks that could not be created
  halfFiled   \* history: was a block left with one of its two files

kernel == <<free, allocated, pages, lock, contents, call, entries, files, fails, kept,
            unfiled, halfFiled>>

NoCall == [zone |-> Low, block |-> EFAULT, want |-> 0, size |-> 0, i |-> 0,
           count |-> 0, more |-> FALSE]

Unsigned(x) == x % ULong
ZonePages(z) == IF z = Low THEN LowPages ELSE HighPages
freePages(z) == Cardinality(free \cap ZonePages(z))

\* alloc_pages(GFP_USER) takes low memory; with __GFP_HIGHMEM high memory first.
LowestOf(S) == IF S = {} THEN {} ELSE {Min(S)}
FromLow(S)  == LowestOf(S \cap LowPages)
FromHigh(S) == IF S \cap HighPages = {} THEN FromLow(S) ELSE LowestOf(S \cap HighPages)

\* Calls of alloc_pages(GFP_USER | __GFP_HIGHMEM) return these pages one after another
\* when S is free.
TakenHigh(S, high) ==
  \A k \in DOMAIN high : high[k] \in FromHigh(S \ {high[i] : i \in 1..k - 1})

-------------------------------------------------------------------------------
(* Loading and unloading *)

\* The entries in the order init_page_alloc creates them.
CreationOrder ==
  <<"main", "high", "high/free", "high/min", "low", "low/free", "low/min",
    "high/allocate", "high/allocated", "low/allocate", "low/allocated", "free">>

\* The labels of init_page_alloc, in the order of the text.
UnwindOrder ==
  <<"low/allocated", "low/allocate", "high/allocated", "high/allocate", "low/min",
    "low/free", "low", "high/min", "high/free", "high", "main">>

BlockFiles(z, b) == {<<z, b, "read">>, <<z, b, "write">>}
NoBlocks == [z \in Zones |-> [b \in Blocks |-> 0]]
NoPages  == [z \in Zones |-> [b \in Blocks |-> << >>]]
Loaded == entries # {}

AllocatorInit ==
  /\ free = Pages
  /\ allocated = NoBlocks /\ pages = NoPages
  /\ lock = [z \in Zones |-> FALSE]
  /\ contents = [p \in Pages |-> Zeros]
  /\ call = NoCall /\ entries = {} /\ files = {} /\ fails = 0 /\ kept = FALSE
  /\ unfiled = {} /\ halfFiled = FALSE

\* insmod: the whole of init_page_alloc.
Load ==
  /\ ~Loaded
  /\ entries' = Range(CreationOrder)
  /\ allocated' = NoBlocks /\ pages' = NoPages
  /\ lock' = [z \in Zones |-> FALSE] /\ kept' = FALSE
  /\ UNCHANGED <<free, contents, call, files, fails, unfiled, halfFiled>>

\* insmod when the k-th entry cannot be created: jump to the label that removes
\* entry k - 1, and on from there.
LoadFails(k) ==
  /\ ~Loaded
  /\ entries' = {CreationOrder[i] : i \in 1..k - 1}
                  \ {UnwindOrder[i] : i \in Len(UnwindOrder) - k + 2..Len(UnwindOrder)}
  /\ UNCHANGED <<free, allocated, pages, lock, contents, call, files, fails, kept,
                 unfiled, halfFiled>>

\* How many entries of a block are freed.
freeCnt(z, b) ==
  IF z = Low THEN allocated[z][b]
  ELSE IF allocated[z][b] \in 1..PagesPerPage - 1 THEN 1
  ELSE allocated[z][b] \div PagesPerPage

EntryPages(entry) == {entry.page} \cup Range(entry.high)
Cleared(S) == [p \in Pages |-> IF p \in S THEN Zeros ELSE contents[p]]
Held(z, b, n) == UNION {EntryPages(pages[z][b][k]) : k \in 1..n}

\* rmmod: cleanup_page_alloc frees what is allocated, without the locks.
Unload ==
  /\ Loaded
  /\ LET used == {zb \in Zones \X Blocks : freeCnt(zb[1], zb[2]) > 0}
         given == UNION {Held(zb[1], zb[2], freeCnt(zb[1], zb[2])) : zb \in used}
     IN /\ free' = free \cup given /\ contents' = Cleared(given)
        /\ files' = files \ UNION {BlockFiles(zb[1], zb[2]) : zb \in used}
  /\ entries' = entries \ Range(CreationOrder)
  /\ allocated' = NoBlocks /\ pages' = NoPages   \* the variables are gone
  /\ lock' = [z \in Zones |-> FALSE]
  /\ UNCHANGED <<call, fails, kept, unfiled, halfFiled>>

-------------------------------------------------------------------------------
(* proc_allocate_pages_write *)

FreeBlocks(z) == {b \in Blocks : allocated[z][b] = 0}

\* The number of pages to allocate after both adjustments, 0 for the exits.
Granted(z, wanted) ==
  LET reserve  == freePages(z) - (PagesMin + 1)
      tooMany  == wanted > Unsigned(freePages(z) - PagesMin)
      n        == IF tooMany THEN Unsigned(reserve) ELSE wanted
      table    == n \div PagesPerPage + 1   \* pageStructure
  IN IF wanted = 0 \/ (tooMany /\ reserve = 0) THEN 0
     ELSE IF n < Unsigned(reserve - table) THEN n
     ELSE IF table >= n THEN 0 ELSE n - table

\* The start of the call, up to the loop: failures return at once.  vmalloc
\* cannot give an array for more pages than there are.
Admitted(z, wanted) ==
  LET n == Granted(z, wanted)
  IN n \in 1..Cardinality(Pages) /\ FreeBlocks(z) # {}

AllocateBegin(z, wanted) ==
  LET n == Granted(z, wanted)
      b == Min(FreeBlocks(z))
      size == IF z = Low THEN n ELSE Max({1, n \div PagesPerPage})
  IN /\ Loaded /\ call = NoCall /\ Admitted(z, wanted)
     /\ call' = [zone |-> z, block |-> b, want |-> n, size |-> size, i |-> 0,
                 count |-> 0, more |-> TRUE]
     /\ pages' = [pages EXCEPT ![z][b] = << >>]
     /\ UNCHANGED <<free, allocated, lock, contents, entries, files, fails, kept,
                    unfiled, halfFiled>>

\* allocate_pages of one entry, in the order of the code: the page of the array,
\* then for high memory the pages it points to, until one cannot be had.
InLoop == call.more /\ call.i < call.size
Enough == freePages(call.zone) > PagesMin + 1
Room   == IF call.zone = Low THEN 0 ELSE Max({0, Min({PagesPerPage, call.want - call.count})})

\* A number of entries that was counted down below 0 stands for a huge one.
CountAfter(got, missing) ==
  IF call.zone = Low THEN 0 ELSE Unsigned(call.count + got - (IF missing THEN 1 ELSE 0))

AllocateEntry ==
  /\ InLoop /\ Enough /\ ~lock[call.zone]
  /\ \E p \in FromLow(free), got \in 0..Room :
       \E high \in [1..got -> free \ {p}] :
       LET missing == got < Room
           none == free = {p} \cup Range(high)
       IN /\ TakenHigh(free \ {p}, high)
          /\ missing => none \/ fails < MaxFails
          /\ fails' = IF missing /\ ~none THEN fails + 1 ELSE fails
          /\ free' = free \ ({p} \cup Range(high))
          /\ contents' = [q \in Pages |-> IF q = p /\ call.zone = High THEN Zeros
                                         ELSE contents[q]]
          /\ pages' = [pages EXCEPT ![call.zone][call.block] =
                         Append(@, [page |-> p, high |-> high])]
          /\ call' = [call EXCEPT !.i = @ + 1, !.count = CountAfter(got, missing)]
  /\ UNCHANGED <<allocated, lock, entries, files, kept, unfiled, halfFiled>>

\* The first alloc_pages fails: the function returns with the lock held.
AllocateFails ==
  /\ InLoop /\ Enough /\ ~lock[call.zone]
  /\ \/ FromLow(free) = {} /\ UNCHANGED fails
     \/ FromLow(free) # {} /\ fails < MaxFails /\ fails' = fails + 1
  /\ lock' = [lock EXCEPT ![call.zone] = TRUE] /\ kept' = TRUE
  /\ call' = [call EXCEPT !.i = Unsigned(@ - 1), !.more = FALSE]
  /\ UNCHANGED <<free, allocated, pages, contents, entries, files, unfiled, halfFiled>>

\* The page that holds the pointers cannot be mapped: it is given back.
MapFails ==
  /\ InLoop /\ Enough /\ ~lock[call.zone] /\ call.zone = High
  /\ FromLow(free) # {} /\ fails < MaxFails
  /\ fails' = fails + 1
  /\ call' = [call EXCEPT !.i = Unsigned(@ - 1), !.more = FALSE]
  /\ UNCHANGED <<free, allocated, pages, lock, contents, entries, files, kept,
                 unfiled, halfFiled>>

\* The zone is down to its reserve.
AllocateStops ==
  /\ InLoop /\ ~Enough
  /\ call' = [call EXCEPT !.i = Unsigned(@ - 1), !.more = FALSE]
  /\ UNCHANGED <<free, allocated, pages, lock, contents, entries, files, fails, kept,
                 unfiled, halfFiled>>

\* The pages the call reports.
PagesReported == IF call.zone = High THEN call.count ELSE call.i

AnyReported == PagesReported \notin {0, ULong - 1}

\* The block gets its pages, then its two files.  Either may fail: what matters for the result
\* is whether one of them was created.  A block without is not the caller's, and keeps its
\* pages.
AllocateEnd(created) ==
  /\ call # NoCall /\ ~InLoop
  /\ IF AnyReported
     THEN LET wanted == BlockFiles(call.zone, call.block)
          IN /\ created \subseteq wanted
             /\ created # wanted => fails < MaxFails
             /\ fails' = IF created = wanted THEN fails ELSE fails + 1
             /\ allocated' = [allocated EXCEPT ![call.zone][call.block] = PagesReported]
             /\ files' = files \cup created
             /\ unfiled' = unfiled \cup (wanted \ created)
             /\ halfFiled' = (halfFiled \/ created \notin {{}, wanted})
     ELSE created = {} /\ UNCHANGED <<allocated, files, fails, unfiled, halfFiled>>
  /\ call' = NoCall
  /\ UNCHANGED <<free, pages, lock, contents, entries, kept>>

Result(created) == IF created = {} THEN EFAULT ELSE call.block

-------------------------------------------------------------------------------
(* Reading, writing and freeing a block *)

\* The page number p of a block: the entry of the array (beyond its end there is
\* nothing to point to a page) and, in high memory, the pointer in that entry.  The range
\* check before it, verify_memory_range, passes always: FALSE is ~TRUE, which is not 0.
get_mem_page(z, b, p) ==
  LET k == IF z = High THEN p \div PagesPerPage ELSE p
  IN IF k < Len(pages[z][b]) THEN {pages[z][b][k + 1]} ELSE {}

PageAt(z, b, p) ==
  IF z = Low THEN {e.page : e \in get_mem_page(z, b, p)}
  ELSE UNION {{e.high[k] : k \in {(p % PagesPerPage) + 1} \cap DOMAIN e.high} :
                e \in get_mem_page(z, b, p)}

\* proc_allocated_pages_write and proc_allocated_pages_read take the zone's lock
\* for every page.  A faulty page keeps what it had.
\* Mutant: the last page is not written.
WrittenShort(z, b, span, faulty) == (UNION {PageAt(z, b, p) : p \in 0..span - 2}) \ faulty
Written(z, b, span, faulty) == (UNION {PageAt(z, b, p) : p \in 0..span - 1}) \ faulty

\* Mutant: page_action returns with the lock held when a high page is not there.
WritePagesKeepsLock(z, b, span, pattern, faulty) ==
  /\ Loaded /\ (span > 0 => ~lock[z])
  /\ lock' = [lock EXCEPT ![z] = z = High /\ \E p \in 0..span - 1 : PageAt(z, b, p) = {}]
  /\ contents' = [q \in Pages |-> IF q \in Written(z, b, span, faulty) THEN pattern
                                 ELSE contents[q]]
  /\ UNCHANGED <<free, allocated, pages, call, entries, files, fails, kept, unfiled, halfFiled>>

WritePages(z, b, span, pattern, faulty) ==
  /\ Loaded /\ (span > 0 => ~lock[z])
  /\ contents' = [q \in Pages |-> IF q \in Written(z, b, span, faulty) THEN pattern
                                 ELSE contents[q]]
  /\ UNCHANGED <<free, allocated, pages, lock, call, entries, files, fails, kept,
                 unfiled, halfFiled>>

\* What a buffer that held old holds after the first n pages were read into it, one by
\* one: a page that is not there leaves it as it was.
ReadPages(z, b, n, old) ==
  LET there == {p \in 0..n - 1 : PageAt(z, b, p) # {}}
  IN IF there = {} THEN old ELSE contents[CHOOSE q \in PageAt(z, b, Max(there)) : TRUE]

\* Mutant: the block is not marked as empty.
LetGoKeepsCount(z, blocks) ==
  LET used == {b \in Blocks : b \in blocks /\ freeCnt(z, b) > 0}
  IN /\ Loaded /\ (used # {} => ~lock[z])
     /\ free' = free \cup UNION {Held(z, b, freeCnt(z, b)) : b \in used}
     /\ files' = files \ UNION {BlockFiles(z, b) : b \in used}
     /\ UNCHANGED <<allocated, pages, lock, contents, call, entries, fails, kept,
                    unfiled, halfFiled>>

let_my_pages_go(z, blocks) ==
  LET used == {b \in Blocks : b \in blocks /\ freeCnt(z, b) > 0}
  IN /\ Loaded /\ (used # {} => ~lock[z])
     /\ free' = free \cup UNION {Held(z, b, freeCnt(z, b)) : b \in used}
     /\ files' = files \ UNION {BlockFiles(z, b) : b \in used}
     /\ allocated' = [allocated EXCEPT ![z] = [b \in Blocks |-> IF b \in used THEN 0 ELSE @[b]]]
     /\ pages' = [pages EXCEPT ![z] = [b \in Blocks |-> IF b \in used THEN << >> ELSE @[b]]]
     /\ contents' = Cleared(UNION {Held(z, b, freeCnt(z, b)) : b \in used})
     /\ UNCHANGED <<lock, call, entries, fails, kept, unfiled, halfFiled>>

==============================================================================
