----------------------------- MODULE CopyOnWrite -----------------------------
(***************************************************************************)
(* User memory in kmOS: the frame bitmap and the page directories of       *)
(* arch/x86/vmm.cc, and the copy-on-write manager of arch/x86/cow.cc that  *)
(* fork and the page-fault handler use.  The MMU is external: a store to a *)
(* page that is present but not writable raises the fault, and the store   *)
(* is repeated when the handler returns.                                   *)
(*                                                                         *)
(* Left out: frames_used (a statistic), the user bit, the LRU list that a  *)
(* fault updates, and swapping, which never moves a page because           *)
(* swap_file_write_page always fails.  When no frame is left, alloc_frame  *)
(* asks check_memory_pressure, which recurses through get_memory_stats     *)
(* without end: the kernel is lost.  Operations are atomic: the callers    *)
(* run in the kernel, and no interrupt handler but the fault's touches     *)
(* this state.                                                             *)
(***************************************************************************)
EXTENDS Integers, FiniteSets

CONSTANTS Dirs,           \* the page directories that can exist
          First,          \* the directory of the first process
          NumFrames,      \* MAX_FRAMES less those reserved (2^20 in the code)
          NumPages,       \* the pages from USER_OFFSET to USER_STACK
          PagesPerTable,  \* 1024 in the code
          Values,         \* the contents a page may have
          MaxRefs         \* MAX_COW_REFS (65536 in the code)

ASSUME CopyOnWriteAssumption ==
  /\ First \in Dirs
  /\ {NumFrames, NumPages, PagesPerTable, MaxRefs} \subseteq Nat \ {0}

VARIABLES mm,     \* frame bitmap, page directories and cow_pages
          data,   \* what each frame of memory holds
          view,   \* history: what the process last wrote to, or found in, each page
          up      \* FALSE once the kernel has panicked or overrun its stack

vars == <<mm, data, view, up>>

Frames == 1 .. NumFrames
Pages == 0 .. NumPages - 1
Tables == {p \div PagesPerTable : p \in Pages}
Entry == [present : BOOLEAN, writable : BOOLEAN, frame : Frames \cup {0}]

\* root is physical_address, and 0 when the directory does not exist; tables are
\* the page tables that are present (nothing reads which frame each was given).
Directory == [root : Frames \cup {0}, tables : SUBSET Tables, page : [Pages -> Entry]]

TypeOK ==
  /\ mm \in [used : SUBSET Frames, pd : [Dirs -> Directory], refs : [Frames -> 0 .. MaxRefs]]
  /\ data \in [Frames -> Values]
  /\ view \in [Dirs -> [Pages -> Values]]
  /\ up \in BOOLEAN

\* The other fields of an entry that is not present are never read.
Absent == [present |-> FALSE, writable |-> TRUE, frame |-> 0]
NoDirectory == [root |-> 0, tables |-> {}, page |-> [p \in Pages |-> Absent]]

-------------------------------------------------------------------------------
(* The frame bitmap.  A step that needs more frames than there are is Crash. *)

Left(m) == Frames \ m.used

\* The frame alloc_frame finds: the lowest whose bit is clear.
FreeFrame(m) == CHOOSE f \in Left(m) : \A g \in Left(m) : f <= g

alloc_frame(m) == [m EXCEPT !.used = @ \cup {FreeFrame(m)}]
free_frame(m, f) == [m EXCEPT !.used = @ \ {f}]

create_page_directory(m, d) ==
  [alloc_frame(m) EXCEPT !.pd[d] = [NoDirectory EXCEPT !.root = FreeFrame(m)]]

\* get_page_table(pd, addr, 1): the table is made when it is not present.
get_page_table(m, d, p) ==
  LET t == p \div PagesPerTable
  IN  IF t \in m.pd[d].tables THEN m
      ELSE [alloc_frame(m) EXCEPT !.pd[d].tables = @ \cup {t}]

map_page(m, d, p, f, writable) ==
  [get_page_table(m, d, p) EXCEPT
     !.pd[d].page[p] = [present |-> TRUE, writable |-> writable, frame |-> f]]

unmap_page(m, d, p) ==
  LET e == m.pd[d].page[p]
  IN  IF e.present THEN [free_frame(m, e.frame) EXCEPT !.pd[d].page[p] = Absent] ELSE m

\* Every frame that is mapped, and that of the directory; those of the tables stay.
destroy_page_directory(m, d) ==
  LET e == m.pd[d].page
  IN  [m EXCEPT !.used = @ \ ({m.pd[d].root} \cup {e[p].frame : p \in {q \in Pages : e[q].present}}),
                !.pd[d] = NoDirectory]

-------------------------------------------------------------------------------
(* The list cow_pages: refs[f] is the ref_count of f's entry, 0 without one. *)

\* Mutant: the count has no limit.
ShareUnlimited(m, f) == [m EXCEPT !.refs[f] = IF @ = 0 THEN 2 ELSE @ + 1]

\* alloc_cow_page gives a new entry the count 1, which inc_cow_ref then raises.
Share(m, f) ==
  LET n == IF m.refs[f] = 0 THEN 1 ELSE m.refs[f]
  IN  [m EXCEPT !.refs[f] = IF n < MaxRefs THEN n + 1 ELSE n]

\* The entry goes, and the frame is freed, when the count reaches 0.
dec_cow_ref(m, f) ==
  LET m1 == [m EXCEPT !.refs[f] = IF @ > 0 THEN @ - 1 ELSE 0]
  IN  IF m1.refs[f] = 0 THEN free_frame(m1, f) ELSE m1

\* Mutant: the parent keeps its right to write.
CopyPageWritable(m, dst, src, p) ==
  LET e == m.pd[src].page[p]
      m1 == IF e.writable THEN Share(m, e.frame) ELSE m
  IN  IF e.present THEN map_page(m1, dst, p, e.frame, FALSE) ELSE m

\* One page of cow_copy_page_range: only a page that is writable in the parent is
\* protected and counted.
CopyPage(m, dst, src, p) ==
  LET e == m.pd[src].page[p]
      m1 == IF e.writable THEN Share([m EXCEPT !.pd[src].page[p].writable = FALSE], e.frame)
            ELSE m
  IN  IF e.present THEN map_page(m1, dst, p, e.frame, FALSE) ELSE m

\* Mutant: the last page is left out.
CopyRangeShort(m, dst, src, n) ==
  LET copied[k \in 0 .. n] == IF k = 0 THEN m ELSE CopyPage(copied[k - 1], dst, src, k - 1)
  IN  copied[IF n = NumPages THEN n - 1 ELSE n]

\* cow_copy_page_range over the first n pages.
CopyRange(m, dst, src, n) ==
  LET copied[k \in 0 .. n] == IF k = 0 THEN m ELSE CopyPage(copied[k - 1], dst, src, k - 1)
  IN  copied[n]

-------------------------------------------------------------------------------
Live == {d \in Dirs : mm.pd[d].root # 0}
Page(d, p) == mm.pd[d].page[p]
Content(d, p) == data[Page(d, p).frame]

Init ==
  /\ LET m0 == [used |-> {}, pd |-> [d \in Dirs |-> NoDirectory], refs |-> [f \in Frames |-> 0]]
     IN  mm = create_page_directory(m0, First)
  /\ data \in {[f \in Frames |-> v] : v \in Values}
  /\ view = [d \in Dirs |-> [p \in Pages |-> data[1]]]
  /\ up = TRUE

\* map_pages for one page: the process finds in it what the frame held before.
map_pages(d, p) ==
  /\ ~Page(d, p).present
  /\ Cardinality(Left(mm)) >= (IF p \div PagesPerTable \in mm.pd[d].tables THEN 1 ELSE 2)
  /\ mm' = map_page(alloc_frame(mm), d, p, FreeFrame(mm), TRUE)
  /\ view' = [view EXCEPT ![d][p] = data[FreeFrame(mm)]]
  /\ UNCHANGED <<data, up>>

\* The frames that a fork of d over the first n pages takes.
NewTables(d, n) == {p \div PagesPerTable : p \in {q \in 0 .. n - 1 : Page(d, q).present}}
ForkNeeds(d, n) == 1 + Cardinality(NewTables(d, n))

\* Process::fork as far as memory goes; the pages are those of the caller.
fork(d, child) ==
  /\ child \notin Live
  /\ Cardinality(Left(mm)) >= ForkNeeds(d, NumPages)
  /\ mm' = CopyRange(create_page_directory(mm, child), child, d, NumPages)
  /\ view' = [view EXCEPT ![child] = view[d]]
  /\ UNCHANGED <<data, up>>

\* kmalloc fails for the page table of the n-th page, or for its cow_page: fork
\* destroys the new directory.  The page itself may be protected already.
forkFails(d, child, n) ==
  /\ child \notin Live
  /\ Page(d, n).present
  /\ Cardinality(Left(mm)) >= ForkNeeds(d, n)
  /\ LET m1 == CopyRange(create_page_directory(mm, child), child, d, n)
         m2 == [m1 EXCEPT !.pd[d].page[n].writable = FALSE]
     IN  \/ /\ n \div PagesPerTable \notin NewTables(d, n)
            /\ Left(m1) # {}
            /\ LET m3 == IF Page(d, n).writable THEN Share(m2, Page(d, n).frame) ELSE m2
               IN  mm' = destroy_page_directory(m3, child)
         \/ /\ Page(d, n).writable /\ mm.refs[Page(d, n).frame] = 0
            /\ mm' = destroy_page_directory(m2, child)
  /\ UNCHANGED <<data, view, up>>

\* A store to a page that the process may write.
Store(d, p, v) ==
  /\ Page(d, p).present /\ Page(d, p).writable
  /\ data' = [data EXCEPT ![Page(d, p).frame] = v]
  /\ view' = [view EXCEPT ![d][p] = v]
  /\ UNCHANGED <<mm, up>>

\* Mutant: the new frame is mapped before the old one is copied to it.
CopyNothing(from, to) == data

\* The copy loop of break_cow.
CopyFrame(from, to) == [data EXCEPT ![to] = data[from]]

break_cow(d, p) ==
  LET old == Page(d, p).frame
      new == FreeFrame(mm)
  IN  /\ Left(mm) # {}
      /\ mm' = dec_cow_ref(map_page(unmap_page(alloc_frame(mm), d, p), d, p, new, TRUE), old)
      /\ data' = CopyFrame(old, new)

\* The page fault of a store to a protected page.
handle_cow_fault(d, p) ==
  /\ Page(d, p).present /\ ~Page(d, p).writable
  /\ \/ /\ mm.refs[Page(d, p).frame] <= 1
        /\ mm' = [mm EXCEPT !.pd[d].page[p].writable = TRUE]
        /\ UNCHANGED data
     \/ mm.refs[Page(d, p).frame] > 1 /\ break_cow(d, p)
  /\ UNCHANGED <<view, up>>

\* Process::~Process of a process that fork gave its own directory.  cow_cleanup_process
\* finds nothing: no cow_mapping is ever made.
DeleteProcess(d) ==
  /\ d # First
  /\ mm' = destroy_page_directory(mm, d)
  /\ UNCHANGED <<data, view, up>>

\* Process::~Process of one that execv or ensure_idle_process made: createProc gave it
\* the directory of its creator, which goes while the processor still uses it.  From
\* here on the kernel works with memory that is free, and is lost.
DeleteSharer ==
  /\ up' = FALSE
  /\ UNCHANGED <<mm, data, view>>

\* A fault on a page that is not present ends in the handler's panic; a frame that
\* is needed and not there, in alloc_frame's recursion.
Crash(d, p) ==
  /\ \/ ~Page(d, p).present
     \/ /\ Page(d, p).present /\ ~Page(d, p).writable
        /\ Left(mm) = {} /\ mm.refs[Page(d, p).frame] > 1
     \/ Live # Dirs /\ Cardinality(Left(mm)) < ForkNeeds(d, NumPages)
  /\ up' = FALSE
  /\ UNCHANGED <<mm, data, view>>

\* What the kernel and its processes do while kmalloc succeeds, and with failures.
KernelNext ==
  /\ up
  /\ \E d \in Live :
       \/ \E child \in Dirs : fork(d, child)
       \/ \E p \in Pages : \/ map_pages(d, p) \/ handle_cow_fault(d, p) \/ Crash(d, p)
                           \/ \E v \in Values : Store(d, p, v)
       \/ DeleteProcess(d) \/ DeleteSharer

Next ==
  \/ KernelNext
  \/ up /\ \E d \in Live, child \in Dirs, p \in Pages : forkFails(d, child, p)

KernelSpec == Init /\ [][KernelNext]_vars
Spec == Init /\ [][Next]_vars

-------------------------------------------------------------------------------
(* Properties. *)

\* Copy-on-write is invisible: each process finds in its pages what it wrote there
\* or inherited, whatever the others do with the frames it shares with them.
Isolation ==
  \A d \in Live, p \in Pages : Page(d, p).present => Content(d, p) = view[d][p]

\* A fork gives the child every page of its parent with the same contents, changes
\* nobody's memory, and leaves the two with no page that either could write without
\* a fault: also when the parent's pages were shared, or protected, before.
ForkSnapshot ==
  [][\A d \in Live, child \in Dirs \ Live : fork(d, child) =>
       \A p \in Pages :
         /\ Page(child, p)'.present = Page(d, p).present
         /\ Page(d, p).present =>
              /\ Content(child, p)' = Content(d, p) /\ Content(d, p)' = Content(d, p)
              /\ ~Page(d, p)'.writable /\ ~Page(child, p)'.writable]_vars

\* The fault handler may move a page to another frame but never changes what its
\* process reads there, and the store that faulted can be repeated: even when the
\* frame it is given is one that was freed while still mapped.
FaultKeepsContent ==
  [][\A d \in Live, p \in Pages : handle_cow_fault(d, p) =>
       /\ Page(d, p)'.present /\ Page(d, p)'.writable
       /\ Content(d, p)' = Content(d, p)]_vars
===============================================================================
