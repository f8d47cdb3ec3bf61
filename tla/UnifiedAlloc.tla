---------------------------- MODULE UnifiedAlloc ----------------------------
(***************************************************************************)
(* The kernel heap of kmOS: the unified allocator behind kmalloc and kfree *)
(* (runtime/unified_alloc.cc, arch/x86/alloc.cc), which sends each request *)
(* to the SLOB (module Slob), SLUB (module Slub), slab, stack or buddy     *)
(* allocator, and decides again, from what it remembers, where a pointer   *)
(* goes when it is freed.                                                  *)
(*                                                                         *)
(* The slab and the stack allocator have modules of their own (Slab,       *)
(* StackAlloc); here the first is a set of objects in pairs of blocks and  *)
(* the second a list of frames with a top.  The contents of the memory are *)
(* left out, and with them the copy of realloc, the zeroes of calloc and   *)
(* the sizes in the debug table; so are the statistics.  Callers free what *)
(* they own, once, with the call that belongs to the one that gave it to   *)
(* them.  Each call is one step: there is no lock, and one thread of       *)
(* callers.                                                                *)
(***************************************************************************)
EXTENDS Slob, Slub
LOCAL INSTANCE FiniteSetsExt
LOCAL INSTANCE SequencesExt

CONSTANTS Sizes,        \* the sizes that callers ask for
          SmallLimit,   \* ALLOC_SMALL is below it: 512 in the code
          MediumLimit,  \* ALLOC_MEDIUM is below it: 4096
          SlabObjs,     \* the objects of a slab
          StackRoom,    \* the allocations that a stack frame has room for
          StackFrames,  \* the frames of the stack allocator
          TableSize,    \* debug_table_size: 1024
          Masks,        \* the masks that set_alloc_policy is called with
          MaxLive       \* bound on the pointers that callers own at a time

ASSUME UnifiedAssumption ==
  /\ {SmallLimit, MediumLimit, SlabObjs, StackRoom, StackFrames, TableSize, MaxLive} \subseteq Nat
  /\ Sizes \subseteq Nat

VARIABLES heap,  \* the state of all the allocators
          live,  \* history: the pointers that callers own, and the interface they came by
          hung   \* TRUE once a call does not return

vars == <<heap, live, hung>>

Modes == {"EMBEDDED", "DESKTOP", "SERVER", "REALTIME"}

-------------------------------------------------------------------------------
(* The slab and the stack allocator, as far as the heap tells them apart.   *)

\* The slabs with an object to spare; h.slab[b].used are the objects of slab b.
Spare(h) == {b \in DOMAIN h.slab : Cardinality(h.slab[b].used) < SlabObjs}
SlabTake(h, b) ==
  LET i == Min((0 .. SlabObjs - 1) \ h.slab[b].used)
  IN  [heap |-> [h EXCEPT !.slab[b].used = @ \cup {i}], ptr |-> <<b, i>>]

NewSlab(h, b, d) ==
  [h EXCEPT !.slab = [x \in DOMAIN @ \cup {b} |-> IF x = b THEN [desc |-> d, used |-> {}] ELSE @[x]]]

\* kmem_cache_alloc: a new slab takes a block for its objects and one for itself.
slab_alloc(h) ==
  IF Spare(h) # {} THEN SlabTake(h, Min(Spare(h)))
  ELSE IF ~Available(h, 2) THEN [heap |-> h, ptr |-> NULL]
  ELSE SlabTake(NewSlab(buddy_alloc(buddy_alloc(h)), Fresh(h), Fresh(buddy_alloc(h))), Fresh(h))

\* kmem_cache_free: found says that the magic number is intact and that the object
\* is of size_caches[0], the only cache that is tried.
slab_free(h, p, found) ==
  IF found /\ Base(p) \in DOMAIN h.slab
  THEN [h EXCEPT !.slab[Base(p)].used = @ \ {Offset(p)}]
  ELSE h

\* An entry for what was allocated, as long as the debug table has room.
track_allocation(r, a) ==
  IF r.ptr # NULL /\ r.heap.tracking /\ r.heap.table # 0 /\ Len(r.heap.entries) < TableSize
  THEN [r EXCEPT !.heap.entries = Append(@, [ptr |-> r.ptr, allocator |-> a])]
  ELSE r

\* grow: another frame by way of kmalloc, which turns to the buddy allocator for a
\* size of this order in every mode; StackFrames frames are as many as MAX_STACK_SIZE
\* admits.
Grow(r) ==
  IF r.ptr = NULL THEN r.heap
  ELSE [r.heap EXCEPT !.stack.frames = Append(@, Base(r.ptr)), !.stack.top = 0]

StackReady(h) ==
  IF h.stack.top = StackRoom /\ Len(h.stack.frames) < StackFrames
  THEN Grow(track_allocation(Direct(h), "BUDDY"))
  ELSE h

\* The offsets of a frame start behind its own header; only the last one is in use.
TakeTop(h) ==
  IF h.stack.top < StackRoom
  THEN [heap |-> [h EXCEPT !.stack.top = @ + 1], ptr |-> <<Last(h.stack.frames), h.stack.top + 1>>]
  ELSE [heap |-> h, ptr |-> NULL]

stack_alloc(h) == TakeTop(StackReady(h))

-------------------------------------------------------------------------------
(* Which allocator. *)

InitialMask(mode) ==
  {"BUDDY", "STACK"} \cup (CASE mode = "EMBEDDED" -> {"SLOB"}
                             [] mode = "SERVER" -> {"SLUB"}
                             [] OTHER -> {"SLAB"})

\* UnifiedAllocator::init: what was allocated is forgotten with the table.
unified_init(h, mode) ==
  [h EXCEPT !.mode = mode, !.mask = InitialMask(mode), !.tracking = FALSE, !.table = 0,
            !.entries = <<>>]

\* The allocator of each mode and the sizes it is meant for.
Preferred(mode) == CASE mode = "EMBEDDED" -> "SLOB" [] mode = "SERVER" -> "SLUB" [] OTHER -> "SLAB"
Limit(mode) == IF mode \in {"EMBEDDED", "REALTIME"} THEN SmallLimit ELSE MediumLimit

select_allocator(h, size, flag) ==
  IF flag = "TEMP" /\ "STACK" \in h.mask THEN "STACK"
  ELSE IF flag = "DMA" /\ "BUDDY" \notin h.mask THEN "BUDDY"
  ELSE IF size < Limit(h.mode) /\ Preferred(h.mode) \in h.mask THEN Preferred(h.mode)
  ELSE "BUDDY"

OrDirect(r, a) == IF r.ptr = NULL /\ a # "BUDDY" THEN Direct(r.heap) ELSE r

\* The buddy allocator stands in when the chosen one has nothing; the table will
\* still name the chosen one.
internal_alloc(h, size, a) ==
  OrDirect(CASE a = "SLOB" -> slob_alloc(h, size)
             [] a = "SLAB" -> slab_alloc(h)
             [] a = "SLUB" -> slub_alloc(h, size)
             [] a = "STACK" -> stack_alloc(h)
             [] a = "BUDDY" -> Direct(h),
           a)

\* Mutant: a pointer that nothing is known of is tried on every allocator.
FreeEverywhere(h, p, hint, found) ==
  CASE hint = "SLAB" -> slab_free(h, p, found)
    [] hint = "SLUB" -> slub_free(h, p, found)
    [] hint = "SLOB" -> slob_free(h, p)
    [] OTHER -> slub_free(slob_free(h, p), p, found)

\* Without a hint, or with that of another allocator, only SLOB is tried: the
\* branches behind it ask whether the pointer is null, which it is not.
internal_free(h, p, hint, found) ==
  CASE hint = "SLAB" -> slab_free(h, p, found)
    [] hint = "SLUB" -> slub_free(h, p, found)
    [] OTHER -> slob_free(h, p)

-------------------------------------------------------------------------------
(* The debug table. *)

EntriesOf(h, p) == IF h.tracking THEN {i \in DOMAIN h.entries : h.entries[i].ptr = p} ELSE {}

\* find_allocation: the first entry of p, if free looks for one.
Hint(h, p) == IF EntriesOf(h, p) = {} THEN "" ELSE h.entries[Min(EntriesOf(h, p))].allocator

\* The last entry takes the place of the one that goes.
untrack_allocation(h, p) ==
  IF EntriesOf(h, p) = {} THEN h
  ELSE [h EXCEPT !.entries = SubSeq([@ EXCEPT ![Min(EntriesOf(h, p))] = h.entries[Len(h.entries)]],
                                    1, Len(@) - 1)]

alloc(h, size, flag) ==
  IF size = 0 THEN [heap |-> h, ptr |-> NULL]
  ELSE track_allocation(internal_alloc(h, size, select_allocator(h, size, flag)),
                        select_allocator(h, size, flag))

free(h, p, found) == internal_free(untrack_allocation(h, p), p, Hint(h, p), found)

\* realloc gives the old pointer back once it has the new one, r.
FreeOld(r, p, found) == IF r.ptr = NULL THEN r ELSE [r EXCEPT !.heap = free(@, p, found)]

-------------------------------------------------------------------------------
(* The calls. *)

NoHeap == [supply |-> Blocks, taken |-> {}, slob |-> SlobEmpty, slub |-> SlubEmpty,
           slab |-> [b \in {} |-> {}], stack |-> [frames |-> <<>>, top |-> 0],
           mode |-> "EMBEDDED", mask |-> {}, tracking |-> FALSE, table |-> 0,
           entries |-> <<>>]

\* init_stack_allocator comes before init_unified_allocator: the frame is allocated
\* in mode 0 with an empty mask, by the buddy allocator.
StackFrame(r) == [r.heap EXCEPT !.stack.frames = <<Base(r.ptr)>>]

\* The calls at the end of VMM::init.
Init ==
  /\ heap = unified_init(StackFrame(alloc(slub_init(slob_init(NoHeap)), MediumLimit, "KERNEL")), "DESKTOP")
  /\ live = [p \in {} |-> ""]
  /\ hung = FALSE

Owners(api) == {p \in DOMAIN live : live[p] = api}
Without(P) == [q \in DOMAIN live \ P |-> live[q]]
With(l, p, api) ==
  IF p = NULL THEN l ELSE [q \in DOMAIN l \cup {p} |-> IF q = p THEN api ELSE l[q]]

\* What a call returns is the caller's, by the interface api; it held l before.
Returns(r, l, api) == heap' = r.heap /\ live' = With(l, r.ptr, api)

\* kmalloc, kcalloc without overflow, kmalloc_flags, kmalloc_temp and kmalloc_scoped.
kmalloc(size, flag) ==
  /\ Cardinality(DOMAIN live) < MaxLive
  /\ Returns(alloc(heap, size, flag), live, "heap")
  /\ UNCHANGED hung

kfree(p, found) ==
  /\ heap' = free(heap, p, found)
  /\ live' = Without({p})
  /\ UNCHANGED hung

\* The old pointer stays the caller's when there is no memory for the new one; with
\* size 0, krealloc is kfree.
krealloc(p, size, found) ==
  \E r \in {alloc(heap, size, "KERNEL")} :
    /\ Returns(FreeOld(r, p, found), IF r.ptr = NULL THEN live ELSE Without({p}), "heap")
    /\ UNCHANGED hung

\* get_free_pages and ksbrk.
get_free_pages ==
  /\ Cardinality(DOMAIN live) < MaxLive
  /\ Returns(Direct(heap), live, "pages")
  /\ UNCHANGED hung

free_pages(p) ==
  /\ heap' = buddy_free(heap, p)
  /\ live' = Without({p})
  /\ UNCHANGED hung

set_alloc_policy(mask) ==
  /\ heap' = [heap EXCEPT !.mask = mask]
  /\ UNCHANGED <<live, hung>>

set_system_mode(mode) ==
  /\ heap' = IF mode = heap.mode THEN heap ELSE unified_init(heap, mode)
  /\ UNCHANGED <<live, hung>>

\* The table is kept from the last time, with its entries.
enable_debug_tracking ==
  LET r == Direct(heap)
  IN  /\ heap' = IF heap.table # 0 THEN [heap EXCEPT !.tracking = TRUE]
                 ELSE [r.heap EXCEPT !.tracking = TRUE, !.table = Base(r.ptr)]
      /\ UNCHANGED <<live, hung>>

disable_debug_tracking ==
  /\ heap' = [heap EXCEPT !.tracking = FALSE]
  /\ UNCHANGED <<live, hung>>

\* kstack_alloc, and kstack_reset, after which nobody uses what was on the stack.
kstack_alloc ==
  /\ Cardinality(DOMAIN live) < MaxLive
  /\ Returns(stack_alloc(heap), live, "stack")
  /\ UNCHANGED hung

OnStack(p) == \E i \in DOMAIN heap.stack.frames : heap.stack.frames[i] = Base(p)
kstack_reset ==
  /\ heap' = [heap EXCEPT !.stack.top = 0]
  /\ live' = Without({p \in DOMAIN live : OnStack(p)})
  /\ UNCHANGED hung

\* slob_alloc and slob_free, slub_alloc and slub_free: the interfaces beside kmalloc.
SlobAlloc(size) ==
  /\ Cardinality(DOMAIN live) < MaxLive
  /\ Returns(slob_alloc(heap, size), live, "slob")
  /\ UNCHANGED hung

SlobFree(p) ==
  /\ heap' = slob_free(heap, p)
  /\ live' = Without({p})
  /\ UNCHANGED hung

SlubAlloc(size) ==
  /\ Cardinality(DOMAIN live) < MaxLive
  /\ Returns(slub_alloc(heap, size), live, "slub")
  /\ UNCHANGED hung

SlubFree(p, intact) ==
  /\ heap' = slub_free(heap, p, intact)
  /\ live' = Without({p})
  /\ UNCHANGED hung

slub_cache_create(c) ==
  /\ heap.slub.cache[c].block = 0
  /\ heap' = cache_create(heap, c)
  /\ UNCHANGED <<live, hung>>

slub_cache_alloc(c) ==
  /\ heap.slub.cache[c].block # 0 /\ Cardinality(DOMAIN live) < MaxLive
  /\ Returns(cache_alloc(heap, c), live, c)
  /\ UNCHANGED hung

slub_cache_free(c, p, intact) ==
  /\ heap' = cache_free(heap, c, p, intact)
  /\ live' = Without({p})
  /\ UNCHANGED hung

\* By a caller that has no object of the cache left.
slub_cache_destroy(c) ==
  /\ heap.slub.cache[c].block # 0 /\ Owners(c) = {}
  /\ \/ FlushEnds(heap) /\ heap' = cache_destroy(heap, c) /\ UNCHANGED hung
     \/ ~FlushEnds(heap) /\ hung' = TRUE /\ UNCHANGED heap
  /\ UNCHANGED live

\* What free may find in the object itself: only SLUB and the slab allocator look.
Finds(p) == IF Base(p) \in DOMAIN heap.slub.page \cup DOMAIN heap.slab THEN BOOLEAN ELSE {TRUE}

Next ==
  /\ ~hung
  /\ \/ \E size \in Sizes :
          \/ \E flag \in {"KERNEL", "TEMP", "DMA"} : kmalloc(size, flag)
          \/ \E p \in Owners("heap") : \E found \in Finds(p) : krealloc(p, size, found)
          \/ SlobAlloc(size) \/ SlubAlloc(size)
     \/ \E p \in Owners("heap") : \E found \in Finds(p) : kfree(p, found)
     \/ \E p \in Owners("slub") : \E intact \in Finds(p) : SlubFree(p, intact)
     \/ \E p \in Owners("slob") : SlobFree(p)
     \/ get_free_pages
     \/ \E p \in Owners("pages") : free_pages(p)
     \/ \E mask \in Masks : set_alloc_policy(mask)
     \/ \E mode \in Modes : set_system_mode(mode)
     \/ enable_debug_tracking \/ disable_debug_tracking
     \/ kstack_alloc \/ kstack_reset
     \/ \E c \in OwnCaches :
          \/ slub_cache_create(c) \/ slub_cache_alloc(c) \/ slub_cache_destroy(c)
          \/ \E p \in Owners(c), intact \in BOOLEAN : slub_cache_free(c, p, intact)

Spec == Init /\ [][Next]_vars

-------------------------------------------------------------------------------
(* Properties. *)

SlobPages == {heap.slob.pages[i].base : i \in DOMAIN heap.slob.pages}

\* Who holds a block that the buddy allocator has given out.
Holdings ==
  <<heap.supply, heap.taken, SlobPages, DOMAIN heap.slub.page,
    {heap.slub.page[b].desc : b \in DOMAIN heap.slub.page},
    {heap.slub.cache[c].block : c \in SlubCaches} \ {0},
    DOMAIN heap.slab, {heap.slab[b].desc : b \in DOMAIN heap.slab}>>

\* Whether the allocator that has the block of p has given p out.
Allocated(p) ==
  \/ Base(p) \in heap.taken /\ (Offset(p) = 0 \/ (OnStack(p) /\ (Base(p) = Last(heap.stack.frames) => Offset(p) <= heap.stack.top)))
  \/ \E u \in heap.slob.used : Base(p) = u.base /\ Offset(p) = PageHeader + u.at + SlobHeader
  \/ /\ Base(p) \in DOMAIN heap.slub.page
     /\ p \notin OnFreelist(heap, Base(p))
     /\ \A c \in SlubCaches : \A i \in DOMAIN Cached(heap, c) : Cached(heap, c)[i] # p
  \/ Base(p) \in DOMAIN heap.slab /\ Offset(p) \in heap.slab[Base(p)].used

\* No memory is in two hands: every block is with exactly one allocator, and every
\* pointer that a caller owns is one that its allocator still counts as given out.
\* So it stays although free guesses where a pointer belongs, goes by entries that
\* have become stale, and knows nothing of what was allocated before the mode was
\* switched or by the buddy allocator in place of another.
HeapExclusive ==
  /\ LET holdings == Holdings
     IN  \A b \in Blocks : Cardinality({i \in DOMAIN holdings : b \in holdings[i]}) = 1
  /\ \A p \in DOMAIN live : Allocated(p)

\* SLOB, whatever is passed to its free: the blocks of a page tile it, free blocks
\* are merged, the sizes add up, and only the last page may stay without a block.
SlobSound == SlobOK(heap)

\* SLUB: pages, lists, counters and the cache of the CPU agree on where each object
\* is, also when there was no memory for another page.
SlubSound == SlubOK(heap)
===============================================================================
