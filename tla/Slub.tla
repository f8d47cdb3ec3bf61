-------------------------------- MODULE Slub --------------------------------
(***************************************************************************)
(* The SLUB allocator of kmOS (runtime/slub.cc): caches of objects of one  *)
(* size.  A page and its descriptor are two blocks of the buddy allocator; *)
(* the pages of a cache hang on a list of partial and a list of full       *)
(* pages.  A cache with SLUB_CACHE_PERCPU keeps the objects that come back *)
(* in an array of SLUB_BATCH_SIZE and, once it is full, in a list: these   *)
(* count as in use for their page.  get_cpu_id is always 0, so that there  *)
(* is one such array and list for each cache.                              *)
(*                                                                         *)
(* An object is the block of its page and its index.  The magic number of  *)
(* an object lies in the memory that its owner may write: intact says      *)
(* whether free finds it there.  No constructor or destructor is given.    *)
(* The counters of calls, hits and misses are left out.                    *)
(***************************************************************************)
EXTENDS PageSupply
LOCAL INSTANCE FiniteSetsExt
LOCAL INSTANCE SequencesExt

CONSTANTS SizeCaches,  \* the caches that init makes, with SLUB_CACHE_PERCPU: a sequence
          OwnCaches,   \* those of slub_cache_create, without it
          ObjSize,     \* the size of the objects of each
          ObjsPerPage, \* objects_per_page
          Batch        \* SLUB_BATCH_SIZE: 16 in the code; a refill asks for half of it

SlubCaches == {SizeCaches[i] : i \in DOMAIN SizeCaches} \cup OwnCaches
PerCpu(c) == c \notin OwnCaches

ASSUME SlubAssumption ==
  /\ {SizeCaches[i] : i \in DOMAIN SizeCaches} \cap OwnCaches = {}
  /\ ObjSize \in [SlubCaches -> Nat \ {0}] /\ ObjsPerPage \in [SlubCaches -> Nat \ {0}]
  /\ Batch \in Nat \ {0}

-------------------------------------------------------------------------------
(* The pages of a cache. *)

add_page_to_list(list, b) == <<b>> \o list
remove_page_from_list(list, b) == Remove(list, b)

\* The last object is left at the head of the free list.
init_page_objects(n) == [i \in 1 .. n |-> n - i]

\* The page b with its descriptor d.
AddPage(h, c, b, d) ==
  [h EXCEPT
     !.slub.page = [x \in DOMAIN @ \cup {b} |->
                      IF x # b THEN @[x]
                      ELSE [desc |-> d, inuse |-> 0,
                            free |-> init_page_objects(ObjsPerPage[c])]],
     !.slub.cache[c].partial = add_page_to_list(@, b),
     !.slub.cache[c].total_pages = @ + 1,
     !.slub.cache[c].total_objects = @ + ObjsPerPage[c]]

\* A block for the page and one for its descriptor; the first goes back when there
\* is no second.
alloc_slub_page(h, c) ==
  IF Available(h, 2)
  THEN AddPage(buddy_alloc(buddy_alloc(h)), c, Fresh(h), Fresh(buddy_alloc(h)))
  ELSE h

\* free_slub_page for a page that is on no list any more.
free_slub_page(h, c, b) ==
  [buddy_free(buddy_free(h, <<b, 0>>), <<h.slub.page[b].desc, 0>>) EXCEPT
     !.slub.page = [x \in DOMAIN @ \ {b} |-> @[x]],
     !.slub.cache[c].total_pages = @ - 1,
     !.slub.cache[c].total_objects = @ - ObjsPerPage[c]]

\* A page that has no free object left goes from the partial to the full list.
MoveIfFull(h, c, b) ==
  IF h.slub.page[b].inuse = ObjsPerPage[c]
  THEN [h EXCEPT !.slub.cache[c].partial = remove_page_from_list(@, b),
                 !.slub.cache[c].full = add_page_to_list(@, b)]
  ELSE h

alloc_from_page(h, b) == [h EXCEPT !.slub.page[b].free = Tail(@), !.slub.page[b].inuse = @ + 1]

\* The next object of page b, the head of the partial list.
TakeObject(h, c, b) ==
  [heap |-> MoveIfFull([alloc_from_page(h, b) EXCEPT !.slub.cache[c].active_objects = @ + 1], c, b),
   ptr  |-> <<b, Head(h.slub.page[b].free)>>]

\* The partial page of cache_alloc and refill_cpu_cache, made when there is none.
PageReady(h, c) == IF h.slub.cache[c].partial = <<>> THEN alloc_slub_page(h, c) ELSE h

TakeFirst(h, c) ==
  IF h.slub.cache[c].partial = <<>> THEN [heap |-> h, ptr |-> NULL]
  ELSE TakeObject(h, c, Head(h.slub.cache[c].partial))

\* An object from the pages, or NULL.
FromPages(h, c) == TakeFirst(PageReady(h, c), c)

-------------------------------------------------------------------------------
(* The cache of the CPU. *)

AddToBatch(r, c) ==
  IF r.ptr = NULL THEN r.heap ELSE [r.heap EXCEPT !.slub.cache[c].batch = Append(@, r.ptr)]

\* One round of refill_cpu_cache; a round that fails changes nothing.
RefillOne(h, c) == AddToBatch(FromPages(h, c), c)

\* batchlimit rounds.
refill_cpu_cache(h, c) ==
  FoldLeft(LAMBDA g, i : RefillOne(g, c), h, [i \in 1 .. Batch \div 2 |-> i])

\* The last object of the array.
PopBatch(h, c) ==
  IF h.slub.cache[c].batch = <<>> THEN [heap |-> h, ptr |-> NULL]
  ELSE [heap |-> [h EXCEPT !.slub.cache[c].batch = Front(@)], ptr |-> Last(h.slub.cache[c].batch)]

\* The array, then the list, then a refill.
cpu_cache_alloc(h, c) ==
  LET cc == h.slub.cache[c]
  IN  IF cc.batch # <<>> THEN PopBatch(h, c)
      ELSE IF cc.freelist # <<>>
           THEN [heap |-> [h EXCEPT !.slub.cache[c].freelist = Tail(@)], ptr |-> Head(cc.freelist)]
      ELSE PopBatch(refill_cpu_cache(h, c), c)

cpu_cache_free(h, c, p) ==
  IF Len(h.slub.cache[c].batch) < Batch
  THEN [h EXCEPT !.slub.cache[c].batch = Append(@, p)]
  ELSE [h EXCEPT !.slub.cache[c].freelist = <<p>> \o @]

-------------------------------------------------------------------------------
(* The operations. *)

OrFromPages(r, c) == IF r.ptr # NULL THEN r ELSE FromPages(r.heap, c)

cache_alloc(h, c) ==
  OrFromPages(IF PerCpu(c) THEN cpu_cache_alloc(h, c) ELSE [heap |-> h, ptr |-> NULL], c)

\* Mutant: a page that was full stays on the full list.
StaysFull(h, c, b, full) == h

\* A page that was full has a free object again.
MoveIfWasFull(h, c, b, full) ==
  IF full
  THEN [h EXCEPT !.slub.cache[c].full = remove_page_from_list(@, b),
                 !.slub.cache[c].partial = add_page_to_list(@, b)]
  ELSE h

\* A page that has become empty is given back, unless it is the only one.
DropIfEmpty(h, c, b) ==
  IF h.slub.page[b].inuse = 0 /\ h.slub.cache[c].total_pages > 1
  THEN free_slub_page([h EXCEPT !.slub.cache[c].partial = remove_page_from_list(@, b)], c, b)
  ELSE h

free_to_page(h, b, i) ==
  [h EXCEPT !.slub.page[b].free = <<i>> \o @, !.slub.page[b].inuse = @ - 1]

\* The object goes to its page, and the page to the list where it belongs then.
ReturnObject(h, c, p) ==
  LET b == Base(p)
  IN  DropIfEmpty(
        MoveIfWasFull([free_to_page(h, b, Offset(p)) EXCEPT
                         !.slub.cache[c].active_objects = @ - 1],
                      c, b, h.slub.page[b].inuse = ObjsPerPage[c]),
        c, b)

PagesOf(h, c) ==
  {h.slub.cache[c].partial[i] : i \in DOMAIN h.slub.cache[c].partial} \cup
  {h.slub.cache[c].full[i] : i \in DOMAIN h.slub.cache[c].full}

cache_free(h, c, p, intact) ==
  IF ~intact THEN h
  ELSE IF PerCpu(c) THEN cpu_cache_free(h, c, p)
  ELSE IF Base(p) \in PagesOf(h, c) THEN ReturnObject(h, c, p)
  ELSE h

\* find_size_cache: the first whose objects are large enough.
Suitable(size) == {i \in DOMAIN SizeCaches : size <= ObjSize[SizeCaches[i]]}

\* Or a null pointer, if there is none or init could not create it.
Uncached(h, size) ==
  Suitable(size) = {} \/ h.slub.cache[SizeCaches[Min(Suitable(size))]].block = 0

\* The call with size 0, which returns at once, is left out.
slub_alloc(h, size) ==
  IF Uncached(h, size) THEN Direct(h) ELSE cache_alloc(h, SizeCaches[Min(Suitable(size))])

\* A pointer into none of the pages goes to the buddy allocator.
slub_free(h, p, intact) ==
  LET owners == {c \in SlubCaches : Base(p) \in PagesOf(h, c)}
  IN  IF owners = {} THEN buddy_free(h, p)
      ELSE cache_free(h, CHOOSE c \in owners : TRUE, p, intact)

\* block is that of struct slub_cache, 0 for a cache that does not exist.
NewCache(b) == [block |-> b, partial |-> <<>>, full |-> <<>>, batch |-> <<>>, freelist |-> <<>>,
                total_pages |-> 0, total_objects |-> 0, active_objects |-> 0]

cache_create(h, c) ==
  IF Available(h, 1) THEN [buddy_alloc(h) EXCEPT !.slub.cache[c] = NewCache(Fresh(h))] ELSE h

\* drain_cpu_cache gives the objects of a CPU cache to cache_free, which puts them
\* back into the array: it ends only if the array was empty and the list fits in it.
DrainEnds(h, c) ==
  h.slub.cache[c].batch = <<>> /\ Len(h.slub.cache[c].freelist) <= Batch

drain_cpu_cache(h, c) ==
  [h EXCEPT !.slub.cache[c].batch = h.slub.cache[c].freelist, !.slub.cache[c].freelist = <<>>]

\* flush_cpu_caches visits every cache, not only the one that is destroyed.
FlushEnds(h) == \A c \in SlubCaches : DrainEnds(h, c)
flush_cpu_caches(h) ==
  [h EXCEPT !.slub.cache = [c \in SlubCaches |-> drain_cpu_cache(h, c).slub.cache[c]]]

\* Both lists of pages, and struct slub_cache itself.
FreeCache(h, c) ==
  [FoldLeft(LAMBDA g, b : free_slub_page(g, c, b), buddy_free(h, <<h.slub.cache[c].block, 0>>),
            h.slub.cache[c].partial \o h.slub.cache[c].full)
     EXCEPT !.slub.cache[c] = NewCache(0)]

cache_destroy(h, c) == FreeCache(flush_cpu_caches(h), c)

SlubEmpty == [cache |-> [c \in SlubCaches |-> NewCache(0)], page |-> [b \in {} |-> NULL]]

\* init makes the size caches.
slub_init(h) ==
  FoldLeft(LAMBDA g, c : cache_create(g, c), [h EXCEPT !.slub = SlubEmpty], SizeCaches)

-------------------------------------------------------------------------------
(* What holds between any two calls. *)

Cached(h, c) == h.slub.cache[c].batch \o h.slub.cache[c].freelist
OnFreelist(h, b) == {<<b, h.slub.page[b].free[i]>> : i \in DOMAIN h.slub.page[b].free}

\* The lists of a cache are what the pages say: a page is on one list, once, by
\* whether it has a free object, and inuse counts those that are not free.
ListsAgree(h, c) ==
  LET pages == h.slub.cache[c].partial \o h.slub.cache[c].full
  IN  /\ IsInjective(pages)
      /\ \A i \in DOMAIN pages :
           /\ i <= Len(h.slub.cache[c].partial) <=> h.slub.page[pages[i]].free # <<>>
           /\ IsInjective(h.slub.page[pages[i]].free)
           /\ h.slub.page[pages[i]].inuse + Len(h.slub.page[pages[i]].free) = ObjsPerPage[c]

\* The objects that wait in the cache of the CPU are different objects of the pages
\* of that cache, and none of them is on the free list of its page.
CpuCacheAgrees(h, c) ==
  /\ IsInjective(Cached(h, c)) /\ Len(h.slub.cache[c].batch) <= Batch
  /\ \A i \in DOMAIN Cached(h, c) :
       /\ Base(Cached(h, c)[i]) \in PagesOf(h, c)
       /\ Cached(h, c)[i] \notin OnFreelist(h, Base(Cached(h, c)[i]))

SlubOK(h) ==
  /\ \A c \in SlubCaches :
       /\ ListsAgree(h, c) /\ CpuCacheAgrees(h, c)
       /\ h.slub.cache[c].total_pages = Cardinality(PagesOf(h, c))
       /\ h.slub.cache[c].total_objects = h.slub.cache[c].total_pages * ObjsPerPage[c]
       /\ h.slub.cache[c].active_objects =
            MapThenSumSet(LAMBDA b : h.slub.page[b].inuse, PagesOf(h, c))
  /\ DOMAIN h.slub.page = UNION {PagesOf(h, c) : c \in SlubCaches}
===============================================================================
