--------------------------- MODULE MCUnifiedAlloc ---------------------------
(***************************************************************************)
(* Module UnifiedAlloc for TLC.  One cache of each kind, and a bound on    *)
(* how much goes on at a time: the fewer allocators and settings are in    *)
(* use together, the more pointers callers own.  Two are in use together,  *)
(* or three when one of them is the debug table; SLUB has a second page    *)
(* only when it is used alone.                                             *)
(***************************************************************************)
EXTENDS UnifiedAlloc
LOCAL INSTANCE FiniteSetsExt

CONSTANTS size_cache, own_cache, MaxLoad, MaxLost

SizeCacheList == <<size_cache>>
SizeOf == [c \in {size_cache, own_cache} |-> IF c = size_cache THEN 2 ELSE 1]
PerPage == [c \in {size_cache, own_cache} |-> 2]
NoPolicy == {{}}

Frames == {heap.stack.frames[i] : i \in DOMAIN heap.stack.frames}

\* Which allocators hold memory for callers of kmalloc, and what else is in use.
Memory == {i \in 1 .. 5 : <<heap.slob.used # {}, heap.slub.cache[size_cache].total_pages > 0,
                            DOMAIN heap.slab # {}, heap.taken \ (Frames \cup {heap.table}) # {},
                            heap.mode # "DESKTOP">>[i]}
Extras == {i \in 1 .. 4 : <<heap.slub.cache[own_cache].block # 0, heap.stack.top > 0 \/ Len(heap.stack.frames) > 1,
                            heap.table # 0, heap.mask = {}>>[i]}

\* How many pointers are given out that nobody owns: free did not take them back.
Lost ==
  Cardinality(heap.taken \ (Frames \cup {heap.table}))
  + heap.slub.cache[size_cache].active_objects - Len(Cached(heap, size_cache))
  + heap.slub.cache[own_cache].active_objects
  + MapThenSumSet(LAMBDA b : Cardinality(heap.slab[b].used), DOMAIN heap.slab)
  - Cardinality({p \in DOMAIN live : ~OnStack(p) /\ Base(p) \notin SlobPages})

Bounded ==
  /\ Cardinality(Extras) <= 1
  /\ Cardinality(Memory) + Cardinality(Extras) <= 2 \/ heap.table # 0
  /\ Cardinality(Memory) + Cardinality(Extras) + Cardinality(DOMAIN live) <= MaxLoad
  /\ DOMAIN heap.slub.page = {} \/ Cardinality(DOMAIN heap.slub.page) = 1
       \/ Cardinality(Memory) + Cardinality(Extras) = 1
  /\ Lost <= MaxLost
===============================================================================
