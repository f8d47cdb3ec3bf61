-------------------------------- MODULE Slab --------------------------------
(***************************************************************************)
(* The slab allocator of kmOS (runtime/slab.cc): caches of objects of one  *)
(* size, carved from slabs that the buddy allocator provides.  The slabs   *)
(* of a cache hang on three doubly linked lists, by how full they are.     *)
(* An object is a slab and an index into it; the chain of free objects in  *)
(* a slab is a sequence of indices.  Constructors are never given, and the *)
(* order in which cache_reap visits the caches does not matter.            *)
(*                                                                         *)
(* As in the other allocators there is no lock and one thread of callers,  *)
(* so that each call is one step.                                          *)
(***************************************************************************)
EXTENDS Integers, Sequences, FiniteSetsExt

CONSTANTS Caches,  \* the caches of cache_chain
          Sized,   \* size_caches[0], the smallest of the size caches
          Objs,    \* num_objs_per_slab of each cache: 4096 / obj_size, rounded down
          Slabs,   \* the pairs of blocks that the buddy allocator can provide
          NoSlab   \* the null pointer

ASSUME SlabAssumption ==
  /\ Sized \in Caches /\ Objs \in [Caches -> Nat]
  /\ NoSlab \notin Slabs /\ IsFiniteSet(Slabs) /\ IsFiniteSet(Caches)

VARIABLES cache,  \* struct slab_cache
          slab,   \* struct slab, for the slabs that exist
          lent,   \* the objects that callers own
          lost    \* the objects whose owners gave them to a free that ignored them

slabVars == <<cache, slab, lent, lost>>

Lists == {"full", "partial", "empty"}
SlabPtr == Slabs \cup {NoSlab}
MaxObjs == Max({Objs[c] : c \in Caches})
Objects == Slabs \X (0 .. MaxObjs - 1)
Total == MaxObjs * Cardinality(Slabs)

\* inuse and free count the objects of a slab, next and prev are its links.
SlabRecord == [next : SlabPtr, prev : SlabPtr, inuse : 0 .. MaxObjs, free : 0 .. MaxObjs,
               freelist : UNION {[1 .. n -> 0 .. MaxObjs - 1] : n \in 0 .. MaxObjs}]

SlabTypeOK ==
  /\ cache \in [Caches -> [slabs : [Lists -> SlabPtr], num_slabs : 0 .. Cardinality(Slabs),
                           num_active_objs : 0 .. Total, num_free_objs : 0 .. Total]]
  /\ DOMAIN slab \subseteq Slabs /\ \A s \in DOMAIN slab : slab[s] \in SlabRecord
  /\ lent \subseteq Objects /\ lost \subseteq Objects

-------------------------------------------------------------------------------
(* The operations on one cache take and return its state, a record of the   *)
(* cache and of all the slabs.                                             *)

Created == [slabs |-> [l \in Lists |-> NoSlab], num_slabs |-> 0, num_active_objs |-> 0,
            num_free_objs |-> 0]

\* cache_create, by init and by kmem_cache_create; no slab is made yet.
SlabInit ==
  /\ cache = [c \in Caches |-> Created]
  /\ slab = [s \in {} |-> NoSlab]
  /\ lent = {} /\ lost = {}

\* Mutant: the successor keeps its prev pointer.
MoveOneWay(st, from, to, s) ==
  LET r == st.slab[s]
      sl1 == IF r.prev = NoSlab THEN st.slab ELSE [st.slab EXCEPT ![r.prev].next = r.next]
      ca1 == IF r.prev = NoSlab THEN [st.cache EXCEPT !.slabs[from] = r.next] ELSE st.cache
      head == ca1.slabs[to]
      sl2 == [sl1 EXCEPT ![s].next = head, ![s].prev = NoSlab]
  IN  [cache |-> [ca1 EXCEPT !.slabs[to] = s],
       slab  |-> IF head = NoSlab THEN sl2 ELSE [sl2 EXCEPT ![head].prev = s]]

\* Out of the list it is on, and to the head of another.
move_slab(st, from, to, s) ==
  LET r == st.slab[s]
      sl1 == IF r.prev = NoSlab THEN st.slab ELSE [st.slab EXCEPT ![r.prev].next = r.next]
      sl2 == IF r.next = NoSlab THEN sl1 ELSE [sl1 EXCEPT ![r.next].prev = r.prev]
      ca1 == IF r.prev = NoSlab THEN [st.cache EXCEPT !.slabs[from] = r.next] ELSE st.cache
      head == ca1.slabs[to]
      sl3 == [sl2 EXCEPT ![s].next = head, ![s].prev = NoSlab]
  IN  [cache |-> [ca1 EXCEPT !.slabs[to] = s],
       slab  |-> IF head = NoSlab THEN sl3 ELSE [sl3 EXCEPT ![head].prev = s]]

\* Mutant: the new objects are not counted as free.
CreateUncounted(st, c, s) ==
  LET head == st.cache.slabs["partial"]
      new  == [next |-> head, prev |-> NoSlab, inuse |-> 0, free |-> Objs[c],
               freelist |-> [i \in 1 .. Objs[c] |-> Objs[c] - i]]
      all  == [t \in DOMAIN st.slab \cup {s} |-> IF t = s THEN new ELSE st.slab[t]]
  IN  [cache |-> [st.cache EXCEPT !.slabs["partial"] = s, !.num_slabs = @ + 1],
       slab  |-> IF head = NoSlab THEN all ELSE [all EXCEPT ![head].prev = s]]

\* A slab on its way to the head of the partial list; the last object is first in line.
slab_create(st, c, s) ==
  LET head == st.cache.slabs["partial"]
      new  == [next |-> head, prev |-> NoSlab, inuse |-> 0, free |-> Objs[c],
               freelist |-> [i \in 1 .. Objs[c] |-> Objs[c] - i]]
      all  == [t \in DOMAIN st.slab \cup {s} |-> IF t = s THEN new ELSE st.slab[t]]
  IN  [cache |-> [st.cache EXCEPT !.slabs["partial"] = s, !.num_slabs = @ + 1,
                                  !.num_free_objs = @ + Objs[c]],
       slab  |-> IF head = NoSlab THEN all ELSE [all EXCEPT ![head].prev = s]]

\* Mutant: the empty slabs are forgotten.
SlabsReadyPartial(c) == {l \in {"partial"} : cache[c].slabs[l] # NoSlab}

\* The lists from which cache_alloc can take a slab.
SlabsReady(c) == {l \in {"partial", "empty"} : cache[c].slabs[l] # NoSlab}

\* The slab for the next object comes to the head of the partial list.
Prepared(c) ==
  LET st == [cache |-> cache[c], slab |-> slab]
  IN  IF "partial" \in SlabsReady(c) THEN {st}
      ELSE IF "empty" \in SlabsReady(c)
           THEN {move_slab(st, "empty", "partial", cache[c].slabs["empty"])}
      ELSE {slab_create(st, c, s) : s \in Slabs \ DOMAIN slab}

\* Mutant: a slab stays on the partial list when its last object goes.
TakeObjectOnly(st, s) ==
  [cache |-> [st.cache EXCEPT !.num_active_objs = @ + 1, !.num_free_objs = @ - 1],
   slab  |-> [st.slab EXCEPT ![s].freelist = Tail(@), ![s].inuse = @ + 1, ![s].free = @ - 1]]

\* slab_alloc_obj and the rest of cache_alloc, for a slab with a free object.
TakeObject(st, s) ==
  LET ca == [st.cache EXCEPT !.num_active_objs = @ + 1, !.num_free_objs = @ - 1]
      sl == [st.slab EXCEPT ![s].freelist = Tail(@), ![s].inuse = @ + 1, ![s].free = @ - 1]
      st1 == [cache |-> ca, slab |-> sl]
  IN  IF sl[s].free = 0 THEN move_slab(st1, "partial", "full", s) ELSE st1

Become(c, st) == cache' = [cache EXCEPT ![c] = st.cache] /\ slab' = st.slab

cache_alloc(c) ==
  /\ \E st \in Prepared(c) :
       LET s == st.cache.slabs["partial"]
       IN  IF st.slab[s].freelist = <<>>
           THEN Become(c, st) /\ UNCHANGED lent
           ELSE /\ Become(c, TakeObject(st, s))
                /\ lent' = lent \cup {<<s, Head(st.slab[s].freelist)>>}
  /\ UNCHANGED lost

\* No slab is ready and the buddy allocator has no block for the slab or its memory.
cache_allocFails(c) == SlabsReady(c) = {} /\ UNCHANGED slabVars

-------------------------------------------------------------------------------
\* The slabs from s on, along the next pointers.
From(st, s) ==
  LET at[k \in Nat] ==
        IF k = 0 THEN s ELSE IF at[k - 1] = NoSlab THEN NoSlab ELSE st[at[k - 1]].next
  IN  {at[k] : k \in 0 .. Cardinality(Slabs)} \ {NoSlab}

OnList(c, l) == From(slab, cache[c].slabs[l])

\* Mutant: a slab that was full goes to the empty list at once.
RelistAfterFreeEmpty(c, st, s, was_full) ==
  IF was_full THEN move_slab(st, "full", "empty", s)
  ELSE IF st.slab[s].free = Objs[c] THEN move_slab(st, "partial", "empty", s) ELSE st

\* The end of cache_free: where the slab belongs now.
RelistAfterFree(c, st, s, was_full) ==
  IF was_full THEN move_slab(st, "full", "partial", s)
  ELSE IF st.slab[s].free = Objs[c] THEN move_slab(st, "partial", "empty", s) ELSE st

\* The slabs in which cache_free looks for the object.
Searched(c) == OnList(c, "full") \cup OnList(c, "partial")

cache_free(c, o) ==
  IF o[1] \in Searched(c)
  THEN LET s == o[1]
           ca == [cache[c] EXCEPT !.num_active_objs = @ - 1, !.num_free_objs = @ + 1]
           sl == [slab EXCEPT ![s].freelist = <<o[2]>> \o @, ![s].inuse = @ - 1, ![s].free = @ + 1]
       IN  /\ Become(c, RelistAfterFree(c, [cache |-> ca, slab |-> sl], s, slab[s].free = 0))
           /\ UNCHANGED lost
  ELSE UNCHANGED <<cache, slab>> /\ lost' = lost \cup {o}

\* An owner that knows its cache, like the copy-on-write manager.
FreeObject(c, o) ==
  /\ o[1] \in UNION {OnList(c, l) : l \in Lists}
  /\ cache_free(c, o)
  /\ lent' = lent \ {o}

\* An owner that does not: the word of the object that held the magic number may
\* have been overwritten, and only the smallest size cache is tried.
kmem_cache_free(o, magic) ==
  /\ IF magic THEN cache_free(Sized, o)
     ELSE UNCHANGED <<cache, slab>> /\ lost' = lost \cup {o}
  /\ lent' = lent \ {o}

-------------------------------------------------------------------------------
\* The slabs that cache_reap takes from the empty list: all, but it stops, and has
\* to stop at the end of the list, when one slab is left to the cache.
Reaped(c) ==
  LET e == OnList(c, "empty")
  IN  IF cache[c].num_slabs > Cardinality(e) \/ e = {} THEN e
      ELSE e \ {CHOOSE s \in e : slab[s].next = NoSlab}

cache_reap ==
  LET gone == UNION {Reaped(c) : c \in Caches}
      left == [s \in DOMAIN slab \ gone |->
                 IF slab[s].prev \in gone THEN [slab[s] EXCEPT !.prev = NoSlab] ELSE slab[s]]
      After(c) == [cache[c] EXCEPT
                     !.slabs["empty"] = IF OnList(c, "empty") \subseteq gone THEN NoSlab
                                        ELSE CHOOSE s \in OnList(c, "empty") \ gone : TRUE,
                     !.num_slabs = @ - Cardinality(Reaped(c)),
                     !.num_free_objs = @ - Objs[c] * Cardinality(Reaped(c))]
  IN  /\ cache' = [c \in Caches |-> After(c)]
      /\ slab' = left
      /\ UNCHANGED <<lent, lost>>

\* cache_destroy frees every slab, whoever still owns an object in it; a cache of
\* that name may be created again.
cache_destroy(c) ==
  LET gone == UNION {OnList(c, l) : l \in Lists}
      Outside(objects) == {o \in objects : o[1] \notin gone}
  IN  /\ c # Sized
      /\ cache' = [cache EXCEPT ![c] = Created]
      /\ slab' = [s \in DOMAIN slab \ gone |-> slab[s]]
      /\ lent' = Outside(lent) /\ lost' = Outside(lost)

-------------------------------------------------------------------------------
SlabNext ==
  \/ \E c \in Caches : \/ cache_alloc(c) \/ cache_allocFails(c) \/ cache_destroy(c)
                       \/ \E o \in lent : FreeObject(c, o)
  \/ \E o \in lent, magic \in BOOLEAN : kmem_cache_free(o, magic)
  \/ cache_reap

SlabSpec == SlabInit /\ [][SlabNext]_slabVars

-------------------------------------------------------------------------------
(* Properties. *)

\* The three lists of all caches are doubly linked lists that end, and every slab
\* is on exactly one of them: move_slab takes slabs out of the middle, cache_reap
\* and cache_alloc link at the head with code of their own.
SlabListsOK ==
  /\ \A c \in Caches, l \in Lists : \A s \in OnList(c, l) :
       /\ slab[s].prev = NoSlab <=> cache[c].slabs[l] = s
       /\ slab[s].next # NoSlab => slab[slab[s].next].prev = s
  /\ \A s \in DOMAIN slab :
       Cardinality({x \in Caches \X Lists : s \in OnList(x[1], x[2])}) = 1
  /\ \A c \in Caches, l \in Lists : OnList(c, l) \subseteq DOMAIN slab

\* The list a slab is on says how full it is, so that cache_alloc never meets a
\* slab without a free object on the partial list, and cache_reap never destroys
\* one with an object in use.  A cache with one object in a slab is different: its
\* slabs go from full to partial and back, and cache_reap never finds them.
Classified ==
  \A c \in Caches :
    /\ Objs[c] > 0 => \A s \in OnList(c, "full") : slab[s].free = 0
    /\ Objs[c] > 0 => \A s \in OnList(c, "partial") : slab[s].free > 0
    /\ Objs[c] > 1 => \A s \in OnList(c, "partial") : slab[s].inuse > 0
    /\ \A s \in OnList(c, "empty") : slab[s].inuse = 0

\* No object is given out twice and none disappears: each is free, owned or lost to
\* a free that ignored it; and the counters of slabs and caches add up.
Conserved ==
  /\ \A s \in DOMAIN slab :
       LET free == {slab[s].freelist[i] : i \in DOMAIN slab[s].freelist}
           out  == {o[2] : o \in {p \in lent \cup lost : p[1] = s}}
       IN  /\ free \cap out = {}
           /\ Cardinality(free) = Len(slab[s].freelist) /\ Len(slab[s].freelist) = slab[s].free
           /\ Cardinality(out) = slab[s].inuse
  /\ \A o \in lent \cup lost : o[1] \in DOMAIN slab
  /\ lent \cap lost = {}
  /\ \A c \in Caches :
       LET all == UNION {OnList(c, l) : l \in Lists}
       IN  /\ cache[c].num_slabs = Cardinality(all)
           /\ cache[c].num_active_objs + cache[c].num_free_objs = Objs[c] * Cardinality(all)
           /\ cache[c].num_active_objs = Cardinality({o \in lent \cup lost : o[1] \in all})

\* A cache takes new memory only when every slab it has is used up.
GrowsOnlyWhenFull ==
  [][\A c \in Caches : cache[c].num_slabs' > cache[c].num_slabs =>
       \A l \in Lists : \A s \in OnList(c, l) : slab[s].free = 0]_slabVars
===============================================================================
