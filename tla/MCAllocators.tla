----------------------------- MODULE MCAllocators -----------------------------
(***************************************************************************)
(* Modules Buddy and Slab for TLC.  A slab asks the buddy allocator only   *)
(* for pairs of blocks, which module Slab takes from a set of its own, so  *)
(* the behaviours of one are checked with the other at rest: allocator     *)
(* says which of them runs.  The buddy zone has a size that is no power of *)
(* two; the slab allocator has a cache of ordinary objects, and those of   *)
(* objects that fill a page or do not fit into one (size-4096, size-8192). *)
(***************************************************************************)
EXTENDS Buddy, Slab
LOCAL INSTANCE TLC

CONSTANTS small, page, large

VARIABLE allocator

MCObjs == [c \in Caches |-> CASE c = small -> 3 [] c = page -> 1 [] c = large -> 0]

AllocatorsInit == Init /\ SlabInit /\ allocator \in {"buddy", "slab"}

BuddyStep == allocator = "buddy" /\ Next /\ UNCHANGED <<slabVars, allocator>>
SlabStep == allocator = "slab" /\ SlabNext /\ UNCHANGED <<vars, allocator>>

AllocatorsSpec == AllocatorsInit /\ [][BuddyStep \/ SlabStep]_<<vars, slabVars, allocator>>

SlabSymmetry == Permutations(Slabs)

===============================================================================
