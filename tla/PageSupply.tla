----------------------------- MODULE PageSupply -----------------------------
(***************************************************************************)
(* What the allocators of kmOS see of the buddy allocator (module Buddy):  *)
(* a supply of blocks.  The state of the heap is a record h that each      *)
(* operation takes and returns; supply holds the free blocks, taken those  *)
(* that were handed out as they are.  A pointer is a block and an offset   *)
(* into it; the buddy allocator gives out, and takes back, offset 0.  The  *)
(* order of a block makes no difference here.                              *)
(***************************************************************************)
EXTENDS Integers, Sequences, FiniteSets
LOCAL INSTANCE FiniteSetsExt

CONSTANT Blocks  \* the blocks that the zone can be cut into

ASSUME BlocksAssumption == Blocks \subseteq Nat \ {0} /\ IsFiniteSet(Blocks)

NULL == <<0, 0>>
Base(p) == p[1]
Offset(p) == p[2]

\* The block that the next alloc finds; there is one when Available.
Fresh(h) == Min(h.supply)
Available(h, n) == Cardinality(h.supply) >= n

buddy_alloc(h) == [h EXCEPT !.supply = @ \ {Fresh(h)}]

\* The header is behind offset 0 only, and a block that is free is refused.
buddy_free(h, p) ==
  IF Offset(p) = 0 /\ Base(p) \notin h.supply
  THEN [h EXCEPT !.supply = @ \cup {Base(p)}, !.taken = @ \ {Base(p)}]
  ELSE h

\* A block that goes to the caller as it is, or NULL.
Direct(h) ==
  IF Available(h, 1)
  THEN [heap |-> [buddy_alloc(h) EXCEPT !.taken = @ \cup {Fresh(h)}], ptr |-> <<Fresh(h), 0>>]
  ELSE [heap |-> h, ptr |-> NULL]
===============================================================================
