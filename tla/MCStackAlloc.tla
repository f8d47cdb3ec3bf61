----------------------------- MODULE MCStackAlloc -----------------------------
(***************************************************************************)
(* Module StackAlloc for TLC: room for three frames, an offset of start    *)
(* that is not aligned, and alignments of which one is not a power of two. *)
(***************************************************************************)
EXTENDS StackAlloc, TLC

CONSTANT MaxHeld  \* bound on the allocations and the checkpoints that callers have

PieceSymmetry == Permutations(Pieces)
Bounded == Cardinality(live) + Len(checkpoint_stack) <= MaxHeld
===============================================================================
