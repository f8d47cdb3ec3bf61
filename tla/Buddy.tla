-------------------------------- MODULE Buddy --------------------------------
(***************************************************************************)
(* The buddy allocator of kmOS (runtime/buddy.cc), from which slab, SLUB   *)
(* and SLOB take their pages.  Addresses count units of MIN_BLOCK_SIZE     *)
(* from memory_start.  The header of a block lies in the first bytes of    *)
(* the block itself; the rest of a block belongs to the caller, who        *)
(* overwrites whatever headers of earlier blocks were left there.  Spec is *)
(* about callers that stay within these bytes, OverrunSpec also about      *)
(* those that use all of the size they asked for.                          *)
(*                                                                         *)
(* The allocator takes no lock.  No interrupt handler calls it and only    *)
(* the boot thread does, so each call is one step.                         *)
(***************************************************************************)
EXTENDS Integers, FiniteSets

CONSTANTS Units,     \* memory_size / MIN_BLOCK_SIZE (4096 in the code)
          MaxOrder,  \* MAX_ORDER (11 in the code)
          NULL       \* the null pointer

ASSUME BuddyAssumption ==
  /\ Units \in Nat \ {0} /\ MaxOrder \in Nat
  /\ NULL \notin Int

VARIABLES zone,  \* struct buddy_zone, and the headers in memory
          held   \* the blocks, with their order, that callers own

vars == <<zone, held>>

Addrs == 0 .. Units - 1
Orders == 0 .. MaxOrder
Ptr == Addrs \cup {NULL}

\* block_size for an order: (1U << order) * MIN_BLOCK_SIZE, in units.
block_size[order \in Nat] == IF order = 0 THEN 1 ELSE 2 * block_size[order - 1]

Header == [next : Ptr, prev : Ptr, order : Orders, magic : BOOLEAN, allocated : BOOLEAN]

TypeOK ==
  /\ zone \in [free_lists : [Orders -> Ptr], free_blocks : [Orders -> 0 .. Units],
               allocated_blocks : 0 .. Units, hdr : [Addrs -> Header]]
  /\ held \subseteq Addrs \X Orders

-------------------------------------------------------------------------------
(* The free lists: doubly linked, new blocks at the head. *)

add_to_free_list(z, block, order) ==
  LET head == z.free_lists[order]
      hdr1 == [z.hdr EXCEPT ![block].next = head, ![block].prev = NULL]
  IN  [z EXCEPT !.hdr = IF head = NULL THEN hdr1 ELSE [hdr1 EXCEPT ![head].prev = block],
                !.free_lists[order] = block,
                !.free_blocks[order] = @ + 1]

\* Mutant: the successor keeps its prev pointer.
RemoveOneWay(z, block, order) ==
  LET next == z.hdr[block].next
      prev == z.hdr[block].prev
  IN  [z EXCEPT !.hdr = IF prev = NULL THEN z.hdr ELSE [z.hdr EXCEPT ![prev].next = next],
                !.free_lists[order] = IF prev = NULL THEN next ELSE @,
                !.free_blocks[order] = @ - 1]

remove_from_free_list(z, block, order) ==
  LET next == z.hdr[block].next
      prev == z.hdr[block].prev
      hdr1 == IF prev = NULL THEN z.hdr ELSE [z.hdr EXCEPT ![prev].next = next]
  IN  [z EXCEPT !.hdr = IF next = NULL THEN hdr1 ELSE [hdr1 EXCEPT ![next].prev = prev],
                !.free_lists[order] = IF prev = NULL THEN next ELSE @,
                !.free_blocks[order] = @ - 1]

\* A header is written at block, which goes to the free list of its order.
NewFreeBlock(z, block, order) ==
  LET header == [next |-> NULL, prev |-> NULL, order |-> order, magic |-> TRUE,
                 allocated |-> FALSE]
  IN  add_to_free_list([z EXCEPT !.hdr[block] = header], block, order)

-------------------------------------------------------------------------------
(* init *)

\* The largest order whose block fits into size units.
FitOrder(size) ==
  CHOOSE o \in Orders : block_size[o] <= size /\ (o < MaxOrder => block_size[o + 1] > size)

EmptyZone ==
  [free_lists |-> [o \in Orders |-> NULL], free_blocks |-> [o \in Orders |-> 0],
   allocated_blocks |-> 0,
   hdr |-> [a \in Addrs |-> [next |-> NULL, prev |-> NULL, order |-> 0, magic |-> FALSE,
                             allocated |-> FALSE]]]

\* One round of the loop of init: the largest block that fits, at the address s.at.
Carve(s) ==
  LET order == FitOrder(Units - s.at)
  IN  IF s.at = Units THEN s
      ELSE [zone |-> NewFreeBlock(s.zone, s.at, order), at |-> s.at + block_size[order]]

carved[k \in Nat] == IF k = 0 THEN [zone |-> EmptyZone, at |-> 0] ELSE Carve(carved[k - 1])

\* The loop has no more rounds than there are units.
Init ==
  /\ zone = carved[Units].zone
  /\ held = {}

-------------------------------------------------------------------------------
(* alloc *)

\* size in units, rounded up; what no block can hold gets the largest block.  The
\* header is not added to size: see Overrun.
get_order(size) ==
  IF size > block_size[MaxOrder] THEN MaxOrder
  ELSE CHOOSE o \in Orders : block_size[o] >= size /\ (o > 0 => block_size[o - 1] < size)

\* Mutant: the header of the remaining block keeps the order it had.
HalveKeepOrder(s, block) ==
  LET order == s.order - 1
  IN  [zone |-> NewFreeBlock(s.zone, block + block_size[order], order), order |-> order]

\* One round of split_block: the upper half of block becomes a free block.
Halve(s, block) ==
  LET order == s.order - 1
      z == NewFreeBlock(s.zone, block + block_size[order], order)
  IN  [zone |-> [z EXCEPT !.hdr[block].order = order], order |-> order]

\* Until block has the order target.
split_block(z, block, order, target) ==
  LET halved[k \in Nat] ==
        IF k = 0 THEN [zone |-> z, order |-> order]
        ELSE LET s == halved[k - 1] IN IF s.order > target THEN Halve(s, block) ELSE s
  IN  halved[MaxOrder].zone

\* The orders of which alloc_order finds a free block.
Usable(order) == {o \in order .. MaxOrder : zone.free_lists[o] # NULL}

alloc_order(order) ==
  /\ Usable(order) # {}
  /\ LET from  == CHOOSE o \in Usable(order) : \A p \in Usable(order) : o <= p
         block == zone.free_lists[from]
         z     == split_block(remove_from_free_list(zone, block, from), block, from, order)
     IN  /\ zone' = [z EXCEPT !.hdr[block].allocated = TRUE, !.allocated_blocks = @ + 1]
         /\ held' = held \cup {<<block, order>>}

alloc(size) == alloc_order(get_order(size))

\* alloc returns nullptr.
allocFails(order) == Usable(order) = {} /\ UNCHANGED vars

-------------------------------------------------------------------------------
(* free *)

\* block_index ^ 1, as an address.
BuddyAddr(block, order) ==
  LET index == block \div block_size[order]
  IN  (IF index % 2 = 0 THEN index + 1 ELSE index - 1) * block_size[order]

find_buddy(z, block, order) ==
  LET buddy == BuddyAddr(block, order)
  IN  IF buddy >= Units THEN NULL
      ELSE LET h == z.hdr[buddy]
           IN  IF h.magic /\ ~h.allocated /\ h.order = order THEN buddy ELSE NULL

\* Mutant: the loop of coalesce_block stops one order early.
MergesShort(order) == order < MaxOrder - 1

\* The orders at which coalesce_block looks for a buddy.
Merges(order) == order < MaxOrder

\* Mutant: the block that was freed stands for the pair, even when it is the upper.
MergeUpper(s, buddy) ==
  LET z == remove_from_free_list(s.zone, buddy, s.order)
  IN  [zone |-> [z EXCEPT !.hdr[s.block].order = s.order + 1], block |-> s.block,
       order |-> s.order + 1]

\* One merge: the buddy leaves its list, and the lower of the two is the block.
Merge(s, buddy) ==
  LET block == IF buddy < s.block THEN buddy ELSE s.block
      z == remove_from_free_list(s.zone, buddy, s.order)
  IN  [zone |-> [z EXCEPT !.hdr[block].order = s.order + 1], block |-> block,
       order |-> s.order + 1]

\* One round of coalesce_block; a round that finds no buddy is its last.
Coalesce(s) ==
  LET buddy == IF Merges(s.order) THEN find_buddy(s.zone, s.block, s.order) ELSE NULL
  IN  IF buddy = NULL THEN s ELSE Merge(s, buddy)

coalesce_block(z, block, order) ==
  LET merged[k \in Nat] == IF k = 0 THEN [zone |-> z, block |-> block, order |-> order]
                           ELSE Coalesce(merged[k - 1])
      s == merged[MaxOrder]
  IN  add_to_free_list(s.zone, s.block, s.order)

free_order(block, order) ==
  LET z == [zone EXCEPT !.hdr[block].allocated = FALSE, !.allocated_blocks = @ - 1]
  IN  zone' = coalesce_block(z, block, order)

\* Mutant: free trusts every header with the right magic number.
ValidMagic(block) == zone.hdr[block].magic

\* The check of free before it trusts the header.
ValidBlock(block) == zone.hdr[block].magic /\ zone.hdr[block].allocated

free(block) ==
  IF ValidBlock(block) THEN free_order(block, zone.hdr[block].order) ELSE UNCHANGED zone

\* A caller returns a block it owns: to free, or to free_order as slab_destroy does.
Free(b) == free(b[1]) /\ held' = held \ {b}
FreeOrder(b) == free_order(b[1], b[2]) /\ held' = held \ {b}

UnitsOf(b) == b[1] .. b[1] + block_size[b[2]] - 1
HeldUnits == UNION {UnitsOf(b) : b \in held}

\* A caller frees a block for the second time, before anyone else owns its memory.
FreeAgain(block) ==
  /\ zone.hdr[block].magic /\ block \notin HeldUnits
  /\ free(block)
  /\ UNCHANGED held

\* The owner of a block writes to the bytes after its header; the data may look like
\* a free block's header.
UserData == [next |-> NULL, prev |-> NULL, order |-> 0, magic |-> TRUE, allocated |-> FALSE]

Write(b) ==
  /\ zone' = [zone EXCEPT !.hdr = [a \in Addrs |-> IF a \in UnitsOf(b) \ {b[1]} THEN UserData
                                                   ELSE zone.hdr[a]]]
  /\ UNCHANGED held

-------------------------------------------------------------------------------
Next ==
  \/ \E size \in 1 .. block_size[MaxOrder] + 1 : alloc(size)
  \/ \E order \in Orders : allocFails(order)
  \/ \E b \in held : Free(b) \/ FreeOrder(b) \/ Write(b)
  \/ \E a \in Addrs : FreeAgain(a)

Spec == Init /\ [][Next]_vars

\* What alloc returns lies behind the header, and get_order has left no room for the
\* header: a caller who asked for as much as a block has and uses all of it
\* overwrites the header of the next block.
Overrun(b) ==
  LET next == b[1] + block_size[b[2]]
  IN  /\ next < Units
      /\ zone' = [zone EXCEPT !.hdr[next] = [UserData EXCEPT !.magic = FALSE]]
      /\ UNCHANGED held

OverrunSpec == Init /\ [][Next \/ \E b \in held : Overrun(b)]_vars

-------------------------------------------------------------------------------
(* Properties. *)

\* The block reached from the head of the list of an order after k next pointers.
Nth(order, k) ==
  LET at[i \in Nat] == IF i = 0 THEN zone.free_lists[order]
                       ELSE IF at[i - 1] = NULL THEN NULL ELSE zone.hdr[at[i - 1]].next
  IN  at[k]

FreeOf(order) == {Nth(order, k) : k \in 0 .. Units} \ {NULL}
FreeBlocks == UNION {FreeOf(o) \X {o} : o \in Orders}
Blocks == FreeBlocks \cup held

\* Every free list is a proper doubly linked list and free_blocks its length.
\* remove_from_free_list takes blocks out of the middle, on the strength of a
\* header found by address arithmetic and not through the list.
ListsOK ==
  \A o \in Orders :
    /\ Nth(o, Units) = NULL
    /\ zone.free_blocks[o] = Cardinality(FreeOf(o))
    /\ \A a \in FreeOf(o) :
         LET h == zone.hdr[a]
         IN  /\ h.magic /\ ~h.allocated /\ h.order = o
             /\ h.prev = NULL <=> zone.free_lists[o] = a
             /\ h.next # NULL => zone.hdr[h.next].prev = a

\* The free blocks and the blocks the callers hold tile the memory: no byte is
\* given out twice and none is lost, however splits, merges and double frees mix.
Tiling ==
  /\ UNION {UnitsOf(b) : b \in Blocks} = Addrs
  /\ \A b, d \in Blocks : b # d => UnitsOf(b) \cap UnitsOf(d) = {}

\* find_buddy decides on the header at a computed address.  That address is always
\* the start of a present block of the tiling, never the middle of a block, where a
\* stale header or the data of its owner might look like the header of a free block.
\* It holds for callers that stay within the bytes after their header; a caller who
\* does not may falsify every header, as the run buddy_overrun shows.
BuddyIsBlock ==
  LET starts == {b[1] : b \in Blocks}
  IN  \A b \in Blocks : LET buddy == BuddyAddr(b[1], b[2])
                       IN  b[2] < MaxOrder /\ buddy < Units => buddy \in starts

\* free reports "Invalid block or double free", so of no other block: whatever callers
\* do with the memory they asked for, free finds a true header in a block they own.
HeldIsValid == \A b \in held : ValidBlock(b[1]) /\ zone.hdr[b[1]].order = b[2]

\* alloc_order returns nullptr only when there is no room: if the lists it looks at
\* are empty, no aligned run of block_size[order] free units exists.
NoFalseFailure ==
  LET taken == HeldUnits
  IN  \A o \in Orders : Usable(o) = {} =>
        \A i \in 0 .. Units : (i + 1) * block_size[o] <= Units =>
          (i * block_size[o]) .. ((i + 1) * block_size[o] - 1) \cap taken # {}

===============================================================================
