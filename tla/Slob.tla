-------------------------------- MODULE Slob --------------------------------
(***************************************************************************)
(* The SLOB allocator of kmOS (runtime/slob.cc): pages of the buddy        *)
(* allocator, each with one list of free blocks in the order of their      *)
(* addresses, best fit over all the pages, blocks that are split when they *)
(* are taken and merged when they come back.                               *)
(*                                                                         *)
(* h.slob.pages is the list of pages with their free lists; h.slob.used    *)
(* the blocks whose header holds SLOB_MAGIC.  A block is an address in its *)
(* page, counted from the end of struct slob_page, and a size that         *)
(* includes the header.  The counter fragmentation is left out: it only    *)
(* decides whether defragment merges the free lists once more, which finds *)
(* nothing to merge (SlobSound).                                           *)
(***************************************************************************)
EXTENDS PageSupply
LOCAL INSTANCE FiniteSetsExt
LOCAL INSTANCE SequencesExt

CONSTANTS PageHeader,   \* sizeof(struct slob_page): 28 in the code
          PageRoom,     \* SLOB_BLOCK_SIZE less the header: 4068
          SlobHeader,   \* sizeof(struct slob_block): 16
          SlobAlign,    \* SLOB_ALIGN: 8
          SlobMin,      \* SLOB_MIN_ALLOC: 16
          SlobMax       \* SLOB_MAX_ALLOC: 512

ASSUME SlobAssumption ==
  /\ {PageHeader, PageRoom, SlobHeader, SlobAlign, SlobMin, SlobMax} \subseteq Nat \ {0}
  /\ SlobMax + SlobAlign + SlobHeader <= PageRoom

\* A page as alloc_page makes it, with all of its room in one block.
NewPage(b) == [base |-> b, free_size |-> PageRoom, free |-> <<[at |-> 0, size |-> PageRoom]>>]

\* At the head of the list of pages; without a block, nothing.
alloc_page(h) ==
  IF Available(h, 1)
  THEN [buddy_alloc(h) EXCEPT !.slob.pages = <<NewPage(Fresh(h))>> \o @,
                              !.slob.total_pages = @ + 1]
  ELSE h

\* The size of the block for a request: rounded up, not too small, with its header.
Need(size) ==
  Max({((size + SlobAlign - 1) \div SlobAlign) * SlobAlign, SlobMin}) + SlobHeader

\* The free blocks that are large enough, as positions in pages and in a free list.
Fitting(h, need) ==
  {c \in UNION {{i} \X DOMAIN h.slob.pages[i].free : i \in DOMAIN h.slob.pages} :
     h.slob.pages[c[1]].free[c[2]].size >= need}

BlockAt(h, c) == h.slob.pages[c[1]].free[c[2]]

\* Best fit: the smallest of them, and the first in the lists among equals.
find_free_block(h, need) ==
  LET fit == Fitting(h, need)
  IN  CHOOSE c \in fit : \A d \in fit :
        \/ BlockAt(h, c).size < BlockAt(h, d).size
        \/ /\ BlockAt(h, c).size = BlockAt(h, d).size
           /\ c[1] < d[1] \/ (c[1] = d[1] /\ c[2] <= d[2])

\* Whether what is left over is worth a block of its own.
Splits(size, need) == size > need + SlobHeader + SlobMin

\* The i-th block keeps need bytes and the rest follows it in the list.
split_block(list, i, need) ==
  InsertAt([list EXCEPT ![i].size = need], i + 1,
           [at |-> list[i].at + need, size |-> list[i].size - need])

remove_free_block(list, i) == RemoveAt(list, i)

\* The block at c, split or whole, leaves its free list.
TakeBlock(h, c, need) ==
  LET b    == BlockAt(h, c)
      page == h.slob.pages[c[1]]
      list == IF Splits(b.size, need) THEN split_block(page.free, c[2], need) ELSE page.free
      size == list[c[2]].size
  IN  [heap |-> [h EXCEPT !.slob.pages[c[1]].free = remove_free_block(list, c[2]),
                          !.slob.pages[c[1]].free_size = @ - size,
                          !.slob.used = @ \cup {[base |-> page.base, at |-> b.at, size |-> size]},
                          !.slob.total_allocated = @ + size],
       ptr  |-> <<page.base, PageHeader + b.at + SlobHeader>>]

\* The best fit of what is free now, or NULL.
TakeBest(h, need) ==
  IF Fitting(h, need) = {} THEN [heap |-> h, ptr |-> NULL]
  ELSE TakeBlock(h, find_free_block(h, need), need)

\* Another page is asked for only when no free block fits.
slob_alloc(h, size) ==
  IF size = 0 \/ size > SlobMax THEN [heap |-> h, ptr |-> NULL]
  ELSE TakeBest(IF Fitting(h, Need(size)) = {} THEN alloc_page(h) ELSE h, Need(size))

\* Into the list, in the order of the addresses.
add_free_block(list, b) ==
  InsertAt(list, 1 + Cardinality({i \in DOMAIN list : list[i].at < b.at}), b)

\* Mutant: blocks are never merged.
MergeNothing(list) == list

\* Neighbours in the list that touch become one block.
merge_free_blocks(list) ==
  FoldLeft(LAMBDA merged, b :
             IF merged # <<>> /\ Last(merged).at + Last(merged).size = b.at
             THEN [merged EXCEPT ![Len(merged)].size = @ + b.size]
             ELSE Append(merged, b),
           <<>>, list)

\* free_page for a page that is all free, unless it is the only one.
free_page(h, i) ==
  IF h.slob.pages[i].free_size = PageRoom /\ h.slob.total_pages > 1
  THEN [buddy_free(h, <<h.slob.pages[i].base, 0>>) EXCEPT
          !.slob.pages = RemoveAt(@, i), !.slob.total_pages = @ - 1]
  ELSE h

\* The block u comes back to the i-th page.
FreeBlock(h, i, u) ==
  free_page([h EXCEPT
    !.slob.used = @ \ {u},
    !.slob.total_allocated = @ - u.size,
    !.slob.pages[i].free_size = @ + u.size,
    !.slob.pages[i].free = merge_free_blocks(add_free_block(@, [at |-> u.at, size |-> u.size]))], i)

\* The blocks whose header is before p and holds SLOB_MAGIC, and the pages p is in.
HeaderBefore(h, p) ==
  {u \in h.slob.used : u.base = Base(p) /\ PageHeader + u.at + SlobHeader = Offset(p)}
PageAround(h, p) == {i \in DOMAIN h.slob.pages : h.slob.pages[i].base = Base(p)}

\* A pointer without the one or the other is ignored: so free may be given a pointer
\* of any allocator.
slob_free(h, p) ==
  IF HeaderBefore(h, p) = {} \/ PageAround(h, p) = {} THEN h
  ELSE FreeBlock(h, Min(PageAround(h, p)), CHOOSE u \in HeaderBefore(h, p) : TRUE)

SlobEmpty == [pages |-> <<>>, total_pages |-> 0, used |-> {}, total_allocated |-> 0]

\* init asks for a first page and goes on without one.
slob_init(h) == alloc_page([h EXCEPT !.slob = SlobEmpty])

-------------------------------------------------------------------------------
(* What holds between any two calls. *)

Owned(h, b) == {[at |-> u.at, size |-> u.size] : u \in {o \in h.slob.used : o.base = b}}
Covers(b, x) == b.at <= x /\ x < b.at + b.size

\* The free and the used blocks tile the page, the free list is in order and no two
\* of its blocks touch, and free_size is what the list adds up to.
PageOK(h, page) ==
  LET free == {page.free[i] : i \in DOMAIN page.free}
  IN  /\ \A x \in 0 .. PageRoom - 1 :
           Cardinality({b \in free \cup Owned(h, page.base) : Covers(b, x)}) = 1
      /\ \A i, j \in DOMAIN page.free :
           i < j => page.free[i].at + page.free[i].size < page.free[j].at
      /\ page.free_size = MapThenSumSet(LAMBDA b : b.size, free)

SlobOK(h) ==
  LET pages == h.slob.pages
  IN  /\ \A i \in DOMAIN pages : PageOK(h, pages[i])
      /\ \A i, j \in DOMAIN pages : pages[i].base = pages[j].base => i = j
      /\ {u.base : u \in h.slob.used} \subseteq {pages[i].base : i \in DOMAIN pages}
      /\ h.slob.total_pages = Len(pages)
      /\ h.slob.total_allocated = MapThenSumSet(LAMBDA u : u.size, h.slob.used)
      /\ (\E i \in DOMAIN pages : Owned(h, pages[i].base) = {}) => Len(pages) = 1
===============================================================================
