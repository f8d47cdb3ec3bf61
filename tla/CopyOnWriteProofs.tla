-------------------------- MODULE CopyOnWriteProofs --------------------------
(***************************************************************************)
(* Proofs about module CopyOnWrite, for any number of processes, frames    *)
(* and pages.  fork walks the pages of its caller with a recursive         *)
(* function; what it has done after k pages is proved by induction on k.   *)
(***************************************************************************)
EXTENDS CopyOnWrite, ProofLemmas, FiniteSetTheorems

-------------------------------------------------------------------------------
(* The inductive invariant. *)

Memory == [used : SUBSET Frames, pd : [Dirs -> Directory], refs : [Frames -> 0 .. MaxRefs]]

\* A page that is present has a frame, and its page table is there: break_cow then
\* takes one frame and no more, and copies from a frame that exists.
Mapped(m) ==
  \A d \in Dirs, p \in Pages : m.pd[d].page[p].present =>
    m.pd[d].page[p].frame \in Frames /\ p \div PagesPerTable \in m.pd[d].tables

MemoryInv == TypeOK /\ Mapped(mm)

-------------------------------------------------------------------------------
(* What the operations on the memory do. *)

\* alloc_frame takes a frame that was free, when there is one.
LEMMA AllocFrame ==
  ASSUME NEW m \in Memory, Left(m) # {}
  PROVE  /\ FreeFrame(m) \in Left(m) /\ FreeFrame(m) \in Frames
         /\ alloc_frame(m) \in Memory
         /\ alloc_frame(m).pd = m.pd /\ alloc_frame(m).refs = m.refs
         /\ alloc_frame(m).used = m.used \cup {FreeFrame(m)}
         /\ Left(alloc_frame(m)) = Left(m) \ {FreeFrame(m)}
<1>1. Left(m) \in SUBSET Nat
  BY CopyOnWriteAssumption DEF Left, Frames
<1>2. \E x \in Left(m) : \A y \in Left(m) : x <= y
  BY <1>1, NatSetMin
<1>3. FreeFrame(m) \in Left(m)
  BY <1>2 DEF FreeFrame
<1>4. FreeFrame(m) \in Frames
  BY <1>3 DEF Left
<1>5. /\ alloc_frame(m) \in Memory
      /\ alloc_frame(m).pd = m.pd /\ alloc_frame(m).refs = m.refs
      /\ alloc_frame(m).used = m.used \cup {FreeFrame(m)}
  BY <1>4 DEF alloc_frame, Memory
<1> QED BY <1>3, <1>4, <1>5 DEF Left

\* The number of frames that are left is a number.
LEMMA LeftFinite ==
  ASSUME NEW m \in Memory
  PROVE  /\ IsFiniteSet(Left(m)) /\ Cardinality(Left(m)) \in Nat
         /\ Cardinality(Left(m)) > 0 => Left(m) # {}
<1>1. Left(m) \in SUBSET Frames /\ IsFiniteSet(Frames)
  BY CopyOnWriteAssumption, FS_Interval DEF Left, Frames
<1>2. IsFiniteSet(Left(m))
  BY <1>1, FS_Subset
<1> QED BY <1>2, FS_CardinalityType, FS_EmptySet

\* The table of a page is one of the tables.
LEMMA PageTables ==
  ASSUME NEW p \in Pages
  PROVE  p \div PagesPerTable \in Tables
BY DEF Tables

\* get_page_table makes at most one table, and changes nothing else of the directory.
LEMMA GetPageTable ==
  ASSUME NEW m \in Memory, NEW d \in Dirs, NEW p \in Pages,
         p \div PagesPerTable \in m.pd[d].tables \/ Left(m) # {}
  PROVE  LET n == get_page_table(m, d, p)
             t == p \div PagesPerTable
         IN  /\ n \in Memory /\ n.refs = m.refs
             /\ \A x \in Dirs : x # d => n.pd[x] = m.pd[x]
             /\ n.pd[d].root = m.pd[d].root /\ n.pd[d].page = m.pd[d].page
             /\ n.pd[d].tables = m.pd[d].tables \cup {t}
             /\ t \in m.pd[d].tables => Left(n) = Left(m)
             /\ t \notin m.pd[d].tables =>
                  Left(n) = Left(m) \ {FreeFrame(m)} /\ FreeFrame(m) \in Left(m)
<1> DEFINE t == p \div PagesPerTable
           n == get_page_table(m, d, p)
<1>0. t \in Tables
  BY PageTables
<1>1. CASE t \in m.pd[d].tables
  <2>1. n = m
    BY <1>1 DEF get_page_table
  <2> QED BY <1>1, <2>1
<1>2. CASE t \notin m.pd[d].tables
  <2> DEFINE a == alloc_frame(m)
  <2>1. /\ a \in Memory /\ a.pd = m.pd /\ a.refs = m.refs /\ Left(a) = Left(m) \ {FreeFrame(m)}
        /\ FreeFrame(m) \in Left(m)
    BY <1>2, AllocFrame
  <2>2. n = [a EXCEPT !.pd[d].tables = @ \cup {t}]
    BY <1>2 DEF get_page_table
  <2> HIDE DEF a, n, t
  <2>3. a.pd \in [Dirs -> Directory] /\ a.pd[d] \in Directory
    BY <2>1 DEF Memory
  <2>4. n.used = a.used /\ n.refs = a.refs /\ n.pd = [a.pd EXCEPT ![d].tables = @ \cup {t}]
    BY <2>1, <2>2 DEF Memory
  <2>5. /\ n.pd[d] = [a.pd[d] EXCEPT !.tables = @ \cup {t}]
        /\ \A x \in Dirs : x # d => n.pd[x] = a.pd[x]
    BY <2>3, <2>4
  <2>6. n.pd[d].root = a.pd[d].root /\ n.pd[d].page = a.pd[d].page /\ n.pd[d].tables = a.pd[d].tables \cup {t}
    BY <2>3, <2>5 DEF Directory
  <2>7. n.pd[d] \in Directory
    BY <1>0, <2>3, <2>5 DEF Directory
  <2>8. n.pd \in [Dirs -> Directory]
    BY <1>0, <2>3, <2>4, <2>7 DEF Directory
  <2>9. n \in Memory
    BY <2>1, <2>2, <2>8, <2>4 DEF Memory
  <2>10. Left(n) = Left(a)
    BY <2>4 DEF Left
  <2> QED BY <1>2, <2>1, <2>5, <2>6, <2>9, <2>10, <2>4 DEF n, t
<1> QED BY <1>1, <1>2

\* Memory n is m with the entry of page p set, and its table made if it must be.
EntrySet(n, m, d, p, f, w) ==
  LET t == p \div PagesPerTable
  IN  /\ n \in Memory /\ n.refs = m.refs
      /\ \A x \in Dirs : x # d => n.pd[x] = m.pd[x]
      /\ n.pd[d].root = m.pd[d].root
      /\ n.pd[d].tables = m.pd[d].tables \cup {t}
      /\ n.pd[d].page[p] = [present |-> TRUE, writable |-> w, frame |-> f]
      /\ \A q \in Pages : q # p => n.pd[d].page[q] = m.pd[d].page[q]
      /\ t \in m.pd[d].tables => Left(n) = Left(m)
      /\ t \notin m.pd[d].tables =>
           Left(n) = Left(m) \ {FreeFrame(m)} /\ FreeFrame(m) \in Left(m)

\* map_page makes the table if it must, and sets one entry.
LEMMA MapPage ==
  ASSUME NEW m \in Memory, NEW d \in Dirs, NEW p \in Pages, NEW f \in Frames, NEW w \in BOOLEAN,
         p \div PagesPerTable \in m.pd[d].tables \/ Left(m) # {}
  PROVE  EntrySet(map_page(m, d, p, f, w), m, d, p, f, w)
<1> DEFINE t == p \div PagesPerTable
           g == get_page_table(m, d, p)
           e == [present |-> TRUE, writable |-> w, frame |-> f]
           n == map_page(m, d, p, f, w)
<1>1. /\ g \in Memory /\ g.refs = m.refs
      /\ \A x \in Dirs : x # d => g.pd[x] = m.pd[x]
      /\ g.pd[d].root = m.pd[d].root /\ g.pd[d].page = m.pd[d].page
      /\ g.pd[d].tables = m.pd[d].tables \cup {t}
      /\ t \in m.pd[d].tables => Left(g) = Left(m)
      /\ t \notin m.pd[d].tables =>
           Left(g) = Left(m) \ {FreeFrame(m)} /\ FreeFrame(m) \in Left(m)
  BY GetPageTable
<1>2. n = [g EXCEPT !.pd[d].page[p] = e]
  BY DEF map_page
<1>3. e \in Entry
  BY DEF Entry
<1> HIDE DEF n, g, e, t
<1>4. g.pd \in [Dirs -> Directory] /\ g.pd[d] \in Directory /\ g.pd[d].page \in [Pages -> Entry]
  BY <1>1 DEF Memory, Directory
<1>5. n.used = g.used /\ n.refs = g.refs /\ n.pd = [g.pd EXCEPT ![d].page[p] = e]
  BY <1>1, <1>2 DEF Memory
<1>6. /\ n.pd[d] = [g.pd[d] EXCEPT !.page[p] = e]
      /\ \A x \in Dirs : x # d => n.pd[x] = g.pd[x]
  BY <1>4, <1>5
<1>7. /\ n.pd[d].root = g.pd[d].root /\ n.pd[d].tables = g.pd[d].tables
      /\ n.pd[d].page = [g.pd[d].page EXCEPT ![p] = e]
  BY <1>4, <1>6 DEF Directory
<1>8. n.pd[d] \in Directory
  BY <1>3, <1>4, <1>6 DEF Directory
<1>9. n.pd \in [Dirs -> Directory]
  BY <1>4, <1>5, <1>6, <1>8
<1>10. n \in Memory
  BY <1>1, <1>2, <1>5, <1>9 DEF Memory
<1>11. n.pd[d].page[p] = e /\ \A q \in Pages : q # p => n.pd[d].page[q] = g.pd[d].page[q]
  BY <1>4, <1>7
<1>12. Left(n) = Left(g)
  BY <1>5 DEF Left
<1>13. EntrySet(n, m, d, p, f, w)
  BY ONLY <1>1, <1>5, <1>6, <1>7, <1>10, <1>11, <1>12 DEF t, e, EntrySet
<1> QED BY <1>13 DEF n

\* The counts of cow_pages stay within MAX_COW_REFS.
LEMMA ShareFrame ==
  ASSUME NEW m \in Memory, NEW f \in Frames
  PROVE  Share(m, f) \in Memory /\ Share(m, f).pd = m.pd /\ Share(m, f).used = m.used
<1> DEFINE n == IF m.refs[f] = 0 THEN 1 ELSE m.refs[f]
           v == IF n < MaxRefs THEN n + 1 ELSE n
<1>1. Share(m, f) = [m EXCEPT !.refs[f] = v]
  BY DEF Share
<1>2. m.refs[f] \in 0 .. MaxRefs /\ MaxRefs \in Nat \ {0}
  BY CopyOnWriteAssumption DEF Memory
<1>3. v \in 0 .. MaxRefs
  BY <1>2
<1> HIDE DEF v
<1> QED BY <1>1, <1>3 DEF Memory

\* Memory n is m but for the right to write page p.
RightSet(n, m, d, p, w) ==
  /\ n \in Memory /\ n.refs = m.refs /\ n.used = m.used
  /\ \A x \in Dirs : x # d => n.pd[x] = m.pd[x]
  /\ n.pd[d].root = m.pd[d].root /\ n.pd[d].tables = m.pd[d].tables
  /\ \A q \in Pages : q # p => n.pd[d].page[q] = m.pd[d].page[q]
  /\ n.pd[d].page[p].present = m.pd[d].page[p].present
  /\ n.pd[d].page[p].frame = m.pd[d].page[p].frame
  /\ n.pd[d].page[p].writable = w

\* Writing that field of an entry does nothing else.
LEMMA SetWritable ==
  ASSUME NEW m \in Memory, NEW d \in Dirs, NEW p \in Pages, NEW w \in BOOLEAN
  PROVE  RightSet([m EXCEPT !.pd[d].page[p].writable = w], m, d, p, w)
<1> DEFINE n == [m EXCEPT !.pd[d].page[p].writable = w]
           e == [m.pd[d].page[p] EXCEPT !.writable = w]
<1>1. m.pd \in [Dirs -> Directory] /\ m.pd[d] \in Directory /\ m.pd[d].page \in [Pages -> Entry]
      /\ m.pd[d].page[p] \in Entry
  BY DEF Memory, Directory
<1>2. /\ e \in Entry /\ e.present = m.pd[d].page[p].present
      /\ e.frame = m.pd[d].page[p].frame /\ e.writable = w
  BY <1>1 DEF Entry
<1>3. n = [m EXCEPT !.pd[d].page[p] = e]
  BY <1>1 DEF Memory, Directory
<1> HIDE DEF n, e
<1>4. n.used = m.used /\ n.refs = m.refs /\ n.pd = [m.pd EXCEPT ![d].page[p] = e]
  BY <1>3 DEF Memory
<1>5. /\ n.pd[d] = [m.pd[d] EXCEPT !.page[p] = e]
      /\ \A x \in Dirs : x # d => n.pd[x] = m.pd[x]
  BY <1>1, <1>4
<1>6. /\ n.pd[d].root = m.pd[d].root /\ n.pd[d].tables = m.pd[d].tables
      /\ n.pd[d].page = [m.pd[d].page EXCEPT ![p] = e]
  BY <1>1, <1>5 DEF Directory
<1>7. n.pd[d] \in Directory
  <2>1. [m.pd[d].page EXCEPT ![p] = e] \in [Pages -> Entry]
    BY ONLY <1>1, <1>2
  <2> QED BY ONLY <1>1, <1>5, <2>1 DEF Directory
<1>8. n.pd \in [Dirs -> Directory]
  BY <1>1, <1>4, <1>5, <1>7
<1>9. n \in Memory
  BY <1>3, <1>4, <1>8 DEF Memory
<1>10. n.pd[d].page[p] = e /\ \A q \in Pages : q # p => n.pd[d].page[q] = m.pd[d].page[q]
  BY <1>1, <1>6
<1>11. RightSet(n, m, d, p, w)
  BY ONLY <1>2, <1>4, <1>5, <1>6, <1>9, <1>10 DEF RightSet
<1> QED BY <1>11 DEF n

\* A directory that does not exist, and a new one.
LEMMA NewDirectory ==
  ASSUME NEW m \in Memory, NEW d \in Dirs, Left(m) # {}
  PROVE  LET n == create_page_directory(m, d)
         IN  /\ n \in Memory /\ n.refs = m.refs
             /\ \A x \in Dirs : x # d => n.pd[x] = m.pd[x]
             /\ n.pd[d].tables = {} /\ n.pd[d].root \in Frames
             /\ \A q \in Pages : n.pd[d].page[q] = Absent
             /\ Left(n) = Left(m) \ {FreeFrame(m)} /\ FreeFrame(m) \in Left(m)
<1> DEFINE a == alloc_frame(m)
           e == [NoDirectory EXCEPT !.root = FreeFrame(m)]
           n == create_page_directory(m, d)
<1>1. /\ a \in Memory /\ a.pd = m.pd /\ a.refs = m.refs /\ Left(a) = Left(m) \ {FreeFrame(m)}
      /\ FreeFrame(m) \in Left(m) /\ FreeFrame(m) \in Frames
  BY AllocFrame
<1>2. n = [a EXCEPT !.pd[d] = e]
  BY DEF create_page_directory
<1>3. Absent \in Entry
  BY DEF Absent, Entry
<1>4. /\ e \in Directory /\ e.tables = {} /\ e.root = FreeFrame(m)
      /\ \A q \in Pages : e.page[q] = Absent
  BY <1>1, <1>3 DEF NoDirectory, Directory
<1> HIDE DEF a, e, n
<1>5. n.used = a.used /\ n.refs = a.refs /\ n.pd = [a.pd EXCEPT ![d] = e]
  BY <1>1, <1>2 DEF Memory
<1>6. n.pd \in [Dirs -> Directory] /\ n.pd[d] = e /\ \A x \in Dirs : x # d => n.pd[x] = a.pd[x]
  BY <1>1, <1>4, <1>5 DEF Memory
<1>7. n \in Memory
  BY <1>1, <1>2, <1>5, <1>6 DEF Memory
<1>8. Left(n) = Left(a)
  BY <1>5 DEF Left
<1> QED BY ONLY <1>1, <1>4, <1>5, <1>6, <1>7, <1>8 DEF n

\* destroy_page_directory gives frames back and leaves the other directories alone.
LEMMA DestroyDirectory ==
  ASSUME NEW m \in Memory, NEW d \in Dirs
  PROVE  LET n == destroy_page_directory(m, d)
         IN  /\ n \in Memory /\ n.refs = m.refs
             /\ \A x \in Dirs : x # d => n.pd[x] = m.pd[x]
             /\ n.pd[d] = NoDirectory
<1> DEFINE e == m.pd[d].page
           u == m.used \ ({m.pd[d].root} \cup {e[p].frame : p \in {q \in Pages : e[q].present}})
           n == destroy_page_directory(m, d)
<1>1. n = [m EXCEPT !.used = u, !.pd[d] = NoDirectory]
  BY DEF destroy_page_directory
<1>2. u \in SUBSET Frames
  BY DEF Memory
<1>3. NoDirectory \in Directory
  BY DEF NoDirectory, Directory, Absent, Entry
<1> HIDE DEF u, n
<1>4. n.used = u /\ n.refs = m.refs /\ n.pd = [m.pd EXCEPT ![d] = NoDirectory]
  BY <1>1 DEF Memory
<1>5. /\ n.pd \in [Dirs -> Directory] /\ n.pd[d] = NoDirectory
      /\ \A x \in Dirs : x # d => n.pd[x] = m.pd[x]
  BY <1>3, <1>4 DEF Memory
<1>6. n \in Memory
  BY <1>1, <1>2, <1>4, <1>5 DEF Memory
<1> QED BY ONLY <1>4, <1>5, <1>6 DEF n

-------------------------------------------------------------------------------
(* fork. *)

\* Memory m after k pages of directory d have been copied to child.
Copied(m, d, child, k) ==
  /\ m \in Memory /\ m.pd[child].root \in Frames /\ m.pd[child].tables = NewTables(d, k)
  /\ Cardinality(Left(m)) = Cardinality(Left(mm)) - ForkNeeds(d, k)
  /\ \A x \in Dirs : x # d /\ x # child => m.pd[x] = mm.pd[x]
  /\ m.pd[d].root = mm.pd[d].root /\ m.pd[d].tables = mm.pd[d].tables
  /\ \A q \in Pages : q < k =>
       /\ m.pd[child].page[q].present = Page(d, q).present
       /\ m.pd[d].page[q].present = Page(d, q).present
       /\ m.pd[d].page[q].frame = Page(d, q).frame
       /\ Page(d, q).present => /\ m.pd[child].page[q].frame = Page(d, q).frame
                                /\ ~m.pd[child].page[q].writable
                                /\ ~m.pd[d].page[q].writable
  /\ \A q \in Pages : q >= k => m.pd[child].page[q] = Absent /\ m.pd[d].page[q] = Page(d, q)

\* The tables that the first k pages need.
LEMMA NewTablesFacts ==
  ASSUME NEW d \in Dirs
  PROVE  /\ NewTables(d, 0) = {}
         /\ \A k \in Nat : k <= NumPages =>
              IsFiniteSet(NewTables(d, k)) /\ Cardinality(NewTables(d, k)) \in Nat
         /\ \A k \in Pages : NewTables(d, k + 1) =
              IF Page(d, k).present THEN NewTables(d, k) \cup {k \div PagesPerTable} ELSE NewTables(d, k)
         /\ \A k, n \in Nat : k <= n /\ n <= NumPages =>
              Cardinality(NewTables(d, k)) <= Cardinality(NewTables(d, n))
<1>0. NumPages \in Nat /\ PagesPerTable \in Nat \ {0}
  BY CopyOnWriteAssumption
<1>1. NewTables(d, 0) = {}
  BY DEF NewTables
<1>2. ASSUME NEW k \in Nat, k <= NumPages
      PROVE  IsFiniteSet(NewTables(d, k)) /\ Cardinality(NewTables(d, k)) \in Nat
  <2>1. ASSUME NEW p \in 0 .. k - 1
        PROVE  p \div PagesPerTable \in Nat /\ p \div PagesPerTable <= NumPages
    <3> DEFINE x == p \div PagesPerTable
               y == p % PagesPerTable
    <3>0. p \in Nat
      BY <1>2
    <3>1. x \in Nat /\ y \in 0 .. PagesPerTable - 1 /\ p = x * PagesPerTable + y
      BY <1>0, <3>0, DivMod
    <3> HIDE DEF x, y
    <3>2. x * PagesPerTable >= x /\ x * PagesPerTable \in Nat
      BY <1>0, <3>1
    <3>3. x <= p
      BY <1>0, <3>0, <3>1, <3>2
    <3> QED BY <1>0, <1>2, <3>1, <3>3 DEF x
  <2>2. NewTables(d, k) \in SUBSET Nat /\ \A s \in NewTables(d, k) : s <= NumPages
    BY <2>1 DEF NewTables
  <2>3. IsFiniteSet(NewTables(d, k))
    BY ONLY <1>0, <2>2, FS_BoundedSetOfNaturals
  <2> QED BY <2>3, FS_CardinalityType
<1>3. ASSUME NEW k \in Pages
      PROVE  NewTables(d, k + 1) =
               IF Page(d, k).present THEN NewTables(d, k) \cup {k \div PagesPerTable} ELSE NewTables(d, k)
  <2>1. k \in Nat
    BY <1>0 DEF Pages
  <2>2. 0 .. (k + 1) - 1 = (0 .. k - 1) \cup {k}
    BY <2>1
  <2>3. NewTables(d, k + 1) = {p \div PagesPerTable : p \in {q \in (0 .. k - 1) \cup {k} : Page(d, q).present}}
    BY <2>2 DEF NewTables
  <2> DEFINE I == 0 .. k - 1
  <2>4. NewTables(d, k) = {p \div PagesPerTable : p \in {q \in I : Page(d, q).present}}
    BY DEF NewTables
  <2> HIDE DEF I
  <2> QED BY ONLY <2>3, <2>4 DEF I
<1>4. ASSUME NEW k \in Nat, NEW n \in Nat, k <= n, n <= NumPages
      PROVE  Cardinality(NewTables(d, k)) <= Cardinality(NewTables(d, n))
  <2>1. 0 .. k - 1 \subseteq 0 .. n - 1
    BY <1>4
  <2>2. NewTables(d, k) \in SUBSET NewTables(d, n)
    BY <2>1 DEF NewTables
  <2> QED BY <1>2, <1>4, <2>2, FS_Subset
<1> QED BY <1>1, <1>2, <1>3, <1>4

\* One page of cow_copy_page_range.
LEMMA CopyPageStep ==
  ASSUME MemoryInv, NEW d \in Dirs, NEW child \in Dirs, d # child,
         NEW k \in Pages, NEW m, Copied(m, d, child, k),
         Cardinality(Left(mm)) >= ForkNeeds(d, k + 1)
  PROVE  Copied(CopyPage(m, child, d, k), d, child, k + 1)
<1> DEFINE e == m.pd[d].page[k]
           t == k \div PagesPerTable
           n == CopyPage(m, child, d, k)
<1>0. NumPages \in Nat /\ k \in Nat /\ k < NumPages
  BY CopyOnWriteAssumption DEF Pages
<1>1. /\ m \in Memory /\ m.pd[child].root \in Frames /\ m.pd[child].tables = NewTables(d, k)
      /\ Cardinality(Left(m)) = Cardinality(Left(mm)) - ForkNeeds(d, k)
      /\ \A x \in Dirs : x # d /\ x # child => m.pd[x] = mm.pd[x]
      /\ m.pd[d].root = mm.pd[d].root /\ m.pd[d].tables = mm.pd[d].tables
      /\ m.pd[child].page[k] = Absent /\ e = Page(d, k)
  BY <1>0 DEF Copied
<1>2. mm \in Memory /\ Mapped(mm)
  BY DEF MemoryInv, TypeOK, Memory
<1>3. /\ Cardinality(NewTables(d, k)) \in Nat /\ IsFiniteSet(NewTables(d, k))
      /\ NewTables(d, k + 1) = IF Page(d, k).present THEN NewTables(d, k) \cup {t} ELSE NewTables(d, k)
  <2>1. k <= NumPages
    BY <1>0
  <2> QED BY ONLY <1>0, <2>1, k \in Pages, d \in Dirs, NewTablesFacts
<1>4. CASE ~Page(d, k).present
  <2>1. n = m
    BY <1>1, <1>4 DEF CopyPage
  <2>2. NewTables(d, k + 1) = NewTables(d, k) /\ ForkNeeds(d, k + 1) = ForkNeeds(d, k)
    BY <1>3, <1>4 DEF ForkNeeds
  <2>3. Page(d, k).present \in BOOLEAN /\ Absent.present = FALSE
    BY <1>2 DEF Memory, Directory, Entry, Page, Absent
  <2>4. \A q \in Pages : (q < k + 1 <=> q < k \/ q = k) /\ (q >= k + 1 => q >= k)
    BY <1>0 DEF Pages
  <2>5. Absent.present = Page(d, k).present
    BY <1>4, <2>3, Zenon
  <2> HIDE DEF e, n, t
  <2>6. Copied(m, d, child, k + 1)
    BY <1>1, <1>4, <2>2, <2>4, <2>5 DEF Copied, e
  <2> QED BY <2>1, <2>6 DEF n
<1>5. CASE Page(d, k).present
  <2> DEFINE p1 == [m EXCEPT !.pd[d].page[k].writable = FALSE]
             m1 == IF e.writable THEN Share(p1, e.frame) ELSE m
  <2>1. n = map_page(m1, child, k, e.frame, FALSE)
    BY <1>1, <1>5 DEF CopyPage
  <2>2. e.frame \in Frames
    BY <1>1, <1>2, <1>5 DEF Mapped, Page
  <2>3. /\ m1 \in Memory /\ m1.used = m.used
        /\ \A x \in Dirs : x # d => m1.pd[x] = m.pd[x]
        /\ m1.pd[d].root = m.pd[d].root /\ m1.pd[d].tables = m.pd[d].tables
        /\ \A q \in Pages : q # k => m1.pd[d].page[q] = m.pd[d].page[q]
        /\ m1.pd[d].page[k].present = e.present
        /\ m1.pd[d].page[k].frame = e.frame
        /\ ~m1.pd[d].page[k].writable
    <3>1. CASE e.writable
      <4>1. /\ p1 \in Memory /\ p1.used = m.used
            /\ \A x \in Dirs : x # d => p1.pd[x] = m.pd[x]
            /\ p1.pd[d].root = m.pd[d].root /\ p1.pd[d].tables = m.pd[d].tables
            /\ \A q \in Pages : q # k => p1.pd[d].page[q] = m.pd[d].page[q]
            /\ p1.pd[d].page[k].present = e.present
            /\ p1.pd[d].page[k].frame = e.frame
            /\ p1.pd[d].page[k].writable = FALSE
        <5>1. RightSet(p1, m, d, k, FALSE)
          BY <1>1, SetWritable, Zenon
        <5> HIDE DEF p1
        <5> QED BY ONLY <5>1 DEF RightSet, e
      <4> HIDE DEF p1
      <4>2. /\ Share(p1, e.frame) \in Memory /\ Share(p1, e.frame).pd = p1.pd
            /\ Share(p1, e.frame).used = p1.used
        BY <2>2, <4>1, ShareFrame
      <4>3. m1 = Share(p1, e.frame)
        BY <3>1
      <4> HIDE DEF m1, e
      <4> QED BY ONLY <4>1, <4>2, <4>3
    <3>2. CASE ~e.writable
      BY <1>1, <3>2
    <3> QED BY <3>1, <3>2
  <2> HIDE DEF m1, e, n
  <2>4. Left(m1) = Left(m) /\ m1.pd[child] = m.pd[child]
    BY <2>3 DEF Left
  <2>5. /\ NewTables(d, k + 1) = NewTables(d, k) \cup {t}
        /\ Cardinality(NewTables(d, k + 1)) = IF t \in NewTables(d, k) THEN Cardinality(NewTables(d, k))
                                              ELSE Cardinality(NewTables(d, k)) + 1
    BY <1>3, <1>5, FS_AddElement
  <2>6. /\ IsFiniteSet(Left(m)) /\ Cardinality(Left(m)) \in Nat
        /\ Cardinality(Left(m)) > 0 => Left(m) # {}
        /\ Cardinality(Left(mm)) \in Nat
    BY <1>1, <1>2, LeftFinite
  <2>7. t \in m1.pd[child].tables \/ Left(m1) # {}
    <3>1. CASE t \in NewTables(d, k)
      BY <1>1, <2>4, <3>1
    <3>2. CASE t \notin NewTables(d, k)
      <4>1. ForkNeeds(d, k) = 1 + Cardinality(NewTables(d, k))
            /\ ForkNeeds(d, k + 1) = 1 + (Cardinality(NewTables(d, k)) + 1)
        BY <2>5, <3>2 DEF ForkNeeds
      <4> QED BY ONLY <1>1, <1>3, <2>4, <2>6, <4>1, Cardinality(Left(mm)) >= ForkNeeds(d, k + 1)
    <3> QED BY <3>1, <3>2
  <2>8. /\ n \in Memory
        /\ \A x \in Dirs : x # child => n.pd[x] = m1.pd[x]
        /\ n.pd[child].root = m1.pd[child].root
        /\ n.pd[child].tables = m1.pd[child].tables \cup {t}
        /\ n.pd[child].page[k] = [present |-> TRUE, writable |-> FALSE, frame |-> e.frame]
        /\ \A q \in Pages : q # k => n.pd[child].page[q] = m1.pd[child].page[q]
        /\ t \in m1.pd[child].tables => Left(n) = Left(m1)
        /\ t \notin m1.pd[child].tables =>
             Left(n) = Left(m1) \ {FreeFrame(m1)} /\ FreeFrame(m1) \in Left(m1)
    <3>1. m1 \in Memory /\ FALSE \in BOOLEAN
      BY <2>3
    <3>2. EntrySet(n, m1, child, k, e.frame, FALSE)
      BY <2>1, <2>2, <2>7, <3>1, MapPage, Zenon DEF t
    <3> QED BY ONLY <3>2 DEF EntrySet, t
  <2>9. Cardinality(Left(n)) = Cardinality(Left(mm)) - ForkNeeds(d, k + 1)
    <3>1. CASE t \in NewTables(d, k)
      BY <1>1, <2>4, <2>5, <2>8, <3>1 DEF ForkNeeds
    <3>2. CASE t \notin NewTables(d, k)
      <4>1. Cardinality(Left(n)) = Cardinality(Left(m)) - 1
        BY <1>1, <2>4, <2>6, <2>8, <3>2, FS_RemoveElement
      <4> QED BY <1>1, <1>3, <2>5, <2>6, <3>2, <4>1 DEF ForkNeeds
    <3> QED BY <3>1, <3>2
  <2> HIDE DEF t
  <2>10. n.pd[d] = m1.pd[d]
    BY <2>8
  <2>11. /\ n.pd[child].root \in Frames /\ n.pd[child].tables = NewTables(d, k + 1)
         /\ \A x \in Dirs : x # d /\ x # child => n.pd[x] = mm.pd[x]
         /\ n.pd[d].root = mm.pd[d].root /\ n.pd[d].tables = mm.pd[d].tables
    BY ONLY <1>1, <2>3, <2>4, <2>5, <2>8, <2>10
  <2>12. ASSUME NEW q \in Pages, q < k + 1
         PROVE  /\ n.pd[child].page[q].present = Page(d, q).present
                /\ n.pd[d].page[q].present = Page(d, q).present
                /\ n.pd[d].page[q].frame = Page(d, q).frame
                /\ Page(d, q).present => /\ n.pd[child].page[q].frame = Page(d, q).frame
                                         /\ ~n.pd[child].page[q].writable
                                         /\ ~n.pd[d].page[q].writable
    <3>1. CASE q = k
      <4>1. e.present = TRUE
        <5>1. e.present \in BOOLEAN
          BY <1>1, <1>2 DEF Memory, Directory, Entry, Page
        <5> QED BY <1>1, <1>5, <5>1, Zenon
      <4>2. /\ n.pd[child].page[k].present = TRUE /\ n.pd[child].page[k].frame = e.frame
            /\ ~n.pd[child].page[k].writable
        BY <2>8
      <4> QED BY ONLY <1>1, <2>3, <2>10, <3>1, <4>1, <4>2
    <3>2. CASE q # k
      <4>1. q < k
        BY <1>0, <2>12, <3>2 DEF Pages
      <4>2. n.pd[child].page[q] = m.pd[child].page[q] /\ n.pd[d].page[q] = m.pd[d].page[q]
        BY <2>3, <2>4, <2>8, <2>10, <3>2
      <4> QED BY <4>1, <4>2 DEF Copied
    <3> QED BY <3>1, <3>2
  <2>13. ASSUME NEW q \in Pages, q >= k + 1
         PROVE  n.pd[child].page[q] = Absent /\ n.pd[d].page[q] = Page(d, q)
    <3>1. q # k /\ q >= k
      BY <1>0, <2>13 DEF Pages
    <3>2. n.pd[child].page[q] = m.pd[child].page[q] /\ n.pd[d].page[q] = m.pd[d].page[q]
      BY <2>3, <2>4, <2>8, <2>10, <3>1
    <3> QED BY <3>1, <3>2 DEF Copied
  <2>14. Copied(n, d, child, k + 1)
    BY ONLY <2>8, <2>9, <2>11, <2>12, <2>13 DEF Copied
  <2> QED BY <2>14 DEF n
<1> QED BY <1>4, <1>5

\* The states of the memory after 0, 1, ..., n pages.
CopySteps(f, m, dst, src, n) ==
  f = [k \in 0 .. n |-> IF k = 0 THEN m ELSE CopyPage(f[k - 1], dst, src, k - 1)]

\* There is such a function, so that CopyRange means what it says.
LEMMA CopyRangeSteps ==
  ASSUME NEW m, NEW dst, NEW src, NEW n \in Nat
  PROVE  \E f : CopySteps(f, m, dst, src, n) /\ CopyRange(m, dst, src, n) = f[n]
<1> DEFINE Steps(f, i) == f = [k \in 0 .. i |-> IF k = 0 THEN m ELSE CopyPage(f[k - 1], dst, src, k - 1)]
           T == {i \in Nat : \E f : Steps(f, i)}
<1>1. 0 \in T
  <2> DEFINE f == [k \in 0 .. 0 |-> m]
  <2>1. Steps(f, 0)
    OBVIOUS
  <2> QED BY <2>1
<1>2. ASSUME NEW i \in T PROVE i + 1 \in T
  <2>1. PICK f : Steps(f, i)
    OBVIOUS
  <2> DEFINE g == [k \in 0 .. i + 1 |-> IF k <= i THEN f[k] ELSE CopyPage(f[i], dst, src, i)]
             h == [k \in 0 .. i + 1 |-> IF k = 0 THEN m ELSE CopyPage(g[k - 1], dst, src, k - 1)]
  <2>2. \A k \in 0 .. i : f[k] = IF k = 0 THEN m ELSE CopyPage(f[k - 1], dst, src, k - 1)
    BY <2>1
  <2>3. ASSUME NEW k \in 0 .. i + 1 PROVE g[k] = h[k]
    <3>1. CASE k = 0
      BY <2>2, <3>1
    <3>2. CASE k # 0
      <4>1. k - 1 \in 0 .. i /\ k - 1 \in 0 .. i + 1 /\ k - 1 <= i
        BY <3>2
      <4>2. g[k - 1] = f[k - 1]
        BY <4>1
      <4>3. h[k] = CopyPage(f[k - 1], dst, src, k - 1)
        BY <3>2, <4>2
      <4>4. CASE k <= i
        <5>1. k \in 0 .. i
          BY <4>4
        <5> QED BY <2>2, <3>2, <4>3, <4>4, <5>1
      <4>5. CASE k = i + 1
        <5>1. k - 1 = i /\ ~(k <= i)
          BY <4>5
        <5> QED BY <4>3, <5>1
      <4> QED BY <4>4, <4>5
    <3> QED BY <3>1, <3>2
  <2>4. g = h
    BY <2>3
  <2>5. Steps(g, i + 1)
    BY <2>4
  <2>6. i + 1 \in Nat
    OBVIOUS
  <2> HIDE DEF Steps
  <2> QED BY <2>5, <2>6
<1>3. n \in T
  <2> HIDE DEF T
  <2>1. T \in SUBSET Nat
    BY DEF T
  <2> QED BY <1>1, <1>2, <2>1, NatSetInduction
<1>4. \E f : Steps(f, n)
  BY <1>3
<1> DEFINE c == CHOOSE f : Steps(f, n)
<1>5. Steps(c, n)
  <2> HIDE DEF Steps
  <2> QED BY <1>4, Zenon
<1>6. CopyRange(m, dst, src, n) = c[n]
  BY Zenon DEF CopyRange
<1> HIDE DEF c
<1> QED BY <1>5, <1>6 DEF CopySteps

\* cow_copy_page_range over the first n pages does what Copied says.
LEMMA CopyRangeCopies ==
  ASSUME MemoryInv, NEW d \in Dirs, NEW child \in Dirs, d # child,
         NEW n \in Nat, n <= NumPages, Cardinality(Left(mm)) >= ForkNeeds(d, n)
  PROVE  Copied(CopyRange(create_page_directory(mm, child), child, d, n), d, child, n)
<1> DEFINE m0 == create_page_directory(mm, child)
<1>0. NumPages \in Nat /\ mm \in Memory /\ Cardinality(Left(mm)) \in Nat /\ IsFiniteSet(Left(mm))
  BY CopyOnWriteAssumption, LeftFinite DEF MemoryInv, TypeOK, Memory
<1>1. PICK f : CopySteps(f, m0, child, d, n) /\ CopyRange(m0, child, d, n) = f[n]
  BY CopyRangeSteps
<1>2. /\ f[0] = m0
      /\ \A k \in 0 .. n : k # 0 => f[k] = CopyPage(f[k - 1], child, d, k - 1)
  BY <1>1 DEF CopySteps
<1>3. \A k \in Nat : k <= n => /\ Cardinality(NewTables(d, k)) \in Nat
                             /\ ForkNeeds(d, k) = 1 + Cardinality(NewTables(d, k))
                             /\ Cardinality(Left(mm)) >= ForkNeeds(d, k)
  <2> SUFFICES ASSUME NEW k \in Nat, k <= n
               PROVE  /\ Cardinality(NewTables(d, k)) \in Nat
                      /\ ForkNeeds(d, k) = 1 + Cardinality(NewTables(d, k))
                      /\ Cardinality(Left(mm)) >= ForkNeeds(d, k)
    OBVIOUS
  <2>1. k <= NumPages
    BY <1>0
  <2>2. Cardinality(NewTables(d, k)) \in Nat /\ Cardinality(NewTables(d, n)) \in Nat
    BY ONLY <2>1, NewTablesFacts, d \in Dirs, k \in Nat, n \in Nat, n <= NumPages
  <2>3. Cardinality(NewTables(d, k)) <= Cardinality(NewTables(d, n))
    BY ONLY NewTablesFacts, d \in Dirs, k \in Nat, n \in Nat, n <= NumPages, k <= n
  <2> QED BY <1>0, <2>2, <2>3 DEF ForkNeeds
<1> DEFINE T == {k \in Nat : k <= n => Copied(f[k], d, child, k)}
<1>4. 0 \in T
  <2>1. NewTables(d, 0) = {} /\ ForkNeeds(d, 0) = 1
    <3>1. NewTables(d, 0) = {}
      BY ONLY NewTablesFacts, d \in Dirs
    <3> QED BY ONLY <3>1, FS_EmptySet DEF ForkNeeds
  <2>2. Left(mm) # {}
    <3>1. Cardinality(Left(mm)) > 0
      BY <1>0, <1>3, <2>1
    <3> QED BY <1>0, <3>1, LeftFinite
  <2>3. /\ m0 \in Memory
        /\ \A x \in Dirs : x # child => m0.pd[x] = mm.pd[x]
        /\ m0.pd[child].tables = {} /\ m0.pd[child].root \in Frames
        /\ \A q \in Pages : m0.pd[child].page[q] = Absent
        /\ Left(m0) = Left(mm) \ {FreeFrame(mm)} /\ FreeFrame(mm) \in Left(mm)
    BY <1>0, <2>2, NewDirectory
  <2> HIDE DEF m0
  <2>4. Cardinality(Left(m0)) = Cardinality(Left(mm)) - ForkNeeds(d, 0)
    BY <1>0, <2>1, <2>3, FS_RemoveElement
  <2>5. \A q \in Pages : ~(q < 0)
    BY <1>0 DEF Pages
  <2>6. m0.pd[d] = mm.pd[d]
    BY <2>3
  <2>7. Copied(m0, d, child, 0)
    BY ONLY <2>1, <2>3, <2>4, <2>5, <2>6 DEF Copied, Page
  <2> QED BY <1>2, <2>7
<1>5. ASSUME NEW k \in T PROVE k + 1 \in T
  <2> SUFFICES ASSUME k + 1 <= n PROVE Copied(f[k + 1], d, child, k + 1)
    OBVIOUS
  <2>1. /\ k \in Nat /\ k <= n /\ k + 1 \in Nat /\ k + 1 \in 0 .. n /\ k + 1 # 0
        /\ k \in Pages /\ (k + 1) - 1 = k
    BY <1>0, <1>5 DEF Pages
  <2>2. Copied(f[k], d, child, k)
    BY <1>5, <2>1
  <2>3. f[k + 1] = CopyPage(f[k], child, d, k)
    BY ONLY <1>2, <2>1
  <2>4. Cardinality(Left(mm)) >= ForkNeeds(d, k + 1)
    BY ONLY <1>3, <2>1, k + 1 <= n
  <2> QED BY <2>1, <2>2, <2>3, <2>4, CopyPageStep
<1>6. n \in T
  <2> HIDE DEF T
  <2>1. T \in SUBSET Nat
    BY DEF T
  <2> QED BY <1>4, <1>5, <2>1, NatSetInduction
<1>7. Copied(f[n], d, child, n)
  BY <1>6
<1> QED BY <1>1, <1>7

-------------------------------------------------------------------------------
(* The page fault. *)

\* unmap_page frees the frame, whoever else has it mapped.
LEMMA UnmapPage ==
  ASSUME NEW m \in Memory, NEW d \in Dirs, NEW p \in Pages, m.pd[d].page[p].present
  PROVE  LET n == unmap_page(m, d, p)
         IN  /\ n \in Memory /\ n.refs = m.refs
             /\ \A x \in Dirs : x # d => n.pd[x] = m.pd[x]
             /\ n.pd[d].root = m.pd[d].root /\ n.pd[d].tables = m.pd[d].tables
             /\ \A q \in Pages : q # p => n.pd[d].page[q] = m.pd[d].page[q]
<1> DEFINE u == m.used \ {m.pd[d].page[p].frame}
           n == unmap_page(m, d, p)
<1>1. n = [[m EXCEPT !.used = u] EXCEPT !.pd[d].page[p] = Absent]
  BY DEF unmap_page, free_frame
<1>2. u \in SUBSET Frames /\ Absent \in Entry
  BY DEF Memory, Absent, Entry
<1>3. m.pd \in [Dirs -> Directory] /\ m.pd[d] \in Directory /\ m.pd[d].page \in [Pages -> Entry]
  BY DEF Memory, Directory
<1> HIDE DEF u, n
<1>4. n.used = u /\ n.refs = m.refs /\ n.pd = [m.pd EXCEPT ![d].page[p] = Absent]
  BY <1>1 DEF Memory
<1>5. /\ n.pd[d] = [m.pd[d] EXCEPT !.page[p] = Absent]
      /\ \A x \in Dirs : x # d => n.pd[x] = m.pd[x]
  BY <1>3, <1>4
<1>6. /\ n.pd[d].root = m.pd[d].root /\ n.pd[d].tables = m.pd[d].tables
      /\ n.pd[d].page = [m.pd[d].page EXCEPT ![p] = Absent]
  BY <1>3, <1>5 DEF Directory
<1>7. n.pd[d] \in Directory
  <2>1. [m.pd[d].page EXCEPT ![p] = Absent] \in [Pages -> Entry]
    BY ONLY <1>2, <1>3
  <2> QED BY ONLY <1>3, <1>5, <2>1 DEF Directory
<1>8. n.pd \in [Dirs -> Directory]
  BY <1>3, <1>4, <1>5, <1>7
<1>9. n \in Memory
  BY <1>1, <1>2, <1>4, <1>8 DEF Memory
<1>10. \A q \in Pages : q # p => n.pd[d].page[q] = m.pd[d].page[q]
  BY <1>3, <1>6
<1> QED BY ONLY <1>4, <1>5, <1>6, <1>9, <1>10 DEF n

\* dec_cow_ref lowers a count and may free the frame.
LEMMA DecCowRef ==
  ASSUME NEW m \in Memory, NEW f \in Frames
  PROVE  dec_cow_ref(m, f) \in Memory /\ dec_cow_ref(m, f).pd = m.pd
<1> DEFINE v == IF m.refs[f] > 0 THEN m.refs[f] - 1 ELSE 0
           m1 == [m EXCEPT !.refs[f] = v]
<1>1. m.refs \in [Frames -> 0 .. MaxRefs] /\ MaxRefs \in Nat
  BY CopyOnWriteAssumption DEF Memory
<1>2. v \in 0 .. MaxRefs
  BY <1>1
<1>3. dec_cow_ref(m, f) = IF m1.refs[f] = 0 THEN free_frame(m1, f) ELSE m1
  BY DEF dec_cow_ref
<1> HIDE DEF v
<1>4. m1 \in Memory /\ m1.pd = m.pd
  BY <1>1, <1>2 DEF Memory
<1> HIDE DEF m1
<1>5. free_frame(m1, f) \in Memory /\ free_frame(m1, f).pd = m1.pd
  BY <1>4 DEF free_frame, Memory
<1> QED BY <1>3, <1>4, <1>5

\* What the page-fault handler leaves: the entry of the page is present and writable,
\* with its old frame or with a copy.
FaultDone(d, p) ==
  /\ mm' \in Memory /\ data' \in [Frames -> Values]
  /\ \A x \in Dirs : x # d => mm'.pd[x] = mm.pd[x]
  /\ mm'.pd[d].root = mm.pd[d].root /\ mm'.pd[d].tables = mm.pd[d].tables
  /\ \A q \in Pages : q # p => mm'.pd[d].page[q] = mm.pd[d].page[q]
  /\ mm'.pd[d].page[p].present /\ mm'.pd[d].page[p].writable
  /\ mm'.pd[d].page[p].frame \in Frames
  /\ data'[mm'.pd[d].page[p].frame] = data[mm.pd[d].page[p].frame]

\* It does: the frame that break_cow takes is the only one it needs.
LEMMA FaultStep ==
  ASSUME MemoryInv, NEW d \in Dirs, NEW p \in Pages, handle_cow_fault(d, p)
  PROVE  FaultDone(d, p)
<1> DEFINE e == mm.pd[d].page[p]
           t == p \div PagesPerTable
<1>0. /\ mm \in Memory /\ Mapped(mm) /\ data \in [Frames -> Values]
      /\ e.present /\ e.frame \in Frames /\ t \in mm.pd[d].tables
  BY DEF MemoryInv, TypeOK, Memory, Mapped, handle_cow_fault, Page
<1>1. CASE mm' = [mm EXCEPT !.pd[d].page[p].writable = TRUE] /\ data' = data
  <2>1. RightSet(mm', mm, d, p, TRUE)
    BY <1>0, <1>1, SetWritable, Zenon
  <2> HIDE DEF e, t
  <2> QED BY ONLY <1>0, <1>1, <2>1 DEF RightSet, FaultDone, e
<1>2. CASE break_cow(d, p)
  <2> DEFINE new == FreeFrame(mm)
             a == alloc_frame(mm)
             u == unmap_page(a, d, p)
             n == map_page(u, d, p, new, TRUE)
  <2>1. /\ Left(mm) # {} /\ mm' = dec_cow_ref(n, e.frame)
        /\ data' = [data EXCEPT ![new] = data[e.frame]]
    BY <1>2 DEF break_cow, CopyFrame, Page
  <2>2. new \in Frames /\ a \in Memory /\ a.pd = mm.pd
    BY <1>0, <2>1, AllocFrame
  <2> HIDE DEF a
  <2>3. /\ u \in Memory
        /\ \A x \in Dirs : x # d => u.pd[x] = a.pd[x]
        /\ u.pd[d].root = a.pd[d].root /\ u.pd[d].tables = a.pd[d].tables
        /\ \A q \in Pages : q # p => u.pd[d].page[q] = a.pd[d].page[q]
    BY <1>0, <2>2, UnmapPage
  <2> HIDE DEF u
  <2>4. EntrySet(n, u, d, p, new, TRUE)
    <3>1. t \in u.pd[d].tables
      BY <1>0, <2>2, <2>3
    <3>2. u \in Memory
      BY <2>3
    <3> HIDE DEF new
    <3> QED BY <2>2, <3>1, <3>2, MapPage, Zenon
  <2> HIDE DEF n, new
  <2>5. n \in Memory
    BY <2>4 DEF EntrySet
  <2>6. mm' \in Memory /\ mm'.pd = n.pd
    BY <1>0, <2>1, <2>5, DecCowRef
  <2>7. /\ \A x \in Dirs : x # d => n.pd[x] = u.pd[x]
        /\ n.pd[d].root = u.pd[d].root
        /\ n.pd[d].tables = u.pd[d].tables \cup {t}
        /\ n.pd[d].page[p] = [present |-> TRUE, writable |-> TRUE, frame |-> new]
        /\ \A q \in Pages : q # p => n.pd[d].page[q] = u.pd[d].page[q]
    BY ONLY <2>4 DEF EntrySet, t
  <2>8. /\ mm'.pd[d].page[p].present /\ mm'.pd[d].page[p].writable
        /\ mm'.pd[d].page[p].frame = new
    BY ONLY <2>6, <2>7
  <2>9. data' \in [Frames -> Values] /\ data'[new] = data[e.frame]
    BY <1>0, <2>1, <2>2
  <2> HIDE DEF e, t
  <2>10. u.pd[d].tables \cup {t} = mm.pd[d].tables
    BY ONLY <1>0, <2>2, <2>3
  <2> QED BY ONLY <2>2, <2>3, <2>6, <2>7, <2>8, <2>9, <2>10 DEF FaultDone, e
<1> QED BY <1>1, <1>2 DEF handle_cow_fault

-------------------------------------------------------------------------------
(* The invariant holds at first, and every step keeps it. *)

\* The first directory has no present page.
LEMMA MemoryInvInit == Init => MemoryInv
<1> SUFFICES ASSUME Init PROVE MemoryInv
  OBVIOUS
<1> DEFINE m0 == [used |-> {}, pd |-> [d \in Dirs |-> NoDirectory], refs |-> [f \in Frames |-> 0]]
<1>1. m0 \in Memory /\ Left(m0) = Frames /\ \A d \in Dirs : m0.pd[d] = NoDirectory
  BY CopyOnWriteAssumption DEF Memory, Left, NoDirectory, Directory, Absent, Entry
<1>2. First \in Dirs /\ 1 \in Frames
  BY CopyOnWriteAssumption DEF Frames
<1>3. mm = create_page_directory(m0, First)
  BY DEF Init
<1> HIDE DEF m0
<1>4. /\ mm \in Memory
      /\ \A x \in Dirs : x # First => mm.pd[x] = m0.pd[x]
      /\ \A q \in Pages : mm.pd[First].page[q] = Absent
  <2>1. Left(m0) # {}
    BY <1>1, <1>2
  <2> QED BY <1>1, <1>2, <1>3, <2>1, NewDirectory
<1>5. \A d \in Dirs, p \in Pages : mm.pd[d].page[p] = Absent
  BY <1>1, <1>4 DEF NoDirectory
<1>6. Mapped(mm)
  BY <1>5 DEF Mapped, Absent
<1>7. data \in [Frames -> Values] /\ up \in BOOLEAN
  BY DEF Init
<1>8. view \in [Dirs -> [Pages -> Values]]
  BY <1>2, <1>7 DEF Init
<1> QED BY <1>4, <1>6, <1>7, <1>8 DEF MemoryInv, TypeOK, Memory

\* map_pages gives a page a frame that was free.
LEMMA MapPagesStep ==
  ASSUME MemoryInv, NEW d \in Dirs, NEW p \in Pages, map_pages(d, p)
  PROVE  MemoryInv'
<1> DEFINE t == p \div PagesPerTable
           new == FreeFrame(mm)
           a == alloc_frame(mm)
<1>0. /\ mm \in Memory /\ Mapped(mm) /\ data \in [Frames -> Values]
      /\ view \in [Dirs -> [Pages -> Values]] /\ up \in BOOLEAN
  BY DEF MemoryInv, TypeOK, Memory
<1>1. /\ Cardinality(Left(mm)) >= (IF t \in mm.pd[d].tables THEN 1 ELSE 2)
      /\ mm' = map_page(a, d, p, new, TRUE) /\ view' = [view EXCEPT ![d][p] = data[new]]
      /\ data' = data /\ up' = up
  BY DEF map_pages
<1>2. IsFiniteSet(Left(mm)) /\ Cardinality(Left(mm)) \in Nat /\ Left(mm) # {}
  BY <1>0, <1>1, LeftFinite
<1>3. /\ new \in Frames /\ new \in Left(mm) /\ a \in Memory /\ a.pd = mm.pd
      /\ Left(a) = Left(mm) \ {new}
  BY <1>0, <1>2, AllocFrame
<1> HIDE DEF a, new
<1>4. t \in a.pd[d].tables \/ Left(a) # {}
  <2>1. CASE t \in mm.pd[d].tables
    BY <1>3, <2>1
  <2>2. CASE t \notin mm.pd[d].tables
    <3>1. Cardinality(Left(a)) = Cardinality(Left(mm)) - 1
      BY <1>2, <1>3, FS_RemoveElement
    <3>2. Cardinality(Left(a)) > 0
      BY <1>1, <1>2, <2>2, <3>1
    <3> QED BY <1>3, <3>2, LeftFinite
  <2> QED BY <2>1, <2>2
<1>5. EntrySet(mm', a, d, p, new, TRUE)
  BY <1>1, <1>3, <1>4, MapPage, Zenon
<1>6. /\ mm' \in Memory
      /\ \A x \in Dirs : x # d => mm'.pd[x] = mm.pd[x]
      /\ mm'.pd[d].tables = mm.pd[d].tables \cup {t}
      /\ mm'.pd[d].page[p].frame = new
      /\ \A q \in Pages : q # p => mm'.pd[d].page[q] = mm.pd[d].page[q]
  BY ONLY <1>3, <1>5 DEF EntrySet, t
<1>7. Mapped(mm)'
  BY ONLY <1>0, <1>3, <1>6 DEF Mapped, t
<1>8. data[new] \in Values
  BY <1>0, <1>3
<1>9. view' \in [Dirs -> [Pages -> Values]]
  BY ONLY <1>0, <1>1, <1>8
<1> QED BY ONLY <1>0, <1>1, <1>6, <1>7, <1>9 DEF MemoryInv, TypeOK, Memory

\* fork copies the page tables of the father.
LEMMA ForkStep ==
  ASSUME MemoryInv, NEW d \in Dirs, NEW child \in Dirs, d # child, fork(d, child)
  PROVE  MemoryInv'
<1>0. /\ mm \in Memory /\ Mapped(mm) /\ data \in [Frames -> Values]
      /\ view \in [Dirs -> [Pages -> Values]] /\ up \in BOOLEAN /\ NumPages \in Nat
  BY CopyOnWriteAssumption DEF MemoryInv, TypeOK, Memory
<1>1. /\ view' = [view EXCEPT ![child] = view[d]] /\ data' = data /\ up' = up
      /\ mm' = CopyRange(create_page_directory(mm, child), child, d, NumPages)
      /\ Cardinality(Left(mm)) >= ForkNeeds(d, NumPages)
  BY DEF fork
<1> DEFINE n == CopyRange(create_page_directory(mm, child), child, d, NumPages)
<1>2. Copied(n, d, child, NumPages)
  BY <1>0, <1>1, CopyRangeCopies
<1> HIDE DEF n
<1>3. \A q \in Pages : q < NumPages
  BY <1>0 DEF Pages
<1>4. ASSUME NEW x \in Dirs, NEW q \in Pages, n.pd[x].page[q].present
      PROVE  n.pd[x].page[q].frame \in Frames /\ q \div PagesPerTable \in n.pd[x].tables
  <2>1. CASE x # d /\ x # child
    BY <1>0, <1>2, <1>4, <2>1 DEF Copied, Mapped
  <2>2. CASE x = d
    BY <1>0, <1>2, <1>3, <1>4, <2>2 DEF Copied, Mapped, Page
  <2>3. CASE x = child
    <3>1. mm.pd[d].page[q].present /\ n.pd[child].page[q].frame = mm.pd[d].page[q].frame
      BY <1>2, <1>3, <1>4, <2>3 DEF Copied, Page
    <3>2. q \in 0 .. NumPages - 1
      BY DEF Pages
    <3>3. q \div PagesPerTable \in NewTables(d, NumPages)
      BY <3>1, <3>2 DEF NewTables, Page
    <3> QED BY <1>0, <1>2, <2>3, <3>1, <3>3 DEF Copied, Mapped
  <2> QED BY <2>1, <2>2, <2>3
<1>5. n \in Memory /\ Mapped(n)
  BY <1>2, <1>4 DEF Copied, Mapped
<1>6. view' \in [Dirs -> [Pages -> Values]]
  BY <1>0, <1>1
<1>7. mm' = n
  BY <1>1 DEF n
<1>8. Mapped(mm)'
  BY ONLY <1>5, <1>7 DEF Mapped
<1> QED BY ONLY <1>0, <1>1, <1>5, <1>6, <1>7, <1>8 DEF MemoryInv, TypeOK, Memory

\* fork that runs out of frames on the way.
LEMMA ForkFailsStep ==
  ASSUME MemoryInv, NEW d \in Dirs, NEW child \in Dirs, d # child, NEW n \in Pages,
         forkFails(d, child, n)
  PROVE  MemoryInv'
<1> DEFINE m1 == CopyRange(create_page_directory(mm, child), child, d, n)
           m2 == [m1 EXCEPT !.pd[d].page[n].writable = FALSE]
           m3 == Share(m2, Page(d, n).frame)
<1>0. /\ mm \in Memory /\ Mapped(mm) /\ data \in [Frames -> Values]
      /\ view \in [Dirs -> [Pages -> Values]] /\ up \in BOOLEAN
      /\ n \in Nat /\ n <= NumPages
  BY CopyOnWriteAssumption DEF MemoryInv, TypeOK, Memory, Pages
<1>1. /\ view' = view /\ data' = data /\ up' = up /\ Page(d, n).present
      /\ Cardinality(Left(mm)) >= ForkNeeds(d, n)
      /\ \/ mm' = destroy_page_directory(m3, child)
         \/ mm' = destroy_page_directory(m2, child)
  BY DEF forkFails
<1>2. Copied(m1, d, child, n)
  BY <1>0, <1>1, CopyRangeCopies
<1> HIDE DEF m1
<1>3. Page(d, n).frame \in Frames
  BY <1>0, <1>1 DEF Mapped, Page
<1>4. RightSet(m2, m1, d, n, FALSE)
  <2>1. m1 \in Memory
    BY <1>2 DEF Copied
  <2> QED BY <2>1, SetWritable, Zenon
<1> HIDE DEF m2
<1>5. m2 \in Memory /\ m3 \in Memory /\ m3.pd = m2.pd
  <2>1. m2 \in Memory
    BY <1>4 DEF RightSet
  <2> QED BY <1>3, <2>1, ShareFrame
<1> HIDE DEF m3
<1>6. ASSUME NEW x \in Dirs, x # child, NEW q \in Pages, m2.pd[x].page[q].present
      PROVE  m2.pd[x].page[q].frame \in Frames /\ q \div PagesPerTable \in m2.pd[x].tables
  <2>1. CASE x # d
    BY <1>0, <1>2, <1>4, <1>6, <2>1 DEF Copied, Mapped, RightSet
  <2>2. CASE x = d
    <3>1. /\ m1.pd[d].page[q].present = mm.pd[d].page[q].present
          /\ m1.pd[d].page[q].frame = mm.pd[d].page[q].frame
      <4>1. q < n \/ q >= n
        BY <1>0 DEF Pages
      <4> QED BY <1>2, <4>1 DEF Copied, Page
    <3>2. /\ m2.pd[d].page[q].present = m1.pd[d].page[q].present
          /\ m2.pd[d].page[q].frame = m1.pd[d].page[q].frame
      BY <1>4 DEF RightSet
    <3>3. m2.pd[d].tables = mm.pd[d].tables
      BY <1>2, <1>4 DEF Copied, RightSet
    <3> QED BY <1>0, <1>6, <2>2, <3>1, <3>2, <3>3 DEF Mapped
  <2> QED BY <2>1, <2>2
<1>7. PICK m \in Memory : m.pd = m2.pd /\ mm' = destroy_page_directory(m, child)
  BY <1>1, <1>5
<1>8. /\ mm' \in Memory /\ \A x \in Dirs : x # child => mm'.pd[x] = m2.pd[x]
      /\ mm'.pd[child] = NoDirectory
  BY <1>7, DestroyDirectory
<1>9. \A q \in Pages : ~mm'.pd[child].page[q].present
  BY <1>8 DEF NoDirectory, Absent
<1>10. Mapped(mm)'
  BY ONLY <1>6, <1>8, <1>9 DEF Mapped
<1> QED BY ONLY <1>0, <1>1, <1>8, <1>10 DEF MemoryInv, TypeOK, Memory

\* Every step keeps the tables typed and each present page with a frame.
LEMMA MemoryInvNext == MemoryInv /\ [Next]_vars => MemoryInv'
<1> SUFFICES ASSUME MemoryInv, [Next]_vars PROVE MemoryInv'
  OBVIOUS
<1>0. /\ mm \in Memory /\ Mapped(mm) /\ data \in [Frames -> Values]
      /\ view \in [Dirs -> [Pages -> Values]] /\ up \in BOOLEAN
  BY DEF MemoryInv, TypeOK, Memory
<1>1. ASSUME NEW d \in Live, NEW child \in Dirs, fork(d, child) PROVE MemoryInv'
  <2>1. d \in Dirs /\ d # child
    BY <1>1 DEF Live, fork
  <2> QED BY <1>1, <2>1, ForkStep
<1>2. ASSUME NEW d \in Live, NEW child \in Dirs, NEW p \in Pages, forkFails(d, child, p)
      PROVE MemoryInv'
  <2>1. d \in Dirs /\ d # child
    BY <1>2 DEF Live, forkFails
  <2> QED BY <1>2, <2>1, ForkFailsStep
<1>3. ASSUME NEW d \in Live, NEW p \in Pages, map_pages(d, p) PROVE MemoryInv'
  BY <1>3, MapPagesStep DEF Live
<1>4. ASSUME NEW d \in Live, NEW p \in Pages, handle_cow_fault(d, p) PROVE MemoryInv'
  <2>1. d \in Dirs /\ view' = view /\ up' = up
    BY <1>4 DEF Live, handle_cow_fault
  <2>2. FaultDone(d, p)
    BY <1>4, <2>1, FaultStep
  <2>3. Mapped(mm)'
    <3>1. mm.pd[d].page[p].present
      BY <1>4 DEF handle_cow_fault, Page
    <3> QED BY ONLY <1>0, <2>1, <2>2, <3>1 DEF Mapped, FaultDone
  <2>4. mm' \in Memory /\ data' \in [Frames -> Values]
    BY <2>2 DEF FaultDone
  <2> QED BY ONLY <1>0, <2>1, <2>3, <2>4 DEF MemoryInv, TypeOK, Memory
<1>5. ASSUME DeleteSharer \/ \E d \in Live, p \in Pages : Crash(d, p) PROVE MemoryInv'
  <2>1. mm' = mm /\ data' = data /\ view' = view /\ up' \in BOOLEAN
    BY <1>5 DEF Crash, DeleteSharer
  <2> QED BY ONLY <1>0, <2>1 DEF MemoryInv, TypeOK, Memory, Mapped
<1>6. ASSUME NEW d \in Live, NEW p \in Pages, NEW v \in Values, Store(d, p, v) PROVE MemoryInv'
  <2>1. /\ mm' = mm /\ up' = up /\ data' = [data EXCEPT ![mm.pd[d].page[p].frame] = v]
        /\ view' = [view EXCEPT ![d][p] = v]
    BY <1>6 DEF Store, Page
  <2>2. data' \in [Frames -> Values] /\ view' \in [Dirs -> [Pages -> Values]]
    BY ONLY <1>0, <1>6, <2>1
  <2> QED BY ONLY <1>0, <2>1, <2>2 DEF MemoryInv, TypeOK, Memory, Mapped
<1>7. ASSUME NEW d \in Live, DeleteProcess(d) PROVE MemoryInv'
  <2>1. d \in Dirs /\ view' = view /\ up' = up /\ data' = data /\ mm' = destroy_page_directory(mm, d)
    BY <1>7 DEF Live, DeleteProcess
  <2>2. /\ mm' \in Memory /\ \A x \in Dirs : x # d => mm'.pd[x] = mm.pd[x]
        /\ mm'.pd[d] = NoDirectory
    BY <1>0, <2>1, DestroyDirectory
  <2>3. \A q \in Pages : ~mm'.pd[d].page[q].present
    BY <2>2 DEF NoDirectory, Absent
  <2>4. Mapped(mm)'
    BY ONLY <1>0, <2>2, <2>3 DEF Mapped
  <2>5. view' = view /\ up' = up /\ data' = data
    BY <2>1
  <2> QED BY ONLY <1>0, <2>2, <2>4, <2>5 DEF MemoryInv, TypeOK, Memory
<1>8. CASE UNCHANGED vars
  <2>1. mm' = mm /\ data' = data /\ view' = view /\ up' = up
    BY <1>8 DEF vars
  <2> QED BY ONLY <1>0, <2>1 DEF MemoryInv, TypeOK, Memory, Mapped
<1> QED BY <1>1, <1>2, <1>3, <1>4, <1>5, <1>6, <1>7, <1>8 DEF Next, KernelNext

\* The directories, the bitmap and cow_pages keep their types, whatever fails: above
\* all no operation takes a frame that is not there, and no count exceeds
\* MAX_COW_REFS; and every page that is present has a frame and a page table.
THEOREM MemoryInvariant == Spec => []MemoryInv
<1>1. Init => MemoryInv
  BY MemoryInvInit
<1>2. MemoryInv /\ [Next]_vars => MemoryInv'
  BY MemoryInvNext
<1> QED BY <1>1, <1>2, PTL DEF Spec

\* The type invariant of the virtual memory manager and of the copy-on-write manager.
THEOREM CowTypeCorrect == Spec => []TypeOK
<1>1. MemoryInv => TypeOK
  BY DEF MemoryInv
<1> QED BY <1>1, MemoryInvariant, PTL

\* handle_cow_fault never changes what the process reads, and the store that faulted
\* can be repeated.
THEOREM FaultsKeepContent == Spec => FaultKeepsContent
<1>1. MemoryInv /\ [Next]_vars =>
        [\A d \in Live, p \in Pages : handle_cow_fault(d, p) =>
           /\ Page(d, p)'.present /\ Page(d, p)'.writable
           /\ Content(d, p)' = Content(d, p)]_vars
  <2> SUFFICES ASSUME MemoryInv, NEW d \in Live, NEW p \in Pages, handle_cow_fault(d, p)
               PROVE  /\ Page(d, p)'.present /\ Page(d, p)'.writable
                      /\ Content(d, p)' = Content(d, p)
    OBVIOUS
  <2>1. FaultDone(d, p)
    BY FaultStep DEF Live
  <2> QED BY <2>1 DEF FaultDone, Page, Content
<1> QED BY <1>1, MemoryInvariant, PTL DEF Spec, FaultKeepsContent

\* fork gives the child the memory of its parent, and neither can write to a page of
\* it without a fault.
THEOREM ForksSnapshot == Spec => ForkSnapshot
<1>1. MemoryInv /\ [Next]_vars =>
        [\A d \in Live, child \in Dirs \ Live : fork(d, child) =>
           \A p \in Pages :
             /\ Page(child, p)'.present = Page(d, p).present
             /\ Page(d, p).present =>
                  /\ Content(child, p)' = Content(d, p) /\ Content(d, p)' = Content(d, p)
                  /\ ~Page(d, p)'.writable /\ ~Page(child, p)'.writable]_vars
  <2> SUFFICES ASSUME MemoryInv, NEW d \in Live, NEW child \in Dirs \ Live, fork(d, child),
                      NEW p \in Pages
               PROVE  /\ Page(child, p)'.present = Page(d, p).present
                      /\ Page(d, p).present =>
                           /\ Content(child, p)' = Content(d, p) /\ Content(d, p)' = Content(d, p)
                           /\ ~Page(d, p)'.writable /\ ~Page(child, p)'.writable
    OBVIOUS
  <2> DEFINE n == CopyRange(create_page_directory(mm, child), child, d, NumPages)
  <2>1. d \in Dirs /\ child \in Dirs /\ d # child /\ NumPages \in Nat /\ p < NumPages
    BY CopyOnWriteAssumption DEF Live, Pages
  <2>2. mm' = n /\ data' = data /\ Cardinality(Left(mm)) >= ForkNeeds(d, NumPages)
    BY DEF fork
  <2>3. Copied(n, d, child, NumPages)
    BY <2>1, <2>2, CopyRangeCopies
  <2> HIDE DEF n
  <2>4. /\ n.pd[child].page[p].present = mm.pd[d].page[p].present
        /\ n.pd[d].page[p].frame = mm.pd[d].page[p].frame
        /\ mm.pd[d].page[p].present => /\ n.pd[child].page[p].frame = mm.pd[d].page[p].frame
                                       /\ ~n.pd[child].page[p].writable
                                       /\ ~n.pd[d].page[p].writable
    BY <2>1, <2>3 DEF Copied, Page
  <2> QED BY ONLY <2>2, <2>4 DEF Page, Content
<1> QED BY <1>1, MemoryInvariant, PTL DEF Spec, ForkSnapshot
===============================================================================
