------------------------------ MODULE SlabProofs ------------------------------
(***************************************************************************)
(* Proofs about module Slab, for any caches, any number of slabs and of    *)
(* objects in a slab, and any order of calls.                              *)
(***************************************************************************)
EXTENDS Slab, ProofLemmas, FiniteSetTheorems

-------------------------------------------------------------------------------
(* The inductive invariant.  It is stated of the caches ca, the slabs sl   *)
(* and the set out of all objects that are not free, so that it can be     *)
(* followed through the parts of an operation; own and on say to which     *)
(* cache and list a slab belongs, and pos orders the slabs of a list.      *)

CacheRec == [slabs : [Lists -> SlabPtr], num_slabs : Int, num_active_objs : Int, num_free_objs : Int]
SlabRec == [next : SlabPtr, prev : SlabPtr, inuse : Nat, free : Nat, freelist : Seq(Nat)]

Shape(ca, sl) ==
  /\ ca \in [Caches -> CacheRec]
  /\ DOMAIN sl \in SUBSET Slabs /\ sl \in [DOMAIN sl -> SlabRec]

Belongs(sl, own, on, pos) ==
  own \in [DOMAIN sl -> Caches] /\ on \in [DOMAIN sl -> Lists] /\ pos \in [DOMAIN sl -> Nat]

\* The links of the slab s: to a later one of its list and back; the one without a
\* predecessor is the head.
LinksOf(ca, sl, own, on, pos, s) ==
  /\ sl[s].next # NoSlab => /\ sl[s].next \in DOMAIN sl /\ sl[sl[s].next].prev = s
                          /\ own[sl[s].next] = own[s] /\ on[sl[s].next] = on[s]
                          /\ pos[s] < pos[sl[s].next]
  /\ sl[s].prev # NoSlab => /\ sl[s].prev \in DOMAIN sl /\ sl[sl[s].prev].next = s
                          /\ own[sl[s].prev] = own[s] /\ on[sl[s].prev] = on[s]
  /\ sl[s].prev = NoSlab => ca[own[s]].slabs[on[s]] = s

HeadOf(ca, sl, own, on, c, l) ==
  LET h == ca[c].slabs[l]
  IN  h # NoSlab => h \in DOMAIN sl /\ own[h] = c /\ on[h] = l /\ sl[h].prev = NoSlab

Linked(ca, sl, own, on, pos) ==
  /\ \A s \in DOMAIN sl : LinksOf(ca, sl, own, on, pos, s)
  /\ \A c \in Caches, l \in Lists : HeadOf(ca, sl, own, on, c, l)

-------------------------------------------------------------------------------
(* Links.                                                                  *)

\* The objects of the slabs are as before.
SameObjects(sl, sm) ==
  /\ DOMAIN sm = DOMAIN sl
  /\ \A t \in DOMAIN sl : /\ sm[t].inuse = sl[t].inuse /\ sm[t].free = sl[t].free
                          /\ sm[t].freelist = sl[t].freelist

\* A next pointer is set.
LEMMA NextSet ==
  ASSUME NEW sl, sl \in [DOMAIN sl -> SlabRec], NEW p \in DOMAIN sl, NEW v \in SlabPtr
  PROVE  LET sm == [sl EXCEPT ![p].next = v]
         IN  /\ sm \in [DOMAIN sl -> SlabRec] /\ SameObjects(sl, sm)
             /\ \A t \in DOMAIN sl : /\ sm[t].next = IF t = p THEN v ELSE sl[t].next
                                     /\ sm[t].prev = sl[t].prev
<1> DEFINE sm == [sl EXCEPT ![p].next = v]
<1>1. DOMAIN sm = DOMAIN sl
  OBVIOUS
<1>2. \A t \in DOMAIN sl : sm[t] = IF t = p THEN [sl[t] EXCEPT !.next = v] ELSE sl[t]
  OBVIOUS
<1>3. \A t \in DOMAIN sl : sl[t] \in SlabRec
  OBVIOUS
<1> HIDE DEF sm
<1>4. ASSUME NEW t \in DOMAIN sl
      PROVE  /\ sm[t] \in SlabRec
             /\ sm[t].next = IF t = p THEN v ELSE sl[t].next
             /\ sm[t].prev = sl[t].prev
             /\ sm[t].inuse = sl[t].inuse /\ sm[t].free = sl[t].free /\ sm[t].freelist = sl[t].freelist
  BY <1>2, <1>3 DEF SlabRec
<1>5. sm \in [DOMAIN sl -> SlabRec]
  <2>1. sm = [t \in DOMAIN sl |-> sm[t]]
    BY <1>1 DEF sm
  <2> QED BY <1>4, <2>1
<1>6. SameObjects(sl, sm)
  BY <1>1, <1>4 DEF SameObjects
<1> QED BY <1>4, <1>5, <1>6 DEF sm

\* A prev pointer is set.
LEMMA PrevSet ==
  ASSUME NEW sl, sl \in [DOMAIN sl -> SlabRec], NEW p \in DOMAIN sl, NEW v \in SlabPtr
  PROVE  LET sm == [sl EXCEPT ![p].prev = v]
         IN  /\ sm \in [DOMAIN sl -> SlabRec] /\ SameObjects(sl, sm)
             /\ \A t \in DOMAIN sl : /\ sm[t].prev = IF t = p THEN v ELSE sl[t].prev
                                     /\ sm[t].next = sl[t].next
<1> DEFINE sm == [sl EXCEPT ![p].prev = v]
<1>1. DOMAIN sm = DOMAIN sl
  OBVIOUS
<1>2. \A t \in DOMAIN sl : sm[t] = IF t = p THEN [sl[t] EXCEPT !.prev = v] ELSE sl[t]
  OBVIOUS
<1>3. \A t \in DOMAIN sl : sl[t] \in SlabRec
  OBVIOUS
<1> HIDE DEF sm
<1>4. ASSUME NEW t \in DOMAIN sl
      PROVE  /\ sm[t] \in SlabRec
             /\ sm[t].prev = IF t = p THEN v ELSE sl[t].prev
             /\ sm[t].next = sl[t].next
             /\ sm[t].inuse = sl[t].inuse /\ sm[t].free = sl[t].free /\ sm[t].freelist = sl[t].freelist
  BY <1>2, <1>3 DEF SlabRec
<1>5. sm \in [DOMAIN sl -> SlabRec]
  <2>1. sm = [t \in DOMAIN sl |-> sm[t]]
    BY <1>1 DEF sm
  <2> QED BY <1>4, <2>1
<1>6. SameObjects(sl, sm)
  BY <1>1, <1>4 DEF SameObjects
<1> QED BY <1>4, <1>5, <1>6 DEF sm

\* The counters of a cache are as before.
SameCounts(k, m) ==
  /\ m.num_slabs = k.num_slabs /\ m.num_active_objs = k.num_active_objs
  /\ m.num_free_objs = k.num_free_objs

\* One head of a cache is set.
LEMMA HeadSet ==
  ASSUME NEW k \in CacheRec, NEW l \in Lists, NEW v \in SlabPtr
  PROVE  LET m == [k EXCEPT !.slabs[l] = v]
         IN  /\ m \in CacheRec /\ SameCounts(k, m)
             /\ \A j \in Lists : m.slabs[j] = IF j = l THEN v ELSE k.slabs[j]
BY DEF CacheRec, SameCounts

\* What move_slab does to the pointers, for a slab that is not its own neighbour.
MovedNext(sl, s, h, t) ==
  IF t = s THEN h ELSE IF t = sl[s].prev THEN sl[s].next ELSE sl[t].next
MovedPrev(sl, s, h, t) ==
  IF t = h THEN s ELSE IF t = s THEN NoSlab
  ELSE IF t = sl[s].next THEN sl[s].prev ELSE sl[t].prev
MovedHead(k, sl, from, to, s, l) ==
  IF l = to THEN s ELSE IF l = from /\ sl[s].prev = NoSlab THEN sl[s].next ELSE k.slabs[l]

Moved(k, sl, from, to, s, st) ==
  /\ st.slab \in [DOMAIN sl -> SlabRec] /\ SameObjects(sl, st.slab)
  /\ st.cache \in CacheRec /\ SameCounts(k, st.cache)
  /\ \A t \in DOMAIN sl : /\ st.slab[t].next = MovedNext(sl, s, k.slabs[to], t)
                          /\ st.slab[t].prev = MovedPrev(sl, s, k.slabs[to], t)
  /\ \A l \in Lists : st.cache.slabs[l] = MovedHead(k, sl, from, to, s, l)

\* move_slab takes the slab out between its neighbours and puts it before the head.
LEMMA MovePointers ==
  ASSUME NEW k \in CacheRec, NEW sl, sl \in [DOMAIN sl -> SlabRec], DOMAIN sl \in SUBSET Slabs,
         NEW from \in Lists, NEW to \in Lists, from # to, NEW s \in DOMAIN sl,
         sl[s].prev # NoSlab => sl[s].prev \in DOMAIN sl,
         sl[s].next # NoSlab => sl[s].next \in DOMAIN sl,
         k.slabs[to] # NoSlab => k.slabs[to] \in DOMAIN sl
  PROVE  Moved(k, sl, from, to, s, move_slab([cache |-> k, slab |-> sl], from, to, s))
<1> DEFINE r == sl[s]
           sl1 == IF r.prev = NoSlab THEN sl ELSE [sl EXCEPT ![r.prev].next = r.next]
           sl2 == IF r.next = NoSlab THEN sl1 ELSE [sl1 EXCEPT ![r.next].prev = r.prev]
           ca1 == IF r.prev = NoSlab THEN [k EXCEPT !.slabs[from] = r.next] ELSE k
           h == k.slabs[to]
           sl0 == [sl2 EXCEPT ![s].next = h]
           sl3 == [sl0 EXCEPT ![s].prev = NoSlab]
           ca2 == [ca1 EXCEPT !.slabs[to] = s]
           sl4 == IF h = NoSlab THEN sl3 ELSE [sl3 EXCEPT ![h].prev = s]
           D == DOMAIN sl
<1>0. /\ r \in SlabRec /\ r.next \in SlabPtr /\ r.prev \in SlabPtr /\ s \in SlabPtr /\ NoSlab \in SlabPtr /\ h \in SlabPtr
      /\ NoSlab \notin D
  <2>1. r \in SlabRec
    OBVIOUS
  <2>2. r.next \in SlabPtr /\ r.prev \in SlabPtr
    BY <2>1 DEF SlabRec
  <2>3. h \in SlabPtr
    BY DEF CacheRec
  <2> QED BY <2>1, <2>2, <2>3, SlabAssumption DEF SlabPtr
<1>1. /\ sl1 \in [D -> SlabRec] /\ DOMAIN sl1 = D /\ SameObjects(sl, sl1)
      /\ \A t \in D : /\ sl1[t].next = IF t = r.prev THEN r.next ELSE sl[t].next
                      /\ sl1[t].prev = sl[t].prev
  <2>1. CASE r.prev = NoSlab
    BY <1>0, <2>1 DEF SameObjects
  <2>2. CASE r.prev # NoSlab
    BY <1>0, <2>2, NextSet DEF SameObjects
  <2> QED BY <2>1, <2>2
<1> HIDE DEF sl1
<1>2. /\ sl2 \in [D -> SlabRec] /\ DOMAIN sl2 = D /\ SameObjects(sl1, sl2)
      /\ \A t \in D : /\ sl2[t].next = sl1[t].next
                      /\ sl2[t].prev = IF t = r.next THEN r.prev ELSE sl1[t].prev
  <2>1. CASE r.next = NoSlab
    BY <1>0, <1>1, <2>1 DEF SameObjects
  <2>2. CASE r.next # NoSlab
    BY <1>0, <1>1, <2>2, PrevSet DEF SameObjects
  <2> QED BY <2>1, <2>2
<1> HIDE DEF sl2
<1>3. /\ sl0 \in [D -> SlabRec] /\ DOMAIN sl0 = D /\ SameObjects(sl2, sl0)
      /\ \A t \in D : /\ sl0[t].next = IF t = s THEN h ELSE sl2[t].next
                      /\ sl0[t].prev = sl2[t].prev
  BY <1>0, <1>2, NextSet DEF SameObjects
<1> HIDE DEF sl0
<1>4. /\ sl3 \in [D -> SlabRec] /\ DOMAIN sl3 = D /\ SameObjects(sl0, sl3)
      /\ \A t \in D : /\ sl3[t].next = sl0[t].next
                      /\ sl3[t].prev = IF t = s THEN NoSlab ELSE sl0[t].prev
  BY <1>0, <1>3, PrevSet DEF SameObjects
<1>5. sl3 = [sl2 EXCEPT ![s].next = h, ![s].prev = NoSlab]
  BY DEF sl0
<1> HIDE DEF sl3
<1>6. /\ sl4 \in [D -> SlabRec] /\ DOMAIN sl4 = D /\ SameObjects(sl3, sl4)
      /\ \A t \in D : /\ sl4[t].next = sl3[t].next
                      /\ sl4[t].prev = IF t = h THEN s ELSE sl3[t].prev
  <2>1. CASE h = NoSlab
    BY <1>0, <1>4, <2>1 DEF SameObjects
  <2>2. CASE h # NoSlab
    BY <1>0, <1>4, <2>2, PrevSet DEF SameObjects
  <2> QED BY <2>1, <2>2
<1> HIDE DEF sl4
<1>7. SameObjects(sl, sl4)
  BY ONLY <1>1, <1>2, <1>3, <1>4, <1>6 DEF SameObjects
<1>8. \A t \in D : /\ sl4[t].next = MovedNext(sl, s, h, t)
                   /\ sl4[t].prev = MovedPrev(sl, s, h, t)
  BY ONLY <1>1, <1>2, <1>3, <1>4, <1>6 DEF MovedNext, MovedPrev
<1>9. /\ ca1 \in CacheRec /\ SameCounts(k, ca1)
      /\ \A l \in Lists : ca1.slabs[l] = IF l = from /\ r.prev = NoSlab THEN r.next ELSE k.slabs[l]
  <2>1. CASE r.prev = NoSlab
    BY <1>0, <2>1, HeadSet
  <2>2. CASE r.prev # NoSlab
    BY <2>2 DEF SameCounts
  <2> QED BY <2>1, <2>2
<1> HIDE DEF ca1
<1>10. ca1.slabs[to] = h
  BY <1>9
<1>11. /\ ca2 \in CacheRec /\ SameCounts(ca1, ca2)
       /\ \A l \in Lists : ca2.slabs[l] = IF l = to THEN s ELSE ca1.slabs[l]
  BY <1>0, <1>9, HeadSet
<1>12. move_slab([cache |-> k, slab |-> sl], from, to, s) = [cache |-> ca2, slab |-> sl4]
  <2> DEFINE st == [cache |-> k, slab |-> sl]
             sl5 == [sl2 EXCEPT ![s].next = ca1.slabs[to], ![s].prev = NoSlab]
  <2>1. st.cache = k /\ st.slab = sl
    OBVIOUS
  <2> HIDE DEF st
  <2>2. move_slab(st, from, to, s) =
          [cache |-> [ca1 EXCEPT !.slabs[to] = s],
           slab |-> IF ca1.slabs[to] = NoSlab THEN sl5 ELSE [sl5 EXCEPT ![ca1.slabs[to]].prev = s]]
    BY ONLY <2>1 DEF move_slab, sl1, sl2, ca1, r
  <2>3. sl5 = sl3
    BY ONLY <1>5, <1>10
  <2> QED BY ONLY <1>10, <2>2, <2>3 DEF sl4, st, ca2
<1> HIDE DEF ca2
<1>13. SameCounts(k, ca2)
  BY <1>9, <1>11 DEF SameCounts
<1>14. \A l \in Lists : ca2.slabs[l] = MovedHead(k, sl, from, to, s, l)
  BY <1>9, <1>11 DEF MovedHead
<1> HIDE DEF h, D, r
<1>15. /\ [cache |-> ca2, slab |-> sl4].cache = ca2
       /\ [cache |-> ca2, slab |-> sl4].slab = sl4
  OBVIOUS
<1> QED BY <1>6, <1>7, <1>8, <1>11, <1>12, <1>13, <1>14, <1>15 DEF h, D, Moved

\* The slab s is first on its list now, before all others.
Ahead(sl, pos, s) == [t \in DOMAIN sl |-> IF t = s THEN 0 ELSE pos[t] + 1]

\* The neighbours of a slab, and the head of another list of its cache.
LEMMA Neighbours ==
  ASSUME NEW ca, NEW sl, Shape(ca, sl), NEW own, NEW on, NEW pos, Belongs(sl, own, on, pos),
         Linked(ca, sl, own, on, pos), NEW s \in DOMAIN sl
  PROVE  /\ NoSlab \notin DOMAIN sl /\ own[s] \in Caches /\ on[s] \in Lists
         /\ sl[s].next # NoSlab =>
              /\ sl[s].next \in DOMAIN sl /\ sl[s].next # s /\ sl[sl[s].next].prev = s
              /\ own[sl[s].next] = own[s] /\ on[sl[s].next] = on[s] /\ pos[s] < pos[sl[s].next]
         /\ sl[s].prev # NoSlab =>
              /\ sl[s].prev \in DOMAIN sl /\ sl[s].prev # s /\ sl[sl[s].prev].next = s
              /\ own[sl[s].prev] = own[s] /\ on[sl[s].prev] = on[s] /\ pos[sl[s].prev] < pos[s]
              /\ sl[s].prev # sl[s].next
         /\ sl[s].prev = NoSlab => ca[own[s]].slabs[on[s]] = s
<1>1. /\ \A t \in DOMAIN sl : pos[t] \in Nat
      /\ NoSlab \notin DOMAIN sl /\ own[s] \in Caches /\ on[s] \in Lists
  BY SlabAssumption DEF Belongs, Shape
<1>2. \A t \in DOMAIN sl : LinksOf(ca, sl, own, on, pos, t)
  BY DEF Linked
<1>3. ASSUME sl[s].next # NoSlab
      PROVE  /\ sl[s].next \in DOMAIN sl /\ sl[s].next # s /\ sl[sl[s].next].prev = s
             /\ own[sl[s].next] = own[s] /\ on[sl[s].next] = on[s] /\ pos[s] < pos[sl[s].next]
  BY <1>1, <1>2, <1>3 DEF LinksOf
<1>4. ASSUME sl[s].prev # NoSlab
      PROVE  /\ sl[s].prev \in DOMAIN sl /\ sl[s].prev # s /\ sl[sl[s].prev].next = s
             /\ own[sl[s].prev] = own[s] /\ on[sl[s].prev] = on[s] /\ pos[sl[s].prev] < pos[s]
             /\ sl[s].prev # sl[s].next
  <2>1. /\ sl[s].prev \in DOMAIN sl /\ sl[sl[s].prev].next = s
        /\ own[sl[s].prev] = own[s] /\ on[sl[s].prev] = on[s]
    BY <1>2, <1>4 DEF LinksOf
  <2>2. pos[sl[s].prev] < pos[s]
    BY <1>1, <1>2, <2>1 DEF LinksOf
  <2> QED BY <1>1, <1>3, <2>1, <2>2
<1>5. sl[s].prev = NoSlab => ca[own[s]].slabs[on[s]] = s
  BY <1>2 DEF LinksOf
<1> QED BY <1>1, <1>3, <1>4, <1>5

\* After move_slab the lists are whole again.
LEMMA MoveLinked ==
  ASSUME NEW ca, NEW sl, Shape(ca, sl), NEW own, NEW on, NEW pos, Belongs(sl, own, on, pos),
         Linked(ca, sl, own, on, pos), NEW s \in DOMAIN sl, NEW c, c = own[s],
         NEW from, from = on[s], NEW to \in Lists, from # to
  PROVE  LET st == move_slab([cache |-> ca[c], slab |-> sl], from, to, s)
             cb == [ca EXCEPT ![c] = st.cache]
             om == [on EXCEPT ![s] = to]
         IN  /\ Shape(cb, st.slab) /\ SameObjects(sl, st.slab)
             /\ Belongs(st.slab, own, om, Ahead(sl, pos, s))
             /\ Linked(cb, st.slab, own, om, Ahead(sl, pos, s))
             /\ \A d \in Caches : SameCounts(ca[d], cb[d])
<1> DEFINE D == DOMAIN sl
           st == move_slab([cache |-> ca[c], slab |-> sl], from, to, s)
           sm == st.slab
           k == st.cache
           cb == [ca EXCEPT ![c] = k]
           om == [on EXCEPT ![s] = to]
           pm == Ahead(sl, pos, s)
           n == sl[s].next
           p == sl[s].prev
           h == ca[c].slabs[to]
<1>0. c \in Caches /\ from \in Lists /\ ca[c] \in CacheRec /\ sl \in [D -> SlabRec] /\ D \in SUBSET Slabs
      /\ NoSlab \notin D /\ ca \in [Caches -> CacheRec]
  BY Neighbours DEF Shape
<1>1. /\ n # NoSlab => /\ n \in D /\ n # s /\ sl[n].prev = s /\ own[n] = c /\ on[n] = from
                     /\ pos[s] < pos[n]
      /\ p # NoSlab => /\ p \in D /\ p # s /\ sl[p].next = s /\ own[p] = c /\ on[p] = from
                     /\ pos[p] < pos[s] /\ p # n
      /\ p = NoSlab => ca[c].slabs[from] = s
  BY Neighbours
<1>2. h # NoSlab => h \in D /\ own[h] = c /\ on[h] = to /\ sl[h].prev = NoSlab
  BY <1>0 DEF Linked, HeadOf
<1>3. h # s /\ (h # NoSlab => h # n /\ h # p)
  BY <1>0, <1>1, <1>2
<1>4. /\ sm \in [D -> SlabRec] /\ SameObjects(sl, sm) /\ k \in CacheRec /\ SameCounts(ca[c], k)
      /\ \A t \in D : sm[t].next = MovedNext(sl, s, h, t) /\ sm[t].prev = MovedPrev(sl, s, h, t)
      /\ \A l \in Lists : k.slabs[l] = MovedHead(ca[c], sl, from, to, s, l)
  <2> DEFINE e == ca[c]
  <2>1. /\ e \in CacheRec /\ from \in Lists
        /\ sl[s].prev # NoSlab => sl[s].prev \in DOMAIN sl
        /\ sl[s].next # NoSlab => sl[s].next \in DOMAIN sl
        /\ e.slabs[to] # NoSlab => e.slabs[to] \in DOMAIN sl
        /\ sl \in [DOMAIN sl -> SlabRec] /\ DOMAIN sl \in SUBSET Slabs
    BY <1>0, <1>1, <1>2
  <2> DEFINE u == move_slab([cache |-> e, slab |-> sl], from, to, s)
  <2> HIDE DEF e
  <2>2. Moved(e, sl, from, to, s, u)
    BY ONLY <2>1, MovePointers, s \in DOMAIN sl, to \in Lists, from # to
  <2> HIDE DEF u
  <2> QED BY ONLY <2>2 DEF e, u, Moved
<1> HIDE DEF st
<1>5. DOMAIN sm = D
  BY <1>4
<1>6. /\ \A t \in D : /\ own[t] \in Caches /\ on[t] \in Lists /\ pos[t] \in Nat
                      /\ om[t] = IF t = s THEN to ELSE on[t]
                      /\ pm[t] = IF t = s THEN 0 ELSE pos[t] + 1
      /\ cb[c] = k /\ \A d \in Caches : d # c => cb[d] = ca[d]
  BY <1>0 DEF Belongs, Ahead
<1>7. Shape(cb, sm)
  BY <1>0, <1>4, <1>5 DEF Shape
<1>8. Belongs(sm, own, om, pm)
  BY <1>5, <1>6 DEF Belongs, Ahead
<1>9. \A d \in Caches : SameCounts(ca[d], cb[d])
  BY <1>4, <1>6 DEF SameCounts
<1>10. \A d \in Caches, l \in Lists :
         cb[d].slabs[l] = IF d # c THEN ca[d].slabs[l] ELSE IF l = to THEN s
                          ELSE IF l = from /\ p = NoSlab THEN n ELSE ca[c].slabs[l]
  BY <1>4, <1>6 DEF MovedHead
<1>11. /\ \A t \in D : sm[t].next = IF t = s THEN h ELSE IF t = p THEN n ELSE sl[t].next
       /\ \A t \in D : sm[t].prev = IF t = h THEN s ELSE IF t = s THEN NoSlab
                                    ELSE IF t = n THEN p ELSE sl[t].prev
  BY <1>4 DEF MovedNext, MovedPrev
<1> HIDE DEF sm, k, cb, om, pm, n, p, h
<1>12. ASSUME NEW t \in D
       PROVE  LinksOf(cb, sm, own, om, pm, t)
  <2>0. /\ sl[t].next # NoSlab => /\ sl[t].next \in D /\ sl[t].next # t /\ sl[sl[t].next].prev = t
                                /\ own[sl[t].next] = own[t] /\ on[sl[t].next] = on[t]
                                /\ pos[t] < pos[sl[t].next]
        /\ sl[t].prev # NoSlab => /\ sl[t].prev \in D /\ sl[t].prev # t /\ sl[sl[t].prev].next = t
                                /\ own[sl[t].prev] = own[t] /\ on[sl[t].prev] = on[t]
        /\ sl[t].prev = NoSlab => ca[own[t]].slabs[on[t]] = t
    BY Neighbours
  <2>1. sm[t].next # NoSlab => /\ sm[t].next \in D /\ sm[sm[t].next].prev = t
                             /\ own[sm[t].next] = own[t] /\ om[sm[t].next] = om[t]
                             /\ pm[t] < pm[sm[t].next]
    <3>1. CASE t = s
      BY ONLY <1>2, <1>3, <1>6, <1>11, <3>1, t \in D, c = own[s]
    <3>2. CASE t # s /\ t = p
      <4>1. sm[t].next = n
        BY ONLY <1>11, <3>2, t \in D
      <4>2. ASSUME n # NoSlab
            PROVE  /\ n \in D /\ sm[n].prev = t /\ own[n] = own[t] /\ om[n] = om[t] /\ pm[t] < pm[n]
        <5>1. n \in D /\ p \in D /\ s \in D /\ n # s /\ n # h /\ pos[p] < pos[s] /\ pos[s] < pos[n]
          BY ONLY <1>0, <1>1, <1>3, <3>2, <4>2, t \in D, s \in DOMAIN sl
        <5>2. sm[n].prev = p /\ pm[p] < pm[n]
          BY ONLY <1>6, <1>11, <5>1, <3>2
        <5> QED BY ONLY <1>0, <1>1, <1>6, <3>2, <4>2, <5>1, <5>2, t \in D
      <4> QED BY ONLY <4>1, <4>2
    <3>3. CASE t # s /\ t # p
      <4>1. sm[t].next = sl[t].next
        BY ONLY <1>11, <3>3, t \in D
      <4>2. ASSUME sl[t].next # NoSlab
            PROVE  /\ sl[t].next # s /\ sl[t].next # n /\ sl[t].next # h
        BY ONLY <1>0, <1>1, <1>2, <2>0, <3>3, <4>2, t \in D DEF p
      <4>3. ASSUME sl[t].next # NoSlab
            PROVE  sm[sl[t].next].prev = t /\ om[sl[t].next] = om[t] /\ pm[t] < pm[sl[t].next]
        BY ONLY <1>6, <1>11, <2>0, <3>3, <4>2, <4>3, t \in D
      <4> QED BY ONLY <2>0, <4>1, <4>3
    <3> QED BY ONLY <3>1, <3>2, <3>3
  <2>2. sm[t].prev # NoSlab => /\ sm[t].prev \in D /\ sm[sm[t].prev].next = t
                             /\ own[sm[t].prev] = own[t] /\ om[sm[t].prev] = om[t]
    <3>1. CASE t = h
      BY ONLY <1>0, <1>2, <1>3, <1>6, <1>11, <3>1, t \in D, s \in DOMAIN sl, c = own[s]
    <3>2. CASE t # h /\ t = s
      BY ONLY <1>11, <3>2, t \in D
    <3>3. CASE t # h /\ t # s /\ t = n
      <4>1. sm[t].prev = p
        BY ONLY <1>11, <3>3, t \in D
      <4>2. ASSUME p # NoSlab PROVE p \in D /\ sm[p].next = t /\ own[p] = own[t] /\ om[p] = om[t]
        BY ONLY <1>0, <1>1, <1>6, <1>11, <3>3, <4>2, t \in D
      <4> QED BY ONLY <4>1, <4>2
    <3>4. CASE t # h /\ t # s /\ t # n
      <4>1. sm[t].prev = sl[t].prev
        BY ONLY <1>11, <3>4, t \in D
      <4>2. ASSUME sl[t].prev # NoSlab PROVE sl[t].prev # s /\ sl[t].prev # p
        BY ONLY <1>1, <2>0, <3>4, <4>2 DEF n
      <4>3. ASSUME sl[t].prev # NoSlab PROVE sm[sl[t].prev].next = t /\ om[sl[t].prev] = om[t]
        BY ONLY <1>6, <1>11, <2>0, <3>4, <4>2, <4>3, t \in D
      <4> QED BY ONLY <2>0, <4>1, <4>3
    <3> QED BY ONLY <3>1, <3>2, <3>3, <3>4
  <2>3. sm[t].prev = NoSlab => cb[own[t]].slabs[om[t]] = t
    <3>1. CASE t = h
      BY ONLY <1>0, <1>11, <3>1, t \in D, s \in DOMAIN sl
    <3>2. CASE t # h /\ t = s
      BY ONLY <1>0, <1>6, <1>10, <3>2, t \in D, to \in Lists, c = own[s]
    <3>3. CASE t # h /\ t # s /\ t = n
      <4>1. sm[t].prev = p /\ own[t] = c /\ om[t] = from
        BY ONLY <1>0, <1>1, <1>6, <1>11, <3>3, t \in D
      <4>2. p = NoSlab => cb[c].slabs[from] = n
        BY ONLY <1>0, <1>10, from # to
      <4> QED BY ONLY <3>3, <4>1, <4>2
    <3>4. CASE t # h /\ t # s /\ t # n
      <4>1. sm[t].prev = sl[t].prev /\ om[t] = on[t]
        BY ONLY <1>6, <1>11, <3>4, t \in D
      <4>2. ASSUME sl[t].prev = NoSlab PROVE cb[own[t]].slabs[on[t]] = t
        <5>1. ca[own[t]].slabs[on[t]] = t
          BY ONLY <2>0, <4>2
        <5>2. own[t] # c \/ (on[t] # to /\ ~(on[t] = from /\ p = NoSlab))
          BY ONLY <1>1, <3>4, <5>1 DEF h
        <5>3. own[t] \in Caches /\ on[t] \in Lists
          BY ONLY <1>6, t \in D
        <5> QED BY ONLY <1>10, <5>1, <5>2, <5>3
      <4> QED BY ONLY <4>1, <4>2
    <3> QED BY ONLY <3>1, <3>2, <3>3, <3>4
  <2> QED BY ONLY <1>5, <2>1, <2>2, <2>3 DEF LinksOf
<1>13. ASSUME NEW d \in Caches, NEW l \in Lists
       PROVE  HeadOf(cb, sm, own, om, d, l)
  <2> DEFINE w == ca[d].slabs[l]
  <2>0. w # NoSlab => w \in D /\ own[w] = d /\ on[w] = l /\ sl[w].prev = NoSlab
    BY DEF Linked, HeadOf
  <2>1. CASE d # c
    <3>1. cb[d].slabs[l] = w
      BY ONLY <1>10, <2>1, d \in Caches, l \in Lists
    <3> HIDE DEF w
    <3>2. w # NoSlab => w # s /\ w # n /\ w # h
      BY ONLY <1>0, <1>1, <1>2, <2>0, <2>1, c = own[s]
    <3>3. w # NoSlab => om[w] = on[w] /\ sm[w].prev = NoSlab
      BY ONLY <1>6, <1>11, <2>0, <3>2
    <3> QED BY ONLY <1>5, <2>0, <3>1, <3>3 DEF HeadOf
  <2>2. CASE d = c /\ l = to
    <3>1. cb[d].slabs[l] = s
      BY ONLY <1>10, <2>2, d \in Caches, l \in Lists
    <3>2. s \in D /\ own[s] = d /\ om[s] = l /\ sm[s].prev = NoSlab
      BY ONLY <1>3, <1>6, <1>11, <2>2, s \in DOMAIN sl, c = own[s]
    <3> QED BY ONLY <1>5, <3>1, <3>2 DEF HeadOf
  <2>3. CASE d = c /\ l # to /\ l = from /\ p = NoSlab
    <3>1. cb[d].slabs[l] = n
      BY ONLY <1>10, <2>3, d \in Caches, l \in Lists
    <3>2. n # NoSlab => n \in D /\ own[n] = d /\ om[n] = l /\ sm[n].prev = NoSlab
      BY ONLY <1>1, <1>3, <1>6, <1>11, <2>3
    <3> QED BY ONLY <1>5, <3>1, <3>2 DEF HeadOf
  <2>4. CASE d = c /\ l # to /\ ~(l = from /\ p = NoSlab)
    <3>1. cb[d].slabs[l] = w
      BY ONLY <1>10, <2>4, d \in Caches, l \in Lists
    <3> HIDE DEF w
    <3>2. w # NoSlab => w # s /\ w # n /\ w # h
      BY ONLY <1>0, <1>1, <1>2, <2>0, <2>4, from = on[s] DEF p
    <3>3. w # NoSlab => om[w] = on[w] /\ sm[w].prev = NoSlab
      BY ONLY <1>6, <1>11, <2>0, <3>2
    <3> QED BY ONLY <1>5, <2>0, <3>1, <3>3 DEF HeadOf
  <2> QED BY ONLY <2>1, <2>2, <2>3, <2>4
<1>14. Linked(cb, sm, own, om, pm)
  BY ONLY <1>5, <1>12, <1>13 DEF Linked
<1> QED BY ONLY <1>4, <1>7, <1>8, <1>9, <1>14 DEF sm, k, cb, om, pm, st

-------------------------------------------------------------------------------
(* A list of slabs, along the next pointers from h.                        *)

ChainSteps(w, sl, h) ==
  w = [k \in Nat |-> IF k = 0 THEN h ELSE IF w[k - 1] = NoSlab THEN NoSlab ELSE sl[w[k - 1]].next]
Chain(sl, h) == CHOOSE w : ChainSteps(w, sl, h)

\* The recursive definition in From has a solution: one for each finite number of
\* steps, which together make one for all.
LEMMA ChainDefined ==
  ASSUME NEW sl, NEW h
  PROVE  /\ Chain(sl, h)[0] = h
         /\ \A k \in Nat : Chain(sl, h)[k + 1] =
              IF Chain(sl, h)[k] = NoSlab THEN NoSlab ELSE sl[Chain(sl, h)[k]].next
<1> DEFINE Next1(x) == IF x = NoSlab THEN NoSlab ELSE sl[x].next
           Part(f, n) == /\ f[0] = h
                         /\ \A k \in 1 .. n : f[k] = Next1(f[k - 1])
           T == {n \in Nat : \E f : Part(f, n)}
<1>1. 0 \in T
  <2> DEFINE f == [k \in 0 .. 0 |-> h]
  <2>1. Part(f, 0)
    OBVIOUS
  <2> QED BY <2>1
<1>2. ASSUME NEW n \in T PROVE n + 1 \in T
  <2>1. PICK f : Part(f, n)
    OBVIOUS
  <2> DEFINE g == [k \in 0 .. n + 1 |-> IF k <= n THEN f[k] ELSE Next1(f[n])]
  <2> HIDE DEF Next1
  <2>2. g[0] = h
    BY <2>1
  <2>3. ASSUME NEW k \in 1 .. n + 1 PROVE g[k] = Next1(g[k - 1])
    <3>1. k \in 0 .. n + 1 /\ k - 1 \in 0 .. n + 1 /\ k - 1 <= n
      BY n \in Nat
    <3>2. g[k - 1] = f[k - 1]
      BY <3>1
    <3>3. CASE k <= n
      <4>1. k \in 1 .. n
        BY <3>3
      <4> QED BY <2>1, <3>1, <3>2, <3>3, <4>1
    <3>4. CASE ~(k <= n)
      <4>1. k - 1 = n
        BY <3>4, n \in Nat
      <4>2. g[k] = Next1(f[n])
        BY <3>1, <3>4
      <4> QED BY <3>2, <4>1, <4>2
    <3> QED BY <3>3, <3>4
  <2> HIDE DEF g
  <2>4. Part(g, n + 1)
    BY <2>2, <2>3
  <2>5. n + 1 \in Nat
    OBVIOUS
  <2> HIDE DEF Part
  <2> QED BY <2>4, <2>5
<1>3. \A n \in Nat : \E f : Part(f, n)
  <2>1. T \in SUBSET Nat
    OBVIOUS
  <2>2. T = Nat
    <3> HIDE DEF T
    <3> QED BY <1>1, <1>2, <2>1, NatSetInduction
  <2> HIDE DEF Part
  <2> QED BY <2>2
<1>4. ASSUME NEW n \in Nat, NEW f, NEW g, Part(f, n), Part(g, n + 1) PROVE f[n] = g[n]
  <2> DEFINE U == {k \in Nat : k <= n => f[k] = g[k]}
  <2> HIDE DEF Next1
  <2>1. 0 \in U
    BY <1>4
  <2>2. ASSUME NEW k \in U PROVE k + 1 \in U
    <3> SUFFICES ASSUME k + 1 <= n PROVE f[k + 1] = g[k + 1]
      OBVIOUS
    <3>1. k \in Nat /\ k <= n /\ k + 1 \in 1 .. n /\ k + 1 \in 1 .. n + 1 /\ (k + 1) - 1 = k
      OBVIOUS
    <3>2. f[k] = g[k]
      BY <3>1
    <3>3. f[k + 1] = Next1(f[k]) /\ g[k + 1] = Next1(g[k])
      BY <1>4, <3>1
    <3> QED BY <3>2, <3>3
  <2>3. U \in SUBSET Nat
    OBVIOUS
  <2>4. n \in U
    <3> HIDE DEF U
    <3> QED BY <2>1, <2>2, <2>3, NatSetInduction
  <2> QED BY <2>4
<1> DEFINE F(n) == CHOOSE f : Part(f, n)
           w == [n \in Nat |-> F(n)[n]]
<1>5. \A n \in Nat : Part(F(n), n)
  <2> HIDE DEF Part
  <2> QED BY <1>3, Zenon
<1> HIDE DEF F, Next1
<1>6. w[0] = h
  BY <1>5
<1>7. ASSUME NEW n \in Nat PROVE w[n + 1] = Next1(w[n])
  <2>1. n + 1 \in Nat /\ n + 1 \in 1 .. n + 1 /\ (n + 1) - 1 = n
    OBVIOUS
  <2>2. Part(F(n), n) /\ Part(F(n + 1), n + 1)
    <3> HIDE DEF Part
    <3> QED BY <1>5, <2>1
  <2>3. F(n)[n] = F(n + 1)[n]
    <3> HIDE DEF Part
    <3> QED BY <1>4, <2>2
  <2>4. F(n + 1)[n + 1] = Next1(F(n + 1)[n])
    BY <2>1, <2>2
  <2> QED BY <2>1, <2>3, <2>4
<1>8. ChainSteps(w, sl, h)
  <2> DEFINE v == [k \in Nat |-> IF k = 0 THEN h ELSE Next1(w[k - 1])]
  <2>1. ASSUME NEW k \in Nat PROVE w[k] = v[k]
    <3>1. CASE k = 0
      BY <1>6, <3>1
    <3>2. CASE k # 0
      <4>1. k - 1 \in Nat /\ (k - 1) + 1 = k
        BY <3>2
      <4>2. w[k] = Next1(w[k - 1])
        BY <1>7, <4>1
      <4> HIDE DEF w
      <4> QED BY <3>2, <4>2
    <3> QED BY <3>1, <3>2
  <2>2. w = v
    BY <2>1
  <2> QED BY <2>2 DEF ChainSteps, Next1
<1> HIDE DEF w
<1>9. ChainSteps(Chain(sl, h), sl, h)
  BY <1>8, Zenon DEF Chain
<1> DEFINE W == Chain(sl, h)
<1> HIDE DEF W
<1>10. W[0] = h /\ \A k \in Nat : k + 1 \in Nat /\ k + 1 # 0 /\ (k + 1) - 1 = k
  BY <1>9 DEF ChainSteps, W
<1>11. \A k \in Nat : W[k + 1] = IF W[k] = NoSlab THEN NoSlab ELSE sl[W[k]].next
  BY <1>9, <1>10 DEF ChainSteps, W
<1> QED BY <1>10, <1>11 DEF W

\* The slabs of From are those of the chain.
LEMMA FromIsChain ==
  ASSUME NEW sl, NEW h
  PROVE  From(sl, h) = {Chain(sl, h)[k] : k \in 0 .. Cardinality(Slabs)} \ {NoSlab}
BY Zenon DEF From, Chain, ChainSteps

\* The slabs that belong to one list of a cache.
ListOf(sl, own, on, c, l) == {s \in DOMAIN sl : own[s] = c /\ on[s] = l}

\* From the head of a list, the chain has just the slabs of that list, and it ends.
LEMMA ChainIsList ==
  ASSUME NEW ca, NEW sl, Shape(ca, sl), NEW own, NEW on, NEW pos, Belongs(sl, own, on, pos),
         Linked(ca, sl, own, on, pos), NEW c \in Caches, NEW l \in Lists
  PROVE  /\ From(sl, ca[c].slabs[l]) = ListOf(sl, own, on, c, l)
         /\ ListOf(sl, own, on, c, l) # {} =>
              \E s \in ListOf(sl, own, on, c, l) : sl[s].next = NoSlab
<1> DEFINE h == ca[c].slabs[l]
           A == Chain(sl, h)
           D == DOMAIN sl
           N == Cardinality(Slabs)
           L == ListOf(sl, own, on, c, l)
<1>1. /\ A[0] = h
      /\ \A k \in Nat : A[k + 1] = IF A[k] = NoSlab THEN NoSlab ELSE sl[A[k]].next
  BY ChainDefined
<1>2. h # NoSlab => h \in D /\ own[h] = c /\ on[h] = l
  BY DEF Linked, HeadOf
<1>3. /\ N \in Nat /\ NoSlab \notin D /\ D \in SUBSET Slabs /\ NoSlab \notin Slabs /\ IsFiniteSet(Slabs)
      /\ \A s \in D : pos[s] \in Nat
  BY SlabAssumption, FS_CardinalityType DEF Shape, Belongs
<1>4. \A s \in D : sl[s].next # NoSlab =>
        /\ sl[s].next \in D /\ own[sl[s].next] = own[s] /\ on[sl[s].next] = on[s]
        /\ pos[s] < pos[sl[s].next]
  BY Neighbours
<1>5. \A s \in D : /\ sl[s].prev # NoSlab =>
                        /\ sl[s].prev \in D /\ own[sl[s].prev] = own[s] /\ on[sl[s].prev] = on[s]
                        /\ pos[sl[s].prev] < pos[s] /\ sl[sl[s].prev].next = s
                   /\ sl[s].prev = NoSlab => ca[own[s]].slabs[on[s]] = s
  BY Neighbours
<1> HIDE DEF A, D, N
<1>6. \A s : s \in L <=> s \in D /\ own[s] = c /\ on[s] = l
  BY DEF L, D, ListOf
<1> HIDE DEF L
<1>7. \A k \in Nat : A[k] = NoSlab \/ A[k] \in L
  <2> DEFINE T == {k \in Nat : A[k] = NoSlab \/ A[k] \in L}
  <2>1. 0 \in T
    BY <1>1, <1>2, <1>6
  <2>2. ASSUME NEW k \in T PROVE k + 1 \in T
    <3>1. k \in Nat /\ k + 1 \in Nat
      OBVIOUS
    <3>2. A[k + 1] = IF A[k] = NoSlab THEN NoSlab ELSE sl[A[k]].next
      BY <1>1, <3>1
    <3> QED BY <1>4, <1>6, <3>1, <3>2
  <2>3. T \in SUBSET Nat
    OBVIOUS
  <2>4. T = Nat
    <3> HIDE DEF T
    <3> QED BY <2>1, <2>2, <2>3, NatSetInduction
  <2> QED BY <2>4
<1>8. \A k \in Nat : \A j \in 0 .. k - 1 : A[k] # NoSlab => A[j] # NoSlab /\ pos[A[j]] < pos[A[k]]
  <2> DEFINE T == {k \in Nat : \A j \in 0 .. k - 1 :
                     A[k] # NoSlab => A[j] # NoSlab /\ pos[A[j]] < pos[A[k]]}
  <2>1. 0 \in T
    OBVIOUS
  <2>2. ASSUME NEW k \in T PROVE k + 1 \in T
    <3> SUFFICES ASSUME NEW j \in 0 .. k, A[k + 1] # NoSlab
                 PROVE  A[j] # NoSlab /\ pos[A[j]] < pos[A[k + 1]]
      OBVIOUS
    <3>1. k \in Nat /\ k + 1 \in Nat /\ j \in Nat
      OBVIOUS
    <3>2. A[k] # NoSlab /\ A[k + 1] = sl[A[k]].next
      BY <1>1, <3>1
    <3>3. A[k] \in D /\ A[k + 1] \in D /\ pos[A[k]] < pos[A[k + 1]]
      BY <1>4, <1>6, <1>7, <3>1, <3>2
    <3>4. CASE j = k
      BY <3>2, <3>3, <3>4
    <3>5. CASE j # k
      <4>1. j \in 0 .. k - 1
        BY <3>1, <3>5
      <4>2. A[j] # NoSlab /\ pos[A[j]] < pos[A[k]]
        BY <3>2, <4>1
      <4>3. A[j] \in D
        BY <1>6, <1>7, <3>1, <4>2
      <4> QED BY <1>3, <3>3, <4>2, <4>3
    <3> QED BY <3>4, <3>5
  <2>3. T \in SUBSET Nat
    OBVIOUS
  <2>4. T = Nat
    <3> HIDE DEF T
    <3> QED BY <2>1, <2>2, <2>3, NatSetInduction
  <2> QED BY <2>4
<1>9. A[N] = NoSlab
  <2> SUFFICES ASSUME A[N] # NoSlab PROVE FALSE
    OBVIOUS
  <2>1. \A k \in 0 .. N : A[k] # NoSlab /\ A[k] \in Slabs
    <3> SUFFICES ASSUME NEW k \in 0 .. N PROVE A[k] # NoSlab
      BY <1>3, <1>6, <1>7
    <3>1. CASE k = N
      BY <3>1
    <3>2. CASE k # N
      <4>1. k \in 0 .. N - 1
        BY <1>3, <3>2
      <4> QED BY <1>3, <1>8, <4>1
    <3> QED BY <3>1, <3>2
  <2> DEFINE f == [k \in 0 .. N |-> A[k]]
  <2>2. f \in [0 .. N -> Slabs]
    BY <2>1
  <2>3. IsFiniteSet(0 .. N) /\ Cardinality(0 .. N) = N + 1
    BY <1>3, FS_Interval
  <2>4. Cardinality(Slabs) < Cardinality(0 .. N)
    BY <1>3, <2>3 DEF N
  <2>5. PICK x, y \in 0 .. N : x # y /\ f[x] = f[y]
    <3> HIDE DEF f
    <3> QED BY <1>3, <2>2, <2>3, <2>4, FS_PigeonHole
  <2>6. A[x] = A[y] /\ A[x] \in D
    BY <1>3, <1>6, <1>7, <2>1, <2>5
  <2>7. pos[A[x]] \in Nat /\ x \in Nat /\ y \in Nat
    BY <1>3, <2>6
  <2>8. CASE x < y
    <3>1. x \in 0 .. y - 1
      BY <2>7, <2>8
    <3>2. pos[A[x]] < pos[A[y]]
      BY <1>8, <2>1, <2>7, <3>1
    <3> QED BY <2>6, <2>7, <3>2
  <2>9. CASE y < x
    <3>1. y \in 0 .. x - 1
      BY <2>7, <2>9
    <3>2. pos[A[y]] < pos[A[x]]
      BY <1>8, <2>1, <2>7, <3>1
    <3> QED BY <2>6, <2>7, <3>2
  <2> QED BY <2>5, <2>7, <2>8, <2>9
<1> DEFINE R == {A[k] : k \in 0 .. N} \ {NoSlab}
<1>10. R \subseteq L
  BY <1>3, <1>7
<1>11. ASSUME NEW s \in L, s \notin R PROVE FALSE
  <2> DEFINE P == {pos[t] : t \in L \ R}
  <2>1. P \in SUBSET Nat /\ P # {}
    BY <1>3, <1>6, <1>11
  <2>2. PICK x \in P : \A y \in P : x <= y
    <3> HIDE DEF P
    <3> QED BY <2>1, NatSetMin
  <2>3. PICK t \in L \ R : x = pos[t]
    OBVIOUS
  <2>4. t \in D /\ own[t] = c /\ on[t] = l /\ t # NoSlab
    BY <1>3, <1>6
  <2>5. \A u \in L \ R : pos[t] <= pos[u]
    BY <2>2, <2>3
  <2>6. CASE sl[t].prev = NoSlab
    <3>1. t = A[0]
      BY <1>1, <1>5, <2>4, <2>6
    <3> QED BY <1>3, <2>4, <3>1
  <2>7. CASE sl[t].prev # NoSlab
    <3> DEFINE p == sl[t].prev
    <3>1. p \in D /\ own[p] = c /\ on[p] = l /\ pos[p] < pos[t] /\ sl[p].next = t /\ p # NoSlab
      BY <1>5, <2>4, <2>7
    <3> HIDE DEF p
    <3>2. p \in R
      <4>1. p \in L /\ pos[p] \in Nat /\ pos[t] \in Nat
        BY <1>3, <1>6, <2>4, <3>1
      <4> HIDE DEF R
      <4> QED BY <2>5, <3>1, <4>1
    <3>3. PICK k \in 0 .. N : p = A[k]
      BY <3>2
    <3>4. k \in Nat /\ k # N /\ k + 1 \in 0 .. N
      BY <1>3, <1>9, <3>1, <3>3
    <3>5. A[k + 1] = t
      BY <1>1, <3>1, <3>3, <3>4
    <3> QED BY <2>4, <3>4, <3>5
  <2> QED BY <2>6, <2>7
<1>12. From(sl, h) = L
  <2>1. From(sl, h) = R
    BY FromIsChain DEF A, N
  <2> QED BY <1>10, <1>11, <2>1
<1>13. ASSUME L # {} PROVE \E s \in L : sl[s].next = NoSlab
  <2>1. PICK j \in 0 .. N : A[j] # NoSlab
    BY <1>11, <1>13
  <2> DEFINE K == {k \in Nat : A[k] = NoSlab}
  <2>2. K \in SUBSET Nat /\ K # {}
    BY <1>3, <1>9
  <2>3. PICK m \in K : \A y \in K : m <= y
    <3> HIDE DEF K
    <3> QED BY <2>2, NatSetMin
  <2>4. m \in Nat /\ A[m] = NoSlab
    OBVIOUS
  <2>5. m # 0
    <3> SUFFICES ASSUME A[0] = NoSlab PROVE FALSE
      BY <2>4
    <3>1. j \in Nat /\ (j = 0 \/ 0 \in 0 .. j - 1)
      BY <1>3
    <3> QED BY <1>8, <2>1, <3>1
  <2>6. m - 1 \in Nat /\ (m - 1) + 1 = m
    BY <2>4, <2>5
  <2>7. A[m - 1] # NoSlab
    BY <2>3, <2>6
  <2>8. A[m - 1] \in L /\ sl[A[m - 1]].next = NoSlab
    BY <1>1, <1>7, <2>4, <2>6, <2>7
  <2> QED BY <2>8
<1> QED BY <1>12, <1>13 DEF L

-------------------------------------------------------------------------------
(* Objects and counters.                                                   *)

\* The objects of out in the slab s, and in the slabs of the cache c.
OutOf(out, s) == {o \in out : o[1] = s}
OutFor(own, out, c) == {o \in out : own[o[1]] = c}
SlabsOf(sl, own, c) == {s \in DOMAIN sl : own[s] = c}

\* The slab s: its free objects and those in out are all that it has, and no object
\* is twice on the chain of free ones.
ContentOf(sl, own, out, s) ==
  LET fl == sl[s].freelist
  IN  /\ sl[s].free + sl[s].inuse = Objs[own[s]] /\ Len(fl) = sl[s].free
      /\ \A i \in 1 .. Len(fl) : fl[i] < Objs[own[s]] /\ <<s, fl[i]>> \notin out
      /\ \A i, j \in 1 .. Len(fl) : fl[i] = fl[j] => i = j
      /\ Cardinality(OutOf(out, s)) = sl[s].inuse

OutOK(sl, own, out) ==
  /\ IsFiniteSet(out)
  /\ \A o \in out : /\ o = <<o[1], o[2]>> /\ o[1] \in DOMAIN sl /\ o[2] \in Nat
                    /\ o[2] < Objs[own[o[1]]]

Content(sl, own, out) ==
  OutOK(sl, own, out) /\ \A s \in DOMAIN sl : ContentOf(sl, own, out, s)

TotalsOf(ca, sl, own, out, c) ==
  /\ ca[c].num_slabs = Cardinality(SlabsOf(sl, own, c))
  /\ ca[c].num_active_objs + ca[c].num_free_objs = Objs[c] * Cardinality(SlabsOf(sl, own, c))
  /\ ca[c].num_active_objs = Cardinality(OutFor(own, out, c))

Totals(ca, sl, own, out) == \A c \in Caches : TotalsOf(ca, sl, own, out, c)

\* Which list the slab s is on.
ListingOf(sl, own, on, s) ==
  /\ Objs[own[s]] > 0 => /\ on[s] = "full" => sl[s].free = 0
                         /\ on[s] = "partial" => sl[s].free > 0
  /\ Objs[own[s]] > 1 /\ on[s] = "partial" => sl[s].inuse > 0
  /\ on[s] = "empty" => sl[s].inuse = 0

Listing(sl, own, on) == \A s \in DOMAIN sl : ListingOf(sl, own, on, s)

Good(ca, sl, own, on, pos, out) ==
  /\ Shape(ca, sl) /\ Belongs(sl, own, on, pos) /\ Linked(ca, sl, own, on, pos)
  /\ Content(sl, own, out) /\ Totals(ca, sl, own, out)

SlabInv ==
  /\ \E own, on, pos : /\ Good(cache, slab, own, on, pos, lent \cup lost)
                       /\ Listing(slab, own, on)
  /\ lent \cap lost = {}

\* move_slab leaves objects and counters alone.
LEMMA MoveGood ==
  ASSUME NEW ca, NEW sl, NEW own, NEW on, NEW pos, NEW out, Good(ca, sl, own, on, pos, out),
         NEW s \in DOMAIN sl, NEW c, c = own[s], NEW from, from = on[s], NEW to \in Lists, from # to
  PROVE  LET st == move_slab([cache |-> ca[c], slab |-> sl], from, to, s)
         IN  /\ Good([ca EXCEPT ![c] = st.cache], st.slab, own, [on EXCEPT ![s] = to],
                     Ahead(sl, pos, s), out)
             /\ SameObjects(sl, st.slab)
<1> DEFINE st == move_slab([cache |-> ca[c], slab |-> sl], from, to, s)
           cb == [ca EXCEPT ![c] = st.cache]
           om == [on EXCEPT ![s] = to]
           sm == st.slab
           pm == Ahead(sl, pos, s)
<1>0. Shape(ca, sl) /\ Belongs(sl, own, on, pos) /\ Linked(ca, sl, own, on, pos)
  BY DEF Good
<1>1. /\ Shape(cb, sm) /\ SameObjects(sl, sm) /\ Belongs(sm, own, om, pm)
      /\ Linked(cb, sm, own, om, pm) /\ \A d \in Caches : SameCounts(ca[d], cb[d])
  BY <1>0, MoveLinked
<1> HIDE DEF st, cb, om, sm, pm
<1>2. Content(sm, own, out)
  <2>1. OutOK(sm, own, out)
    BY <1>1 DEF Good, Content, OutOK, SameObjects
  <2>2. ASSUME NEW t \in DOMAIN sm PROVE ContentOf(sm, own, out, t)
    <3>1. t \in DOMAIN sl /\ ContentOf(sl, own, out, t)
      BY <1>1 DEF Good, Content, SameObjects
    <3>2. sm[t].free = sl[t].free /\ sm[t].inuse = sl[t].inuse /\ sm[t].freelist = sl[t].freelist
      BY <1>1, <3>1 DEF SameObjects
    <3> QED BY ONLY <3>1, <3>2 DEF ContentOf
  <2> QED BY <2>1, <2>2 DEF Content
<1>3. Totals(cb, sm, own, out)
  <2> SUFFICES ASSUME NEW d \in Caches PROVE TotalsOf(cb, sm, own, out, d)
    BY DEF Totals
  <2>1. TotalsOf(ca, sl, own, out, d)
    BY DEF Good, Totals
  <2>2. SlabsOf(sm, own, d) = SlabsOf(sl, own, d)
    BY <1>1 DEF SlabsOf, SameObjects
  <2>3. SameCounts(ca[d], cb[d])
    BY <1>1
  <2> QED BY ONLY <2>1, <2>2, <2>3 DEF TotalsOf, SameCounts
<1>4. Good(cb, sm, own, om, pm, out)
  BY ONLY <1>1, <1>2, <1>3 DEF Good
<1> QED BY ONLY <1>1, <1>4 DEF cb, om, sm, pm, st

\* The lists stay whole when only objects and counters change.
LEMMA SameLinks ==
  ASSUME NEW ca, NEW sl, NEW own, NEW on, NEW pos,
         Belongs(sl, own, on, pos), Linked(ca, sl, own, on, pos),
         NEW cb, NEW sm, DOMAIN sm = DOMAIN sl,
         \A t \in DOMAIN sl : sm[t].next = sl[t].next /\ sm[t].prev = sl[t].prev,
         \A d \in Caches, l \in Lists : cb[d].slabs[l] = ca[d].slabs[l]
  PROVE  Belongs(sm, own, on, pos) /\ Linked(cb, sm, own, on, pos)
<1>1. Belongs(sm, own, on, pos)
  BY DEF Belongs
<1>2. ASSUME NEW t \in DOMAIN sl PROVE LinksOf(cb, sm, own, on, pos, t)
  <2>1. LinksOf(ca, sl, own, on, pos, t) /\ own[t] \in Caches /\ on[t] \in Lists
    BY DEF Linked, Belongs
  <2> QED BY <2>1 DEF LinksOf
<1>3. ASSUME NEW d \in Caches, NEW l \in Lists PROVE HeadOf(cb, sm, own, on, d, l)
  <2>1. HeadOf(ca, sl, own, on, d, l)
    BY DEF Linked
  <2> QED BY <2>1 DEF HeadOf
<1> QED BY <1>1, <1>2, <1>3 DEF Linked

-------------------------------------------------------------------------------
(* slab_create.                                                            *)

\* The function f with the value v for the new slab s.
With(f, s, v) == [t \in DOMAIN f \cup {s} |-> IF t = s THEN v ELSE f[t]]

Unchained(c) == [i \in 1 .. Objs[c] |-> Objs[c] - i]

\* What slab_create does: a new record, and a pointer from the former head back to it.
CreatedSlab(k, sl, c, s, st) ==
  /\ DOMAIN st.slab = DOMAIN sl \cup {s} /\ st.slab \in [DOMAIN st.slab -> SlabRec]
  /\ st.slab[s] = [next |-> k.slabs["partial"], prev |-> NoSlab, inuse |-> 0, free |-> Objs[c],
                   freelist |-> Unchained(c)]
  /\ \A t \in DOMAIN sl :
       /\ st.slab[t].next = sl[t].next
       /\ st.slab[t].prev = IF t = k.slabs["partial"] THEN s ELSE sl[t].prev
       /\ st.slab[t].inuse = sl[t].inuse /\ st.slab[t].free = sl[t].free
       /\ st.slab[t].freelist = sl[t].freelist
  /\ st.cache \in CacheRec
  /\ \A l \in Lists : st.cache.slabs[l] = IF l = "partial" THEN s ELSE k.slabs[l]
  /\ st.cache.num_slabs = k.num_slabs + 1 /\ st.cache.num_active_objs = k.num_active_objs
  /\ st.cache.num_free_objs = k.num_free_objs + Objs[c]

\* slab_create, for a slab that does not exist yet.
LEMMA CreateRecords ==
  ASSUME NEW k \in CacheRec, NEW sl, sl \in [DOMAIN sl -> SlabRec], DOMAIN sl \in SUBSET Slabs,
         NEW c \in Caches, NEW s \in Slabs \ DOMAIN sl,
         k.slabs["partial"] # NoSlab => k.slabs["partial"] \in DOMAIN sl
  PROVE  CreatedSlab(k, sl, c, s, slab_create([cache |-> k, slab |-> sl], c, s))
<1> DEFINE h == k.slabs["partial"]
           D == DOMAIN sl
           new == [next |-> h, prev |-> NoSlab, inuse |-> 0, free |-> Objs[c],
                   freelist |-> [i \in 1 .. Objs[c] |-> Objs[c] - i]]
           all == [t \in D \cup {s} |-> IF t = s THEN new ELSE sl[t]]
           kc == [k EXCEPT !.slabs["partial"] = s, !.num_slabs = @ + 1, !.num_free_objs = @ + Objs[c]]
           sm == IF h = NoSlab THEN all ELSE [all EXCEPT ![h].prev = s]
<1>1. slab_create([cache |-> k, slab |-> sl], c, s) = [cache |-> kc, slab |-> sm]
  <2> DEFINE st == [cache |-> k, slab |-> sl]
  <2>1. st.cache = k /\ st.slab = sl
    OBVIOUS
  <2> HIDE DEF st
  <2>2. slab_create(st, c, s) = [cache |-> kc, slab |-> sm]
    BY ONLY <2>1 DEF slab_create
  <2> QED BY ONLY <2>2 DEF st
<1>2. Objs[c] \in Nat /\ h \in SlabPtr /\ NoSlab \in SlabPtr /\ s \in SlabPtr /\ NoSlab \notin D \cup {s} /\ "partial" \in Lists
  BY SlabAssumption DEF CacheRec, SlabPtr, Lists
<1>3. new.freelist = Unchained(c) /\ Unchained(c) \in Seq(Nat)
  <2>1. Unchained(c) \in [1 .. Objs[c] -> Nat]
    BY <1>2 DEF Unchained
  <2>2. Unchained(c) \in Seq(Nat)
    BY <1>2, <2>1, FunctionIsSeq
  <2> QED BY <2>2 DEF Unchained
<1>4. new \in SlabRec
  BY <1>2, <1>3 DEF SlabRec
<1> HIDE DEF new
<1>5. DOMAIN all = D \cup {s} /\ all[s] = new /\ \A t \in D : all[t] = sl[t]
  OBVIOUS
<1>6. all \in [DOMAIN all -> SlabRec]
  BY <1>4
<1> HIDE DEF all
<1>7. /\ sm \in [DOMAIN all -> SlabRec] /\ DOMAIN sm = DOMAIN all /\ SameObjects(all, sm)
      /\ sm[s] = new
      /\ \A t \in DOMAIN all : /\ sm[t].prev = IF t = h THEN s ELSE all[t].prev
                               /\ sm[t].next = all[t].next
  <2>1. CASE h = NoSlab
    BY <1>2, <1>5, <1>6, <2>1 DEF SameObjects
  <2>2. CASE h # NoSlab
    <3>1. h \in DOMAIN all
      BY <1>5, <2>2
    <3>2. h # s
      BY <2>2
    <3>3. sm[s] = new
      BY <1>5, <2>2, <3>2
    <3> QED BY <1>2, <1>6, <2>2, <3>1, <3>3, PrevSet DEF SameObjects
  <2> QED BY <2>1, <2>2
<1> HIDE DEF sm
<1>8. /\ kc \in CacheRec
      /\ \A l \in Lists : kc.slabs[l] = IF l = "partial" THEN s ELSE k.slabs[l]
      /\ kc.num_slabs = k.num_slabs + 1 /\ kc.num_active_objs = k.num_active_objs
      /\ kc.num_free_objs = k.num_free_objs + Objs[c]
  <2> DEFINE k1 == [k EXCEPT !.slabs["partial"] = s]
             k2 == [k1 EXCEPT !.num_slabs = @ + 1]
             k3 == [k2 EXCEPT !.num_free_objs = @ + Objs[c]]
  <2>1. /\ k1 \in CacheRec /\ SameCounts(k, k1)
        /\ \A l \in Lists : k1.slabs[l] = IF l = "partial" THEN s ELSE k.slabs[l]
    BY <1>2, HeadSet
  <2>2. kc = k3
    BY DEF CacheRec
  <2> HIDE DEF k1, kc
  <2>3. /\ k2 \in CacheRec /\ k2.slabs = k1.slabs /\ k2.num_slabs = k1.num_slabs + 1
        /\ k2.num_active_objs = k1.num_active_objs /\ k2.num_free_objs = k1.num_free_objs
    BY ONLY <2>1 DEF CacheRec
  <2> HIDE DEF k2
  <2>4. /\ k3 \in CacheRec /\ k3.slabs = k2.slabs /\ k3.num_slabs = k2.num_slabs
        /\ k3.num_active_objs = k2.num_active_objs
        /\ k3.num_free_objs = k2.num_free_objs + Objs[c]
    BY ONLY <1>2, <2>3 DEF CacheRec
  <2> HIDE DEF k3
  <2> QED BY ONLY <2>1, <2>2, <2>3, <2>4 DEF SameCounts
<1> HIDE DEF kc, h
<1>9. /\ [cache |-> kc, slab |-> sm].cache = kc /\ [cache |-> kc, slab |-> sm].slab = sm
  OBVIOUS
<1>10. /\ DOMAIN sm = D \cup {s} /\ sm \in [DOMAIN sm -> SlabRec]
       /\ sm[s] = [next |-> h, prev |-> NoSlab, inuse |-> 0, free |-> Objs[c], freelist |-> Unchained(c)]
  BY <1>5, <1>7 DEF new, Unchained
<1>11. ASSUME NEW t \in DOMAIN sl
       PROVE  /\ sm[t].next = sl[t].next /\ sm[t].prev = IF t = h THEN s ELSE sl[t].prev
              /\ sm[t].inuse = sl[t].inuse /\ sm[t].free = sl[t].free
              /\ sm[t].freelist = sl[t].freelist
  BY ONLY <1>5, <1>7, t \in DOMAIN sl DEF SameObjects
<1>12. CreatedSlab(k, sl, c, s, [cache |-> kc, slab |-> sm])
  BY ONLY <1>8, <1>9, <1>10, <1>11 DEF CreatedSlab, h
<1> QED BY ONLY <1>1, <1>12

\* The new slab is the first on the partial list of its cache.
LEMMA CreateLinked ==
  ASSUME NEW ca, NEW sl, Shape(ca, sl), NEW own, NEW on, NEW pos, Belongs(sl, own, on, pos),
         Linked(ca, sl, own, on, pos), NEW c \in Caches, NEW s \in Slabs \ DOMAIN sl,
         NEW st, CreatedSlab(ca[c], sl, c, s, st)
  PROVE  LET cb == [ca EXCEPT ![c] = st.cache]
             ow == With(own, s, c)
             om == With(on, s, "partial")
             pm == Ahead(st.slab, pos, s)
         IN  /\ Shape(cb, st.slab) /\ Belongs(st.slab, ow, om, pm)
             /\ Linked(cb, st.slab, ow, om, pm)
<1> DEFINE D == DOMAIN sl
           sm == st.slab
           k == st.cache
           cb == [ca EXCEPT ![c] = k]
           ow == With(own, s, c)
           om == With(on, s, "partial")
           pm == Ahead(sm, pos, s)
           h == ca[c].slabs["partial"]
<1>0. /\ ca \in [Caches -> CacheRec] /\ NoSlab \notin D /\ s # NoSlab /\ s \notin D /\ D \in SUBSET Slabs
      /\ "partial" \in Lists
  BY SlabAssumption DEF Shape, Lists
<1>1. h # NoSlab => h \in D /\ own[h] = c /\ on[h] = "partial" /\ sl[h].prev = NoSlab
  BY <1>0 DEF Linked, HeadOf
<1>2. /\ DOMAIN sm = D \cup {s} /\ sm \in [DOMAIN sm -> SlabRec] /\ sm[s].next = h /\ sm[s].prev = NoSlab
      /\ \A t \in D : sm[t].next = sl[t].next /\ sm[t].prev = IF t = h THEN s ELSE sl[t].prev
      /\ k \in CacheRec
      /\ \A l \in Lists : k.slabs[l] = IF l = "partial" THEN s ELSE ca[c].slabs[l]
  BY DEF CreatedSlab
<1>3. /\ DOMAIN own = D /\ DOMAIN on = D
      /\ \A t \in D : own[t] \in Caches /\ on[t] \in Lists /\ pos[t] \in Nat
  BY DEF Belongs
<1> HIDE DEF sm, k, h
<1>4. /\ cb[c] = k /\ \A d \in Caches : d # c => cb[d] = ca[d]
  BY <1>0
<1>5. /\ ow[s] = c /\ om[s] = "partial" /\ pm[s] = 0
      /\ \A t \in D : ow[t] = own[t] /\ om[t] = on[t] /\ pm[t] = pos[t] + 1
  BY <1>0, <1>2, <1>3 DEF With, Ahead
<1>6. Shape(cb, sm)
  BY <1>0, <1>2 DEF Shape
<1>7. Belongs(sm, ow, om, pm)
  <2>1. DOMAIN ow = D \cup {s} /\ DOMAIN om = D \cup {s} /\ DOMAIN pm = D \cup {s}
    BY <1>2, <1>3 DEF With, Ahead
  <2>2. ow \in [D \cup {s} -> Caches] /\ om \in [D \cup {s} -> Lists]
    BY <1>0, <1>3 DEF With
  <2>3. pm \in [D \cup {s} -> Nat]
    BY <1>2, <1>3 DEF Ahead
  <2> QED BY <1>2, <2>2, <2>3 DEF Belongs
<1> HIDE DEF cb, ow, om, pm
<1>8. ASSUME NEW t \in D \cup {s} PROVE LinksOf(cb, sm, ow, om, pm, t)
  <2>1. CASE t = s
    <3>1. h # NoSlab => /\ h \in D \cup {s} /\ sm[h].prev = s /\ ow[h] = ow[s] /\ om[h] = om[s]
                      /\ pm[s] < pm[h]
      BY ONLY <1>1, <1>2, <1>3, <1>5
    <3>2. cb[ow[s]].slabs[om[s]] = s
      BY ONLY <1>0, <1>2, <1>4, <1>5
    <3> QED BY ONLY <1>2, <2>1, <3>1, <3>2 DEF LinksOf
  <2>2. CASE t \in D
    <3>0. /\ sl[t].next # NoSlab => /\ sl[t].next \in D /\ sl[sl[t].next].prev = t
                                  /\ own[sl[t].next] = own[t] /\ on[sl[t].next] = on[t]
                                  /\ pos[t] < pos[sl[t].next]
          /\ sl[t].prev # NoSlab => /\ sl[t].prev \in D /\ sl[sl[t].prev].next = t
                                  /\ own[sl[t].prev] = own[t] /\ on[sl[t].prev] = on[t]
          /\ sl[t].prev = NoSlab => ca[own[t]].slabs[on[t]] = t
      BY <2>2, Neighbours
    <3>1. sl[t].next # NoSlab => /\ sl[t].next \in D \cup {s} /\ sm[sl[t].next].prev = t
                               /\ ow[sl[t].next] = ow[t] /\ om[sl[t].next] = om[t]
                               /\ pm[t] < pm[sl[t].next]
      <4> SUFFICES ASSUME sl[t].next # NoSlab
                   PROVE  /\ sl[t].next \in D \cup {s} /\ sm[sl[t].next].prev = t
                          /\ ow[sl[t].next] = ow[t] /\ om[sl[t].next] = om[t]
                          /\ pm[t] < pm[sl[t].next]
        OBVIOUS
      <4>1. sl[t].next # h
        BY ONLY <1>0, <1>1, <2>2, <3>0, sl[t].next # NoSlab
      <4> QED BY ONLY <1>2, <1>3, <1>5, <2>2, <3>0, <4>1, sl[t].next # NoSlab
    <3>2. sm[t].prev # NoSlab => /\ sm[t].prev \in D \cup {s} /\ sm[sm[t].prev].next = t
                               /\ ow[sm[t].prev] = ow[t] /\ om[sm[t].prev] = om[t]
      <4>1. CASE t = h
        BY ONLY <1>0, <1>1, <1>2, <1>5, <2>2, <4>1
      <4>2. CASE t # h
        BY ONLY <1>2, <1>5, <2>2, <3>0, <4>2
      <4> QED BY ONLY <4>1, <4>2
    <3>3. sm[t].prev = NoSlab => cb[ow[t]].slabs[om[t]] = t
      <4>1. CASE t = h
        BY ONLY <1>0, <1>2, <2>2, <4>1
      <4>2. CASE t # h
        <5>1. own[t] # c \/ on[t] # "partial" \/ sl[t].prev # NoSlab
          BY ONLY <3>0, <4>2 DEF h
        <5> QED BY ONLY <1>2, <1>3, <1>4, <1>5, <2>2, <3>0, <4>2, <5>1
      <4> QED BY ONLY <4>1, <4>2
    <3>4. sm[t].next = sl[t].next
      BY ONLY <1>2, <2>2
    <3> QED BY ONLY <1>2, <3>1, <3>2, <3>3, <3>4 DEF LinksOf
  <2> QED BY <2>1, <2>2
<1>9. ASSUME NEW d \in Caches, NEW l \in Lists PROVE HeadOf(cb, sm, ow, om, d, l)
  <2> DEFINE w == ca[d].slabs[l]
  <2>0. w # NoSlab => w \in D /\ own[w] = d /\ on[w] = l /\ sl[w].prev = NoSlab
    BY DEF Linked, HeadOf
  <2>1. CASE d = c /\ l = "partial"
    <3>1. cb[d].slabs[l] = s
      BY ONLY <1>2, <1>4, <2>1, l \in Lists
    <3> QED BY ONLY <1>2, <1>5, <2>1, <3>1 DEF HeadOf
  <2>2. CASE ~(d = c /\ l = "partial")
    <3>1. cb[d].slabs[l] = w
      BY ONLY <1>2, <1>4, <2>2, d \in Caches, l \in Lists
    <3> HIDE DEF w
    <3>2. w # NoSlab => w # h
      BY ONLY <1>1, <2>0, <2>2
    <3>3. w # NoSlab => ow[w] = own[w] /\ om[w] = on[w] /\ sm[w].prev = NoSlab
      BY ONLY <1>2, <1>5, <2>0, <3>2
    <3> QED BY ONLY <1>2, <2>0, <3>1, <3>3 DEF HeadOf
  <2> QED BY <2>1, <2>2
<1>10. Linked(cb, sm, ow, om, pm)
  BY ONLY <1>2, <1>8, <1>9 DEF Linked
<1> QED BY ONLY <1>6, <1>7, <1>10 DEF sm, k, cb, ow, om, pm

\* The numbers of the objects of a new slab: each once.
LEMMA UnchainedIs ==
  ASSUME NEW c \in Caches
  PROVE  /\ Len(Unchained(c)) = Objs[c] /\ Objs[c] \in Nat
         /\ \A i \in 1 .. Objs[c] : Unchained(c)[i] \in Nat /\ Unchained(c)[i] < Objs[c]
         /\ \A i, j \in 1 .. Objs[c] : Unchained(c)[i] = Unchained(c)[j] => i = j
<1>1. Objs[c] \in Nat
  BY SlabAssumption
<1>2. Unchained(c) \in [1 .. Objs[c] -> Nat]
  BY <1>1 DEF Unchained
<1>3. Len(Unchained(c)) = Objs[c]
  BY <1>1, <1>2, FunctionIsSeq
<1>4. \A i \in 1 .. Objs[c] : Unchained(c)[i] = Objs[c] - i
  BY DEF Unchained
<1> QED BY <1>1, <1>3, <1>4

\* All objects of the new slab are free, and the counters of its cache know of them.
LEMMA CreateGood ==
  ASSUME NEW ca, NEW sl, NEW own, NEW on, NEW pos, NEW out, Good(ca, sl, own, on, pos, out),
         NEW c \in Caches, NEW s \in Slabs \ DOMAIN sl
  PROVE  LET st == slab_create([cache |-> ca[c], slab |-> sl], c, s)
         IN  /\ Good([ca EXCEPT ![c] = st.cache], st.slab, With(own, s, c),
                     With(on, s, "partial"), Ahead(st.slab, pos, s), out)
             /\ CreatedSlab(ca[c], sl, c, s, st)
<1> DEFINE D == DOMAIN sl
           st == slab_create([cache |-> ca[c], slab |-> sl], c, s)
           cb == [ca EXCEPT ![c] = st.cache]
           sm == st.slab
           ow == With(own, s, c)
           om == With(on, s, "partial")
           pm == Ahead(sm, pos, s)
<1>0. /\ Shape(ca, sl) /\ Belongs(sl, own, on, pos) /\ Linked(ca, sl, own, on, pos)
      /\ ca \in [Caches -> CacheRec] /\ ca[c] \in CacheRec /\ DOMAIN own = D
      /\ sl \in [DOMAIN sl -> SlabRec] /\ DOMAIN sl \in SUBSET Slabs
      /\ ca[c].slabs["partial"] # NoSlab => ca[c].slabs["partial"] \in DOMAIN sl
  BY DEF Good, Shape, Belongs, Linked, HeadOf, Lists
<1>1. CreatedSlab(ca[c], sl, c, s, st)
  <2> DEFINE k == ca[c]
  <2>1. k \in CacheRec /\ (k.slabs["partial"] # NoSlab => k.slabs["partial"] \in DOMAIN sl)
    BY <1>0
  <2> HIDE DEF k
  <2>2. CreatedSlab(k, sl, c, s, slab_create([cache |-> k, slab |-> sl], c, s))
    BY ONLY <1>0, <2>1, CreateRecords, c \in Caches, s \in Slabs \ DOMAIN sl
  <2> QED BY ONLY <2>2 DEF k
<1> HIDE DEF st
<1>2. Shape(cb, sm) /\ Belongs(sm, ow, om, pm) /\ Linked(cb, sm, ow, om, pm)
  BY <1>0, <1>1, CreateLinked
<1>3. /\ DOMAIN sm = D \cup {s} /\ sm[s].inuse = 0 /\ sm[s].free = Objs[c]
      /\ sm[s].freelist = Unchained(c)
      /\ \A t \in D : /\ sm[t].inuse = sl[t].inuse /\ sm[t].free = sl[t].free
                      /\ sm[t].freelist = sl[t].freelist
      /\ st.cache.num_slabs = ca[c].num_slabs + 1
      /\ st.cache.num_active_objs = ca[c].num_active_objs
      /\ st.cache.num_free_objs = ca[c].num_free_objs + Objs[c]
  BY <1>1 DEF CreatedSlab
<1>4. ow[s] = c /\ \A t \in D : ow[t] = own[t]
  BY <1>0 DEF With
<1>5. cb[c] = st.cache /\ \A d \in Caches : d # c => cb[d] = ca[d]
  BY <1>0
<1> HIDE DEF cb, sm, ow, om, pm
<1>6. OutOK(sl, own, out) /\ Content(sl, own, out) /\ Totals(ca, sl, own, out) /\ s \notin D
  BY DEF Good, Content
<1>7. \A o \in out : o[1] \in D /\ ow[o[1]] = own[o[1]] /\ o[1] # s
  BY <1>4, <1>6 DEF OutOK
<1>8. OutOK(sm, ow, out)
  BY <1>3, <1>6, <1>7 DEF OutOK
<1>9. ASSUME NEW t \in DOMAIN sm PROVE ContentOf(sm, ow, out, t)
  <2>1. CASE t = s
    <3>1. OutOf(out, s) = {}
      BY <1>7 DEF OutOf
    <3>2. Cardinality(OutOf(out, s)) = 0
      BY <3>1, FS_EmptySet
    <3>3. \A i \in 1 .. Objs[c] : <<s, Unchained(c)[i]>> \notin out
      BY <1>7
    <3>4. /\ Len(Unchained(c)) = Objs[c] /\ Objs[c] \in Nat
          /\ \A i \in 1 .. Objs[c] : Unchained(c)[i] \in Nat /\ Unchained(c)[i] < Objs[c]
          /\ \A i, j \in 1 .. Objs[c] : Unchained(c)[i] = Unchained(c)[j] => i = j
      BY UnchainedIs
    <3> QED BY ONLY <1>3, <1>4, <2>1, <3>2, <3>3, <3>4 DEF ContentOf
  <2>2. CASE t # s
    <3>1. t \in D /\ ContentOf(sl, own, out, t)
      BY <1>3, <1>6, <2>2 DEF Content
    <3> QED BY ONLY <1>3, <1>4, <3>1 DEF ContentOf
  <2> QED BY <2>1, <2>2
<1>10. Content(sm, ow, out)
  BY <1>8, <1>9 DEF Content
<1>11. ASSUME NEW d \in Caches PROVE TotalsOf(cb, sm, ow, out, d)
  <2>0. TotalsOf(ca, sl, own, out, d)
    BY <1>6 DEF Totals
  <2>1. OutFor(ow, out, d) = OutFor(own, out, d)
    BY <1>7 DEF OutFor
  <2>2. CASE d # c
    <3>1. SlabsOf(sm, ow, d) = SlabsOf(sl, own, d)
      BY <1>3, <1>4, <2>2 DEF SlabsOf
    <3> QED BY ONLY <1>5, <2>0, <2>1, <2>2, <3>1, d \in Caches DEF TotalsOf
  <2>3. CASE d = c
    <3> DEFINE S == SlabsOf(sl, own, c)
    <3>1. SlabsOf(sm, ow, c) = S \cup {s} /\ s \notin S
      BY <1>3, <1>4, <1>6 DEF SlabsOf
    <3>2. IsFiniteSet(S)
      <4>1. S \in SUBSET Slabs
        BY <1>0 DEF SlabsOf
      <4> QED BY <4>1, SlabAssumption, FS_Subset
    <3> HIDE DEF S
    <3>3. Cardinality(S \cup {s}) = Cardinality(S) + 1 /\ Cardinality(S) \in Nat
      BY <3>1, <3>2, FS_AddElement, FS_CardinalityType
    <3>4. Objs[c] \in Nat /\ ca[c].num_free_objs \in Int /\ ca[c].num_active_objs \in Int
      BY <1>0, SlabAssumption DEF CacheRec
    <3>5. Objs[c] * (Cardinality(S) + 1) = Objs[c] * Cardinality(S) + Objs[c]
      BY ONLY <3>3, <3>4
    <3>6. /\ ca[c].num_slabs = Cardinality(S)
          /\ ca[c].num_active_objs + ca[c].num_free_objs = Objs[c] * Cardinality(S)
          /\ ca[c].num_active_objs = Cardinality(OutFor(own, out, c))
      BY ONLY <2>0, <2>3 DEF TotalsOf, S
    <3>7. Objs[c] * Cardinality(S) \in Nat
      BY ONLY <3>3, <3>4
    <3>8. cb[c].num_active_objs + cb[c].num_free_objs = Objs[c] * Cardinality(S) + Objs[c]
      BY ONLY <1>3, <1>5, <3>4, <3>6, <3>7
    <3> QED BY ONLY <1>3, <1>5, <2>1, <2>3, <3>1, <3>3, <3>5, <3>6, <3>8 DEF TotalsOf
  <2> QED BY <2>2, <2>3
<1>12. Good(cb, sm, ow, om, pm, out)
  BY ONLY <1>2, <1>10, <1>11 DEF Good, Totals
<1> QED BY ONLY <1>1, <1>12 DEF cb, sm, ow, om, pm, st

-------------------------------------------------------------------------------
(* Objects are taken and put back.                                         *)

\* The chain of free objects and the counters of the slab s are set.
Counted(sl, s, fl, a, b, sm) ==
  /\ sm \in [DOMAIN sl -> SlabRec] /\ DOMAIN sm = DOMAIN sl
  /\ \A t \in DOMAIN sl : sm[t].next = sl[t].next /\ sm[t].prev = sl[t].prev
  /\ \A t \in DOMAIN sl : t # s => sm[t] = sl[t]
  /\ sm[s].freelist = fl /\ sm[s].inuse = a /\ sm[s].free = b

\* The three fields of one record.
LEMMA ObjectsSet ==
  ASSUME NEW sl, sl \in [DOMAIN sl -> SlabRec], NEW s \in DOMAIN sl,
         NEW fl \in Seq(Nat), NEW a \in Nat, NEW b \in Nat
  PROVE  Counted(sl, s, fl, a, b, [sl EXCEPT ![s].freelist = fl, ![s].inuse = a, ![s].free = b])
<1> DEFINE sm == [sl EXCEPT ![s].freelist = fl, ![s].inuse = a, ![s].free = b]
           r == [sl[s] EXCEPT !.freelist = fl, !.inuse = a, !.free = b]
<1>1. sl[s] \in SlabRec
  OBVIOUS
<1>2. /\ r \in SlabRec /\ r.next = sl[s].next /\ r.prev = sl[s].prev
      /\ r.freelist = fl /\ r.inuse = a /\ r.free = b
  BY <1>1 DEF SlabRec
<1>3. sm = [sl EXCEPT ![s] = r]
  OBVIOUS
<1> HIDE DEF sm, r
<1>4. DOMAIN sm = DOMAIN sl /\ sm[s] = r /\ \A t \in DOMAIN sl : t # s => sm[t] = sl[t]
  BY <1>3
<1>5. sm \in [DOMAIN sl -> SlabRec]
  BY <1>2, <1>3
<1>6. \A t \in DOMAIN sl : sm[t].next = sl[t].next /\ sm[t].prev = sl[t].prev
  BY ONLY <1>2, <1>4
<1>7. Counted(sl, s, fl, a, b, sm)
  BY ONLY <1>2, <1>4, <1>5, <1>6 DEF Counted
<1> QED BY <1>7 DEF sm

\* The rest of a change of one slab and its cache: the links stay, and so does the
\* content of the other slabs.
LEMMA CountedGood ==
  ASSUME NEW ca, NEW sl, NEW own, NEW on, NEW pos, NEW out, Good(ca, sl, own, on, pos, out),
         NEW s \in DOMAIN sl, NEW c, c = own[s],
         NEW fl, NEW a, NEW b, NEW sm, Counted(sl, s, fl, a, b, sm),
         NEW k \in CacheRec, k.slabs = ca[c].slabs, k.num_slabs = ca[c].num_slabs,
         k.num_active_objs + k.num_free_objs = ca[c].num_active_objs + ca[c].num_free_objs,
         NEW ov, OutOK(sl, own, ov), \A o \in ov : o \in out \/ o[1] = s,
         \A t \in DOMAIN sl : t # s => OutOf(ov, t) = OutOf(out, t),
         ContentOf(sm, own, ov, s),
         k.num_active_objs = Cardinality(OutFor(own, ov, c)),
         \A d \in Caches : d # c => OutFor(own, ov, d) = OutFor(own, out, d)
  PROVE  Good([ca EXCEPT ![c] = k], sm, own, on, pos, ov)
<1> DEFINE cb == [ca EXCEPT ![c] = k]
<1>1. /\ Shape(ca, sl) /\ Belongs(sl, own, on, pos) /\ Linked(ca, sl, own, on, pos)
      /\ Content(sl, own, out) /\ Totals(ca, sl, own, out)
  BY DEF Good
<1>2. c \in Caches /\ ca \in [Caches -> CacheRec] /\ DOMAIN sl \in SUBSET Slabs
  BY <1>1 DEF Shape, Belongs
<1>3. /\ sm \in [DOMAIN sl -> SlabRec] /\ DOMAIN sm = DOMAIN sl
      /\ \A t \in DOMAIN sl : sm[t].next = sl[t].next /\ sm[t].prev = sl[t].prev
      /\ \A t \in DOMAIN sl : t # s => sm[t] = sl[t]
  BY DEF Counted
<1>4. cb \in [Caches -> CacheRec] /\ cb[c] = k /\ \A d \in Caches : d # c => cb[d] = ca[d]
  BY <1>2
<1> HIDE DEF cb
<1>5. Shape(cb, sm)
  BY ONLY <1>2, <1>3, <1>4 DEF Shape
<1>6. \A d \in Caches, l \in Lists : cb[d].slabs[l] = ca[d].slabs[l]
  BY <1>4
<1>7. Belongs(sm, own, on, pos) /\ Linked(cb, sm, own, on, pos)
  BY ONLY <1>1, <1>3, <1>6, SameLinks
<1>8. OutOK(sm, own, ov)
  BY <1>3 DEF OutOK
<1>9. ASSUME NEW t \in DOMAIN sm PROVE ContentOf(sm, own, ov, t)
  <2>1. CASE t # s
    <3>1. t \in DOMAIN sl /\ ContentOf(sl, own, out, t) /\ sm[t] = sl[t] /\ OutOf(ov, t) = OutOf(out, t)
      BY <1>1, <1>3, <2>1 DEF Content
    <3>2. \A x : <<t, x>> \in ov => <<t, x>> \in out
      BY <2>1
    <3> QED BY ONLY <3>1, <3>2 DEF ContentOf
  <2> QED BY <2>1
<1>10. ASSUME NEW d \in Caches PROVE TotalsOf(cb, sm, own, ov, d)
  <2>1. TotalsOf(ca, sl, own, out, d) /\ SlabsOf(sm, own, d) = SlabsOf(sl, own, d)
    BY <1>1, <1>3 DEF Totals, SlabsOf
  <2>2. CASE d # c
    <3>1. cb[d] = ca[d] /\ OutFor(own, ov, d) = OutFor(own, out, d)
      BY <1>4, <2>2
    <3> QED BY ONLY <2>1, <3>1 DEF TotalsOf
  <2>3. CASE d = c
    BY <1>4, <2>1, <2>3 DEF TotalsOf
  <2> QED BY <2>2, <2>3
<1> QED BY ONLY <1>5, <1>7, <1>8, <1>9, <1>10 DEF Good, Content, Totals, cb

\* slab_alloc_obj and the counters of cache_alloc: the first free object goes out.
LEMMA TakeGood ==
  ASSUME NEW ca, NEW sl, NEW own, NEW on, NEW pos, NEW out, Good(ca, sl, own, on, pos, out),
         NEW s \in DOMAIN sl, NEW c, c = own[s], sl[s].freelist # <<>>
  PROVE  LET k == [ca[c] EXCEPT !.num_active_objs = @ + 1, !.num_free_objs = @ - 1]
             sm == [sl EXCEPT ![s].freelist = Tail(@), ![s].inuse = @ + 1, ![s].free = @ - 1]
             o == <<s, Head(sl[s].freelist)>>
         IN  /\ Good([ca EXCEPT ![c] = k], sm, own, on, pos, out \cup {o})
             /\ k.slabs = ca[c].slabs /\ o \notin out
             /\ Counted(sl, s, Tail(sl[s].freelist), sl[s].inuse + 1, sl[s].free - 1, sm)
<1> DEFINE fl == sl[s].freelist
           k == [ca[c] EXCEPT !.num_active_objs = @ + 1, !.num_free_objs = @ - 1]
           sm == [sl EXCEPT ![s].freelist = Tail(@), ![s].inuse = @ + 1, ![s].free = @ - 1]
           o == <<s, Head(fl)>>
           ov == out \cup {o}
           a == sl[s].inuse + 1
           b == sl[s].free - 1
<1>1. /\ Shape(ca, sl) /\ Content(sl, own, out) /\ Totals(ca, sl, own, out)
      /\ sl[s] \in SlabRec /\ c \in Caches /\ ca[c] \in CacheRec /\ sl \in [DOMAIN sl -> SlabRec]
  BY DEF Good, Shape, Belongs
<1>2. /\ OutOK(sl, own, out) /\ sl[s].free + sl[s].inuse = Objs[c] /\ Len(fl) = sl[s].free
      /\ \A i \in 1 .. Len(fl) : fl[i] < Objs[c] /\ <<s, fl[i]>> \notin out
      /\ \A i, j \in 1 .. Len(fl) : fl[i] = fl[j] => i = j
      /\ Cardinality(OutOf(out, s)) = sl[s].inuse
  BY <1>1 DEF Content, ContentOf
<1>3. fl \in Seq(Nat) /\ fl # <<>> /\ sl[s].free \in Nat /\ sl[s].inuse \in Nat /\ Objs[c] \in Nat
  BY <1>1, SlabAssumption DEF SlabRec
<1>4. /\ Len(fl) \in Nat /\ Len(fl) > 0 /\ Head(fl) = fl[1] /\ fl[1] \in Nat
      /\ Tail(fl) \in Seq(Nat) /\ Len(Tail(fl)) = Len(fl) - 1
      /\ \A i \in 1 .. Len(fl) - 1 : Tail(fl)[i] = fl[i + 1]
  BY ONLY <1>3
<1>5. a \in Nat /\ b \in Nat
  BY ONLY <1>2, <1>3, <1>4
<1>6. sm = [sl EXCEPT ![s].freelist = Tail(fl), ![s].inuse = a, ![s].free = b]
  OBVIOUS
<1>7. k = [ca[c] EXCEPT !.num_active_objs = ca[c].num_active_objs + 1,
                        !.num_free_objs = ca[c].num_free_objs - 1]
  OBVIOUS
<1> HIDE DEF fl, a, b, k, sm
<1>8. Counted(sl, s, Tail(fl), a, b, sm)
  BY ONLY <1>1, <1>4, <1>5, <1>6, ObjectsSet, s \in DOMAIN sl
<1>9. ca[c].num_active_objs \in Int /\ ca[c].num_free_objs \in Int
  BY ONLY <1>1 DEF CacheRec
<1>10. /\ k \in CacheRec /\ k.slabs = ca[c].slabs /\ k.num_slabs = ca[c].num_slabs
       /\ k.num_active_objs = ca[c].num_active_objs + 1
       /\ k.num_free_objs = ca[c].num_free_objs - 1
  <2> DEFINE x == ca[c].num_active_objs + 1
             y == ca[c].num_free_objs - 1
             e == ca[c]
  <2>1. x \in Int /\ y \in Int /\ e \in CacheRec /\ k = [e EXCEPT !.num_active_objs = x, !.num_free_objs = y]
    BY ONLY <1>1, <1>7, <1>9
  <2> HIDE DEF x, y, e
  <2>2. /\ k \in CacheRec /\ k.slabs = e.slabs /\ k.num_slabs = e.num_slabs
        /\ k.num_active_objs = x /\ k.num_free_objs = y
    BY ONLY <2>1 DEF CacheRec
  <2> QED BY ONLY <2>2 DEF x, y, e
<1>11. k.num_active_objs + k.num_free_objs = ca[c].num_active_objs + ca[c].num_free_objs
  BY ONLY <1>9, <1>10
<1>12. o = <<s, fl[1]>> /\ o[1] = s /\ o[2] = fl[1] /\ o \notin out
  BY ONLY <1>2, <1>4
<1> HIDE DEF o
<1>13. OutOK(sl, own, ov)
  <2>1. IsFiniteSet(ov)
    BY <1>2, FS_AddElement DEF OutOK
  <2>2. fl[1] < Objs[c]
    <3>1. 1 \in 1 .. Len(fl)
      BY ONLY <1>4
    <3> QED BY ONLY <1>2, <3>1
  <2> QED BY <1>2, <1>4, <1>12, <2>1, <2>2 DEF OutOK
<1>14. \A t \in DOMAIN sl : t # s => OutOf(ov, t) = OutOf(out, t)
  BY <1>12 DEF OutOf
<1>15. Cardinality(OutOf(ov, s)) = a
  <2>1. OutOf(ov, s) = OutOf(out, s) \cup {o} /\ o \notin OutOf(out, s)
    BY <1>12 DEF OutOf
  <2>2. OutOf(out, s) \in SUBSET out
    BY DEF OutOf
  <2>3. IsFiniteSet(OutOf(out, s))
    BY <1>2, <2>2, FS_Subset DEF OutOK
  <2> QED BY <1>2, <2>1, <2>3, FS_AddElement DEF a
<1>16. ContentOf(sm, own, ov, s)
  <2>1. sm[s].freelist = Tail(fl) /\ sm[s].inuse = a /\ sm[s].free = b
    BY ONLY <1>8 DEF Counted
  <2>2. ASSUME NEW i \in 1 .. Len(Tail(fl))
        PROVE  Tail(fl)[i] < Objs[c] /\ <<s, Tail(fl)[i]>> \notin ov
    <3>1. i + 1 \in 1 .. Len(fl) /\ 1 \in 1 .. Len(fl) /\ i + 1 # 1 /\ Tail(fl)[i] = fl[i + 1]
      BY ONLY <1>4, i \in 1 .. Len(Tail(fl))
    <3>2. fl[i + 1] # fl[1] /\ fl[i + 1] < Objs[c] /\ <<s, fl[i + 1]>> \notin out
      BY ONLY <1>2, <3>1
    <3> QED BY ONLY <1>12, <3>1, <3>2
  <2>3. ASSUME NEW i \in 1 .. Len(Tail(fl)), NEW j \in 1 .. Len(Tail(fl)), Tail(fl)[i] = Tail(fl)[j]
        PROVE  i = j
    <3>1. /\ i + 1 \in 1 .. Len(fl) /\ j + 1 \in 1 .. Len(fl) /\ i \in Nat /\ j \in Nat
          /\ Tail(fl)[i] = fl[i + 1] /\ Tail(fl)[j] = fl[j + 1]
      BY ONLY <1>4, i \in 1 .. Len(Tail(fl)), j \in 1 .. Len(Tail(fl))
    <3>2. i + 1 = j + 1
      BY ONLY <1>2, <2>3, <3>1
    <3> QED BY ONLY <3>1, <3>2
  <2>4. b + a = Objs[own[s]] /\ Len(Tail(fl)) = b
    BY ONLY <1>2, <1>3, <1>4, c = own[s] DEF a, b
  <2> QED BY ONLY <1>15, <2>1, <2>2, <2>3, <2>4, c = own[s] DEF ContentOf
<1>17. /\ \A d \in Caches : d # c => OutFor(own, ov, d) = OutFor(own, out, d)
       /\ OutFor(own, ov, c) = OutFor(own, out, c) \cup {o} /\ o \notin OutFor(own, out, c)
  BY <1>12 DEF OutFor
<1>18. k.num_active_objs = Cardinality(OutFor(own, ov, c))
  <2>1. OutFor(own, out, c) \in SUBSET out
    BY DEF OutFor
  <2>2. IsFiniteSet(OutFor(own, out, c))
    BY <1>2, <2>1, FS_Subset DEF OutOK
  <2>3. Cardinality(OutFor(own, ov, c)) = Cardinality(OutFor(own, out, c)) + 1
    BY <1>17, <2>2, FS_AddElement
  <2>4. ca[c].num_active_objs = Cardinality(OutFor(own, out, c))
    BY <1>1 DEF Totals, TotalsOf
  <2> QED BY ONLY <1>10, <2>3, <2>4
<1>19. \A q \in ov : q \in out \/ q[1] = s
  BY <1>12
<1> HIDE DEF ov
<1>20. Good([ca EXCEPT ![c] = k], sm, own, on, pos, ov)
  BY ONLY Good(ca, sl, own, on, pos, out), s \in DOMAIN sl, c = own[s], <1>8, <1>10, <1>11, <1>13,
          <1>14, <1>16, <1>17, <1>18, <1>19, CountedGood
<1> QED BY ONLY <1>8, <1>10, <1>12, <1>20 DEF k, sm, ov, o, fl, a, b

\* slab_free_obj and the counters of cache_free: an object comes back first in line.
LEMMA PutGood ==
  ASSUME NEW ca, NEW sl, NEW own, NEW on, NEW pos, NEW out, Good(ca, sl, own, on, pos, out),
         NEW o \in out, NEW s, s = o[1], NEW c, c = own[s]
  PROVE  LET k == [ca[c] EXCEPT !.num_active_objs = @ - 1, !.num_free_objs = @ + 1]
             sm == [sl EXCEPT ![s].freelist = <<o[2]>> \o @, ![s].inuse = @ - 1, ![s].free = @ + 1]
         IN  /\ Good([ca EXCEPT ![c] = k], sm, own, on, pos, out \ {o})
             /\ sl[s].inuse > 0
             /\ Counted(sl, s, <<o[2]>> \o sl[s].freelist, sl[s].inuse - 1, sl[s].free + 1, sm)
<1> DEFINE fl == sl[s].freelist
           fm == <<o[2]>> \o fl
           k == [ca[c] EXCEPT !.num_active_objs = @ - 1, !.num_free_objs = @ + 1]
           sm == [sl EXCEPT ![s].freelist = <<o[2]>> \o @, ![s].inuse = @ - 1, ![s].free = @ + 1]
           ov == out \ {o}
           a == sl[s].inuse - 1
           b == sl[s].free + 1
<1>0. OutOK(sl, own, out) /\ Shape(ca, sl) /\ Content(sl, own, out) /\ Totals(ca, sl, own, out)
  BY DEF Good, Content
<1>1. /\ o = <<s, o[2]>> /\ s \in DOMAIN sl /\ o[2] \in Nat /\ o[2] < Objs[c]
  BY <1>0 DEF OutOK
<1>2. /\ sl[s] \in SlabRec /\ c \in Caches /\ ca[c] \in CacheRec /\ sl \in [DOMAIN sl -> SlabRec]
  BY <1>0, <1>1 DEF Good, Shape, Belongs
<1>3. /\ sl[s].free + sl[s].inuse = Objs[c] /\ Len(fl) = sl[s].free
      /\ \A i \in 1 .. Len(fl) : fl[i] < Objs[c] /\ <<s, fl[i]>> \notin out
      /\ \A i, j \in 1 .. Len(fl) : fl[i] = fl[j] => i = j
      /\ Cardinality(OutOf(out, s)) = sl[s].inuse
  BY <1>0, <1>1 DEF Content, ContentOf
<1>4. fl \in Seq(Nat) /\ sl[s].free \in Nat /\ sl[s].inuse \in Nat /\ Objs[c] \in Nat
  BY <1>2, SlabAssumption DEF SlabRec
<1>5. /\ Len(fl) \in Nat /\ fm \in Seq(Nat) /\ Len(fm) = Len(fl) + 1 /\ fm[1] = o[2]
      /\ \A i \in 1 .. Len(fl) : fm[i + 1] = fl[i]
  <2>1. <<o[2]>> \in Seq(Nat) /\ Len(<<o[2]>>) = 1 /\ <<o[2]>>[1] = o[2] /\ Len(fl) \in Nat
    BY <1>1, <1>4
  <2>2. /\ fm \in Seq(Nat) /\ Len(fm) = Len(<<o[2]>>) + Len(fl)
        /\ \A i \in 1 .. Len(<<o[2]>>) : fm[i] = <<o[2]>>[i]
        /\ \A i \in 1 .. Len(fl) : fm[Len(<<o[2]>>) + i] = fl[i]
    <3> HIDE DEF fl
    <3> QED BY ONLY <1>4, <2>1, Joined
  <2> HIDE DEF fm, fl
  <2>3. Len(fm) = Len(fl) + 1 /\ 1 \in 1 .. Len(<<o[2]>>)
    BY ONLY <2>1, <2>2
  <2>4. fm[1] = o[2]
    BY ONLY <2>1, <2>2, <2>3
  <2>5. \A i \in 1 .. Len(fl) : fm[i + 1] = fl[i]
    <3> SUFFICES ASSUME NEW i \in 1 .. Len(fl) PROVE fm[i + 1] = fl[i]
      OBVIOUS
    <3>1. Len(<<o[2]>>) + i = i + 1
      BY ONLY <2>1, i \in 1 .. Len(fl)
    <3>2. fm[Len(<<o[2]>>) + i] = fl[i]
      BY ONLY <2>2, i \in 1 .. Len(fl)
    <3> QED BY ONLY <3>1, <3>2
  <2> QED BY ONLY <2>1, <2>2, <2>3, <2>4, <2>5
<1>6. o \in OutOf(out, s) /\ IsFiniteSet(OutOf(out, s)) /\ OutOf(ov, s) = OutOf(out, s) \ {o}
  <2>1. OutOf(out, s) \in SUBSET out
    BY DEF OutOf
  <2>2. IsFiniteSet(OutOf(out, s))
    BY <1>0, <2>1, FS_Subset DEF OutOK
  <2> QED BY <2>2 DEF OutOf
<1>7. Cardinality(OutOf(ov, s)) = a /\ Cardinality(OutOf(out, s)) # 0
  <2>1. Cardinality(OutOf(ov, s)) = Cardinality(OutOf(out, s)) - 1
    BY <1>6, FS_RemoveElement
  <2>2. OutOf(out, s) # {}
    BY <1>6
  <2>3. Cardinality(OutOf(out, s)) # 0
    BY <1>6, <2>2, FS_EmptySet
  <2> QED BY <1>3, <2>1, <2>3
<1>8. a \in Nat /\ b \in Nat /\ sl[s].inuse > 0
  BY <1>3, <1>4, <1>7
<1>9. sm = [sl EXCEPT ![s].freelist = fm, ![s].inuse = a, ![s].free = b]
  OBVIOUS
<1>10. k = [ca[c] EXCEPT !.num_active_objs = ca[c].num_active_objs - 1,
                         !.num_free_objs = ca[c].num_free_objs + 1]
  OBVIOUS
<1> HIDE DEF fl, fm, a, b, k, sm
<1>11. Counted(sl, s, fm, a, b, sm)
  BY ONLY <1>1, <1>2, <1>5, <1>8, <1>9, ObjectsSet
<1>12. ca[c].num_active_objs \in Int /\ ca[c].num_free_objs \in Int
  BY ONLY <1>2 DEF CacheRec
<1>13. /\ k \in CacheRec /\ k.slabs = ca[c].slabs /\ k.num_slabs = ca[c].num_slabs
       /\ k.num_active_objs = ca[c].num_active_objs - 1
       /\ k.num_free_objs = ca[c].num_free_objs + 1
  <2> DEFINE x == ca[c].num_active_objs - 1
             y == ca[c].num_free_objs + 1
             e == ca[c]
  <2>1. x \in Int /\ y \in Int /\ e \in CacheRec /\ k = [e EXCEPT !.num_active_objs = x, !.num_free_objs = y]
    BY ONLY <1>2, <1>10, <1>12
  <2> HIDE DEF x, y, e
  <2>2. /\ k \in CacheRec /\ k.slabs = e.slabs /\ k.num_slabs = e.num_slabs
        /\ k.num_active_objs = x /\ k.num_free_objs = y
    BY ONLY <2>1 DEF CacheRec
  <2> QED BY ONLY <2>2 DEF x, y, e
<1>14. k.num_active_objs + k.num_free_objs = ca[c].num_active_objs + ca[c].num_free_objs
  BY ONLY <1>12, <1>13
<1>15. OutOK(sl, own, ov)
  <2>1. IsFiniteSet(ov)
    BY <1>0, FS_RemoveElement DEF OutOK
  <2> QED BY <1>0, <2>1 DEF OutOK
<1>16. \A t \in DOMAIN sl : t # s => OutOf(ov, t) = OutOf(out, t)
  BY <1>1 DEF OutOf
<1>17. ContentOf(sm, own, ov, s)
  <2>1. sm[s].freelist = fm /\ sm[s].inuse = a /\ sm[s].free = b
    BY ONLY <1>11 DEF Counted
  <2>2. \A i \in 1 .. Len(fm) : i = 1 \/ (i - 1 \in 1 .. Len(fl) /\ fm[i] = fl[i - 1])
    <3> SUFFICES ASSUME NEW i \in 1 .. Len(fm), i # 1
                 PROVE  i - 1 \in 1 .. Len(fl) /\ fm[i] = fl[i - 1]
      OBVIOUS
    <3>1. i - 1 \in 1 .. Len(fl) /\ (i - 1) + 1 = i
      BY ONLY <1>5, i \in 1 .. Len(fm), i # 1
    <3>2. fm[(i - 1) + 1] = fl[i - 1]
      BY ONLY <1>5, <3>1
    <3> QED BY ONLY <3>1, <3>2
  <2>3. ASSUME NEW i \in 1 .. Len(fm)
        PROVE  fm[i] < Objs[c] /\ <<s, fm[i]>> \notin ov
    <3>1. CASE i = 1
      BY ONLY <1>1, <1>5, <3>1 DEF ov
    <3>2. CASE i # 1
      BY ONLY <1>3, <2>2, <3>2, i \in 1 .. Len(fm) DEF ov
    <3> QED BY <3>1, <3>2
  <2>4. \A i \in 1 .. Len(fl) : fl[i] # o[2]
    BY ONLY <1>1, <1>3, o \in out
  <2>5. ASSUME NEW i \in 1 .. Len(fm), NEW j \in 1 .. Len(fm), fm[i] = fm[j]
        PROVE  i = j
    <3>0. i \in Nat /\ j \in Nat
      BY ONLY <1>5, i \in 1 .. Len(fm), j \in 1 .. Len(fm)
    <3>1. CASE i = 1 /\ j = 1
      BY ONLY <3>1
    <3>2. CASE i = 1 /\ j # 1
      BY ONLY <1>5, <2>2, <2>4, <2>5, <3>2, j \in 1 .. Len(fm)
    <3>3. CASE i # 1 /\ j = 1
      BY ONLY <1>5, <2>2, <2>4, <2>5, <3>3, i \in 1 .. Len(fm)
    <3>4. CASE i # 1 /\ j # 1
      <4>1. i - 1 = j - 1
        BY ONLY <1>3, <2>2, <2>5, <3>4, i \in 1 .. Len(fm), j \in 1 .. Len(fm)
      <4> QED BY ONLY <3>0, <4>1
    <3> QED BY ONLY <3>1, <3>2, <3>3, <3>4
  <2>6. b + a = Objs[own[s]] /\ Len(fm) = b
    <3>1. sl[s].free + sl[s].inuse = Objs[own[s]] /\ sl[s].free \in Nat /\ sl[s].inuse \in Nat
      BY ONLY <1>3, <1>4, c = own[s]
    <3>2. b + a = Objs[own[s]]
      BY ONLY <3>1 DEF a, b
    <3>3. Len(fm) = b
      BY ONLY <1>3, <1>5 DEF b
    <3> QED BY ONLY <3>2, <3>3
  <2> QED BY ONLY <1>7, <2>1, <2>3, <2>5, <2>6, c = own[s] DEF ContentOf
<1>18. /\ \A d \in Caches : d # c => OutFor(own, ov, d) = OutFor(own, out, d)
       /\ OutFor(own, ov, c) = OutFor(own, out, c) \ {o} /\ o \in OutFor(own, out, c)
  BY <1>1 DEF OutFor
<1>19. k.num_active_objs = Cardinality(OutFor(own, ov, c))
  <2>1. OutFor(own, out, c) \in SUBSET out
    BY DEF OutFor
  <2>2. IsFiniteSet(OutFor(own, out, c))
    BY <1>0, <2>1, FS_Subset DEF OutOK
  <2>3. Cardinality(OutFor(own, ov, c)) = Cardinality(OutFor(own, out, c)) - 1
    BY <1>18, <2>2, FS_RemoveElement
  <2>4. ca[c].num_active_objs = Cardinality(OutFor(own, out, c))
    BY <1>0, <1>2 DEF Totals, TotalsOf
  <2> QED BY ONLY <1>13, <2>3, <2>4
<1>20. \A q \in ov : q \in out \/ q[1] = s
  OBVIOUS
<1> HIDE DEF ov
<1>21. Good([ca EXCEPT ![c] = k], sm, own, on, pos, ov)
  <2>1. s \in DOMAIN sl
    BY <1>1
  <2>2. \A d \in Caches : d # c => OutFor(own, ov, d) = OutFor(own, out, d)
    BY <1>18
  <2> QED BY ONLY Good(ca, sl, own, on, pos, out), c = own[s], <1>11, <1>13, <1>14, <1>15,
                  <1>16, <1>17, <1>19, <1>20, <2>1, <2>2, CountedGood
<1> QED BY ONLY <1>8, <1>11, <1>21 DEF k, sm, ov, fm, fl, a, b

-------------------------------------------------------------------------------
(* cache_alloc.                                                            *)

\* The head of the partial list is ready to give an object; the other slabs are
\* where they belong.
ReadyToGive(ca, sl, own, on, pos, out, c) ==
  LET s == ca[c].slabs["partial"]
  IN  /\ Good(ca, sl, own, on, pos, out)
      /\ s \in DOMAIN sl /\ own[s] = c /\ on[s] = "partial"
      /\ Objs[c] > 0 => sl[s].free > 0
      /\ \A t \in DOMAIN sl : t # s => ListingOf(sl, own, on, t)

\* A slab that kept its objects, its owner and its list is still where it belongs.
LEMMA SameListing ==
  ASSUME NEW sl, NEW sm, NEW own, NEW on, NEW om, NEW t,
         sm[t].free = sl[t].free, sm[t].inuse = sl[t].inuse, om[t] = on[t],
         ListingOf(sl, own, on, t)
  PROVE  ListingOf(sm, own, om, t)
BY DEF ListingOf

\* What the records of one slab say, when all is good.
LEMMA GoodSlab ==
  ASSUME NEW ca, NEW sl, NEW own, NEW on, NEW pos, NEW out, Good(ca, sl, own, on, pos, out),
         NEW s \in DOMAIN sl
  PROVE  /\ s \in Slabs /\ s # NoSlab /\ own[s] \in Caches /\ on[s] \in Lists
         /\ Objs[own[s]] \in Nat /\ sl[s].free \in Nat /\ sl[s].inuse \in Nat
         /\ sl[s].free + sl[s].inuse = Objs[own[s]]
         /\ sl[s].freelist \in Seq(Nat) /\ Len(sl[s].freelist) = sl[s].free
<1>1. Shape(ca, sl) /\ Belongs(sl, own, on, pos) /\ Content(sl, own, out)
  BY DEF Good
<1>2. s \in Slabs /\ sl[s] \in SlabRec
  BY <1>1 DEF Shape
<1>3. own[s] \in Caches /\ on[s] \in Lists
  BY <1>1 DEF Belongs
<1>4. ContentOf(sl, own, out, s)
  BY <1>1 DEF Content
<1> QED BY <1>2, <1>3, <1>4, SlabAssumption DEF SlabRec, ContentOf

\* The rest of cache_alloc: the object is taken, and the slab leaves the partial list
\* with its last one.
LEMMA TakeListed ==
  ASSUME NEW ca, NEW sl, NEW own, NEW on, NEW pos, NEW out, NEW c \in Caches,
         ReadyToGive(ca, sl, own, on, pos, out, c), NEW s, s = ca[c].slabs["partial"]
  PROVE  /\ Len(sl[s].freelist) = 0 => Listing(sl, own, on)
         /\ sl[s].freelist # <<>> =>
              LET st == TakeObject([cache |-> ca[c], slab |-> sl], s)
                  o == <<s, Head(sl[s].freelist)>>
              IN  /\ o \notin out
                  /\ \E om, pm : /\ Good([ca EXCEPT ![c] = st.cache], st.slab, own, om, pm, out \cup {o})
                                 /\ Listing(st.slab, own, om)
<1>0. /\ Good(ca, sl, own, on, pos, out) /\ s \in DOMAIN sl /\ own[s] = c /\ on[s] = "partial"
      /\ Objs[c] > 0 => sl[s].free > 0
      /\ \A t \in DOMAIN sl : t # s => ListingOf(sl, own, on, t)
  BY DEF ReadyToGive
<1>1. /\ Objs[c] \in Nat /\ sl[s].free \in Nat /\ sl[s].inuse \in Nat
      /\ sl[s].free + sl[s].inuse = Objs[c]
      /\ sl[s].freelist \in Seq(Nat) /\ Len(sl[s].freelist) = sl[s].free
  BY <1>0, GoodSlab
<1>2. ASSUME Len(sl[s].freelist) = 0 PROVE Listing(sl, own, on)
  <2>2. Objs[c] = 0
    BY <1>2, <1>0, <1>1
  <2>3. ListingOf(sl, own, on, s)
    BY <2>2, <1>0 DEF ListingOf
  <2> QED BY <2>3, <1>0 DEF Listing
<1>3. ASSUME sl[s].freelist # <<>>
      PROVE  LET st == TakeObject([cache |-> ca[c], slab |-> sl], s)
                 o == <<s, Head(sl[s].freelist)>>
             IN  /\ o \notin out
                 /\ \E om, pm : /\ Good([ca EXCEPT ![c] = st.cache], st.slab, own, om, pm, out \cup {o})
                                /\ Listing(st.slab, own, om)
  <2> DEFINE k == [ca[c] EXCEPT !.num_active_objs = @ + 1, !.num_free_objs = @ - 1]
             sm == [sl EXCEPT ![s].freelist = Tail(@), ![s].inuse = @ + 1, ![s].free = @ - 1]
             o == <<s, Head(sl[s].freelist)>>
             st == TakeObject([cache |-> ca[c], slab |-> sl], s)
             cb == [ca EXCEPT ![c] = k]
  <2>1. /\ Good(cb, sm, own, on, pos, out \cup {o}) /\ o \notin out
        /\ Counted(sl, s, Tail(sl[s].freelist), sl[s].inuse + 1, sl[s].free - 1, sm)
    BY <1>0, <1>3, TakeGood
  <2>2. st = IF sm[s].free = 0 THEN move_slab([cache |-> k, slab |-> sm], "partial", "full", s)
             ELSE [cache |-> k, slab |-> sm]
    BY DEF TakeObject
  <2> HIDE DEF k, sm, o, st
  <2>3. /\ DOMAIN sm = DOMAIN sl /\ sm[s].inuse = sl[s].inuse + 1 /\ sm[s].free = sl[s].free - 1
        /\ \A t \in DOMAIN sl : t # s => sm[t] = sl[t]
    BY <2>1 DEF Counted
  <2>4. ca \in [Caches -> CacheRec] /\ cb[c] = k
    BY <1>0 DEF Good, Shape
  <2>5. sl[s].free > 0
    <3>1. CASE sl[s].free = 0
      <4>1. sl[s].freelist = <<>>
        BY <3>1, <1>1
      <4> QED BY <4>1, <1>3
    <3> QED BY <3>1, <1>1
  <2>6. ASSUME sm[s].free = 0
        PROVE  \E om, pm : /\ Good([ca EXCEPT ![c] = st.cache], st.slab, own, om, pm, out \cup {o})
                           /\ Listing(st.slab, own, om)
    <3> DEFINE om == [on EXCEPT ![s] = "full"]
               pm == Ahead(sm, pos, s)
               mv == move_slab([cache |-> cb[c], slab |-> sm], "partial", "full", s)
    <3>1. "full" \in Lists /\ "partial" # "full"
      BY DEF Lists
    <3>2. Good([cb EXCEPT ![c] = mv.cache], mv.slab, own, om, pm, out \cup {o})
          /\ SameObjects(sm, mv.slab)
      <4> HIDE DEF cb
      <4> QED BY <1>0, <2>1, <2>3, <3>1, MoveGood
    <3>3. st = mv
      BY <2>2, <2>4, <2>6
    <3> HIDE DEF mv
    <3>4. [cb EXCEPT ![c] = st.cache] = [ca EXCEPT ![c] = st.cache]
      BY <2>4
    <3>5. /\ DOMAIN st.slab = DOMAIN sl
          /\ \A t \in DOMAIN sl : st.slab[t].free = sm[t].free /\ st.slab[t].inuse = sm[t].inuse
      BY <3>2, <3>3, <2>3 DEF SameObjects
    <3>6. on \in [DOMAIN sl -> Lists]
      BY <1>0 DEF Good, Belongs
    <3>7. ListingOf(st.slab, own, om, s)
      BY <3>5, <3>6, <2>6, <1>0 DEF ListingOf
    <3>8. ASSUME NEW t \in DOMAIN sl, t # s PROVE ListingOf(st.slab, own, om, t)
      <4>1. om[t] = on[t] /\ st.slab[t].free = sl[t].free /\ st.slab[t].inuse = sl[t].inuse
        BY <3>5, <3>6, <3>8, <2>3
      <4>2. ListingOf(sl, own, on, t)
        BY <1>0, <3>8
      <4> QED BY <4>1, <4>2, SameListing
    <3>9. Listing(st.slab, own, om)
      BY <3>5, <3>7, <3>8 DEF Listing
    <3> HIDE DEF om, pm
    <3> QED BY <3>2, <3>3, <3>4, <3>9
  <2>7. ASSUME sm[s].free # 0
        PROVE  \E om, pm : /\ Good([ca EXCEPT ![c] = st.cache], st.slab, own, om, pm, out \cup {o})
                           /\ Listing(st.slab, own, om)
    <3>1. st.cache = k /\ st.slab = sm
      BY <2>2, <2>7
    <3>2. ListingOf(sm, own, on, s)
      BY <2>3, <2>5, <2>7, <1>0, <1>1 DEF ListingOf
    <3>3. ASSUME NEW t \in DOMAIN sl, t # s PROVE ListingOf(sm, own, on, t)
      <4>1. sm[t] = sl[t] /\ ListingOf(sl, own, on, t)
        BY <1>0, <2>3, <3>3
      <4> QED BY <4>1, SameListing
    <3>4. Listing(sm, own, on)
      BY <3>2, <3>3, <2>3 DEF Listing
    <3> QED BY <3>1, <3>4, <2>1
  <2>8. \E om, pm : /\ Good([ca EXCEPT ![c] = st.cache], st.slab, own, om, pm, out \cup {o})
                    /\ Listing(st.slab, own, om)
    BY <2>6, <2>7
  <2>9. o \notin out
    BY <2>1
  <2> QED BY <2>8, <2>9 DEF st, o
<1> QED BY <1>2, <1>3

\* The head of a list of a cache that is not empty.
LEMMA HeadIs ==
  ASSUME NEW ca, NEW sl, NEW own, NEW on, NEW pos, NEW out, Good(ca, sl, own, on, pos, out),
         NEW c \in Caches, NEW l \in Lists, ca[c].slabs[l] # NoSlab
  PROVE  LET h == ca[c].slabs[l] IN h \in DOMAIN sl /\ own[h] = c /\ on[h] = l
<1>1. HeadOf(ca, sl, own, on, c, l)
  BY DEF Good, Linked
<1> QED BY <1>1 DEF HeadOf

\* The slab that cache_alloc finds, moves from the empty list or creates is ready.
LEMMA PreparedReady ==
  ASSUME NEW own, NEW on, NEW pos, NEW out, Good(cache, slab, own, on, pos, out),
         Listing(slab, own, on), NEW c \in Caches, NEW st \in Prepared(c)
  PROVE  \E ow, om, pm : ReadyToGive([cache EXCEPT ![c] = st.cache], st.slab, ow, om, pm, out, c)
<1> DEFINE in == [cache |-> cache[c], slab |-> slab]
           e == cache[c].slabs["empty"]
           p == cache[c].slabs["partial"]
           cb == [cache EXCEPT ![c] = st.cache]
<1>0. cache \in [Caches -> CacheRec] /\ "empty" \in Lists /\ "partial" \in Lists
  BY DEF Good, Shape, Lists
<1>1. /\ p # NoSlab => st = in
      /\ p = NoSlab /\ e # NoSlab => st = move_slab(in, "empty", "partial", e)
      /\ p = NoSlab /\ e = NoSlab => \E s \in Slabs \ DOMAIN slab : st = slab_create(in, c, s)
  BY Zenon DEF Prepared, SlabsReady
<1>2. cb[c] = st.cache
  BY <1>0
<1>3. ASSUME p # NoSlab PROVE ReadyToGive(cb, st.slab, own, on, pos, out, c)
  <2>1. st.cache = cache[c] /\ st.slab = slab
    BY <1>1, <1>3
  <2>2. cb = cache
    BY <2>1, <1>0
  <2>3. p \in DOMAIN slab /\ own[p] = c /\ on[p] = "partial"
    BY <1>0, <1>3, HeadIs
  <2>4. \A t \in DOMAIN slab : ListingOf(slab, own, on, t)
    BY DEF Listing
  <2>5. Objs[c] > 0 => slab[p].free > 0
    BY <2>3, <2>4 DEF ListingOf
  <2> HIDE DEF cb
  <2> QED BY <2>1, <2>2, <2>3, <2>4, <2>5 DEF ReadyToGive
<1>4. ASSUME p = NoSlab, e # NoSlab
      PROVE  ReadyToGive(cb, st.slab, own, [on EXCEPT ![e] = "partial"], Ahead(slab, pos, e), out, c)
  <2> DEFINE om == [on EXCEPT ![e] = "partial"]
             pm == Ahead(slab, pos, e)
  <2>1. e \in DOMAIN slab /\ own[e] = c /\ on[e] = "empty" /\ "empty" # "partial"
    BY <1>0, <1>4, HeadIs
  <2>2. st = move_slab([cache |-> cache[c], slab |-> slab], "empty", "partial", e)
    BY <1>1, <1>4
  <2>3. Good(cb, st.slab, own, om, pm, out) /\ SameObjects(slab, st.slab)
    BY <1>0, <2>1, <2>2, MoveGood
  <2>4. /\ on \in [DOMAIN slab -> Lists] /\ NoSlab \notin DOMAIN slab
        /\ cache[c] \in CacheRec
    BY <1>0, SlabAssumption DEF Good, Belongs, Shape
  <2>5. st.cache.slabs["partial"] = e
    <3>1. Moved(cache[c], slab, "empty", "partial", e, st)
      <4>1. Shape(cache, slab) /\ Belongs(slab, own, on, pos) /\ Linked(cache, slab, own, on, pos)
        BY DEF Good
      <4>2. /\ slab \in [DOMAIN slab -> SlabRec] /\ DOMAIN slab \in SUBSET Slabs
            /\ slab[e].prev # NoSlab => slab[e].prev \in DOMAIN slab
            /\ slab[e].next # NoSlab => slab[e].next \in DOMAIN slab
        BY <2>1, <4>1, Neighbours DEF Shape
      <4> QED BY <1>0, <1>4, <2>1, <2>2, <2>4, <4>2, MovePointers
    <3> QED BY <3>1, <1>0 DEF Moved, MovedHead
  <2>6. /\ DOMAIN st.slab = DOMAIN slab
        /\ \A t \in DOMAIN slab : st.slab[t].free = slab[t].free /\ st.slab[t].inuse = slab[t].inuse
    BY <2>3 DEF SameObjects
  <2>7. \A t \in DOMAIN slab : ListingOf(slab, own, on, t)
    BY DEF Listing
  <2>8. Objs[c] > 0 => st.slab[e].free > 0
    <3>1. slab[e].inuse = 0
      BY <2>1, <2>7 DEF ListingOf
    <3>2. slab[e].free + slab[e].inuse = Objs[c] /\ slab[e].free \in Nat
      BY <2>1, GoodSlab
    <3> QED BY <2>1, <2>6, <3>1, <3>2
  <2>9. ASSUME NEW t \in DOMAIN slab, t # e PROVE ListingOf(st.slab, own, om, t)
    <3>1. om[t] = on[t]
      BY <2>4, <2>9
    <3>2. st.slab[t].free = slab[t].free /\ st.slab[t].inuse = slab[t].inuse
      BY <2>6
    <3>3. ListingOf(slab, own, on, t)
      BY <2>7
    <3> HIDE DEF om
    <3> QED BY ONLY <3>1, <3>2, <3>3, SameListing
  <2>10. om[e] = "partial"
    BY <2>1, <2>4
  <2> HIDE DEF cb, om, pm
  <2>11. ReadyToGive(cb, st.slab, own, om, pm, out, c)
    BY <1>2, <2>1, <2>3, <2>5, <2>6, <2>8, <2>9, <2>10 DEF ReadyToGive
  <2> QED BY <2>11 DEF om, pm
<1>5. ASSUME p = NoSlab, e = NoSlab
      PROVE  \E ow, om, pm : ReadyToGive(cb, st.slab, ow, om, pm, out, c)
  <2>1. PICK s \in Slabs \ DOMAIN slab : st = slab_create([cache |-> cache[c], slab |-> slab], c, s)
    BY <1>1, <1>5
  <2> DEFINE ow == With(own, s, c)
             om == With(on, s, "partial")
             pm == Ahead(st.slab, pos, s)
  <2>2. Good(cb, st.slab, ow, om, pm, out) /\ CreatedSlab(cache[c], slab, c, s, st)
    BY <2>1, CreateGood
  <2>3. /\ st.cache.slabs["partial"] = s /\ DOMAIN st.slab = DOMAIN slab \cup {s}
        /\ st.slab[s].free = Objs[c]
        /\ \A t \in DOMAIN slab : st.slab[t].free = slab[t].free /\ st.slab[t].inuse = slab[t].inuse
    BY <2>2, <1>0 DEF CreatedSlab
  <2>4. DOMAIN own = DOMAIN slab /\ DOMAIN on = DOMAIN slab
    BY DEF Good, Belongs
  <2>5. ow[s] = c /\ om[s] = "partial" /\ \A t \in DOMAIN slab : ow[t] = own[t] /\ om[t] = on[t]
    BY <2>4 DEF With
  <2> HIDE DEF ow, om, pm
  <2>6. ASSUME NEW t \in DOMAIN slab PROVE ListingOf(st.slab, ow, om, t)
    <3>1. ListingOf(slab, own, on, t)
      BY DEF Listing
    <3> QED BY <2>3, <2>5, <3>1 DEF ListingOf
  <2> HIDE DEF cb
  <2>7. ReadyToGive(cb, st.slab, ow, om, pm, out, c)
    BY <1>2, <2>2, <2>3, <2>5, <2>6 DEF ReadyToGive
  <2> QED BY <2>7
<1> QED BY <1>3, <1>4, <1>5

\* cache_alloc keeps the invariant.
LEMMA AllocKeeps ==
  ASSUME SlabInv, NEW c \in Caches, cache_alloc(c)
  PROVE  SlabInv'
<1> DEFINE out == lent \cup lost
<1>1. PICK own, on, pos : Good(cache, slab, own, on, pos, out) /\ Listing(slab, own, on)
  BY DEF SlabInv
<1>2. lent \cap lost = {} /\ lost' = lost
  BY DEF SlabInv, cache_alloc
<1>3. PICK st \in Prepared(c) :
        LET s == st.cache.slabs["partial"]
        IN  IF st.slab[s].freelist = <<>>
            THEN Become(c, st) /\ UNCHANGED lent
            ELSE /\ Become(c, TakeObject(st, s))
                 /\ lent' = lent \cup {<<s, Head(st.slab[s].freelist)>>}
  BY DEF cache_alloc
<1> DEFINE s == st.cache.slabs["partial"]
           cb == [cache EXCEPT ![c] = st.cache]
           o == <<s, Head(st.slab[s].freelist)>>
           tk == TakeObject(st, s)
<1>4. PICK ow, om, pm : ReadyToGive(cb, st.slab, ow, om, pm, out, c)
  BY <1>1, PreparedReady
<1>5. cache \in [Caches -> CacheRec] /\ cb[c] = st.cache
  BY <1>1 DEF Good, Shape
<1>6. Good(cb, st.slab, ow, om, pm, out) /\ cb[c].slabs["partial"] = s
  BY <1>4, <1>5 DEF ReadyToGive
<1>7. ASSUME st.slab[s].freelist = <<>> PROVE SlabInv'
  <2>1. Listing(st.slab, ow, om)
    <3>1. c \in Caches /\ s = cb[c].slabs["partial"]
      BY <1>6
    <3> HIDE DEF cb, s, out
    <3>2. Len(st.slab[s].freelist) = 0
      BY <1>7
    <3> QED BY ONLY <1>4, <3>1, <3>2, TakeListed
  <2>2. cache' = cb /\ slab' = st.slab /\ lent' = lent
    BY <1>3, <1>7 DEF Become
  <2> HIDE DEF cb, s
  <2>3. Good(cache', slab', ow, om, pm, lent' \cup lost') /\ Listing(slab', ow, om)
    BY <2>1, <2>2, <1>2, <1>6
  <2>4. lent' \cap lost' = {}
    BY <2>2, <1>2
  <2> QED BY <2>3, <2>4 DEF SlabInv
<1>8. ASSUME st.slab[s].freelist # <<>> PROVE SlabInv'
  <2>0. tk = TakeObject([cache |-> st.cache, slab |-> st.slab], s)
    <3> DEFINE in == [cache |-> st.cache, slab |-> st.slab]
    <3>1. in.cache = st.cache /\ in.slab = st.slab
      OBVIOUS
    <3> HIDE DEF in
    <3>2. tk = TakeObject(in, s)
      BY ONLY <3>1 DEF TakeObject, tk
    <3> QED BY <3>2 DEF in
  <2>1. /\ o \notin out
        /\ \E on2, pm2 : /\ Good([cb EXCEPT ![c] = tk.cache], tk.slab, ow, on2, pm2, out \cup {o})
                         /\ Listing(tk.slab, ow, on2)
    <3>1. c \in Caches /\ s = cb[c].slabs["partial"]
      BY <1>6
    <3>2. tk = TakeObject([cache |-> cb[c], slab |-> st.slab], s)
      BY <2>0, <1>5
    <3> HIDE DEF cb, s, out, tk
    <3> QED BY ONLY <1>4, <1>8, <3>1, <3>2, TakeListed DEF o
  <2>2. [cb EXCEPT ![c] = tk.cache] = [cache EXCEPT ![c] = tk.cache]
    BY <1>5
  <2>3. cache' = [cache EXCEPT ![c] = tk.cache] /\ slab' = tk.slab /\ lent' = lent \cup {o}
    BY <1>3, <1>8 DEF Become
  <2> HIDE DEF cb, s, o, tk
  <2>4. out \cup {o} = lent' \cup lost' /\ lent' \cap lost' = {}
    BY <2>1, <2>3, <1>2
  <2>5. PICK on2, pm2 : /\ Good(cache', slab', ow, on2, pm2, lent' \cup lost')
                        /\ Listing(slab', ow, on2)
    BY ONLY <2>1, <2>2, <2>3, <2>4
  <2> QED BY ONLY <2>4, <2>5 DEF SlabInv
<1> QED BY <1>7, <1>8

-------------------------------------------------------------------------------
(* cache_free.                                                             *)

\* The state st after the object o of the slab s went back to the cache with record k.
GivenBack(k, sl, c, s, o, st) ==
  LET km == [k EXCEPT !.num_active_objs = @ - 1, !.num_free_objs = @ + 1]
      sm == [sl EXCEPT ![s].freelist = <<o[2]>> \o @, ![s].inuse = @ - 1, ![s].free = @ + 1]
  IN  st = RelistAfterFree(c, [cache |-> km, slab |-> sm], s, sl[s].free = 0)

\* The end of cache_free puts the slab where it belongs.
LEMMA FreeListed ==
  ASSUME NEW ca, NEW sl, NEW own, NEW on, NEW pos, NEW out, Good(ca, sl, own, on, pos, out),
         Listing(sl, own, on), NEW o \in out, NEW s, s = o[1], NEW c, c = own[s], on[s] # "empty",
         NEW st, GivenBack(ca[c], sl, c, s, o, st)
  PROVE  \E om, pm : /\ Good([ca EXCEPT ![c] = st.cache], st.slab, own, om, pm, out \ {o})
                     /\ Listing(st.slab, own, om)
<1> DEFINE k == [ca[c] EXCEPT !.num_active_objs = @ - 1, !.num_free_objs = @ + 1]
           sm == [sl EXCEPT ![s].freelist = <<o[2]>> \o @, ![s].inuse = @ - 1, ![s].free = @ + 1]
           in == [cache |-> k, slab |-> sm]
           cb == [ca EXCEPT ![c] = k]
           Goal == \E om, pm : /\ Good([ca EXCEPT ![c] = st.cache], st.slab, own, om, pm, out \ {o})
                               /\ Listing(st.slab, own, om)
<1>1. /\ Good(cb, sm, own, on, pos, out \ {o}) /\ sl[s].inuse > 0
      /\ Counted(sl, s, <<o[2]>> \o sl[s].freelist, sl[s].inuse - 1, sl[s].free + 1, sm)
  BY PutGood
<1>2. st = IF sl[s].free = 0 THEN move_slab(in, "full", "partial", s)
           ELSE IF sm[s].free = Objs[c] THEN move_slab(in, "partial", "empty", s) ELSE in
  BY DEF RelistAfterFree, GivenBack
<1> HIDE DEF k, sm
<1>3. /\ DOMAIN sm = DOMAIN sl /\ sm[s].inuse = sl[s].inuse - 1 /\ sm[s].free = sl[s].free + 1
      /\ \A t \in DOMAIN sl : t # s => sm[t] = sl[t]
  BY <1>1 DEF Counted
<1>4. s \in DOMAIN sl
  BY DEF Good, Content, OutOK
<1>5. /\ c \in Caches /\ on[s] \in Lists /\ Objs[c] \in Nat /\ sl[s].free \in Nat
      /\ sl[s].inuse \in Nat /\ sl[s].free + sl[s].inuse = Objs[c]
  BY <1>4, GoodSlab
<1>6. \A t \in DOMAIN sl : ListingOf(sl, own, on, t)
  BY DEF Listing
<1>7. on[s] = IF sl[s].free = 0 THEN "full" ELSE "partial"
  <2>1. /\ on[s] = "full" => sl[s].free = 0
        /\ on[s] = "partial" => sl[s].free > 0
    BY <1>1, <1>4, <1>5, <1>6 DEF ListingOf
  <2> QED BY <1>5, <2>1 DEF Lists
<1>8. ca \in [Caches -> CacheRec] /\ on \in [DOMAIN sl -> Lists]
  BY DEF Good, Shape, Belongs
<1>9. cb[c] = k
  BY <1>5, <1>8
<1> HIDE DEF cb
\* The slab is moved to the list to.
<1>10. ASSUME NEW to \in Lists, on[s] # to,
              st = move_slab([cache |-> cb[c], slab |-> sm], on[s], to, s),
              \A om : om[s] = to => ListingOf(sm, own, om, s)
       PROVE  Goal
  <2> DEFINE om == [on EXCEPT ![s] = to]
             pm == Ahead(sm, pos, s)
  <2>1. Good([cb EXCEPT ![c] = st.cache], st.slab, own, om, pm, out \ {o}) /\ SameObjects(sm, st.slab)
    BY <1>1, <1>3, <1>4, <1>10, MoveGood
  <2>2. [cb EXCEPT ![c] = st.cache] = [ca EXCEPT ![c] = st.cache]
    BY <1>5, <1>8 DEF cb
  <2>3. /\ DOMAIN st.slab = DOMAIN sl
        /\ \A t \in DOMAIN sl : st.slab[t].free = sm[t].free /\ st.slab[t].inuse = sm[t].inuse
    BY <2>1, <1>3 DEF SameObjects
  <2>4. om[s] = to /\ \A t \in DOMAIN sl : t # s => om[t] = on[t]
    BY <1>4, <1>8
  <2> HIDE DEF om, pm
  <2>5. ListingOf(st.slab, own, om, s)
    <3>1. ListingOf(sm, own, om, s)
      BY <1>10, <2>4
    <3>2. st.slab[s].free = sm[s].free /\ st.slab[s].inuse = sm[s].inuse
      BY <1>4, <2>3
    <3> QED BY ONLY <3>1, <3>2, SameListing
  <2>6. ASSUME NEW t \in DOMAIN sl, t # s PROVE ListingOf(st.slab, own, om, t)
    <3>1. om[t] = on[t] /\ st.slab[t].free = sl[t].free /\ st.slab[t].inuse = sl[t].inuse
      BY <1>3, <2>3, <2>4, <2>6
    <3>2. ListingOf(sl, own, on, t)
      BY <1>6
    <3> QED BY ONLY <3>1, <3>2, SameListing
  <2>7. Listing(st.slab, own, om)
    BY <2>3, <2>5, <2>6 DEF Listing
  <2> QED BY <2>1, <2>2, <2>7
<1>11. ASSUME sl[s].free = 0 PROVE Goal
  <2>1. "partial" \in Lists /\ on[s] = "full"
    BY <1>7, <1>11 DEF Lists
  <2>2. st = move_slab([cache |-> cb[c], slab |-> sm], on[s], "partial", s)
    BY <1>2, <1>9, <1>11, <2>1
  <2>3. ASSUME NEW om, om[s] = "partial" PROVE ListingOf(sm, own, om, s)
    BY <2>3, <1>1, <1>3, <1>5, <1>11 DEF ListingOf
  <2> HIDE DEF Goal
  <2> QED BY <2>1, <2>2, <2>3, <1>10
<1>12. ASSUME sl[s].free # 0, sm[s].free = Objs[c] PROVE Goal
  <2>1. "empty" \in Lists /\ on[s] = "partial"
    BY <1>7, <1>12 DEF Lists
  <2>2. st = move_slab([cache |-> cb[c], slab |-> sm], on[s], "empty", s)
    BY <1>2, <1>9, <1>12, <2>1
  <2>3. ASSUME NEW om, om[s] = "empty" PROVE ListingOf(sm, own, om, s)
    BY <2>3, <1>1, <1>3, <1>5, <1>12 DEF ListingOf
  <2> HIDE DEF Goal
  <2> QED BY <2>1, <2>2, <2>3, <1>10
<1>13. ASSUME sl[s].free # 0, sm[s].free # Objs[c] PROVE Goal
  <2>1. st.cache = k /\ st.slab = sm
    BY <1>2, <1>13
  <2>2. ListingOf(sm, own, on, s)
    BY <1>1, <1>3, <1>5, <1>7, <1>13 DEF ListingOf
  <2>3. ASSUME NEW t \in DOMAIN sl, t # s PROVE ListingOf(sm, own, on, t)
    <3>1. sm[t] = sl[t] /\ ListingOf(sl, own, on, t)
      BY <1>3, <1>6, <2>3
    <3> QED BY <3>1, SameListing
  <2>4. Listing(sm, own, on)
    BY <1>3, <2>2, <2>3 DEF Listing
  <2>5. Good([ca EXCEPT ![c] = st.cache], st.slab, own, on, pos, out \ {o}) /\ Listing(st.slab, own, on)
    BY <1>1, <2>1, <2>4 DEF cb
  <2> QED BY <2>5
<1>14. Goal
  BY <1>11, <1>12, <1>13
<1> QED BY <1>14

\* Walking a list from its head meets the slabs that belong to it.
LEMMA OnListIs ==
  ASSUME NEW own, NEW on, NEW pos, NEW out, Good(cache, slab, own, on, pos, out),
         NEW c \in Caches, NEW l \in Lists
  PROVE  /\ OnList(c, l) = ListOf(slab, own, on, c, l)
         /\ OnList(c, l) # {} => \E s \in OnList(c, l) : slab[s].next = NoSlab
<1>1. Shape(cache, slab) /\ Belongs(slab, own, on, pos) /\ Linked(cache, slab, own, on, pos)
  BY DEF Good
<1> QED BY <1>1, ChainIsList DEF OnList

\* An owner gives an object to cache_free, which finds its slab or does not.
LEMMA CacheFreeKeeps ==
  ASSUME SlabInv, NEW c \in Caches, NEW o \in lent, cache_free(c, o), lent' = lent \ {o}
  PROVE  SlabInv'
<1> DEFINE out == lent \cup lost
           s == o[1]
<1>1. PICK own, on, pos : Good(cache, slab, own, on, pos, out) /\ Listing(slab, own, on)
  BY DEF SlabInv
<1>2. lent \cap lost = {}
  BY DEF SlabInv
<1>3. ASSUME s \in Searched(c) PROVE SlabInv'
  <2> DEFINE k == [cache[c] EXCEPT !.num_active_objs = @ - 1, !.num_free_objs = @ + 1]
             sm == [slab EXCEPT ![s].freelist = <<o[2]>> \o @, ![s].inuse = @ - 1, ![s].free = @ + 1]
             st == RelistAfterFree(c, [cache |-> k, slab |-> sm], s, slab[s].free = 0)
  <2>1. Become(c, st) /\ lost' = lost
    BY <1>3 DEF cache_free
  <2>2. own[s] = c /\ on[s] # "empty"
    <3>1. "full" \in Lists /\ "partial" \in Lists
      BY DEF Lists
    <3>2. s \in ListOf(slab, own, on, c, "full") \cup ListOf(slab, own, on, c, "partial")
      BY <1>1, <1>3, <3>1, OnListIs DEF Searched
    <3> QED BY <3>2 DEF ListOf
  <2>3. o \in out
    OBVIOUS
  <2>4. \E om, pm : /\ Good([cache EXCEPT ![c] = st.cache], st.slab, own, om, pm, out \ {o})
                    /\ Listing(st.slab, own, om)
    <3> HIDE DEF s, out
    <3>1. s = o[1] /\ c = own[s]
      BY <2>2 DEF s
    <3>2. GivenBack(cache[c], slab, c, s, o, st)
      BY Zenon DEF GivenBack
    <3> HIDE DEF st
    <3> QED BY ONLY <1>1, <2>2, <2>3, <3>1, <3>2, FreeListed
  <2>5. out \ {o} = lent' \cup lost' /\ lent' \cap lost' = {}
    BY <2>1, <1>2
  <2>6. cache' = [cache EXCEPT ![c] = st.cache] /\ slab' = st.slab
    BY <2>1 DEF Become
  <2> HIDE DEF st, out
  <2>7. PICK om, pm : Good(cache', slab', own, om, pm, lent' \cup lost') /\ Listing(slab', own, om)
    BY ONLY <2>4, <2>5, <2>6
  <2> QED BY ONLY <2>5, <2>7 DEF SlabInv
<1>4. ASSUME s \notin Searched(c) PROVE SlabInv'
  <2>1. cache' = cache /\ slab' = slab /\ lost' = lost \cup {o}
    BY <1>4 DEF cache_free
  <2>2. lent' \cup lost' = out /\ lent' \cap lost' = {}
    BY <2>1, <1>2
  <2> HIDE DEF out
  <2>3. Good(cache', slab', own, on, pos, lent' \cup lost') /\ Listing(slab', own, on)
    BY ONLY <1>1, <2>1, <2>2
  <2> QED BY ONLY <2>2, <2>3 DEF SlabInv
<1> QED BY <1>3, <1>4

\* A free that does not reach a cache loses the object, no more.
LEMMA LostKeeps ==
  ASSUME SlabInv, NEW o \in lent, cache' = cache, slab' = slab, lost' = lost \cup {o},
         lent' = lent \ {o}
  PROVE  SlabInv'
<1>1. PICK own, on, pos : Good(cache, slab, own, on, pos, lent \cup lost) /\ Listing(slab, own, on)
  BY DEF SlabInv
<1>2. lent' \cup lost' = lent \cup lost /\ lent' \cap lost' = {}
  BY DEF SlabInv
<1>3. Good(cache', slab', own, on, pos, lent' \cup lost') /\ Listing(slab', own, on)
  BY ONLY <1>1, <1>2, cache' = cache, slab' = slab
<1> QED BY ONLY <1>2, <1>3 DEF SlabInv

-------------------------------------------------------------------------------
(* cache_destroy and cache_reap: slabs go.                                 *)

\* What is said of the slabs in R, and no others.
Kept(f, R) == [t \in R |-> f[t]]

\* The slabs in R keep their objects, and all objects that are not free and in one of
\* them are in ov.
LEMMA KeptContent ==
  ASSUME NEW sl, NEW own, NEW out, Content(sl, own, out), NEW R \in SUBSET DOMAIN sl,
         NEW sm, DOMAIN sm = R,
         \A t \in R : /\ sm[t].inuse = sl[t].inuse /\ sm[t].free = sl[t].free
                      /\ sm[t].freelist = sl[t].freelist
  PROVE  Content(sm, Kept(own, R), {o \in out : o[1] \in R})
<1> DEFINE ow == Kept(own, R)
           ov == {o \in out : o[1] \in R}
<1>1. OutOK(sl, own, out) /\ \A t \in DOMAIN sl : ContentOf(sl, own, out, t)
  BY DEF Content
<1>2. \A t \in R : ow[t] = own[t]
  BY DEF Kept
<1>3. ov \in SUBSET out /\ \A o \in ov : o[1] \in R
  OBVIOUS
<1>4. \A t \in R : OutOf(ov, t) = OutOf(out, t)
  BY DEF OutOf
<1> HIDE DEF ow, ov
<1>5. IsFiniteSet(ov)
  BY <1>1, <1>3, FS_Subset DEF OutOK
<1>6. OutOK(sm, ow, ov)
  BY <1>1, <1>2, <1>3, <1>5 DEF OutOK
<1>7. ASSUME NEW t \in R PROVE ContentOf(sm, ow, ov, t)
  <2>1. ContentOf(sl, own, out, t) /\ ow[t] = own[t] /\ OutOf(ov, t) = OutOf(out, t)
    BY <1>1, <1>2, <1>4
  <2>2. sm[t].inuse = sl[t].inuse /\ sm[t].free = sl[t].free /\ sm[t].freelist = sl[t].freelist
    OBVIOUS
  <2>3. \A o : o \notin out => o \notin ov
    BY <1>3
  <2> QED BY ONLY <2>1, <2>2, <2>3 DEF ContentOf
<1> QED BY <1>6, <1>7 DEF Content, ow, ov

\* The slabs in R are where they belong.
LEMMA KeptListing ==
  ASSUME NEW sl, NEW own, NEW on, Listing(sl, own, on), NEW R \in SUBSET DOMAIN sl,
         NEW sm, DOMAIN sm = R, \A t \in R : sm[t].inuse = sl[t].inuse /\ sm[t].free = sl[t].free
  PROVE  Listing(sm, Kept(own, R), Kept(on, R))
<1>1. ASSUME NEW t \in R PROVE ListingOf(sm, Kept(own, R), Kept(on, R), t)
  <2>1. ListingOf(sl, own, on, t)
    BY DEF Listing
  <2>2. Kept(own, R)[t] = own[t] /\ Kept(on, R)[t] = on[t]
    BY DEF Kept
  <2> QED BY <2>1, <2>2 DEF ListingOf
<1> QED BY <1>1 DEF Listing

\* The slabs of a cache are finitely many.
LEMMA SlabsFinite ==
  ASSUME NEW ca, NEW sl, Shape(ca, sl), NEW S \in SUBSET DOMAIN sl
  PROVE  IsFiniteSet(S) /\ Cardinality(S) \in Nat
<1>1. S \subseteq Slabs
  BY DEF Shape
<1> QED BY <1>1, SlabAssumption, FS_Subset, FS_CardinalityType

\* A cache is destroyed with all its slabs.
LEMMA DestroyGood ==
  ASSUME NEW ca, NEW sl, NEW own, NEW on, NEW pos, NEW out, Good(ca, sl, own, on, pos, out),
         NEW c \in Caches, NEW R, R = DOMAIN sl \ SlabsOf(sl, own, c)
  PROVE  Good([ca EXCEPT ![c] = Created], Kept(sl, R), Kept(own, R), Kept(on, R), Kept(pos, R),
              {o \in out : o[1] \in R})
<1> DEFINE cb == [ca EXCEPT ![c] = Created]
           sm == Kept(sl, R)
           ow == Kept(own, R)
           om == Kept(on, R)
           pm == Kept(pos, R)
           ov == {o \in out : o[1] \in R}
<1>1. /\ Shape(ca, sl) /\ Belongs(sl, own, on, pos) /\ Linked(ca, sl, own, on, pos)
      /\ Content(sl, own, out) /\ Totals(ca, sl, own, out)
  BY DEF Good
<1>2. R \in SUBSET DOMAIN sl /\ \A t \in DOMAIN sl : t \in R <=> own[t] # c
  BY DEF SlabsOf
<1>3. /\ DOMAIN sm = R
      /\ \A t \in R : sm[t] = sl[t] /\ ow[t] = own[t] /\ om[t] = on[t] /\ pm[t] = pos[t]
  BY DEF Kept
<1>4. /\ cb \in [Caches -> CacheRec]
      /\ cb[c] = Created /\ \A d \in Caches : d # c => cb[d] = ca[d]
      /\ \A l \in Lists : cb[c].slabs[l] = NoSlab
  <2>1. Created \in CacheRec /\ \A l \in Lists : Created.slabs[l] = NoSlab
    BY DEF Created, CacheRec, SlabPtr
  <2>2. ca \in [Caches -> CacheRec]
    BY <1>1 DEF Shape
  <2> HIDE DEF Created
  <2> QED BY <2>1, <2>2
<1>5. Shape(cb, sm)
  <2>1. \A t \in DOMAIN sl : sl[t] \in SlabRec
    BY <1>1 DEF Shape
  <2>2. DOMAIN sl \in SUBSET Slabs
    BY <1>1 DEF Shape
  <2>3. sm \in [R -> SlabRec]
    BY <1>2, <2>1 DEF Kept
  <2> HIDE DEF cb, sm
  <2> QED BY <1>2, <1>3, <1>4, <2>2, <2>3 DEF Shape
<1>6. Belongs(sm, ow, om, pm)
  <2>1. \A t \in R : own[t] \in Caches /\ on[t] \in Lists /\ pos[t] \in Nat
    BY <1>1, <1>2 DEF Belongs
  <2>2. ow \in [R -> Caches] /\ om \in [R -> Lists] /\ pm \in [R -> Nat]
    BY <2>1 DEF Kept
  <2> QED BY <1>3, <2>2 DEF Belongs
<1>7. Content(sm, ow, ov)
  <2> HIDE DEF sm
  <2> QED BY <1>1, <1>2, <1>3, KeptContent
<1>8. \A o \in out : o[1] \in DOMAIN sl
  BY <1>1 DEF Content, OutOK
<1>9. ov \in SUBSET out /\ \A o \in out : o \in ov <=> own[o[1]] # c
  BY <1>2, <1>8
<1> HIDE DEF cb, sm, ow, om, pm, ov
<1>10. Linked(cb, sm, ow, om, pm)
  <2>1. ASSUME NEW t \in R PROVE LinksOf(cb, sm, ow, om, pm, t)
    <3>1. LinksOf(ca, sl, own, on, pos, t) /\ t \in DOMAIN sl /\ own[t] # c
          /\ own[t] \in Caches /\ on[t] \in Lists
      BY <1>1, <1>2 DEF Linked, Belongs
    <3>2. sl[t].next # NoSlab => sl[t].next \in R
      BY <3>1, <1>2 DEF LinksOf
    <3>3. sl[t].prev # NoSlab => sl[t].prev \in R
      BY <3>1, <1>2 DEF LinksOf
    <3> QED BY <3>1, <3>2, <3>3, <1>3, <1>4 DEF LinksOf
  <2>2. ASSUME NEW d \in Caches, NEW l \in Lists PROVE HeadOf(cb, sm, ow, om, d, l)
    <3>1. HeadOf(ca, sl, own, on, d, l)
      BY <1>1 DEF Linked
    <3>2. CASE d = c
      BY <3>2, <1>4 DEF HeadOf
    <3>3. CASE d # c
      BY <3>1, <3>3, <1>2, <1>3, <1>4 DEF HeadOf
    <3> QED BY <3>2, <3>3
  <2> QED BY <2>1, <2>2, <1>3 DEF Linked
<1>11. ASSUME NEW d \in Caches PROVE TotalsOf(cb, sm, ow, ov, d)
  <2>0. TotalsOf(ca, sl, own, out, d)
    BY <1>1 DEF Totals
  <2>1. CASE d = c
    <3>1. SlabsOf(sm, ow, c) = {}
      BY <1>2, <1>3 DEF SlabsOf
    <3>2. \A o \in ov : o[1] \in R
      BY DEF ov
    <3>3. OutFor(ow, ov, c) = {}
      BY <1>2, <1>3, <3>2 DEF OutFor
    <3>4. Cardinality(SlabsOf(sm, ow, c)) = 0 /\ Cardinality(OutFor(ow, ov, c)) = 0
      BY <3>1, <3>3, FS_EmptySet
    <3>5. cb[c].num_slabs = 0 /\ cb[c].num_active_objs = 0 /\ cb[c].num_free_objs = 0
      BY <1>4 DEF Created
    <3>6. Objs[c] \in Nat
      BY SlabAssumption
    <3> QED BY ONLY <2>1, <3>4, <3>5, <3>6 DEF TotalsOf
  <2>2. CASE d # c
    <3>1. SlabsOf(sm, ow, d) = SlabsOf(sl, own, d)
      BY <1>2, <1>3, <2>2 DEF SlabsOf
    <3>2. OutFor(ow, ov, d) = OutFor(own, out, d)
      <4>1. \A o \in ov : o[1] \in R /\ ow[o[1]] = own[o[1]]
        BY <1>3 DEF ov
      <4> QED BY <1>9, <2>2, <4>1 DEF OutFor
    <3>3. cb[d] = ca[d]
      BY <1>4, <2>2
    <3> QED BY ONLY <2>0, <3>1, <3>2, <3>3 DEF TotalsOf
  <2> QED BY <2>1, <2>2
<1>12. Good(cb, sm, ow, om, pm, ov)
  BY <1>5, <1>6, <1>7, <1>10, <1>11 DEF Good, Totals
<1> QED BY <1>12 DEF cb, sm, ow, om, pm, ov

\* cache_destroy keeps the invariant.
LEMMA DestroyKeeps ==
  ASSUME SlabInv, NEW c \in Caches, cache_destroy(c)
  PROVE  SlabInv'
<1> DEFINE out == lent \cup lost
           gone == UNION {OnList(c, l) : l \in Lists}
<1>1. PICK own, on, pos : Good(cache, slab, own, on, pos, out) /\ Listing(slab, own, on)
  BY DEF SlabInv
<1> DEFINE R == DOMAIN slab \ SlabsOf(slab, own, c)
<1>2. gone = SlabsOf(slab, own, c)
  <2>1. \A l \in Lists : OnList(c, l) = ListOf(slab, own, on, c, l)
    BY <1>1, OnListIs
  <2>2. \A s \in DOMAIN slab : on[s] \in Lists
    BY <1>1 DEF Good, Belongs
  <2> QED BY <2>1, <2>2 DEF ListOf, SlabsOf
<1>3. /\ cache' = [cache EXCEPT ![c] = Created] /\ slab' = [s \in DOMAIN slab \ gone |-> slab[s]]
      /\ lent' = {o \in lent : o[1] \notin gone} /\ lost' = {o \in lost : o[1] \notin gone}
  BY DEF cache_destroy
<1>4. slab' = Kept(slab, R)
  BY <1>2, <1>3 DEF Kept
<1>5. lent' \cup lost' = {o \in out : o[1] \in R}
  <2>1. \A o \in out : o[1] \in DOMAIN slab
    BY <1>1 DEF Good, Content, OutOK
  <2> QED BY ONLY <1>2, <1>3, <2>1
<1>6. lent' \cap lost' = {}
  BY <1>3 DEF SlabInv
<1>7. Good([cache EXCEPT ![c] = Created], Kept(slab, R), Kept(own, R), Kept(on, R), Kept(pos, R),
           {o \in out : o[1] \in R})
  <2> HIDE DEF out
  <2> QED BY <1>1, DestroyGood
<1>8. Listing(Kept(slab, R), Kept(own, R), Kept(on, R))
  <2> DEFINE sm == Kept(slab, R)
  <2>1. DOMAIN sm = R /\ R \in SUBSET DOMAIN slab /\ \A t \in R : sm[t] = slab[t]
    BY DEF Kept
  <2> HIDE DEF sm, R
  <2>2. \A t \in R : sm[t].inuse = slab[t].inuse /\ sm[t].free = slab[t].free
    BY <2>1
  <2> QED BY <1>1, <2>1, <2>2, KeptListing DEF sm
<1> HIDE DEF R, out
<1>9. Good(cache', slab', Kept(own, R), Kept(on, R), Kept(pos, R), lent' \cup lost')
      /\ Listing(slab', Kept(own, R), Kept(on, R))
  <2>1. cache' = [cache EXCEPT ![c] = Created]
    BY <1>3
  <2> QED BY ONLY <1>4, <1>5, <1>7, <1>8, <2>1
<1> QED BY ONLY <1>6, <1>9 DEF SlabInv

\* What cache_reap leaves of the empty list of a cache: nothing, or the last slab.
LEMMA ReapedIs ==
  ASSUME NEW own, NEW on, NEW pos, NEW out, Good(cache, slab, own, on, pos, out), NEW c \in Caches
  PROVE  LET E == ListOf(slab, own, on, c, "empty")
         IN  /\ Reaped(c) \in SUBSET E
             /\ \A s, t \in E \ Reaped(c) : s = t /\ slab[s].next = NoSlab
<1> DEFINE E == ListOf(slab, own, on, c, "empty")
<1>1. "empty" \in Lists
  BY DEF Lists
<1>2. OnList(c, "empty") = E /\ (E # {} => \E s \in E : slab[s].next = NoSlab)
  BY <1>1, OnListIs
<1> HIDE DEF E
<1>3. Reaped(c) = E \/ (E # {} /\ Reaped(c) = E \ {CHOOSE s \in E : slab[s].next = NoSlab})
  BY <1>2 DEF Reaped
<1>4. CASE Reaped(c) = E
  BY <1>4 DEF E
<1>5. CASE E # {} /\ Reaped(c) = E \ {CHOOSE s \in E : slab[s].next = NoSlab}
  <2> DEFINE x == CHOOSE s \in E : slab[s].next = NoSlab
  <2>1. x \in E /\ slab[x].next = NoSlab
    BY <1>2, <1>5
  <2> HIDE DEF x
  <2>2. Reaped(c) = E \ {x}
    BY <1>5 DEF x
  <2> QED BY <2>1, <2>2 DEF E
<1> QED BY <1>3, <1>4, <1>5

\* The record of a cache after cache_reap.
ReapedCache(k, m, h, n, f) ==
  /\ m \in CacheRec /\ m.num_slabs = k.num_slabs - n /\ m.num_active_objs = k.num_active_objs
  /\ m.num_free_objs = k.num_free_objs - f
  /\ \A l \in Lists : m.slabs[l] = IF l = "empty" THEN h ELSE k.slabs[l]

\* The fields that cache_reap sets.
LEMMA ReapedRecord ==
  ASSUME NEW k \in CacheRec, NEW h \in SlabPtr, NEW n \in Int, NEW f \in Int
  PROVE  ReapedCache(k, [k EXCEPT !.slabs["empty"] = h, !.num_slabs = @ - n, !.num_free_objs = @ - f],
                     h, n, f)
<1> DEFINE m1 == [k EXCEPT !.slabs["empty"] = h]
           m2 == [m1 EXCEPT !.num_slabs = k.num_slabs - n]
           m3 == [m2 EXCEPT !.num_free_objs = k.num_free_objs - f]
<1>1. [k EXCEPT !.slabs["empty"] = h, !.num_slabs = @ - n, !.num_free_objs = @ - f] = m3
  BY DEF CacheRec
<1>2. k.num_slabs \in Int /\ k.num_free_objs \in Int /\ "empty" \in Lists
  BY DEF CacheRec, Lists
<1>3. /\ m1 \in CacheRec /\ SameCounts(k, m1)
      /\ \A l \in Lists : m1.slabs[l] = IF l = "empty" THEN h ELSE k.slabs[l]
  BY <1>2, HeadSet
<1> HIDE DEF m1
<1>4. /\ m2 \in CacheRec /\ m2.num_slabs = k.num_slabs - n /\ m2.slabs = m1.slabs
      /\ m2.num_active_objs = m1.num_active_objs
  BY <1>2, <1>3 DEF CacheRec
<1> HIDE DEF m2
<1>5. /\ m3 \in CacheRec /\ m3.num_free_objs = k.num_free_objs - f /\ m3.slabs = m2.slabs
      /\ m3.num_active_objs = m2.num_active_objs /\ m3.num_slabs = m2.num_slabs
  BY <1>2, <1>4 DEF CacheRec
<1> HIDE DEF m3
<1>6. ReapedCache(k, m3, h, n, f)
  BY ONLY <1>3, <1>4, <1>5 DEF ReapedCache, SameCounts
<1> QED BY ONLY <1>1, <1>6

\* The slabs and the caches after cache_reap; h has the new heads of the empty lists.
ReapedSlabs(gone, R, sm) ==
  /\ DOMAIN sm = R /\ sm \in [R -> SlabRec]
  /\ \A t \in R : sm[t] = IF slab[t].prev \in gone THEN [slab[t] EXCEPT !.prev = NoSlab] ELSE slab[t]
ReapedFrom(own, on, gone, c, g, m) ==
  /\ ReapedCache(cache[c], m, g, Cardinality(Reaped(c)), Objs[c] * Cardinality(Reaped(c)))
  /\ (g = NoSlab) <=> (ListOf(slab, own, on, c, "empty") \subseteq gone)
  /\ g # NoSlab => g \in ListOf(slab, own, on, c, "empty") \ gone
ReapedCaches(own, on, gone, h, cb) ==
  /\ cb \in [Caches -> CacheRec]
  /\ \A c \in Caches : ReapedFrom(own, on, gone, c, h[c], cb[c])

\* The slabs gone are on the empty lists, and all but the last slab of such a list
\* may be; what is left is good.
LEMMA ReapGood ==
  ASSUME NEW own, NEW on, NEW pos, NEW out, Good(cache, slab, own, on, pos, out),
         Listing(slab, own, on), NEW gone, gone = UNION {Reaped(c) : c \in Caches},
         NEW R, R = DOMAIN slab \ gone, NEW sm, ReapedSlabs(gone, R, sm),
         NEW cb, NEW h, ReapedCaches(own, on, gone, h, cb)
  PROVE  /\ Good(cb, sm, Kept(own, R), Kept(on, R), Kept(pos, R), out)
         /\ Listing(sm, Kept(own, R), Kept(on, R))
<1> DEFINE ow == Kept(own, R)
           om == Kept(on, R)
           pm == Kept(pos, R)
           E(c) == ListOf(slab, own, on, c, "empty")
<1>0. /\ DOMAIN sm = R /\ sm \in [R -> SlabRec] /\ cb \in [Caches -> CacheRec]
      /\ \A t \in R : sm[t] = IF slab[t].prev \in gone THEN [slab[t] EXCEPT !.prev = NoSlab] ELSE slab[t]
  BY DEF ReapedSlabs, ReapedCaches
<1>a. ASSUME NEW c \in Caches
      PROVE  /\ ReapedCache(cache[c], cb[c], h[c], Cardinality(Reaped(c)),
                            Objs[c] * Cardinality(Reaped(c)))
             /\ (h[c] = NoSlab) <=> (E(c) \subseteq gone)
             /\ h[c] # NoSlab => h[c] \in E(c) \ gone
  <2>1. ReapedFrom(own, on, gone, c, h[c], cb[c])
    BY DEF ReapedCaches
  <2> QED BY ONLY <2>1 DEF ReapedFrom
<1> USE <1>0
<1>1. /\ Shape(cache, slab) /\ Belongs(slab, own, on, pos) /\ Linked(cache, slab, own, on, pos)
      /\ Content(slab, own, out) /\ Totals(cache, slab, own, out)
  BY DEF Good
<1>2. \A t \in DOMAIN slab : own[t] \in Caches /\ on[t] \in Lists /\ pos[t] \in Nat
  BY <1>1 DEF Belongs
<1>3. R \in SUBSET DOMAIN slab
  OBVIOUS
<1>4. /\ \A t \in R : ow[t] = own[t] /\ om[t] = on[t] /\ pm[t] = pos[t]
      /\ ow \in [R -> Caches] /\ om \in [R -> Lists] /\ pm \in [R -> Nat]
  BY <1>2, <1>3 DEF Kept
<1>5. \A c \in Caches : /\ Reaped(c) \in SUBSET E(c)
                        /\ \A s, t \in E(c) \ Reaped(c) : s = t /\ slab[s].next = NoSlab
  BY ReapedIs
<1>6. ASSUME NEW t \in DOMAIN slab PROVE t \in gone <=> t \in Reaped(own[t])
  <2>1. \A c \in Caches : t \in Reaped(c) => own[t] = c
    BY <1>5 DEF ListOf
  <2> QED BY <1>2, <2>1
<1>7. \A t \in gone : t \in DOMAIN slab /\ on[t] = "empty"
  BY <1>5 DEF ListOf
<1>8. \A t \in R : on[t] = "empty" => t \in E(own[t]) \ Reaped(own[t])
  BY <1>6 DEF ListOf
<1>9. \A s, t \in R : on[s] = "empty" /\ on[t] = "empty" /\ own[s] = own[t] =>
                        s = t /\ slab[s].next = NoSlab
  <2> SUFFICES ASSUME NEW s \in R, NEW t \in R, on[s] = "empty", on[t] = "empty", own[s] = own[t]
               PROVE  s = t /\ slab[s].next = NoSlab
    OBVIOUS
  <2>1. s \in E(own[s]) \ Reaped(own[s]) /\ t \in E(own[s]) \ Reaped(own[s]) /\ own[s] \in Caches
    BY <1>2, <1>8
  <2> QED BY <1>5, <2>1
<1> HIDE DEF ow, om, pm
<1>10. ASSUME NEW t \in R
       PROVE  /\ sm[t].next = slab[t].next /\ sm[t].inuse = slab[t].inuse
              /\ sm[t].free = slab[t].free /\ sm[t].freelist = slab[t].freelist
              /\ sm[t].prev = IF slab[t].prev \in gone THEN NoSlab ELSE slab[t].prev
  <2>1. slab[t] \in SlabRec
    BY <1>1, <1>3 DEF Shape
  <2>2. sm[t] = IF slab[t].prev \in gone THEN [slab[t] EXCEPT !.prev = NoSlab] ELSE slab[t]
    BY <1>0
  <2> DEFINE r == slab[t]
  <2>3. r \in SlabRec /\ sm[t] = IF r.prev \in gone THEN [r EXCEPT !.prev = NoSlab] ELSE r
    BY <2>1, <2>2
  <2> HIDE DEF r
  <2>4. /\ sm[t].next = r.next /\ sm[t].inuse = r.inuse
        /\ sm[t].free = r.free /\ sm[t].freelist = r.freelist
        /\ sm[t].prev = IF r.prev \in gone THEN NoSlab ELSE r.prev
    BY ONLY <2>3 DEF SlabRec
  <2> QED BY <2>4 DEF r
<1>11. Shape(cb, sm)
  BY <1>0, <1>1, <1>3 DEF Shape
<1>12. Belongs(sm, ow, om, pm)
  BY <1>0, <1>4 DEF Belongs
<1>13. ASSUME NEW t \in R PROVE LinksOf(cb, sm, ow, om, pm, t)
  <2>1. LinksOf(cache, slab, own, on, pos, t) /\ own[t] \in Caches /\ on[t] \in Lists
    BY <1>1, <1>2, <1>3 DEF Linked
  <2>2. ReapedCache(cache[own[t]], cb[own[t]], h[own[t]], Cardinality(Reaped(own[t])),
                    Objs[own[t]] * Cardinality(Reaped(own[t])))
    BY ONLY <1>a, <2>1
  <2>3. NoSlab \notin gone
    BY <1>1, <1>7, SlabAssumption DEF Shape
  <2>4. CASE on[t] # "empty"
    <3>1. slab[t].next # NoSlab => slab[t].next \in R /\ slab[t].next \notin gone
      BY <2>1, <2>4, <1>7 DEF LinksOf
    <3>2. slab[t].prev # NoSlab => slab[t].prev \in R /\ slab[t].prev \notin gone
      BY <2>1, <2>4, <1>7 DEF LinksOf
    <3>3. t \notin gone
      BY <1>3
    <3>4. sm[t].next = slab[t].next /\ sm[t].prev = slab[t].prev
      BY <1>10, <2>3, <3>2
    <3>5. slab[t].next # NoSlab => sm[slab[t].next].prev = t
      BY <1>10, <2>1, <3>1, <3>3 DEF LinksOf
    <3>6. slab[t].prev # NoSlab => sm[slab[t].prev].next = t
      BY <1>10, <2>1, <3>2 DEF LinksOf
    <3>7. cb[own[t]].slabs[on[t]] = cache[own[t]].slabs[on[t]]
      BY <2>1, <2>2, <2>4 DEF ReapedCache
    <3> QED BY <2>1, <3>1, <3>2, <3>4, <3>5, <3>6, <3>7, <1>4 DEF LinksOf
  <2>5. CASE on[t] = "empty"
    <3>1. slab[t].next = NoSlab /\ sm[t].next = NoSlab
      BY <1>9, <1>10, <2>5
    <3>2. sm[t].prev = NoSlab
      <4>1. CASE slab[t].prev # NoSlab
        <5> DEFINE p == slab[t].prev
        <5>1. p \in DOMAIN slab /\ own[p] = own[t] /\ on[p] = "empty" /\ p # t
          <6>1. p # t
            BY <1>1, <1>3, <4>1, Neighbours
          <6> QED BY <2>1, <2>5, <4>1, <6>1 DEF LinksOf
        <5>2. p \in gone
          BY <5>1, <1>9, <2>5
        <5> QED BY <1>10, <5>2
      <4>2. CASE slab[t].prev = NoSlab
        BY <1>10, <2>3, <4>2
      <4> QED BY <4>1, <4>2
    <3>3. cb[own[t]].slabs["empty"] = t
      <4>1. t \in E(own[t]) /\ t \notin gone
        BY <1>8, <2>5
      <4>2. h[own[t]] \in E(own[t]) \ gone
        BY <2>1, <4>1, <1>a
      <4>3. h[own[t]] \in R /\ own[h[own[t]]] = own[t] /\ on[h[own[t]]] = "empty"
        BY <4>2 DEF ListOf
      <4>4. h[own[t]] = t
        BY <4>3, <1>9, <2>5
      <4> QED BY <2>2, <4>4 DEF ReapedCache, Lists
    <3> QED BY <2>1, <2>5, <3>1, <3>2, <3>3, <1>4 DEF LinksOf
  <2> QED BY <2>4, <2>5
<1>14. ASSUME NEW c \in Caches, NEW l \in Lists PROVE HeadOf(cb, sm, ow, om, c, l)
  <2>1. HeadOf(cache, slab, own, on, c, l)
    BY <1>1 DEF Linked
  <2>2. cb[c].slabs[l] = IF l = "empty" THEN h[c] ELSE cache[c].slabs[l]
    BY <1>a DEF ReapedCache
  <2>3. CASE l = "empty"
    <3> SUFFICES ASSUME h[c] # NoSlab
                 PROVE  h[c] \in R /\ ow[h[c]] = c /\ om[h[c]] = l /\ sm[h[c]].prev = NoSlab
      BY <2>2, <2>3 DEF HeadOf
    <3>1. h[c] \in E(c) \ gone
      BY <1>a
    <3>2. h[c] \in R /\ own[h[c]] = c /\ on[h[c]] = l
      BY <3>1, <2>3 DEF ListOf
    <3>3. LinksOf(cb, sm, ow, om, pm, h[c])
      BY <3>2, <1>13
    <3>4. sm[h[c]].prev # NoSlab => FALSE
      <4> SUFFICES ASSUME sm[h[c]].prev # NoSlab PROVE FALSE
        OBVIOUS
      <4> DEFINE p == sm[h[c]].prev
      <4>1. p \in R /\ sm[p].next = h[c] /\ ow[p] = ow[h[c]] /\ om[p] = om[h[c]]
        BY <3>3 DEF LinksOf
      <4>2. on[p] = "empty" /\ own[p] = own[h[c]]
        BY <4>1, <3>2, <1>4, <2>3
      <4>3. slab[p].next = NoSlab
        BY <4>1, <4>2, <1>9
      <4>4. h[c] = NoSlab
        BY <4>1, <4>3, <1>10
      <4> QED BY <4>4
    <3> QED BY <3>2, <3>4, <1>4
  <2>4. CASE l # "empty"
    <3> DEFINE g == cache[c].slabs[l]
    <3> SUFFICES ASSUME g # NoSlab
                 PROVE  g \in R /\ ow[g] = c /\ om[g] = l /\ sm[g].prev = NoSlab
      BY <2>2, <2>4 DEF HeadOf
    <3>1. g \in DOMAIN slab /\ own[g] = c /\ on[g] = l /\ slab[g].prev = NoSlab
      BY <2>1 DEF HeadOf
    <3>2. g \in R
      BY <3>1, <2>4, <1>7
    <3>3. sm[g].prev = NoSlab
      BY <3>1, <3>2, <1>10
    <3> QED BY <3>1, <3>2, <3>3, <1>4
  <2> QED BY <2>3, <2>4
<1>15. \A o \in out : o[1] \in R
  <2> SUFFICES ASSUME NEW o \in out, o[1] \in gone PROVE FALSE
    BY <1>1 DEF Content, OutOK
  <2> DEFINE s == o[1]
  <2>1. s \in DOMAIN slab /\ on[s] = "empty"
    BY <1>7
  <2>2. slab[s].inuse = 0
    BY <2>1 DEF Listing, ListingOf
  <2>3. Cardinality(OutOf(out, s)) = 0
    BY <2>1, <2>2, <1>1 DEF Content, ContentOf
  <2>4. OutOf(out, s) \in SUBSET out /\ IsFiniteSet(out)
    BY <1>1 DEF OutOf, Content, OutOK
  <2>5. OutOf(out, s) = {}
    BY <2>3, <2>4, FS_Subset, FS_EmptySet
  <2> QED BY <2>5 DEF OutOf
<1>16. Content(sm, ow, out)
  <2>1. {o \in out : o[1] \in R} = out
    BY <1>15
  <2>2. Content(sm, ow, {o \in out : o[1] \in R})
    BY <1>1, <1>3, <1>10, KeptContent DEF ow
  <2> QED BY <2>1, <2>2
<1>17. ASSUME NEW c \in Caches PROVE TotalsOf(cb, sm, ow, out, c)
  <2> DEFINE S == SlabsOf(slab, own, c)
             G == Reaped(c)
  <2>0. TotalsOf(cache, slab, own, out, c)
    BY <1>1 DEF Totals
  <2>1. SlabsOf(sm, ow, c) = S \ G
    BY <1>3, <1>4, <1>6 DEF SlabsOf
  <2>2. G \in SUBSET S
    BY <1>5 DEF ListOf, SlabsOf
  <2>3. S \in SUBSET DOMAIN slab
    BY DEF SlabsOf
  <2> HIDE DEF S, G
  <2>4. IsFiniteSet(S) /\ Cardinality(S) \in Nat /\ Cardinality(G) \in Nat
    BY <2>2, <2>3, <1>1, SlabsFinite
  <2>5. Cardinality(S \ G) = Cardinality(S) - Cardinality(G)
    <3>1. S \cap G = G
      BY <2>2
    <3> QED BY <2>4, <3>1, FS_Difference
  <2>6. OutFor(ow, out, c) = OutFor(own, out, c)
    BY <1>4, <1>15 DEF OutFor
  <2>7. /\ cb[c].num_slabs = cache[c].num_slabs - Cardinality(G)
        /\ cb[c].num_active_objs = cache[c].num_active_objs
        /\ cb[c].num_free_objs = cache[c].num_free_objs - Objs[c] * Cardinality(G)
    BY <1>a DEF ReapedCache, G
  <2>8. /\ cache[c].num_slabs = Cardinality(S)
        /\ cache[c].num_active_objs + cache[c].num_free_objs = Objs[c] * Cardinality(S)
        /\ cache[c].num_active_objs = Cardinality(OutFor(own, out, c))
    BY <2>0 DEF TotalsOf, S
  <2>9. Objs[c] \in Nat /\ cache[c].num_active_objs \in Int /\ cache[c].num_free_objs \in Int
    BY <1>1, SlabAssumption DEF Shape, CacheRec
  <2>10. Objs[c] * Cardinality(S) - Objs[c] * Cardinality(G) = Objs[c] * (Cardinality(S) - Cardinality(G))
    BY ONLY <2>4, <2>9
  <2>11. cb[c].num_active_objs + cb[c].num_free_objs = Objs[c] * (Cardinality(S) - Cardinality(G))
    <3> DEFINE x == Objs[c] * Cardinality(S)
               y == Objs[c] * Cardinality(G)
               z == Objs[c] * (Cardinality(S) - Cardinality(G))
    <3>1. x - y = z /\ x \in Int /\ y \in Int
      BY ONLY <2>4, <2>9, <2>10
    <3>2. /\ cache[c].num_active_objs + cache[c].num_free_objs = x
          /\ cb[c].num_free_objs = cache[c].num_free_objs - y
      BY <2>7, <2>8
    <3> HIDE DEF x, y, z
    <3>3. cb[c].num_active_objs + cb[c].num_free_objs = z
      BY ONLY <3>1, <3>2, <2>7, <2>9
    <3> QED BY <3>3 DEF z
  <2> QED BY ONLY <2>1, <2>5, <2>6, <2>7, <2>8, <2>11 DEF TotalsOf
<1>18. Good(cb, sm, ow, om, pm, out)
  BY <1>11, <1>12, <1>13, <1>14, <1>16, <1>17 DEF Good, Linked, Totals
<1>19. Listing(sm, ow, om)
  BY <1>3, <1>10, KeptListing DEF ow, om
<1> QED BY <1>18, <1>19 DEF ow, om, pm

\* cache_reap keeps the invariant.
LEMMA ReapKeeps ==
  ASSUME SlabInv, cache_reap
  PROVE  SlabInv'
<1> DEFINE out == lent \cup lost
           gone == UNION {Reaped(c) : c \in Caches}
           R == DOMAIN slab \ gone
           Hd(c) == IF OnList(c, "empty") \subseteq gone THEN NoSlab
                    ELSE CHOOSE s \in OnList(c, "empty") \ gone : TRUE
           h == [c \in Caches |-> Hd(c)]
           After(c) == [cache[c] EXCEPT !.slabs["empty"] = Hd(c), !.num_slabs = @ - Cardinality(Reaped(c)),
                                        !.num_free_objs = @ - Objs[c] * Cardinality(Reaped(c))]
<1>1. PICK own, on, pos : Good(cache, slab, own, on, pos, out) /\ Listing(slab, own, on)
  BY DEF SlabInv
<1>2. /\ cache' = [c \in Caches |-> After(c)]
      /\ slab' = [s \in R |-> IF slab[s].prev \in gone THEN [slab[s] EXCEPT !.prev = NoSlab] ELSE slab[s]]
      /\ lent' = lent /\ lost' = lost
  BY DEF cache_reap
<1>3. /\ cache \in [Caches -> CacheRec] /\ DOMAIN slab \in SUBSET Slabs
      /\ slab \in [DOMAIN slab -> SlabRec] /\ NoSlab \in SlabPtr /\ Shape(cache, slab)
  BY <1>1 DEF Good, Shape, SlabPtr
<1>4. ASSUME NEW c \in Caches
      PROVE  LET E == ListOf(slab, own, on, c, "empty")
             IN  /\ Hd(c) = NoSlab <=> E \subseteq gone
                 /\ Hd(c) # NoSlab => Hd(c) \in E \ gone
                 /\ Hd(c) \in SlabPtr
  <2> DEFINE E == ListOf(slab, own, on, c, "empty")
  <2>1. OnList(c, "empty") = E
    BY <1>1, OnListIs DEF Lists
  <2>2. E \in SUBSET Slabs
    BY <1>3 DEF ListOf
  <2> HIDE DEF E, gone
  <2>3. CASE E \subseteq gone
    BY <2>1, <2>3, <1>3 DEF E
  <2>4. CASE ~(E \subseteq gone)
    <3>1. Hd(c) = CHOOSE s \in E \ gone : TRUE
      BY <2>1, <2>4
    <3>2. \E s \in E \ gone : TRUE
      BY <2>4
    <3>3. Hd(c) \in E \ gone
      BY <3>1, <3>2, Zenon
    <3>4. Hd(c) \in Slabs /\ Hd(c) # NoSlab /\ Hd(c) \in SlabPtr
      BY <3>3, <2>2, SlabAssumption DEF SlabPtr
    <3> HIDE DEF Hd
    <3> QED BY <2>4, <3>3, <3>4 DEF E
  <2> QED BY <2>3, <2>4
<1> HIDE DEF Hd
<1>5. ASSUME NEW c \in Caches
      PROVE  /\ ReapedCache(cache[c], cache'[c], h[c], Cardinality(Reaped(c)),
                            Objs[c] * Cardinality(Reaped(c)))
             /\ cache'[c] \in CacheRec
  <2>1. Reaped(c) \in SUBSET DOMAIN slab
    BY <1>1, ReapedIs DEF ListOf
  <2>2. Cardinality(Reaped(c)) \in Nat /\ Objs[c] \in Nat
    BY <2>1, <1>3, SlabsFinite, SlabAssumption
  <2>3. Objs[c] * Cardinality(Reaped(c)) \in Int /\ Cardinality(Reaped(c)) \in Int
    BY ONLY <2>2
  <2>4. cache'[c] = After(c) /\ h[c] = Hd(c) /\ cache[c] \in CacheRec /\ Hd(c) \in SlabPtr
    BY <1>2, <1>3, <1>4
  <2>5. ReapedCache(cache[c], After(c), Hd(c), Cardinality(Reaped(c)), Objs[c] * Cardinality(Reaped(c)))
    BY ONLY <2>3, <2>4, ReapedRecord
  <2> HIDE DEF After, h
  <2>6. ReapedCache(cache[c], cache'[c], h[c], Cardinality(Reaped(c)), Objs[c] * Cardinality(Reaped(c)))
    BY ONLY <2>4, <2>5
  <2> QED BY <2>6 DEF ReapedCache
<1>6. cache' \in [Caches -> CacheRec]
  <2>1. cache' = [c \in Caches |-> cache'[c]]
    BY <1>2
  <2> QED BY ONLY <2>1, <1>5
<1>7. /\ DOMAIN slab' = R
      /\ \A t \in R : slab'[t] = IF slab[t].prev \in gone THEN [slab[t] EXCEPT !.prev = NoSlab] ELSE slab[t]
  BY <1>2
<1>8. slab' \in [R -> SlabRec]
  <2>1. ASSUME NEW t \in R PROVE slab'[t] \in SlabRec
    <3> DEFINE r == slab[t]
    <3>1. r \in SlabRec /\ slab'[t] = IF r.prev \in gone THEN [r EXCEPT !.prev = NoSlab] ELSE r
      BY <1>3, <1>7
    <3> HIDE DEF r
    <3>2. [r EXCEPT !.prev = NoSlab] \in SlabRec
      BY ONLY <3>1, <1>3 DEF SlabRec
    <3> QED BY ONLY <3>1, <3>2
  <2>2. slab' = [t \in R |-> slab'[t]]
    BY <1>2
  <2> HIDE DEF R
  <2> QED BY ONLY <2>1, <2>2
<1>9. ASSUME NEW c \in Caches PROVE ReapedFrom(own, on, gone, c, h[c], cache'[c])
  <2>1. h[c] = Hd(c)
    OBVIOUS
  <2> HIDE DEF h, gone
  <2> QED BY <1>4, <1>5, <2>1 DEF ReapedFrom
<1>10. R = DOMAIN slab \ gone /\ gone = UNION {Reaped(c) : c \in Caches}
  OBVIOUS
<1> HIDE DEF R, h, out, gone
<1>11. /\ Good(cache', slab', Kept(own, R), Kept(on, R), Kept(pos, R), out)
       /\ Listing(slab', Kept(own, R), Kept(on, R))
  <2>1. ReapedSlabs(gone, R, slab') /\ ReapedCaches(own, on, gone, h, cache')
    BY ONLY <1>6, <1>7, <1>8, <1>9 DEF ReapedSlabs, ReapedCaches
  <2> QED BY ONLY <1>1, <1>10, <2>1, ReapGood
<1>12. lent' \cup lost' = out /\ lent' \cap lost' = {}
  BY <1>2 DEF out, SlabInv
<1>13. Good(cache', slab', Kept(own, R), Kept(on, R), Kept(pos, R), lent' \cup lost')
  BY ONLY <1>11, <1>12
<1> QED BY ONLY <1>11, <1>12, <1>13 DEF SlabInv

-------------------------------------------------------------------------------
(* The invariant.                                                          *)

\* No slab, no object.
LEMMA InitHolds == SlabInit => SlabInv
<1> SUFFICES ASSUME SlabInit PROVE SlabInv
  OBVIOUS
<1> DEFINE none == [s \in {} |-> NoSlab]
<1>1. /\ cache = [c \in Caches |-> Created] /\ DOMAIN slab = {} /\ lent \cup lost = {}
      /\ lent \cap lost = {} /\ slab = none
  BY DEF SlabInit
<1>2. Created \in CacheRec /\ \A l \in Lists : Created.slabs[l] = NoSlab
  BY DEF Created, CacheRec, SlabPtr
<1>3. Shape(cache, slab)
  <2>1. cache \in [Caches -> CacheRec]
    BY <1>1, <1>2
  <2>2. slab \in [{} -> SlabRec]
    BY <1>1
  <2> QED BY <1>1, <2>1, <2>2 DEF Shape
<1>4. Belongs(slab, none, none, none)
  <2>1. none \in [{} -> Caches] /\ none \in [{} -> Lists] /\ none \in [{} -> Nat]
    OBVIOUS
  <2> HIDE DEF none
  <2> QED BY <1>1, <2>1 DEF Belongs
<1> HIDE DEF none
<1>5. \A c \in Caches, l \in Lists : cache[c].slabs[l] = NoSlab
  BY <1>1, <1>2
<1>6. Linked(cache, slab, none, none, none)
  BY <1>1, <1>5 DEF Linked, HeadOf
<1>7. Content(slab, none, lent \cup lost)
  BY <1>1, FS_EmptySet DEF Content, OutOK
<1>8. ASSUME NEW c \in Caches PROVE TotalsOf(cache, slab, none, lent \cup lost, c)
  <2>1. SlabsOf(slab, none, c) = {} /\ OutFor(none, lent \cup lost, c) = {}
    BY <1>1 DEF SlabsOf, OutFor
  <2>2. Cardinality(SlabsOf(slab, none, c)) = 0 /\ Cardinality(OutFor(none, lent \cup lost, c)) = 0
    BY <2>1, FS_EmptySet
  <2>3. cache[c].num_slabs = 0 /\ cache[c].num_active_objs = 0 /\ cache[c].num_free_objs = 0
    BY <1>1 DEF Created
  <2>4. Objs[c] \in Nat
    BY SlabAssumption
  <2> QED BY ONLY <2>2, <2>3, <2>4 DEF TotalsOf
<1>9. Good(cache, slab, none, none, none, lent \cup lost) /\ Listing(slab, none, none)
  BY <1>1, <1>3, <1>4, <1>6, <1>7, <1>8 DEF Good, Totals, Listing
<1> QED BY <1>1, <1>9 DEF SlabInv

\* Every step keeps the invariant.
LEMMA NextKeeps == SlabInv /\ [SlabNext]_slabVars => SlabInv'
<1> SUFFICES ASSUME SlabInv, [SlabNext]_slabVars PROVE SlabInv'
  OBVIOUS
<1>1. ASSUME NEW c \in Caches, cache_alloc(c) PROVE SlabInv'
  BY <1>1, AllocKeeps
<1>2. ASSUME NEW c \in Caches, cache_allocFails(c) PROVE UNCHANGED slabVars
  BY <1>2 DEF cache_allocFails
<1>3. ASSUME NEW c \in Caches, cache_destroy(c) PROVE SlabInv'
  BY <1>3, DestroyKeeps
<1>4. ASSUME NEW c \in Caches, NEW o \in lent, FreeObject(c, o) PROVE SlabInv'
  BY <1>4, CacheFreeKeeps DEF FreeObject
<1>5. ASSUME NEW o \in lent, NEW magic \in BOOLEAN, kmem_cache_free(o, magic) PROVE SlabInv'
  <2>1. CASE magic
    <3>1. cache_free(Sized, o) /\ lent' = lent \ {o} /\ Sized \in Caches
      BY <1>5, <2>1, SlabAssumption DEF kmem_cache_free
    <3> QED BY <3>1, CacheFreeKeeps
  <2>2. CASE ~magic
    <3>1. cache' = cache /\ slab' = slab /\ lost' = lost \cup {o} /\ lent' = lent \ {o}
      BY <1>5, <2>2 DEF kmem_cache_free
    <3> QED BY <3>1, LostKeeps
  <2> QED BY <2>1, <2>2
<1>6. ASSUME cache_reap PROVE SlabInv'
  BY <1>6, ReapKeeps
<1>7. ASSUME UNCHANGED slabVars PROVE SlabInv'
  <2>1. cache' = cache /\ slab' = slab /\ lent' = lent /\ lost' = lost
    BY <1>7 DEF slabVars
  <2>2. PICK own, on, pos : Good(cache, slab, own, on, pos, lent \cup lost) /\ Listing(slab, own, on)
    BY DEF SlabInv
  <2>3. lent \cap lost = {}
    BY DEF SlabInv
  <2>4. /\ Good(cache', slab', own, on, pos, lent' \cup lost') /\ Listing(slab', own, on)
        /\ lent' \cap lost' = {}
    BY ONLY <2>1, <2>2, <2>3
  <2> QED BY ONLY <2>4 DEF SlabInv
<1> QED BY <1>1, <1>2, <1>3, <1>4, <1>5, <1>6, <1>7 DEF SlabNext

\* In every state there is an assignment of slabs to caches and lists, and an order in
\* which the lists run, with which links, objects and counters agree.
THEOREM SlabInvariance == SlabSpec => []SlabInv
<1> QED BY InitHolds, NextKeeps, PTL DEF SlabSpec

-------------------------------------------------------------------------------
(* What the invariant says of lists and objects.                           *)

\* The invariant makes the three lists what they should be.
LEMMA ListsFollow == SlabInv => SlabListsOK
<1> SUFFICES ASSUME SlabInv PROVE SlabListsOK
  OBVIOUS
<1>1. PICK own, on, pos : Good(cache, slab, own, on, pos, lent \cup lost) /\ Listing(slab, own, on)
  BY DEF SlabInv
<1>2. /\ Shape(cache, slab) /\ Belongs(slab, own, on, pos) /\ Linked(cache, slab, own, on, pos)
  BY <1>1 DEF Good
<1>3. ASSUME NEW c \in Caches, NEW l \in Lists
      PROVE  OnList(c, l) = {s \in DOMAIN slab : own[s] = c /\ on[s] = l}
  BY <1>1, OnListIs DEF ListOf
<1>4. ASSUME NEW c \in Caches, NEW l \in Lists, NEW s \in OnList(c, l)
      PROVE  /\ slab[s].prev = NoSlab <=> cache[c].slabs[l] = s
             /\ slab[s].next # NoSlab => slab[slab[s].next].prev = s
  <2>1. s \in DOMAIN slab /\ own[s] = c /\ on[s] = l
    BY <1>3, <1>4
  <2>2. LinksOf(cache, slab, own, on, pos, s) /\ HeadOf(cache, slab, own, on, c, l)
    BY <1>2, <2>1 DEF Linked
  <2>3. s # NoSlab
    BY <1>2, <2>1, SlabAssumption DEF Shape
  <2>4. slab[s].prev = NoSlab => cache[c].slabs[l] = s
    BY <2>1, <2>2 DEF LinksOf
  <2>5. cache[c].slabs[l] = s => slab[s].prev = NoSlab
    BY <2>2, <2>3 DEF HeadOf
  <2>6. slab[s].next # NoSlab => slab[slab[s].next].prev = s
    BY <2>2 DEF LinksOf
  <2> QED BY <2>4, <2>5, <2>6
<1>5. ASSUME NEW s \in DOMAIN slab
      PROVE  Cardinality({x \in Caches \X Lists : s \in OnList(x[1], x[2])}) = 1
  <2>1. own[s] \in Caches /\ on[s] \in Lists
    BY <1>2 DEF Belongs
  <2> DEFINE p == <<own[s], on[s]>>
             X == {x \in Caches \X Lists : s \in OnList(x[1], x[2])}
  <2>2. p \in Caches \X Lists /\ p[1] = own[s] /\ p[2] = on[s]
    BY <2>1
  <2>3. s \in OnList(own[s], on[s])
    BY <1>3, <2>1
  <2>4. p \in X
    BY <2>2, <2>3
  <2>5. ASSUME NEW x \in X PROVE x = p
    <3>1. x \in Caches \X Lists /\ s \in OnList(x[1], x[2])
      OBVIOUS
    <3>2. x = <<x[1], x[2]>> /\ x[1] \in Caches /\ x[2] \in Lists
      BY <3>1
    <3>3. own[s] = x[1] /\ on[s] = x[2]
      BY <1>3, <3>1, <3>2
    <3> QED BY ONLY <3>2, <3>3
  <2> HIDE DEF p, X
  <2>6. X = {p}
    BY <2>4, <2>5
  <2>7. Cardinality(X) = 1
    BY <2>6, FS_Singleton
  <2> QED BY <2>7 DEF X
<1>6. \A c \in Caches, l \in Lists : OnList(c, l) \subseteq DOMAIN slab
  BY <1>3
<1> QED BY <1>4, <1>5, <1>6 DEF SlabListsOK

\* The lists of all caches stay doubly linked lists that end, with every slab on exactly
\* one: whatever the order in which cache_alloc, cache_free, cache_reap and
\* cache_destroy link slabs in, take them out of the middle or drop them.
THEOREM SlabLists == SlabSpec => []SlabListsOK
<1> QED BY SlabInvariance, ListsFollow, PTL

\* The list of a slab says how full it is.
LEMMA ClassesFollow == SlabInv => Classified
<1> SUFFICES ASSUME SlabInv PROVE Classified
  OBVIOUS
<1>1. PICK own, on, pos : Good(cache, slab, own, on, pos, lent \cup lost) /\ Listing(slab, own, on)
  BY DEF SlabInv
<1>2. ASSUME NEW c \in Caches, NEW l \in Lists, NEW s \in OnList(c, l)
      PROVE  s \in DOMAIN slab /\ own[s] = c /\ on[s] = l /\ ListingOf(slab, own, on, s)
  <2>1. s \in ListOf(slab, own, on, c, l)
    BY <1>1, <1>2, OnListIs
  <2> QED BY <1>1, <2>1 DEF ListOf, Listing
<1>3. "full" \in Lists /\ "partial" \in Lists /\ "empty" \in Lists
  BY DEF Lists
<1>4. ASSUME NEW c \in Caches
      PROVE  /\ Objs[c] > 0 => \A s \in OnList(c, "full") : slab[s].free = 0
             /\ Objs[c] > 0 => \A s \in OnList(c, "partial") : slab[s].free > 0
             /\ Objs[c] > 1 => \A s \in OnList(c, "partial") : slab[s].inuse > 0
             /\ \A s \in OnList(c, "empty") : slab[s].inuse = 0
  <2>1. ASSUME NEW s \in OnList(c, "full"), Objs[c] > 0 PROVE slab[s].free = 0
    BY <1>2, <1>3, <2>1 DEF ListingOf
  <2>2. ASSUME NEW s \in OnList(c, "partial"), Objs[c] > 0 PROVE slab[s].free > 0
    BY <1>2, <1>3, <2>2 DEF ListingOf
  <2>3. ASSUME NEW s \in OnList(c, "partial"), Objs[c] > 1 PROVE slab[s].inuse > 0
    BY <1>2, <1>3, <2>3 DEF ListingOf
  <2>4. ASSUME NEW s \in OnList(c, "empty") PROVE slab[s].inuse = 0
    BY <1>2, <1>3 DEF ListingOf
  <2> QED BY <2>1, <2>2, <2>3, <2>4
<1> QED BY <1>4 DEF Classified

\* A slab is always on the list for how full it is, so that cache_alloc finds an object
\* on the partial list and cache_reap destroys no object in use.
THEOREM SlabClassified == SlabSpec => []Classified
<1> QED BY SlabInvariance, ClassesFollow, PTL

\* A one-to-one map keeps the number of elements.
LEMMA OneToOne ==
  ASSUME NEW S, NEW T, IsFiniteSet(S), NEW f \in [S -> T],
         \A x, y \in S : f[x] = f[y] => x = y, \A t \in T : \E x \in S : f[x] = t
  PROVE  IsFiniteSet(T) /\ Cardinality(T) = Cardinality(S)
<1>1. f \in Injection(S, T)
  BY DEF Injection, IsInjective
<1>2. f \in Surjection(S, T)
  BY DEF Surjection
<1>3. ExistsBijection(S, T)
  BY <1>1, <1>2 DEF ExistsBijection, Bijection
<1> QED BY <1>3, FS_Bijection

\* The free objects of the slab s and those that it gave out.
AllObjects(sl, out, s) ==
  LET free == {sl[s].freelist[i] : i \in DOMAIN sl[s].freelist}
      given == {o[2] : o \in {p \in out : p[1] = s}}
  IN  /\ free \cap given = {}
      /\ Cardinality(free) = Len(sl[s].freelist) /\ Len(sl[s].freelist) = sl[s].free
      /\ Cardinality(given) = sl[s].inuse

\* They are all that it has.
LEMMA SlabObjects ==
  ASSUME NEW ca, NEW sl, NEW own, NEW on, NEW pos, NEW out, Good(ca, sl, own, on, pos, out),
         NEW s \in DOMAIN sl
  PROVE  AllObjects(sl, out, s)
<1> DEFINE fl == sl[s].freelist
           n == Len(fl)
           free == {fl[i] : i \in DOMAIN fl}
           P == {p \in out : p[1] = s}
           given == {o[2] : o \in P}
<1>1. ContentOf(sl, own, out, s) /\ OutOK(sl, own, out)
  BY DEF Good, Content
<1>2. fl \in Seq(Nat) /\ n \in Nat /\ n = sl[s].free /\ DOMAIN fl = 1 .. n
  BY GoodSlab
<1>3. \A i \in 1 .. n : <<s, fl[i]>> \notin out
  BY <1>1 DEF ContentOf
<1>4. \A i, j \in 1 .. n : fl[i] = fl[j] => i = j
  BY <1>1 DEF ContentOf
<1>5. IsFiniteSet(P) /\ Cardinality(P) = sl[s].inuse
  <2>1. P = OutOf(out, s) /\ P \in SUBSET out
    BY DEF OutOf
  <2>2. IsFiniteSet(P)
    BY <2>1, <1>1, FS_Subset DEF OutOK
  <2>3. Cardinality(OutOf(out, s)) = sl[s].inuse
    BY <1>1 DEF ContentOf
  <2> HIDE DEF P
  <2> QED BY <2>1, <2>2, <2>3
<1>6. \A o \in P : o = <<s, o[2]>> /\ o \in out
  BY <1>1 DEF OutOK
<1>7. free \cap given = {}
  <2> SUFFICES ASSUME NEW v \in free, v \in given PROVE FALSE
    OBVIOUS
  <2>1. PICK i \in 1 .. n : v = fl[i]
    BY <1>2
  <2>2. PICK o \in P : v = o[2]
    OBVIOUS
  <2>3. <<s, v>> \in out
    BY <1>6, <2>2
  <2>4. <<s, v>> \notin out
    BY <1>3, <2>1
  <2> QED BY <2>3, <2>4
<1>8. Cardinality(free) = n
  <2> DEFINE f == [i \in 1 .. n |-> fl[i]]
  <2>1. f \in [1 .. n -> free]
    BY <1>2
  <2>2. \A x, y \in 1 .. n : f[x] = f[y] => x = y
    BY <1>4
  <2>3. \A t \in free : \E x \in 1 .. n : f[x] = t
    BY <1>2
  <2>4. IsFiniteSet(1 .. n) /\ Cardinality(1 .. n) = n
    BY <1>2, FS_Interval
  <2> HIDE DEF f, free, n
  <2>5. Cardinality(free) = Cardinality(1 .. n)
    BY ONLY <2>1, <2>2, <2>3, <2>4, OneToOne
  <2> QED BY ONLY <2>4, <2>5
<1>9. Cardinality(given) = Cardinality(P)
  <2> DEFINE f == [o \in P |-> o[2]]
  <2>1. f \in [P -> given]
    OBVIOUS
  <2>2. \A x, y \in P : f[x] = f[y] => x = y
    <3> SUFFICES ASSUME NEW x \in P, NEW y \in P, x[2] = y[2] PROVE x = y
      OBVIOUS
    <3>1. x = <<s, x[2]>> /\ y = <<s, y[2]>>
      BY <1>6
    <3> QED BY ONLY <3>1, x[2] = y[2]
  <2>3. \A t \in given : \E x \in P : f[x] = t
    OBVIOUS
  <2> HIDE DEF f, given, P
  <2> QED BY ONLY <2>1, <2>2, <2>3, <1>5, OneToOne
<1> HIDE DEF P, n
<1>10. Cardinality(given) = sl[s].inuse
  BY ONLY <1>5, <1>9
<1> QED BY ONLY <1>2, <1>7, <1>8, <1>10 DEF n, P, AllObjects

\* The invariant accounts for every object.
LEMMA ConservedFollows == SlabInv => Conserved
<1> SUFFICES ASSUME SlabInv PROVE Conserved
  OBVIOUS
<1> DEFINE out == lent \cup lost
<1>1. PICK own, on, pos : Good(cache, slab, own, on, pos, out) /\ Listing(slab, own, on)
  BY DEF SlabInv
<1>2. lent \cap lost = {}
  BY DEF SlabInv
<1>3. \A o \in out : o[1] \in DOMAIN slab
  BY <1>1 DEF Good, Content, OutOK
<1>4. ASSUME NEW c \in Caches
      PROVE  LET all == UNION {OnList(c, l) : l \in Lists}
             IN  /\ cache[c].num_slabs = Cardinality(all)
                 /\ cache[c].num_active_objs + cache[c].num_free_objs = Objs[c] * Cardinality(all)
                 /\ cache[c].num_active_objs = Cardinality({o \in lent \cup lost : o[1] \in all})
  <2> DEFINE all == UNION {OnList(c, l) : l \in Lists}
  <2>1. all = SlabsOf(slab, own, c)
    <3>1. \A l \in Lists : OnList(c, l) = ListOf(slab, own, on, c, l)
      BY <1>1, OnListIs
    <3>2. \A s \in DOMAIN slab : on[s] \in Lists
      BY <1>1 DEF Good, Belongs
    <3> QED BY <3>1, <3>2 DEF ListOf, SlabsOf
  <2> HIDE DEF all
  <2>2. {o \in out : o[1] \in all} = OutFor(own, out, c)
    BY <1>3, <2>1 DEF SlabsOf, OutFor
  <2>3. TotalsOf(cache, slab, own, out, c)
    BY <1>1 DEF Good, Totals
  <2> HIDE DEF out
  <2>4. /\ cache[c].num_slabs = Cardinality(all)
        /\ cache[c].num_active_objs + cache[c].num_free_objs = Objs[c] * Cardinality(all)
        /\ cache[c].num_active_objs = Cardinality({o \in out : o[1] \in all})
    BY ONLY <2>1, <2>2, <2>3 DEF TotalsOf
  <2> QED BY <2>4 DEF all, out
<1>5. ASSUME NEW s \in DOMAIN slab
      PROVE  LET free == {slab[s].freelist[i] : i \in DOMAIN slab[s].freelist}
                 given == {o[2] : o \in {p \in lent \cup lost : p[1] = s}}
             IN  /\ free \cap given = {}
                 /\ Cardinality(free) = Len(slab[s].freelist) /\ Len(slab[s].freelist) = slab[s].free
                 /\ Cardinality(given) = slab[s].inuse
  <2>1. AllObjects(slab, out, s)
    <3> HIDE DEF out
    <3> QED BY <1>1, SlabObjects
  <2> QED BY ONLY <2>1, Zenon DEF AllObjects, out
<1> QED BY <1>2, <1>3, <1>4, <1>5 DEF Conserved

\* Each object of a slab is free, owned or lost to a free that ignored it, no object is
\* two of these, and the counters of slabs and caches add up, after any sequence of
\* allocations, frees, reaps and destructions.
THEOREM SlabConserved == SlabSpec => []Conserved
<1> QED BY SlabInvariance, ConservedFollows, PTL

-------------------------------------------------------------------------------
(* The bounds of counters, indices and chains.                             *)

\* A finite set of numbers has a largest one.
LEMMA LargestOf ==
  ASSUME NEW S \in SUBSET Nat, IsFiniteSet(S), S # {}
  PROVE  \E x \in S : \A y \in S : y <= x
<1> DEFINE Top(Q) == \E x \in Q : \A y \in Q : y <= x
           T == {n \in Nat : \A Q \in SUBSET Nat :
                   IsFiniteSet(Q) /\ Cardinality(Q) = n /\ Q # {} => Top(Q)}
<1>1. 0 \in T
  <2>1. \A Q : IsFiniteSet(Q) /\ Cardinality(Q) = 0 => Q = {}
    BY FS_EmptySet
  <2> QED BY <2>1
<1>2. ASSUME NEW n \in T PROVE n + 1 \in T
  <2> SUFFICES ASSUME NEW Q \in SUBSET Nat, IsFiniteSet(Q), Cardinality(Q) = n + 1, Q # {}
               PROVE  Top(Q)
    OBVIOUS
  <2>1. PICK e \in Q : TRUE
    OBVIOUS
  <2> DEFINE P == Q \ {e}
  <2>2. IsFiniteSet(P) /\ Cardinality(P) = n /\ P \in SUBSET Nat
    <3>1. IsFiniteSet(P) /\ Cardinality(P) = Cardinality(Q) - 1
      BY FS_RemoveElement
    <3>2. n \in Nat /\ P \in SUBSET Nat
      OBVIOUS
    <3> HIDE DEF P
    <3> QED BY ONLY <3>1, <3>2, Cardinality(Q) = n + 1
  <2>3. CASE P = {}
    <3>1. \A y \in Q : y <= e
      BY <2>3
    <3> QED BY <3>1
  <2>4. CASE P # {}
    <3>1. Top(P)
      BY <2>2, <2>4
    <3>2. PICK x \in P : \A y \in P : y <= x
      BY <3>1
    <3>3. x \in Q /\ x \in Nat /\ e \in Nat /\ \A y \in Q : y = e \/ y <= x
      BY <3>2
    <3>4. CASE e <= x
      <4>1. \A y \in Q : y <= x
        BY <3>3, <3>4
      <4> QED BY <3>3, <4>1
    <3>5. CASE x <= e
      <4>1. \A y \in Q : y \in Nat /\ (y = e \/ y <= x)
        BY <3>3
      <4>2. \A y \in Q : y <= e
        BY <3>3, <3>5, <4>1
      <4> QED BY <4>2
    <3> QED BY <3>3, <3>4, <3>5
  <2> QED BY <2>3, <2>4
<1> HIDE DEF Top
<1>3. T = Nat
  <2>1. T \in SUBSET Nat
    OBVIOUS
  <2> HIDE DEF T
  <2> QED BY ONLY <1>1, <1>2, <2>1, NatSetInduction
<1>4. Cardinality(S) \in T
  BY <1>3, FS_CardinalityType
<1>5. Top(S)
  BY <1>4
<1> QED BY <1>5 DEF Top

\* No slab has more objects than MaxObjs.
LEMMA ObjsBounded ==
  /\ MaxObjs \in Nat
  /\ \A c \in Caches : Objs[c] \in Nat /\ Objs[c] <= MaxObjs
<1> DEFINE S == {Objs[c] : c \in Caches}
<1>1. Objs \in [Caches -> Nat] /\ IsFiniteSet(Caches) /\ Sized \in Caches
  BY SlabAssumption
<1>2. S \in SUBSET Nat /\ S # {}
  BY <1>1
<1>3. Objs \in Surjection(Caches, S)
  BY <1>1 DEF Surjection
<1>4. IsFiniteSet(S)
  BY <1>1, <1>3, FS_Surjection
<1> HIDE DEF S
<1>5. \E x \in S : \A y \in S : x >= y
  <2>1. PICK x \in S : \A y \in S : y <= x
    BY <1>2, <1>4, LargestOf
  <2>2. \A y \in S : x >= y
    BY <1>2, <2>1
  <2> QED BY <2>2
<1>6. Max(S) \in S /\ \A y \in S : Max(S) >= y
  BY <1>5 DEF Max
<1>7. MaxObjs = Max(S)
  BY DEF MaxObjs, S
<1>8. MaxObjs \in Nat /\ \A y \in S : y <= MaxObjs
  BY <1>2, <1>6, <1>7
<1>9. \A c \in Caches : Objs[c] \in S
  BY DEF S
<1> QED BY <1>1, <1>8, <1>9

\* Products of numbers in order are in order.
LEMMA ProductsOrdered ==
  ASSUME NEW a \in Nat, NEW b \in Nat, NEW m \in Nat, NEW n \in Nat, a <= m, b <= n
  PROVE  a * b \in Nat /\ a * b <= m * n
<1>1. a * b \in Nat /\ a * n \in Nat /\ m * n \in Nat
  OBVIOUS
<1>2. a * b <= a * n
  <2>1. PICK k \in Nat : n = b + k
    <3>1. n - b \in Nat /\ n = b + (n - b)
      OBVIOUS
    <3> QED BY <3>1
  <2>2. a * n = a * b + a * k /\ a * k \in Nat
    BY <2>1
  <2> QED BY ONLY <1>1, <2>2
<1>3. a * n <= m * n
  <2>1. PICK k \in Nat : m = a + k
    <3>1. m - a \in Nat /\ m = a + (m - a)
      OBVIOUS
    <3> QED BY <3>1
  <2>2. m * n = a * n + k * n /\ k * n \in Nat
    BY <2>1
  <2> QED BY ONLY <1>1, <2>2
<1> QED BY ONLY <1>1, <1>2, <1>3

\* The counters of a cache are within their bounds: its objects that are not free are
\* pairs of one of its slabs and an index.
LEMMA CountsBounded ==
  ASSUME NEW ca, NEW sl, NEW own, NEW on, NEW pos, NEW out, Good(ca, sl, own, on, pos, out),
         NEW c \in Caches
  PROVE  /\ ca[c].num_slabs \in 0 .. Cardinality(Slabs)
         /\ ca[c].num_active_objs \in 0 .. Total /\ ca[c].num_free_objs \in 0 .. Total
<1> DEFINE S == SlabsOf(sl, own, c)
           A == OutFor(own, out, c)
           n == Cardinality(S)
           a == Cardinality(A)
           I == 0 .. Objs[c] - 1
<1>1. Shape(ca, sl) /\ OutOK(sl, own, out) /\ TotalsOf(ca, sl, own, out, c)
  BY DEF Good, Content, Totals
<1>2. S \in SUBSET Slabs
  BY <1>1 DEF Shape, SlabsOf
<1>3. IsFiniteSet(S) /\ n \in Nat /\ n <= Cardinality(Slabs) /\ Cardinality(Slabs) \in Nat
  BY <1>2, SlabAssumption, FS_Subset, FS_CardinalityType
<1>4. Objs[c] \in Nat /\ MaxObjs \in Nat /\ Objs[c] <= MaxObjs
  BY ObjsBounded
<1>5. IsFiniteSet(I) /\ Cardinality(I) = Objs[c]
  <2>1. 0 \in Int /\ Objs[c] - 1 \in Int
    BY ONLY <1>4
  <2>2. IsFiniteSet(I) /\ Cardinality(I) = IF 0 > Objs[c] - 1 THEN 0 ELSE Objs[c] - 1 - 0 + 1
    BY ONLY <2>1, FS_Interval
  <2> HIDE DEF I
  <2> QED BY ONLY <1>4, <2>2
<1>6. A \in SUBSET (S \X I)
  <2> SUFFICES ASSUME NEW o \in A PROVE o \in S \X I
    OBVIOUS
  <2>1. o \in out /\ own[o[1]] = c
    BY DEF OutFor
  <2>2. o = <<o[1], o[2]>> /\ o[1] \in DOMAIN sl /\ o[2] \in Nat /\ o[2] < Objs[own[o[1]]]
    BY <1>1, <2>1 DEF OutOK
  <2>3. o[1] \in S
    BY <2>1, <2>2 DEF SlabsOf
  <2>4. o[2] \in I
    BY <2>1, <2>2, <1>4
  <2> HIDE DEF S, I
  <2> QED BY ONLY <2>2, <2>3, <2>4
<1> HIDE DEF S, A, I
<1>7. a \in Nat /\ a <= n * Objs[c]
  <2>1. IsFiniteSet(S \X I) /\ Cardinality(S \X I) = n * Objs[c]
    BY <1>3, <1>5, FS_Product
  <2>2. IsFiniteSet(A) /\ a <= Cardinality(S \X I)
    BY <1>6, <2>1, FS_Subset
  <2> QED BY <2>1, <2>2, FS_CardinalityType
<1>8. Objs[c] * n \in Nat /\ Objs[c] * n <= Total
  BY <1>3, <1>4, ProductsOrdered DEF Total
<1>9. n * Objs[c] = Objs[c] * n
  BY ONLY <1>3, <1>4
<1>10. /\ ca[c].num_slabs = n /\ ca[c].num_active_objs = a
       /\ ca[c].num_active_objs + ca[c].num_free_objs = Objs[c] * n
  BY <1>1 DEF TotalsOf, S, A
<1>11. ca[c].num_free_objs \in Int /\ Total \in Nat
  <2>1. ca[c] \in CacheRec
    BY <1>1 DEF Shape
  <2>2. Total \in Nat
    BY <1>3, <1>4 DEF Total
  <2> QED BY <2>1, <2>2 DEF CacheRec
<1> DEFINE z == Objs[c] * n
<1>12. z \in Nat /\ z <= Total /\ a <= z /\ ca[c].num_active_objs + ca[c].num_free_objs = z
  BY ONLY <1>7, <1>8, <1>9, <1>10
<1> HIDE DEF z, n, a
<1> QED BY ONLY <1>3, <1>7, <1>10, <1>11, <1>12

\* The invariant keeps every variable within its type.
LEMMA TypesFollow == SlabInv => SlabTypeOK
<1> SUFFICES ASSUME SlabInv PROVE SlabTypeOK
  OBVIOUS
<1> DEFINE out == lent \cup lost
<1>1. PICK own, on, pos : Good(cache, slab, own, on, pos, out) /\ Listing(slab, own, on)
  BY DEF SlabInv
<1> HIDE DEF out
<1>2. Shape(cache, slab) /\ Content(slab, own, out)
  BY <1>1 DEF Good
<1>3. cache \in [Caches -> [slabs : [Lists -> SlabPtr], num_slabs : 0 .. Cardinality(Slabs),
                            num_active_objs : 0 .. Total, num_free_objs : 0 .. Total]]
  <2>1. ASSUME NEW c \in Caches
        PROVE  cache[c] \in [slabs : [Lists -> SlabPtr], num_slabs : 0 .. Cardinality(Slabs),
                             num_active_objs : 0 .. Total, num_free_objs : 0 .. Total]
    <3>1. /\ cache[c].num_slabs \in 0 .. Cardinality(Slabs)
          /\ cache[c].num_active_objs \in 0 .. Total /\ cache[c].num_free_objs \in 0 .. Total
      BY <1>1, CountsBounded
    <3>2. cache[c] \in CacheRec
      BY <1>2 DEF Shape
    <3> DEFINE k == cache[c]
               B == 0 .. Cardinality(Slabs)
               C == 0 .. Total
    <3>3. k \in CacheRec /\ k.num_slabs \in B /\ k.num_active_objs \in C /\ k.num_free_objs \in C
      BY ONLY <3>1, <3>2
    <3> HIDE DEF k, B, C
    <3>4. k \in [slabs : [Lists -> SlabPtr], num_slabs : B, num_active_objs : C, num_free_objs : C]
      BY ONLY <3>3 DEF CacheRec
    <3> QED BY <3>4 DEF k, B, C
  <2>2. cache \in [Caches -> CacheRec]
    BY <1>2 DEF Shape
  <2> QED BY ONLY <2>1, <2>2
<1>4. ASSUME NEW s \in DOMAIN slab PROVE slab[s] \in SlabRecord
  <2> DEFINE r == slab[s]
             fl == r.freelist
             n == Len(fl)
             m == Objs[own[s]]
  <2>1. /\ m \in Nat /\ r.free \in Nat /\ r.inuse \in Nat /\ r.free + r.inuse = m
        /\ fl \in Seq(Nat) /\ n = r.free /\ own[s] \in Caches
    BY <1>1, GoodSlab
  <2>2. m <= MaxObjs /\ MaxObjs \in Nat
    BY <2>1, ObjsBounded
  <2>3. r \in SlabRec
    BY <1>2 DEF Shape
  <2>4. ContentOf(slab, own, out, s)
    BY <1>2 DEF Content
  <2>5. \A i \in 1 .. n : fl[i] \in 0 .. MaxObjs - 1
    <3>1. \A i \in 1 .. n : fl[i] < m
      BY <2>4 DEF ContentOf
    <3>2. \A i \in 1 .. n : fl[i] \in Nat
      BY <2>1
    <3> HIDE DEF fl, m, n
    <3> QED BY ONLY <2>1, <2>2, <3>1, <3>2
  <2>6. fl \in [1 .. n -> 0 .. MaxObjs - 1] /\ n \in 0 .. MaxObjs
    <3>1. fl = [i \in 1 .. n |-> fl[i]]
      <4>1. fl \in Seq(Nat)
        BY <2>1
      <4> HIDE DEF fl
      <4> QED BY ONLY <4>1
    <3>2. fl \in [1 .. n -> 0 .. MaxObjs - 1]
      <4> HIDE DEF fl, n
      <4> QED BY ONLY <3>1, <2>5
    <3>3. n \in 0 .. MaxObjs
      BY ONLY <2>1, <2>2
    <3> QED BY ONLY <3>2, <3>3
  <2> DEFINE F == UNION {[1 .. k -> 0 .. MaxObjs - 1] : k \in 0 .. MaxObjs}
             B == 0 .. MaxObjs
  <2>7. fl \in F
    <3> HIDE DEF fl, n
    <3> QED BY ONLY <2>6, Zenon
  <2>8. r.inuse \in B /\ r.free \in B
    BY ONLY <2>1, <2>2
  <2> HIDE DEF r, F, B
  <2>9. r \in [next : SlabPtr, prev : SlabPtr, inuse : B, free : B, freelist : F]
    BY ONLY <2>3, <2>7, <2>8 DEF SlabRec
  <2> QED BY ONLY <2>9 DEF SlabRecord, r, F, B
<1>5. out \in SUBSET Objects
  <2> SUFFICES ASSUME NEW o \in out PROVE o \in Objects
    OBVIOUS
  <2>1. o = <<o[1], o[2]>> /\ o[1] \in DOMAIN slab /\ o[2] \in Nat /\ o[2] < Objs[own[o[1]]]
    BY <1>2 DEF Content, OutOK
  <2>2. o[1] \in Slabs
    BY <1>2, <2>1 DEF Shape
  <2>3. Objs[own[o[1]]] \in Nat /\ Objs[own[o[1]]] <= MaxObjs /\ MaxObjs \in Nat
    <3>1. own[o[1]] \in Caches
      BY <1>1, <2>1, GoodSlab
    <3> QED BY <3>1, ObjsBounded
  <2>4. o[2] \in 0 .. MaxObjs - 1
    <3>1. o[2] \in Nat /\ o[2] < Objs[own[o[1]]]
      BY <2>1
    <3> QED BY ONLY <3>1, <2>3
  <2> QED BY ONLY <2>1, <2>2, <2>4 DEF Objects
<1>6. lent \subseteq Objects /\ lost \subseteq Objects
  BY <1>5 DEF out
<1>7. DOMAIN slab \subseteq Slabs
  BY <1>2 DEF Shape
<1> QED BY <1>3, <1>4, <1>6, <1>7 DEF SlabTypeOK

\* The counters stay between zero and what the slabs can hold, the chains of free
\* objects have valid indices only, and no owner has an object outside the slabs.
THEOREM SlabTypeCorrect == SlabSpec => []SlabTypeOK
<1> QED BY SlabInvariance, TypesFollow, PTL

-------------------------------------------------------------------------------
(* When a cache grows.                                                     *)

\* No slab is on a list without a head.
LEMMA FromNull ==
  ASSUME NEW sl
  PROVE  From(sl, NoSlab) = {}
<1> DEFINE A == Chain(sl, NoSlab)
           T == {k \in Nat : A[k] = NoSlab}
<1>1. A[0] = NoSlab /\ \A k \in Nat : A[k + 1] = IF A[k] = NoSlab THEN NoSlab ELSE sl[A[k]].next
  BY ChainDefined
<1> HIDE DEF A
<1>2. T \in SUBSET Nat /\ 0 \in T /\ \A n \in T : n + 1 \in T
  BY <1>1
<1>3. T = Nat
  <2> HIDE DEF T
  <2> QED BY ONLY <1>2, NatSetInduction
<1>4. Cardinality(Slabs) \in Nat
  BY SlabAssumption, FS_CardinalityType
<1>5. \A k \in 0 .. Cardinality(Slabs) : A[k] = NoSlab
  BY <1>3, <1>4
<1>6. From(sl, NoSlab) = {A[k] : k \in 0 .. Cardinality(Slabs)} \ {NoSlab}
  BY FromIsChain DEF A
<1> QED BY <1>5, <1>6

\* A pointer of a cache does not change how many slabs it counts.
LEMMA PointerOnly ==
  ASSUME NEW k, NEW l, NEW v, DOMAIN k = {"slabs", "num_slabs", "num_active_objs", "num_free_objs"}
  PROVE  LET m == [k EXCEPT !.slabs[l] = v]
         IN  DOMAIN m = DOMAIN k /\ m.num_slabs = k.num_slabs
OBVIOUS

\* move_slab moves a slab from one list of its cache to another: the cache has as many
\* as before.
LEMMA MoveCounts ==
  ASSUME NEW k, NEW sl, NEW from, NEW to, NEW s,
         DOMAIN k = {"slabs", "num_slabs", "num_active_objs", "num_free_objs"}
  PROVE  move_slab([cache |-> k, slab |-> sl], from, to, s).cache.num_slabs = k.num_slabs
<1> DEFINE r == sl[s]
           ca1 == IF r.prev = NoSlab THEN [k EXCEPT !.slabs[from] = r.next] ELSE k
           ca2 == [ca1 EXCEPT !.slabs[to] = s]
           in == [cache |-> k, slab |-> sl]
<1>1. in.cache = k /\ in.slab = sl
  OBVIOUS
<1> HIDE DEF in
<1>2. move_slab(in, from, to, s).cache = ca2
  BY ONLY <1>1 DEF move_slab, ca2, ca1, r
<1>3. DOMAIN ca1 = DOMAIN k /\ ca1.num_slabs = k.num_slabs
  BY PointerOnly
<1> HIDE DEF ca1
<1>4. ca2.num_slabs = ca1.num_slabs
  BY <1>3, PointerOnly
<1> HIDE DEF ca2
<1> QED BY <1>2, <1>3, <1>4 DEF in

\* A cache that gains a slab has used up all others.
GrowStep ==
  \A c \in Caches : cache[c].num_slabs' > cache[c].num_slabs =>
    \A l \in Lists : \A s \in OnList(c, l) : slab[s].free = 0

\* The slabs of a cache with no head of a partial or an empty list.
LEMMA AllUsedUp ==
  ASSUME SlabInv, NEW c \in Caches, cache[c].slabs["partial"] = NoSlab, cache[c].slabs["empty"] = NoSlab
  PROVE  \A l \in Lists : \A s \in OnList(c, l) : slab[s].free = 0
<1>1. PICK own, on, pos : Good(cache, slab, own, on, pos, lent \cup lost) /\ Listing(slab, own, on)
  BY DEF SlabInv
<1>2. OnList(c, "partial") = {} /\ OnList(c, "empty") = {}
  BY FromNull DEF OnList
<1> SUFFICES ASSUME NEW l \in Lists, NEW s \in OnList(c, l) PROVE slab[s].free = 0
  OBVIOUS
<1>3. l = "full"
  BY <1>2 DEF Lists
<1>4. s \in DOMAIN slab /\ own[s] = c /\ on[s] = l
  BY <1>1, OnListIs DEF ListOf
<1>5. /\ Objs[c] \in Nat /\ slab[s].free \in Nat /\ slab[s].inuse \in Nat
      /\ slab[s].free + slab[s].inuse = Objs[c]
  BY <1>1, <1>4, GoodSlab
<1>6. Objs[c] > 0 => slab[s].free = 0
  BY <1>1, <1>3, <1>4 DEF Listing, ListingOf
<1> QED BY <1>5, <1>6

\* The fields of a cache.
LEMMA CacheFields ==
  ASSUME NEW k \in CacheRec
  PROVE  /\ DOMAIN k = {"slabs", "num_slabs", "num_active_objs", "num_free_objs"}
         /\ k.num_slabs \in Int /\ k.num_active_objs \in Int /\ k.num_free_objs \in Int
BY DEF CacheRec

\* Taking or giving back an object leaves the fields and the number of slabs alone.
LEMMA CountersOnly ==
  ASSUME NEW k, NEW a, NEW b, DOMAIN k = {"slabs", "num_slabs", "num_active_objs", "num_free_objs"}
  PROVE  LET m == [k EXCEPT !.num_active_objs = a, !.num_free_objs = b]
         IN  DOMAIN m = DOMAIN k /\ m.num_slabs = k.num_slabs
OBVIOUS

\* cache_alloc adds a slab only with no slab on the partial and the empty list.
LEMMA AllocGrows ==
  ASSUME SlabInv, NEW c \in Caches, cache_alloc(c)
  PROVE  GrowStep
<1> DEFINE out == lent \cup lost
           p == cache[c].slabs["partial"]
           e == cache[c].slabs["empty"]
           in == [cache |-> cache[c], slab |-> slab]
<1>1. PICK own, on, pos : Good(cache, slab, own, on, pos, out) /\ Listing(slab, own, on)
  BY DEF SlabInv
<1>2. PICK st \in Prepared(c) :
        LET s == st.cache.slabs["partial"]
        IN  IF st.slab[s].freelist = <<>>
            THEN Become(c, st) /\ UNCHANGED lent
            ELSE /\ Become(c, TakeObject(st, s))
                 /\ lent' = lent \cup {<<s, Head(st.slab[s].freelist)>>}
  BY DEF cache_alloc
<1> DEFINE s == st.cache.slabs["partial"]
           k == st.cache
           tk == TakeObject(st, s)
           km == [k EXCEPT !.num_active_objs = @ + 1, !.num_free_objs = @ - 1]
<1>3. cache \in [Caches -> CacheRec]
  BY <1>1 DEF Good, Shape
<1>4. cache[c] \in CacheRec
  BY <1>3
<1>5. k \in CacheRec
  <2>1. PICK ow, om, pm : ReadyToGive([cache EXCEPT ![c] = st.cache], st.slab, ow, om, pm, out, c)
    BY <1>1, PreparedReady
  <2>2. [cache EXCEPT ![c] = st.cache] \in [Caches -> CacheRec]
    BY <2>1 DEF ReadyToGive, Good, Shape
  <2>3. [cache EXCEPT ![c] = st.cache][c] = k
    BY <1>3
  <2> QED BY ONLY <2>2, <2>3, c \in Caches
<1>6. (p # NoSlab \/ e # NoSlab) => k.num_slabs = cache[c].num_slabs
  <2>1. /\ p # NoSlab => st = in
        /\ p = NoSlab /\ e # NoSlab => st = move_slab(in, "empty", "partial", e)
    BY Zenon DEF Prepared, SlabsReady
  <2>2. move_slab(in, "empty", "partial", e).cache.num_slabs = cache[c].num_slabs
    BY <1>4, CacheFields, MoveCounts
  <2> QED BY <2>1, <2>2
<1>7. tk.cache.num_slabs = k.num_slabs
  <2> DEFINE sm == [st.slab EXCEPT ![s].freelist = Tail(@), ![s].inuse = @ + 1, ![s].free = @ - 1]
  <2>1. tk = IF sm[s].free = 0 THEN move_slab([cache |-> km, slab |-> sm], "partial", "full", s)
             ELSE [cache |-> km, slab |-> sm]
    BY DEF TakeObject
  <2>2. /\ DOMAIN km = {"slabs", "num_slabs", "num_active_objs", "num_free_objs"}
        /\ km.num_slabs = k.num_slabs
    BY <1>5, CacheFields, CountersOnly
  <2> HIDE DEF sm, km
  <2>3. move_slab([cache |-> km, slab |-> sm], "partial", "full", s).cache.num_slabs = km.num_slabs
    BY <2>2, MoveCounts
  <2> HIDE DEF tk
  <2> QED BY ONLY <2>1, <2>2, <2>3
<1>8. \/ cache' = [cache EXCEPT ![c] = k]
      \/ cache' = [cache EXCEPT ![c] = tk.cache]
  BY <1>2 DEF Become
<1>9. /\ cache'[c].num_slabs = k.num_slabs
      /\ \A d \in Caches : d # c => cache'[d] = cache[d]
  <2> HIDE DEF tk, k
  <2> QED BY ONLY <1>3, <1>7, <1>8, c \in Caches
<1>10. \A d \in Caches : cache[d].num_slabs \in Int
  BY <1>3, CacheFields
<1> SUFFICES ASSUME NEW d \in Caches, cache'[d].num_slabs > cache[d].num_slabs
             PROVE  \A l \in Lists : \A x \in OnList(d, l) : slab[x].free = 0
  BY DEF GrowStep
<1>11. d = c
  BY <1>9, <1>10
<1>12. p = NoSlab /\ e = NoSlab
  <2>1. k.num_slabs > cache[c].num_slabs
    BY <1>9, <1>11
  <2> HIDE DEF p, e, k
  <2> QED BY ONLY <1>6, <1>10, <2>1, c \in Caches
<1> QED BY <1>11, <1>12, AllUsedUp

\* A step after which no cache has more slabs.
LEMMA NoGrowth ==
  ASSUME \A d \in Caches : /\ cache'[d].num_slabs \in Int /\ cache[d].num_slabs \in Int
                           /\ cache'[d].num_slabs <= cache[d].num_slabs
  PROVE  GrowStep
BY DEF GrowStep

\* cache_free adds no slab.
LEMMA FreeNoGrowth ==
  ASSUME SlabInv, NEW c \in Caches, NEW o, cache_free(c, o)
  PROVE  GrowStep
<1>1. PICK own, on, pos : Good(cache, slab, own, on, pos, lent \cup lost)
  BY DEF SlabInv
<1>2. cache \in [Caches -> CacheRec] /\ cache[c] \in CacheRec
  BY <1>1 DEF Good, Shape
<1>3. \A d \in Caches : cache[d].num_slabs \in Int
  BY <1>2, CacheFields
<1>4. ASSUME o[1] \in Searched(c)
      PROVE  \A d \in Caches : cache'[d].num_slabs = cache[d].num_slabs
  <2> DEFINE s == o[1]
             k == [cache[c] EXCEPT !.num_active_objs = @ - 1, !.num_free_objs = @ + 1]
             sm == [slab EXCEPT ![s].freelist = <<o[2]>> \o @, ![s].inuse = @ - 1, ![s].free = @ + 1]
             in == [cache |-> k, slab |-> sm]
             st == RelistAfterFree(c, in, s, slab[s].free = 0)
  <2>1. cache' = [cache EXCEPT ![c] = st.cache]
    BY <1>4 DEF cache_free, Become
  <2>2. \/ st = move_slab(in, "full", "partial", s) \/ st = move_slab(in, "partial", "empty", s)
        \/ st = in
    BY DEF RelistAfterFree
  <2>3. /\ DOMAIN k = {"slabs", "num_slabs", "num_active_objs", "num_free_objs"}
        /\ k.num_slabs = cache[c].num_slabs
    BY <1>2, CacheFields, CountersOnly
  <2> HIDE DEF k, sm, s, st
  <2>4. /\ move_slab(in, "full", "partial", s).cache.num_slabs = k.num_slabs
        /\ move_slab(in, "partial", "empty", s).cache.num_slabs = k.num_slabs
    BY <2>3, MoveCounts
  <2>5. st.cache.num_slabs = cache[c].num_slabs
    BY ONLY <2>2, <2>3, <2>4
  <2> QED BY ONLY <1>2, <2>1, <2>5
<1>5. ASSUME o[1] \notin Searched(c)
      PROVE  \A d \in Caches : cache'[d].num_slabs = cache[d].num_slabs
  BY <1>5 DEF cache_free
<1>6. \A d \in Caches : cache'[d].num_slabs = cache[d].num_slabs
  BY <1>4, <1>5
<1>7. \A d \in Caches : /\ cache'[d].num_slabs \in Int /\ cache[d].num_slabs \in Int
                        /\ cache'[d].num_slabs <= cache[d].num_slabs
  BY ONLY <1>3, <1>6
<1> QED BY ONLY <1>7, NoGrowth

\* cache_destroy and cache_reap take slabs away.
LEMMA GoneNoGrowth ==
  ASSUME SlabInv
  PROVE  /\ \A c \in Caches : cache_destroy(c) => GrowStep
         /\ cache_reap => GrowStep
<1>1. PICK own, on, pos : Good(cache, slab, own, on, pos, lent \cup lost)
  BY DEF SlabInv
<1>2. cache \in [Caches -> CacheRec] /\ Shape(cache, slab)
  BY <1>1 DEF Good, Shape
<1>3. \A d \in Caches : cache[d].num_slabs \in Int /\ cache[d].num_slabs >= 0
  <2> SUFFICES ASSUME NEW d \in Caches PROVE cache[d].num_slabs \in Int /\ cache[d].num_slabs >= 0
    OBVIOUS
  <2>1. cache[d].num_slabs \in 0 .. Cardinality(Slabs)
    BY <1>1, CountsBounded
  <2> QED BY ONLY <2>1
<1>4. ASSUME NEW c \in Caches, cache_destroy(c) PROVE GrowStep
  <2>1. cache' = [cache EXCEPT ![c] = Created] /\ Created.num_slabs = 0
    BY <1>4 DEF cache_destroy, Created
  <2> HIDE DEF Created
  <2>2. \A d \in Caches : /\ cache'[d].num_slabs \in Int /\ cache[d].num_slabs \in Int
                          /\ cache'[d].num_slabs <= cache[d].num_slabs
    BY ONLY <1>2, <1>3, <2>1
  <2> QED BY ONLY <2>2, NoGrowth
<1>5. ASSUME cache_reap PROVE GrowStep
  <2>1. ASSUME NEW d \in Caches
        PROVE  cache'[d].num_slabs = cache[d].num_slabs - Cardinality(Reaped(d))
    <3> DEFINE gone == UNION {Reaped(c) : c \in Caches}
               h == IF OnList(d, "empty") \subseteq gone THEN NoSlab
                    ELSE CHOOSE s \in OnList(d, "empty") \ gone : TRUE
    <3>1. cache'[d] = [cache[d] EXCEPT !.slabs["empty"] = h,
                                       !.num_slabs = @ - Cardinality(Reaped(d)),
                                       !.num_free_objs = @ - Objs[d] * Cardinality(Reaped(d))]
      BY <1>5 DEF cache_reap
    <3> DEFINE k == cache[d]
               n == Cardinality(Reaped(d))
               f == Objs[d] * n
    <3>2. k \in CacheRec
      BY <1>2
    <3>3. cache'[d] = [k EXCEPT !.slabs["empty"] = h, !.num_slabs = @ - n, !.num_free_objs = @ - f]
      BY ONLY <3>1
    <3> HIDE DEF k, n, f, h
    <3>4. [k EXCEPT !.slabs["empty"] = h, !.num_slabs = @ - n, !.num_free_objs = @ - f].num_slabs
            = k.num_slabs - n
      BY ONLY <3>2 DEF CacheRec
    <3>5. cache'[d].num_slabs = k.num_slabs - n
      BY ONLY <3>3, <3>4
    <3> QED BY ONLY <3>5 DEF k, n
  <2>2. \A d \in Caches : Cardinality(Reaped(d)) \in Nat
    <3> SUFFICES ASSUME NEW d \in Caches PROVE Cardinality(Reaped(d)) \in Nat
      OBVIOUS
    <3>1. Reaped(d) \in SUBSET DOMAIN slab
      BY <1>1, ReapedIs DEF ListOf
    <3> QED BY <1>2, <3>1, SlabsFinite
  <2>3. \A d \in Caches : /\ cache'[d].num_slabs \in Int /\ cache[d].num_slabs \in Int
                          /\ cache'[d].num_slabs <= cache[d].num_slabs
    BY ONLY <1>3, <2>1, <2>2
  <2> QED BY ONLY <2>3, NoGrowth
<1> QED BY <1>4, <1>5

\* A step that adds a slab to a cache finds all its slabs used up.
LEMMA StepGrows == SlabInv /\ [SlabNext]_slabVars => [GrowStep]_slabVars
<1> SUFFICES ASSUME SlabInv, SlabNext PROVE [GrowStep]_slabVars
  OBVIOUS
<1>1. ASSUME NEW c \in Caches, cache_alloc(c) PROVE GrowStep
  BY <1>1, AllocGrows
<1>2. ASSUME NEW c \in Caches, cache_allocFails(c) PROVE UNCHANGED slabVars
  BY <1>2 DEF cache_allocFails
<1>3. ASSUME NEW c \in Caches, cache_destroy(c) PROVE GrowStep
  BY <1>3, GoneNoGrowth
<1>4. ASSUME NEW c \in Caches, NEW o \in lent, FreeObject(c, o) PROVE GrowStep
  BY <1>4, FreeNoGrowth DEF FreeObject
<1>5. ASSUME NEW o \in lent, NEW magic \in BOOLEAN, kmem_cache_free(o, magic) PROVE GrowStep
  <2>1. CASE magic
    <3>1. cache_free(Sized, o) /\ Sized \in Caches
      BY <1>5, <2>1, SlabAssumption DEF kmem_cache_free
    <3> QED BY <3>1, FreeNoGrowth
  <2>2. CASE ~magic
    <3>1. cache' = cache
      BY <1>5, <2>2 DEF kmem_cache_free
    <3>2. PICK own, on, pos : Good(cache, slab, own, on, pos, lent \cup lost)
      BY DEF SlabInv
    <3>3. \A d \in Caches : cache[d] \in CacheRec
      BY <3>2 DEF Good, Shape
    <3>4. \A d \in Caches : cache[d].num_slabs \in Int
      BY <3>3, CacheFields
    <3>5. \A d \in Caches : /\ cache'[d].num_slabs \in Int /\ cache[d].num_slabs \in Int
                            /\ cache'[d].num_slabs <= cache[d].num_slabs
      BY ONLY <3>1, <3>4
    <3> QED BY ONLY <3>5, NoGrowth
  <2> QED BY <2>1, <2>2
<1>6. ASSUME cache_reap PROVE GrowStep
  BY <1>6, GoneNoGrowth
<1> QED BY <1>1, <1>2, <1>3, <1>4, <1>5, <1>6 DEF SlabNext

\* Whatever the lists have been through, cache_alloc asks the buddy allocator for a new
\* slab only when no slab of the cache has a free object left.
THEOREM SlabGrowsOnlyWhenFull == SlabSpec => GrowsOnlyWhenFull
<1>1. SlabSpec => [][GrowStep]_slabVars
  BY SlabInvariance, StepGrows, PTL DEF SlabSpec
<1> QED BY <1>1 DEF GrowsOnlyWhenFull, GrowStep
===============================================================================
