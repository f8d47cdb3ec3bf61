------------------------------ MODULE BuddyProofs ------------------------------
(***************************************************************************)
(* Proofs about module Buddy, for a zone of any size, any number of orders *)
(* and any sequence of calls.                                              *)
(***************************************************************************)
EXTENDS Buddy, ProofLemmas, FiniteSetTheorems

-------------------------------------------------------------------------------
(* Sizes of blocks. *)

\* A block is twice as large as a block of the order below.
LEMMA Sizes ==
  /\ block_size \in [Nat -> Nat \ {0}]
  /\ block_size[0] = 1 /\ \A o \in Nat : block_size[o + 1] = 2 * block_size[o]
<1> DEFINE D == Nat \ {0}
           F == [x \in D |-> 2 * x]
           IsSize(f) == f = [o \in Nat |-> IF o = 0 THEN 1 ELSE 2 * f[o - 1]]
<1>1. 1 \in D /\ F \in [D -> D]
  OBVIOUS
<1>2. PICK w \in [Nat -> D] : IsLoop(w, 1, F)
  <2> HIDE DEF D, F
  <2> QED BY <1>1, LoopDefined
<1>3. IsSize(w)
  <2>1. \A o \in Nat : o # 0 => o - 1 \in Nat /\ F[w[o - 1]] = 2 * w[o - 1]
    OBVIOUS
  <2> QED BY <1>2, <2>1 DEF IsLoop
<1>4. IsSize(block_size)
  <2> HIDE DEF IsSize
  <2>1. block_size = CHOOSE f : IsSize(f)
    BY DEF block_size, IsSize
  <2> QED BY <1>3, <2>1, Zenon
<1>5. block_size[0] = 1 /\ \A o \in Nat : block_size[o + 1] = 2 * block_size[o]
  <2>1. \A o \in Nat : o + 1 \in Nat /\ o + 1 # 0 /\ (o + 1) - 1 = o
    OBVIOUS
  <2> QED BY <1>4, <2>1
<1>6. \A o \in Nat : block_size[o] \in D
  <2>1. \A o \in Nat : block_size[o] \in D => block_size[o + 1] \in D
    BY <1>5
  <2> HIDE DEF D, IsSize
  <2> QED BY <1>1, <1>5, <2>1, LoopStays
<1>7. block_size = [o \in Nat |-> block_size[o]]
  BY <1>4
<1> QED BY <1>5, <1>6, <1>7

\* The size of a block of an order is a positive number.
LEMMA SizeIs ==
  ASSUME NEW o \in Nat
  PROVE  /\ block_size[o] \in Nat /\ block_size[o] >= 1
         /\ o + 1 \in Nat /\ block_size[o + 1] = 2 * block_size[o]
BY Sizes

\* The size of a larger order is a multiple of the size of a smaller one.
LEMMA SizeMultiple ==
  ASSUME NEW o \in Nat, NEW p \in Nat, o <= p
  PROVE  /\ \E m \in Nat : block_size[p] = m * block_size[o]
         /\ block_size[o] <= block_size[p]
         /\ o < p => 2 * block_size[o] <= block_size[p]
<1> DEFINE T == {k \in Nat : /\ \E m \in Nat : block_size[o + k] = m * block_size[o]
                             /\ block_size[o] <= block_size[o + k]
                             /\ k # 0 => 2 * block_size[o] <= block_size[o + k]}
<1>1. 0 \in T
  <2>1. o + 0 = o /\ block_size[o] = 1 * block_size[o]
    BY SizeIs
  <2> QED BY <2>1, SizeIs
<1>2. ASSUME NEW k \in T PROVE k + 1 \in T
  <2>1. PICK m \in Nat : block_size[o + k] = m * block_size[o]
    OBVIOUS
  <2>2. /\ o + k \in Nat /\ o + (k + 1) = (o + k) + 1 /\ block_size[o] \in Nat
        /\ block_size[o + (k + 1)] = 2 * block_size[o + k] /\ block_size[o + k] \in Nat
    BY SizeIs
  <2>3. 2 * m \in Nat /\ block_size[o + (k + 1)] = (2 * m) * block_size[o]
    BY <2>1, <2>2
  <2>4. block_size[o] <= block_size[o + k]
    OBVIOUS
  <2> HIDE DEF T
  <2>5. /\ block_size[o] <= block_size[o + (k + 1)]
        /\ 2 * block_size[o] <= block_size[o + (k + 1)]
    BY <2>2, <2>4
  <2>6. k + 1 \in Nat
    BY DEF T
  <2> QED BY <2>3, <2>5, <2>6 DEF T
<1>3. T = Nat
  <2>1. T \in SUBSET Nat
    OBVIOUS
  <2> HIDE DEF T
  <2> QED BY <1>1, <1>2, <2>1, NatSetInduction
<1>4. p - o \in Nat /\ o + (p - o) = p /\ (o < p => p - o # 0)
  OBVIOUS
<1>5. p - o \in T
  BY <1>3, <1>4
<1>6. /\ \E m \in Nat : block_size[o + (p - o)] = m * block_size[o]
      /\ block_size[o] <= block_size[o + (p - o)]
      /\ p - o # 0 => 2 * block_size[o] <= block_size[o + (p - o)]
  BY <1>5
<1> HIDE DEF T
<1> QED BY <1>4, <1>6

-------------------------------------------------------------------------------
(* Addresses.  A block of an order starts at a multiple of its size. *)

Aligned(a, o) == \E k \in Nat : a = k * block_size[o]

\* Two multiples of a number differ by at least that number.
LEMMA Multiples ==
  ASSUME NEW s \in Nat, NEW j \in Nat, NEW k \in Nat, j * s < k * s
  PROVE  j * s + s <= k * s
<1>1. j < k
  <2> SUFFICES ASSUME k <= j PROVE FALSE
    OBVIOUS
  <2>1. PICK d \in Nat : j = k + d
    <3>1. j - k \in Nat /\ j = k + (j - k)
      OBVIOUS
    <3> QED BY <3>1
  <2>2. j * s = k * s + d * s
    BY <2>1
  <2>3. d * s \in Nat /\ k * s \in Nat
    OBVIOUS
  <2> QED BY <2>2, <2>3
<1>2. PICK d \in Nat : k = (j + 1) + d
  <2>1. k - (j + 1) \in Nat /\ k = (j + 1) + (k - (j + 1))
    BY <1>1
  <2> QED BY <2>1
<1>3. k * s = j * s + s + d * s
  BY <1>2
<1>4. d * s \in Nat /\ j * s \in Nat
  OBVIOUS
<1> QED BY <1>3, <1>4

\* The same of addresses.
LEMMA AlignedApart ==
  ASSUME NEW o \in Nat, NEW a, NEW b, Aligned(a, o), Aligned(b, o), a < b
  PROVE  a + block_size[o] <= b
<1>1. PICK j \in Nat : a = j * block_size[o]
  BY DEF Aligned
<1>2. PICK k \in Nat : b = k * block_size[o]
  BY DEF Aligned
<1>3. block_size[o] \in Nat
  BY SizeIs
<1> QED BY <1>1, <1>2, <1>3, Multiples

\* Aligned addresses are numbers, and so are their sums.
LEMMA AlignedNat ==
  ASSUME NEW o \in Nat, NEW a, Aligned(a, o)
  PROVE  a \in Nat /\ block_size[o] \in Nat /\ Aligned(a + block_size[o], o)
<1>1. PICK j \in Nat : a = j * block_size[o]
  BY DEF Aligned
<1>2. block_size[o] \in Nat
  BY SizeIs
<1>3. a \in Nat /\ j + 1 \in Nat /\ a + block_size[o] = (j + 1) * block_size[o]
  BY <1>1, <1>2
<1> QED BY <1>2, <1>3 DEF Aligned

\* What is aligned for an order is aligned for the orders below.
LEMMA AlignedDown ==
  ASSUME NEW o \in Nat, NEW p \in Nat, o <= p, NEW a, Aligned(a, p)
  PROVE  Aligned(a, o) /\ Aligned(a + block_size[p], o)
<1>1. PICK j \in Nat : a = j * block_size[p]
  BY DEF Aligned
<1>2. PICK m \in Nat : block_size[p] = m * block_size[o]
  BY SizeMultiple
<1>3. block_size[o] \in Nat
  BY SizeIs
<1>4. j * m \in Nat /\ j * m + m \in Nat
  OBVIOUS
<1>5. j * (m * block_size[o]) = (j * m) * block_size[o]
  BY <1>3
<1>6. (j * m) * block_size[o] + m * block_size[o] = (j * m + m) * block_size[o]
  BY <1>3, <1>4
<1> QED BY <1>1, <1>2, <1>4, <1>5, <1>6 DEF Aligned

-------------------------------------------------------------------------------
(* Buddies. *)

\* The pair of buddies that a block belongs to starts at the lower of the two, which
\* is aligned for the next order.
Pair(l, h, o) == /\ Aligned(l, o) /\ Aligned(h, o) /\ Aligned(l, o + 1)
                 /\ h = l + block_size[o]

\* The quotient of a multiple.
LEMMA QuotientOf ==
  ASSUME NEW s \in Nat \ {0}, NEW k \in Nat
  PROVE  (k * s) \div s = k
<1> DEFINE q == (k * s) \div s
           r == (k * s) % s
<1>1. k * s \in Nat
  OBVIOUS
<1>2. q \in Nat /\ r \in 0 .. s - 1 /\ k * s = q * s + r
  BY <1>1, DivMod
<1> HIDE DEF q, r
<1>3. q * s \in Nat
  BY <1>2
<1>4. CASE q * s < k * s
  <2>1. q * s + s <= k * s
    BY <1>2, <1>4, Multiples
  <2> QED BY <1>1, <1>2, <1>3, <2>1
<1>5. CASE q * s >= k * s
  <2>1. q * s = k * s
    BY <1>1, <1>2, <1>3, <1>5
  <2>2. ASSUME q < k PROVE FALSE
    <3>1. PICK d \in Nat : k = q + 1 + d
      <4>1. k - (q + 1) \in Nat /\ k = q + 1 + (k - (q + 1))
        BY <1>2, <2>2
      <4> QED BY <4>1
    <3>2. k * s = q * s + s + d * s /\ d * s \in Nat
      BY <1>2, <3>1
    <3> QED BY <1>1, <1>3, <2>1, <3>2
  <2>3. ASSUME k < q PROVE FALSE
    <3>1. PICK d \in Nat : q = k + 1 + d
      <4>1. q - (k + 1) \in Nat /\ q = k + 1 + (q - (k + 1))
        BY <1>2, <2>3
      <4> QED BY <4>1
    <3>2. q * s = k * s + s + d * s /\ d * s \in Nat
      BY <1>2, <3>1
    <3> QED BY <1>1, <1>3, <2>1, <3>2
  <2>4. q = k
    BY <1>2, <2>2, <2>3
  <2> QED BY <2>4 DEF q
<1>6. q * s < k * s \/ q * s >= k * s
  BY <1>1, <1>3
<1> QED BY <1>4, <1>5, <1>6

\* A block and the address that find_buddy computes make a pair.
LEMMA BuddyPairs ==
  ASSUME NEW o \in Nat, NEW a, Aligned(a, o)
  PROVE  LET b == BuddyAddr(a, o)
         IN  b \in Nat /\ (Pair(a, b, o) \/ Pair(b, a, o))
<1> DEFINE s == block_size[o]
           b == BuddyAddr(a, o)
<1>1. s \in Nat \ {0} /\ o + 1 \in Nat /\ block_size[o + 1] = 2 * s
  BY SizeIs
<1>2. PICK k \in Nat : a = k * s
  BY DEF Aligned
<1>3. a \div s = k
  <2> HIDE DEF s
  <2> QED BY <1>1, <1>2, QuotientOf
<1>4. b = (IF k % 2 = 0 THEN k + 1 ELSE k - 1) * s
  BY <1>3 DEF BuddyAddr
<1> HIDE DEF b, s
<1>5. CASE k % 2 = 0
  <2>1. PICK m \in Nat : k = 2 * m
    <3>1. k \div 2 \in Nat /\ k = 2 * (k \div 2)
      BY <1>5
    <3> QED BY <3>1
  <2>2. b = (k + 1) * s /\ k + 1 \in Nat
    BY <1>4, <1>5
  <2>3. b = a + s /\ b \in Nat
    BY <1>1, <1>2, <2>2
  <2>4. a = m * (2 * s)
    BY <1>1, <1>2, <2>1
  <2>5. Pair(a, b, o)
    BY <1>1, <1>2, <2>2, <2>3, <2>4 DEF Pair, Aligned, s
  <2> QED BY <2>3, <2>5 DEF b
<1>6. CASE k % 2 # 0
  <2>1. PICK m \in Nat : k = 2 * m + 1
    <3>1. k \div 2 \in Nat /\ k = 2 * (k \div 2) + 1
      BY <1>6
    <3> QED BY <3>1
  <2>2. k - 1 = 2 * m /\ 2 * m \in Nat
    BY <2>1
  <2>3. b = (2 * m) * s
    BY <1>4, <1>6, <2>2
  <2>4. b \in Nat /\ a = b + s
    BY <1>1, <1>2, <2>1, <2>3
  <2>5. b = m * (2 * s)
    BY <1>1, <2>3
  <2>6. Pair(b, a, o)
    BY <1>1, <1>2, <2>2, <2>3, <2>4, <2>5 DEF Pair, Aligned, s
  <2> QED BY <2>4, <2>6 DEF b
<1> QED BY <1>5, <1>6

\* Each of a pair is the buddy of the other.
LEMMA PairBuddy ==
  ASSUME NEW o \in Nat, NEW l, NEW h, Pair(l, h, o)
  PROVE  BuddyAddr(l, o) = h /\ BuddyAddr(h, o) = l
<1> DEFINE s == block_size[o]
<1>1. s \in Nat \ {0} /\ block_size[o + 1] = 2 * s
  BY SizeIs
<1>2. PICK m \in Nat : l = m * (2 * s)
  BY <1>1 DEF Pair, Aligned
<1>3. h = l + s
  BY DEF Pair
<1> HIDE DEF s
<1>4. /\ l = (2 * m) * s /\ 2 * m \in Nat /\ (2 * m) % 2 = 0
      /\ h = (2 * m + 1) * s /\ 2 * m + 1 \in Nat /\ (2 * m + 1) % 2 # 0
      /\ (2 * m + 1) - 1 = 2 * m
  BY <1>1, <1>2, <1>3
<1>5. l \div s = 2 * m /\ h \div s = 2 * m + 1
  BY <1>1, <1>4, QuotientOf
<1>6. BuddyAddr(l, o) = (2 * m + 1) * s
  BY <1>4, <1>5 DEF BuddyAddr, s
<1>7. BuddyAddr(h, o) = (2 * m) * s
  BY <1>4, <1>5 DEF BuddyAddr, s
<1> QED BY <1>4, <1>6, <1>7

\* A larger block that has a unit of a pair has all of it.
LEMMA PairInside ==
  ASSUME NEW o \in Nat, NEW l, NEW h, Pair(l, h, o), NEW d, NEW p \in Nat, o < p, Aligned(d, p),
         NEW x \in Nat, d <= x, x < d + block_size[p], l <= x, x < l + 2 * block_size[o]
  PROVE  d <= l /\ l + 2 * block_size[o] <= d + block_size[p]
<1> DEFINE q == o + 1
           S == block_size[q]
           e == d + block_size[p]
<1>1. q \in Nat /\ q <= p /\ S \in Nat /\ S = 2 * block_size[o] /\ Aligned(l, q)
  BY SizeIs DEF Pair
<1>2. Aligned(d, q) /\ Aligned(e, q)
  BY <1>1, AlignedDown
<1>3. l \in Nat /\ d \in Nat /\ e \in Nat
  BY <1>1, <1>2, AlignedNat
<1>4. Aligned(l + S, q)
  BY <1>1, AlignedNat
<1>5. ASSUME l < d PROVE FALSE
  <2>1. l + S <= d
    BY <1>1, <1>2, <1>5, AlignedApart
  <2> QED BY <1>1, <1>3, <2>1
<1>6. ASSUME e < l + S PROVE FALSE
  <2>1. e + S <= l + S
    BY <1>1, <1>2, <1>4, <1>6, AlignedApart
  <2> QED BY <1>1, <1>3, <2>1
<1> QED BY <1>1, <1>3, <1>5, <1>6

-------------------------------------------------------------------------------
(* Tilings.  B is a set of starts of blocks, od the order of each, and the  *)
(* blocks tile the units below end.                                         *)

Ends(od, a) == a + block_size[od[a]]

Tiled(od, B, end) ==
  /\ B \subseteq Addrs
  /\ \A a \in B : od[a] \in Orders /\ Aligned(a, od[a]) /\ Ends(od, a) <= end
  /\ \A a, b \in B : a < b => Ends(od, a) <= b
  /\ \A x \in 0 .. end - 1 : \E a \in B : a <= x /\ x < Ends(od, a)

\* The numbers of a tiling.
LEMMA TiledNat ==
  ASSUME NEW od, NEW B, NEW end \in Nat, Tiled(od, B, end), NEW a \in B
  PROVE  /\ a \in Nat /\ a \in Addrs /\ od[a] \in Nat /\ od[a] \in Orders
         /\ block_size[od[a]] \in Nat /\ block_size[od[a]] >= 1
         /\ Ends(od, a) \in Nat /\ Ends(od, a) <= end /\ Aligned(a, od[a])
<1>1. a \in Addrs /\ od[a] \in Orders /\ Ends(od, a) <= end /\ Aligned(a, od[a])
  BY DEF Tiled
<1>2. a \in Nat /\ od[a] \in Nat
  BY <1>1, BuddyAssumption DEF Addrs, Orders
<1>3. block_size[od[a]] \in Nat /\ block_size[od[a]] >= 1
  BY <1>2, SizeIs
<1> QED BY <1>1, <1>2, <1>3 DEF Ends

\* Orders elsewhere do not matter.
LEMMA SameTiling ==
  ASSUME NEW od, NEW oe, NEW B, NEW end, Tiled(od, B, end), \A a \in B : oe[a] = od[a]
  PROVE  Tiled(oe, B, end)
BY DEF Tiled, Ends

\* The address that find_buddy computes is the start of a block, if it lies in the zone.
LEMMA BuddyStarts ==
  ASSUME NEW od, NEW B, NEW end \in Nat, Tiled(od, B, end), NEW a \in B,
         BuddyAddr(a, od[a]) < end
  PROVE  BuddyAddr(a, od[a]) \in B
<1> DEFINE o == od[a]
           s == block_size[o]
           b == BuddyAddr(a, o)
<1>1. a \in Nat /\ o \in Nat /\ s \in Nat /\ s >= 1 /\ Aligned(a, o) /\ Ends(od, a) = a + s
  BY TiledNat DEF Ends
<1>2. b \in Nat /\ (Pair(a, b, o) \/ Pair(b, a, o))
  BY <1>1, BuddyPairs
<1>3. b \in 0 .. end - 1
  BY <1>2
<1>4. PICK d \in B : d <= b /\ b < Ends(od, d)
  BY <1>3 DEF Tiled
<1> DEFINE p == od[d]
<1>5. d \in Nat /\ p \in Nat /\ Aligned(d, p) /\ Ends(od, d) = d + block_size[p]
      /\ block_size[p] \in Nat
  BY TiledNat DEF Ends
<1> HIDE DEF o, s, b, p
<1>6. Aligned(b, o) /\ b # a
  BY <1>1, <1>2 DEF Pair, s
<1>7. CASE p <= o
  <2>1. Aligned(b, p)
    BY <1>1, <1>5, <1>6, <1>7, AlignedDown
  <2>2. ASSUME d < b PROVE FALSE
    <3>1. d + block_size[p] <= b
      BY <1>5, <2>1, <2>2, AlignedApart
    <3> QED BY <1>2, <1>4, <1>5, <3>1
  <2>3. d = b
    BY <1>2, <1>4, <1>5, <2>2
  <2> QED BY <2>3 DEF b, o
<1>8. CASE o < p
  <2>1. PICK l, h : Pair(l, h, o) /\ ((l = a /\ h = b) \/ (l = b /\ h = a))
    BY <1>2
  <2>2. h = l + s /\ l \in Nat /\ h \in Nat
    BY <1>1, <1>2, <2>1 DEF Pair, s
  <2>3. l <= b /\ b < l + 2 * block_size[o] /\ a < l + 2 * block_size[o] /\ l <= a
    BY <1>1, <2>1, <2>2 DEF s
  <2>4. d <= l /\ l + 2 * block_size[o] <= d + block_size[p]
    BY <1>1, <1>2, <1>4, <1>5, <1>8, <2>1, <2>3, PairInside
  <2>5. d <= a /\ a < Ends(od, d) /\ d # a
    <3>1. d # a
      BY <1>1, <1>8 DEF o, p
    <3> QED BY <1>1, <1>2, <1>5, <2>2, <2>3, <2>4, <3>1 DEF s
  <2>6. d < a => Ends(od, d) <= a
    BY DEF Tiled
  <2> QED BY <1>1, <1>5, <2>5, <2>6
<1> QED BY <1>1, <1>5, <1>7, <1>8

\* split_block: the upper half of a block becomes a block.
LEMMA SplitTiling ==
  ASSUME NEW od, NEW B, NEW end \in 0 .. Units, Tiled(od, B, end), NEW a \in B, NEW o \in Orders,
         od[a] = o + 1, NEW oe, NEW u, u = a + block_size[o], oe[a] = o, oe[u] = o,
         \A x \in B \ {a} : oe[x] = od[x]
  PROVE  /\ u \in Addrs /\ u \notin B /\ Pair(a, u, o)
         /\ Tiled(oe, B \cup {u}, end)
<1> DEFINE s == block_size[o]
<1>0. end \in Nat /\ o \in Nat /\ s \in Nat /\ s >= 1 /\ Units \in Nat
  BY BuddyAssumption, SizeIs DEF Orders
<1>1. /\ a \in Nat /\ Aligned(a, o + 1) /\ block_size[o + 1] = 2 * s /\ Ends(od, a) = a + 2 * s
      /\ a + 2 * s <= end
  BY <1>0, TiledNat, SizeIs DEF Ends
<1>2. Aligned(a, o)
  BY <1>0, <1>1, AlignedDown
<1>3. Aligned(u, o)
  BY <1>0, <1>2, AlignedNat
<1>4. u \in Nat /\ a < u /\ u < a + 2 * s
  BY <1>0, <1>1
<1>5. u \in Addrs
  BY <1>0, <1>1, <1>4 DEF Addrs
<1>6. \A b \in B : b \in Nat /\ Ends(od, b) \in Nat /\ Ends(od, b) <= end
  BY <1>0, TiledNat
<1>7. \A b \in B : (b < a => Ends(od, b) <= a) /\ (a < b => a + 2 * s <= b)
  BY <1>1 DEF Tiled
<1>8. u \notin B
  BY <1>0, <1>1, <1>4, <1>7
<1>9. Pair(a, u, o)
  BY <1>1, <1>2, <1>3 DEF Pair
<1>10. \A b \in B \ {a} : Ends(oe, b) = Ends(od, b)
  BY DEF Ends
<1>11. Ends(oe, a) = a + s /\ Ends(oe, u) = a + 2 * s
  BY <1>0, <1>1 DEF Ends
<1> HIDE DEF s
<1>12. ASSUME NEW b \in B \cup {u}
       PROVE  oe[b] \in Orders /\ Aligned(b, oe[b]) /\ Ends(oe, b) <= end
  <2>1. CASE b = u
    BY <1>1, <1>3, <1>11, <2>1
  <2>2. CASE b = a
    BY <1>0, <1>1, <1>2, <1>11, <2>2
  <2>3. CASE b \in B /\ b # a
    BY <1>10, <2>3 DEF Tiled
  <2> QED BY <2>1, <2>2, <2>3
<1>13. ASSUME NEW b \in B \cup {u}, NEW c \in B \cup {u}, b < c
       PROVE  Ends(oe, b) <= c
  <2>1. CASE b = u
    BY <1>0, <1>1, <1>4, <1>6, <1>7, <1>11, <1>13, <2>1
  <2>2. CASE b = a
    BY <1>0, <1>1, <1>4, <1>6, <1>7, <1>11, <1>13, <2>2 DEF s
  <2>3. CASE b \in B /\ b # a /\ c = u
    <3>1. b < a
      BY <1>0, <1>1, <1>4, <1>6, <1>7, <1>13, <2>3
    <3> QED BY <1>1, <1>4, <1>6, <1>7, <1>10, <2>3, <3>1
  <2>4. CASE b \in B /\ b # a /\ c \in B
    BY <1>10, <1>13, <2>4 DEF Tiled
  <2> QED BY <2>1, <2>2, <2>3, <2>4
<1>14. ASSUME NEW x \in 0 .. end - 1
       PROVE  \E b \in B \cup {u} : b <= x /\ x < Ends(oe, b)
  <2>1. PICK b \in B : b <= x /\ x < Ends(od, b)
    BY DEF Tiled
  <2>2. CASE b # a
    BY <1>10, <2>1, <2>2
  <2>3. CASE b = a /\ x < u
    BY <1>0, <1>11, <2>1, <2>3 DEF s
  <2>4. CASE b = a /\ ~(x < u)
    BY <1>0, <1>1, <1>4, <1>11, <2>1, <2>4
  <2> QED BY <2>2, <2>3, <2>4
<1>15. B \cup {u} \subseteq Addrs
  BY <1>5 DEF Tiled
<1>16. Tiled(oe, B \cup {u}, end)
  BY <1>12, <1>13, <1>14, <1>15 DEF Tiled
<1> QED BY <1>5, <1>8, <1>9, <1>16

\* coalesce_block: two buddies become one block.
LEMMA MergeTiling ==
  ASSUME NEW od, NEW B, NEW end \in Nat, Tiled(od, B, end), NEW l \in B, NEW h \in B,
         NEW o \in Nat, o + 1 \in Orders, od[l] = o, od[h] = o, Pair(l, h, o),
         NEW oe, oe[l] = o + 1, \A x \in B \ {l, h} : oe[x] = od[x]
  PROVE  Tiled(oe, B \ {h}, end)
<1> DEFINE s == block_size[o]
<1>0. s \in Nat /\ s >= 1 /\ block_size[o + 1] = 2 * s
  BY SizeIs
<1>1. /\ l \in Nat /\ h \in Nat /\ h = l + s /\ Aligned(l, o + 1)
      /\ Ends(od, l) = h /\ Ends(od, h) = l + 2 * s /\ Ends(od, h) <= end
  BY <1>0, TiledNat DEF Pair, Ends
<1>2. Ends(oe, l) = l + 2 * s
  BY <1>0, <1>1 DEF Ends
<1>3. \A b \in B \ {l, h} : Ends(oe, b) = Ends(od, b)
  BY DEF Ends
<1>4. \A b \in B : b \in Nat /\ Ends(od, b) \in Nat
  BY TiledNat
<1>5. \A b, c \in B : b < c => Ends(od, b) <= c
  BY DEF Tiled
<1> HIDE DEF s
<1>6. ASSUME NEW b \in B \ {h}
      PROVE  oe[b] \in Orders /\ Aligned(b, oe[b]) /\ Ends(oe, b) <= end
  <2>1. CASE b = l
    BY <1>1, <1>2, <2>1
  <2>2. CASE b # l
    BY <1>3, <2>2 DEF Tiled
  <2> QED BY <2>1, <2>2
<1>7. ASSUME NEW b \in B \ {h}, NEW c \in B \ {h}, b < c
      PROVE  Ends(oe, b) <= c
  <2>1. CASE b = l
    <3>1. h <= c
      BY <1>1, <1>5, <1>7, <2>1
    <3>2. h < c
      BY <1>1, <1>4, <3>1
    <3> QED BY <1>1, <1>2, <1>5, <2>1, <3>2
  <2>2. CASE b # l
    BY <1>3, <1>5, <1>7, <2>2
  <2> QED BY <2>1, <2>2
<1>8. ASSUME NEW x \in 0 .. end - 1
      PROVE  \E b \in B \ {h} : b <= x /\ x < Ends(oe, b)
  <2>1. PICK b \in B : b <= x /\ x < Ends(od, b)
    BY DEF Tiled
  <2>2. CASE b \notin {l, h}
    BY <1>3, <2>1, <2>2
  <2>3. CASE b \in {l, h}
    <3>1. l <= x /\ x < l + 2 * s /\ l \in B \ {h}
      BY <1>0, <1>1, <2>1, <2>3
    <3> QED BY <1>2, <3>1
  <2> QED BY <2>2, <2>3
<1>9. B \ {h} \subseteq Addrs
  BY DEF Tiled
<1> QED BY <1>6, <1>7, <1>8, <1>9 DEF Tiled

\* init: one more block, behind the others.
LEMMA CarveTiling ==
  ASSUME NEW od, NEW B, NEW at \in Addrs, Tiled(od, B, at), NEW o \in Orders, Aligned(at, o),
         NEW end, end = at + block_size[o], end <= Units,
         NEW oe, oe[at] = o, \A x \in B : oe[x] = od[x]
  PROVE  at \notin B /\ end \in Nat /\ Tiled(oe, B \cup {at}, end)
<1>0. /\ o \in Nat /\ at \in Nat /\ block_size[o] \in Nat /\ block_size[o] >= 1 /\ end \in Nat
      /\ Ends(oe, at) = end
  BY BuddyAssumption, SizeIs DEF Orders, Addrs, Ends
<1>1. \A b \in B : b \in Nat /\ Ends(od, b) \in Nat /\ b < Ends(od, b) /\ Ends(od, b) <= at
  <2> SUFFICES ASSUME NEW b \in B
               PROVE  b \in Nat /\ Ends(od, b) \in Nat /\ b < Ends(od, b) /\ Ends(od, b) <= at
    OBVIOUS
  <2>1. b \in Nat /\ Ends(od, b) \in Nat /\ Ends(od, b) <= at /\ block_size[od[b]] >= 1
        /\ block_size[od[b]] \in Nat
    BY <1>0, TiledNat
  <2> QED BY <2>1 DEF Ends
<1>2. at \notin B
  BY <1>0, <1>1
<1>3. \A b \in B : Ends(oe, b) = Ends(od, b)
  BY DEF Ends
<1>4. ASSUME NEW b \in B \cup {at}
      PROVE  oe[b] \in Orders /\ Aligned(b, oe[b]) /\ Ends(oe, b) <= end
  <2>1. CASE b = at
    BY <1>0, <2>1
  <2>2. CASE b \in B
    <3>1. oe[b] \in Orders /\ Aligned(b, oe[b])
      BY <2>2 DEF Tiled
    <3> QED BY <1>0, <1>1, <1>3, <2>2, <3>1
  <2> QED BY <2>1, <2>2
<1>5. ASSUME NEW b \in B \cup {at}, NEW c \in B \cup {at}, b < c
      PROVE  Ends(oe, b) <= c
  <2>1. CASE b = at
    BY <1>0, <1>1, <1>5, <2>1
  <2>2. CASE b \in B /\ c = at
    BY <1>1, <1>3, <2>2
  <2>3. CASE b \in B /\ c \in B
    BY <1>3, <1>5, <2>3 DEF Tiled
  <2> QED BY <2>1, <2>2, <2>3
<1>6. ASSUME NEW x \in 0 .. end - 1
      PROVE  \E b \in B \cup {at} : b <= x /\ x < Ends(oe, b)
  <2>1. CASE x < at
    <3>1. PICK b \in B : b <= x /\ x < Ends(od, b)
      BY <1>0, <2>1 DEF Tiled
    <3> QED BY <1>3, <3>1
  <2>2. CASE ~(x < at)
    BY <1>0, <2>2
  <2> QED BY <2>1, <2>2
<1>7. B \cup {at} \subseteq Addrs
  BY DEF Tiled
<1>8. Tiled(oe, B \cup {at}, end)
  BY <1>4, <1>5, <1>6, <1>7 DEF Tiled
<1> QED BY <1>0, <1>2, <1>8

-------------------------------------------------------------------------------
(* What the operations on the free lists do to pointers and counters. *)

ZoneRec == [free_lists : [Orders -> Ptr], free_blocks : [Orders -> Int], allocated_blocks : Int,
            hdr : [Addrs -> Header]]

\* The headers have the same order, magic number and flag.
SameKind(h, g) ==
  g.order = h.order /\ g.magic = h.magic /\ g.allocated = h.allocated

\* The null pointer is no address.
LEMMA NullIsNoAddr ==
  NULL \notin Addrs /\ NULL \in Ptr /\ Addrs \subseteq Ptr /\ Addrs \subseteq Nat
BY BuddyAssumption DEF Addrs, Ptr

\* A next pointer is set.
LEMMA NextSet ==
  ASSUME NEW hd \in [Addrs -> Header], NEW a, NEW v \in Ptr
  PROVE  LET hx == [hd EXCEPT ![a].next = v]
         IN  /\ hx \in [Addrs -> Header]
             /\ \A x \in Addrs : /\ hx[x].next = IF x = a THEN v ELSE hd[x].next
                                 /\ hx[x].prev = hd[x].prev /\ SameKind(hd[x], hx[x])
<1> DEFINE hx == [hd EXCEPT ![a].next = v]
<1>1. \A x \in Addrs : hd[x] \in Header
  OBVIOUS
<1>2. \A x \in Addrs : hx[x] = IF x = a THEN [hd[x] EXCEPT !.next = v] ELSE hd[x]
  OBVIOUS
<1>3. hx = [x \in Addrs |-> hx[x]]
  OBVIOUS
<1> HIDE DEF hx
<1>4. ASSUME NEW x \in Addrs
      PROVE  /\ hx[x] \in Header /\ hx[x].next = IF x = a THEN v ELSE hd[x].next
             /\ hx[x].prev = hd[x].prev /\ SameKind(hd[x], hx[x])
  BY <1>1, <1>2 DEF Header, SameKind
<1>5. hx \in [Addrs -> Header]
  BY <1>3, <1>4
<1> QED BY <1>4, <1>5 DEF hx

\* A prev pointer is set.
LEMMA PrevSet ==
  ASSUME NEW hd \in [Addrs -> Header], NEW a, NEW v \in Ptr
  PROVE  LET hx == [hd EXCEPT ![a].prev = v]
         IN  /\ hx \in [Addrs -> Header]
             /\ \A x \in Addrs : /\ hx[x].prev = IF x = a THEN v ELSE hd[x].prev
                                 /\ hx[x].next = hd[x].next /\ SameKind(hd[x], hx[x])
<1> DEFINE hx == [hd EXCEPT ![a].prev = v]
<1>1. \A x \in Addrs : hd[x] \in Header
  OBVIOUS
<1>2. \A x \in Addrs : hx[x] = IF x = a THEN [hd[x] EXCEPT !.prev = v] ELSE hd[x]
  OBVIOUS
<1>3. hx = [x \in Addrs |-> hx[x]]
  OBVIOUS
<1> HIDE DEF hx
<1>4. ASSUME NEW x \in Addrs
      PROVE  /\ hx[x] \in Header /\ hx[x].prev = IF x = a THEN v ELSE hd[x].prev
             /\ hx[x].next = hd[x].next /\ SameKind(hd[x], hx[x])
  BY <1>1, <1>2 DEF Header, SameKind
<1>5. hx \in [Addrs -> Header]
  BY <1>3, <1>4
<1> QED BY <1>4, <1>5 DEF hx

\* An order is set.
LEMMA OrderSet ==
  ASSUME NEW hd \in [Addrs -> Header], NEW a, NEW o \in Orders
  PROVE  LET hx == [hd EXCEPT ![a].order = o]
         IN  /\ hx \in [Addrs -> Header]
             /\ \A x \in Addrs : /\ hx[x].order = IF x = a THEN o ELSE hd[x].order
                                 /\ hx[x].next = hd[x].next /\ hx[x].prev = hd[x].prev
                                 /\ hx[x].magic = hd[x].magic /\ hx[x].allocated = hd[x].allocated
<1> DEFINE hx == [hd EXCEPT ![a].order = o]
<1>1. \A x \in Addrs : hd[x] \in Header
  OBVIOUS
<1>2. \A x \in Addrs : hx[x] = IF x = a THEN [hd[x] EXCEPT !.order = o] ELSE hd[x]
  OBVIOUS
<1>3. hx = [x \in Addrs |-> hx[x]]
  OBVIOUS
<1> HIDE DEF hx
<1>4. ASSUME NEW x \in Addrs
      PROVE  /\ hx[x] \in Header /\ hx[x].order = IF x = a THEN o ELSE hd[x].order
             /\ hx[x].next = hd[x].next /\ hx[x].prev = hd[x].prev
             /\ hx[x].magic = hd[x].magic /\ hx[x].allocated = hd[x].allocated
  BY <1>1, <1>2 DEF Header
<1>5. hx \in [Addrs -> Header]
  BY <1>3, <1>4
<1> QED BY <1>4, <1>5 DEF hx

FlagFor(a, S) == a \in S
WithFlag(hd, a, S) == [hd EXCEPT ![a].allocated = FlagFor(a, S)]

\* The flag of a says whether a is in S, and the other flags are as they were.
FlagIs(hd, hx, x, a, S) == hx[x].allocated = IF x = a THEN FlagFor(a, S) ELSE hd[x].allocated

\* The flag is set or cleared.
LEMMA FlagSet ==
  ASSUME NEW hd \in [Addrs -> Header], NEW a, NEW S
  PROVE  LET hx == WithFlag(hd, a, S)
         IN  /\ hx \in [Addrs -> Header]
             /\ \A x \in Addrs : /\ FlagIs(hd, hx, x, a, S)
                                 /\ hx[x].next = hd[x].next /\ hx[x].prev = hd[x].prev
                                 /\ hx[x].magic = hd[x].magic /\ hx[x].order = hd[x].order
<1> DEFINE hx == WithFlag(hd, a, S)
<1>1. \A x \in Addrs : hd[x] \in Header
  OBVIOUS
<1>2. \A x \in Addrs : hx[x] = IF x = a THEN [hd[x] EXCEPT !.allocated = FlagFor(a, S)] ELSE hd[x]
  BY DEF WithFlag
<1>3. hx = [x \in Addrs |-> hx[x]]
  BY DEF WithFlag
<1> HIDE DEF hx
<1>4. ASSUME NEW x \in Addrs
      PROVE  /\ hx[x] \in Header /\ FlagIs(hd, hx, x, a, S)
             /\ hx[x].next = hd[x].next /\ hx[x].prev = hd[x].prev
             /\ hx[x].magic = hd[x].magic /\ hx[x].order = hd[x].order
  <2>1. FlagFor(a, S) \in BOOLEAN
    BY DEF FlagFor
  <2> QED BY <1>1, <1>2, <2>1 DEF Header, FlagIs
<1>5. hx \in [Addrs -> Header]
  BY <1>3, <1>4
<1> QED BY <1>4, <1>5 DEF hx

\* What add_to_free_list makes of z, for a block a of the order o.
Added(z, y, a, o) ==
  /\ y \in ZoneRec
  /\ \A x \in Addrs :
       /\ y.hdr[x].next = IF x = a THEN z.free_lists[o] ELSE z.hdr[x].next
       /\ y.hdr[x].prev = IF x = z.free_lists[o] THEN a ELSE IF x = a THEN NULL ELSE z.hdr[x].prev
       /\ SameKind(z.hdr[x], y.hdr[x])
  /\ \A p \in Orders :
       /\ y.free_lists[p] = IF p = o THEN a ELSE z.free_lists[p]
       /\ y.free_blocks[p] = IF p = o THEN z.free_blocks[p] + 1 ELSE z.free_blocks[p]
  /\ y.allocated_blocks = z.allocated_blocks

\* The fields of a zone.
LEMMA ZoneFields ==
  ASSUME NEW z \in ZoneRec
  PROVE  /\ z.free_lists \in [Orders -> Ptr] /\ z.free_blocks \in [Orders -> Int]
         /\ z.allocated_blocks \in Int /\ z.hdr \in [Addrs -> Header]
         /\ \A a \in Addrs : z.hdr[a] \in Header /\ z.hdr[a].next \in Ptr /\ z.hdr[a].prev \in Ptr
                             /\ z.hdr[a].order \in Orders /\ z.hdr[a].magic \in BOOLEAN
                             /\ z.hdr[a].allocated \in BOOLEAN
         /\ \A o \in Orders : z.free_lists[o] \in Ptr /\ z.free_blocks[o] \in Int
<1>1. /\ z.free_lists \in [Orders -> Ptr] /\ z.free_blocks \in [Orders -> Int]
      /\ z.allocated_blocks \in Int /\ z.hdr \in [Addrs -> Header]
  BY DEF ZoneRec
<1>2. \A a \in Addrs : z.hdr[a] \in Header
  BY <1>1
<1>3. \A a \in Addrs : z.hdr[a].next \in Ptr /\ z.hdr[a].prev \in Ptr
                       /\ z.hdr[a].order \in Orders /\ z.hdr[a].magic \in BOOLEAN
                       /\ z.hdr[a].allocated \in BOOLEAN
  BY <1>2 DEF Header
<1> QED BY <1>1, <1>2, <1>3

\* The block becomes the head of its list.
LEMMA AddPointers ==
  ASSUME NEW z \in ZoneRec, NEW a \in Addrs, NEW o \in Orders, z.free_lists[o] # a
  PROVE  Added(z, add_to_free_list(z, a, o), a, o)
<1> DEFINE head == z.free_lists[o]
           h0 == [z.hdr EXCEPT ![a].next = head]
           h1 == [h0 EXCEPT ![a].prev = NULL]
           h2 == IF head = NULL THEN h1 ELSE [h1 EXCEPT ![head].prev = a]
           fl == [z.free_lists EXCEPT ![o] = a]
           fb == [z.free_blocks EXCEPT ![o] = @ + 1]
           y == [z EXCEPT !.hdr = h2, !.free_lists = fl, !.free_blocks = fb]
<1>0. /\ z.free_lists \in [Orders -> Ptr] /\ z.free_blocks \in [Orders -> Int]
      /\ z.allocated_blocks \in Int /\ z.hdr \in [Addrs -> Header] /\ head \in Ptr
      /\ NULL \notin Addrs /\ NULL \in Ptr /\ a \in Ptr
  BY ZoneFields, NullIsNoAddr
<1>1. add_to_free_list(z, a, o) = y
  <2>1. [z.hdr EXCEPT ![a].next = head, ![a].prev = NULL] = h1
    OBVIOUS
  <2> QED BY <1>0, <2>1 DEF add_to_free_list, ZoneRec
<1>2. /\ h0 \in [Addrs -> Header]
      /\ \A x \in Addrs : /\ h0[x].next = IF x = a THEN head ELSE z.hdr[x].next
                          /\ h0[x].prev = z.hdr[x].prev /\ SameKind(z.hdr[x], h0[x])
  BY <1>0, NextSet
<1> HIDE DEF h0
<1>3. /\ h1 \in [Addrs -> Header]
      /\ \A x \in Addrs : /\ h1[x].prev = IF x = a THEN NULL ELSE h0[x].prev
                          /\ h1[x].next = h0[x].next /\ SameKind(h0[x], h1[x])
  BY <1>0, <1>2, PrevSet
<1> HIDE DEF h1
<1>4. /\ h2 \in [Addrs -> Header]
      /\ \A x \in Addrs : /\ h2[x].prev = IF x = head THEN a ELSE h1[x].prev
                          /\ h2[x].next = h1[x].next /\ SameKind(h1[x], h2[x])
  <2>1. CASE head = NULL
    BY <1>0, <1>3, <2>1 DEF SameKind
  <2>2. CASE head # NULL
    <3> DEFINE hx == [h1 EXCEPT ![head].prev = a]
    <3>1. h2 = hx
      BY <2>2
    <3> HIDE DEF h2, head
    <3>2. /\ hx \in [Addrs -> Header]
          /\ \A x \in Addrs : /\ hx[x].prev = IF x = head THEN a ELSE h1[x].prev
                              /\ hx[x].next = h1[x].next /\ SameKind(h1[x], hx[x])
      BY <1>0, <1>3, PrevSet
    <3> HIDE DEF hx
    <3> QED BY <3>1, <3>2
  <2> QED BY <2>1, <2>2
<1> HIDE DEF h2
<1>5. /\ fl \in [Orders -> Ptr] /\ fb \in [Orders -> Int]
      /\ \A p \in Orders : /\ fl[p] = IF p = o THEN a ELSE z.free_lists[p]
                           /\ fb[p] = IF p = o THEN z.free_blocks[p] + 1 ELSE z.free_blocks[p]
  BY <1>0
<1> HIDE DEF fl, fb, head
<1>6. /\ y \in ZoneRec /\ y.hdr = h2 /\ y.free_lists = fl /\ y.free_blocks = fb
      /\ y.allocated_blocks = z.allocated_blocks
  BY <1>0, <1>4, <1>5 DEF ZoneRec
<1> HIDE DEF y
<1>7. \A x \in Addrs :
        /\ h2[x].next = IF x = a THEN head ELSE z.hdr[x].next
        /\ h2[x].prev = IF x = head THEN a ELSE IF x = a THEN NULL ELSE z.hdr[x].prev
        /\ SameKind(z.hdr[x], h2[x])
  BY <1>2, <1>3, <1>4 DEF SameKind
<1> QED BY <1>1, <1>5, <1>6, <1>7 DEF Added, head

\* What remove_from_free_list makes of z, for a block a of the order o.
Taken(z, y, a, o) ==
  /\ y \in ZoneRec
  /\ \A x \in Addrs :
       /\ y.hdr[x].next = IF x = z.hdr[a].prev THEN z.hdr[a].next ELSE z.hdr[x].next
       /\ y.hdr[x].prev = IF x = z.hdr[a].next THEN z.hdr[a].prev ELSE z.hdr[x].prev
       /\ SameKind(z.hdr[x], y.hdr[x])
  /\ \A p \in Orders :
       /\ y.free_lists[p] = IF p = o /\ z.hdr[a].prev = NULL THEN z.hdr[a].next ELSE z.free_lists[p]
       /\ y.free_blocks[p] = IF p = o THEN z.free_blocks[p] - 1 ELSE z.free_blocks[p]
  /\ y.allocated_blocks = z.allocated_blocks

\* The neighbours of the block are linked to each other.
LEMMA RemovePointers ==
  ASSUME NEW z \in ZoneRec, NEW a \in Addrs, NEW o \in Orders
  PROVE  Taken(z, remove_from_free_list(z, a, o), a, o)
<1> DEFINE n == z.hdr[a].next
           p == z.hdr[a].prev
           h1 == IF p = NULL THEN z.hdr ELSE [z.hdr EXCEPT ![p].next = n]
           h2 == IF n = NULL THEN h1 ELSE [h1 EXCEPT ![n].prev = p]
           fl == [z.free_lists EXCEPT ![o] = IF p = NULL THEN n ELSE @]
           fb == [z.free_blocks EXCEPT ![o] = @ - 1]
           y == [z EXCEPT !.hdr = h2, !.free_lists = fl, !.free_blocks = fb]
<1>0. /\ z.free_lists \in [Orders -> Ptr] /\ z.free_blocks \in [Orders -> Int]
      /\ z.allocated_blocks \in Int /\ z.hdr \in [Addrs -> Header] /\ n \in Ptr /\ p \in Ptr
      /\ NULL \notin Addrs
  BY ZoneFields, NullIsNoAddr
<1>1. remove_from_free_list(z, a, o) = y
  BY <1>0 DEF remove_from_free_list, ZoneRec
<1>2. /\ h1 \in [Addrs -> Header]
      /\ \A x \in Addrs : /\ h1[x].next = IF x = p THEN n ELSE z.hdr[x].next
                          /\ h1[x].prev = z.hdr[x].prev /\ SameKind(z.hdr[x], h1[x])
  <2>1. CASE p = NULL
    BY <1>0, <2>1 DEF SameKind
  <2>2. CASE p # NULL
    <3> DEFINE hd == z.hdr
               hx == [hd EXCEPT ![p].next = n]
    <3>1. h1 = hx /\ hd \in [Addrs -> Header]
      BY <1>0, <2>2
    <3> HIDE DEF h1, n, p, hd
    <3>2. /\ hx \in [Addrs -> Header]
          /\ \A x \in Addrs : /\ hx[x].next = IF x = p THEN n ELSE hd[x].next
                              /\ hx[x].prev = hd[x].prev /\ SameKind(hd[x], hx[x])
      BY <1>0, <3>1, NextSet
    <3> HIDE DEF hx
    <3> QED BY <3>1, <3>2 DEF hd
  <2> QED BY <2>1, <2>2
<1> HIDE DEF h1
<1>3. /\ h2 \in [Addrs -> Header]
      /\ \A x \in Addrs : /\ h2[x].prev = IF x = n THEN p ELSE h1[x].prev
                          /\ h2[x].next = h1[x].next /\ SameKind(h1[x], h2[x])
  <2>1. CASE n = NULL
    BY <1>0, <1>2, <2>1 DEF SameKind
  <2>2. CASE n # NULL
    <3> DEFINE hx == [h1 EXCEPT ![n].prev = p]
    <3>1. h2 = hx
      BY <2>2
    <3> HIDE DEF h2, n, p
    <3>2. /\ hx \in [Addrs -> Header]
          /\ \A x \in Addrs : /\ hx[x].prev = IF x = n THEN p ELSE h1[x].prev
                              /\ hx[x].next = h1[x].next /\ SameKind(h1[x], hx[x])
      BY <1>0, <1>2, PrevSet
    <3> HIDE DEF hx
    <3> QED BY <3>1, <3>2
  <2> QED BY <2>1, <2>2
<1> HIDE DEF h2
<1>4. /\ fl \in [Orders -> Ptr] /\ fb \in [Orders -> Int]
      /\ \A q \in Orders : /\ fl[q] = IF q = o /\ p = NULL THEN n ELSE z.free_lists[q]
                           /\ fb[q] = IF q = o THEN z.free_blocks[q] - 1 ELSE z.free_blocks[q]
  BY <1>0
<1> HIDE DEF fl, fb, n, p
<1>5. /\ y \in ZoneRec /\ y.hdr = h2 /\ y.free_lists = fl /\ y.free_blocks = fb
      /\ y.allocated_blocks = z.allocated_blocks
  BY <1>0, <1>3, <1>4 DEF ZoneRec
<1> HIDE DEF y
<1>6. \A x \in Addrs :
        /\ h2[x].next = IF x = p THEN n ELSE z.hdr[x].next
        /\ h2[x].prev = IF x = n THEN p ELSE z.hdr[x].prev
        /\ SameKind(z.hdr[x], h2[x])
  BY <1>2, <1>3 DEF SameKind
<1> QED BY <1>1, <1>4, <1>5, <1>6 DEF Taken, n, p

-------------------------------------------------------------------------------
(* The free lists.  Fr is the set of the blocks that are on a list, and pos *)
(* orders the blocks of each.                                               *)

\* The links of a: to a later block of its list and back; the one without a
\* predecessor is the head.
LinksOf(z, Fr, pos, a) ==
  LET h == z.hdr[a]
  IN  /\ h.next # NULL => /\ h.next \in Fr /\ z.hdr[h.next].prev = a
                          /\ z.hdr[h.next].order = h.order /\ pos[a] < pos[h.next]
      /\ h.prev # NULL => /\ h.prev \in Fr /\ z.hdr[h.prev].next = a
                          /\ z.hdr[h.prev].order = h.order
      /\ h.prev = NULL => z.free_lists[h.order] = a

HeadOf(z, Fr, o) ==
  LET h == z.free_lists[o]
  IN  h # NULL => h \in Fr /\ z.hdr[h].order = o /\ z.hdr[h].prev = NULL

OfOrder(hd, Fr, o) == {a \in Fr : hd[a].order = o}

Lists(z, Fr, pos) ==
  /\ Fr \in SUBSET Addrs /\ pos \in [Addrs -> Nat]
  /\ \A a \in Fr : LinksOf(z, Fr, pos, a)
  /\ \A o \in Orders : HeadOf(z, Fr, o)
  /\ \A o \in Orders : z.free_blocks[o] = Cardinality(OfOrder(z.hdr, Fr, o))

\* The addresses are finitely many.
LEMMA AddrsFinite ==
  ASSUME NEW S, S \subseteq Addrs
  PROVE  IsFiniteSet(S) /\ Cardinality(S) \in Nat /\ Cardinality(S) <= Units
<1>1. 0 \in Int /\ Units - 1 \in Int /\ Units \in Nat /\ Units - 1 - 0 + 1 = Units /\ ~(0 > Units - 1)
  BY BuddyAssumption
<1>2. IsFiniteSet(Addrs) /\ Cardinality(Addrs) = Units
  BY <1>1, FS_Interval DEF Addrs
<1> QED BY <1>2, FS_Subset, FS_CardinalityType

\* Headers of blocks that are on no list do not matter.
LEMMA SameLists ==
  ASSUME NEW z, NEW Fr, NEW pos, Lists(z, Fr, pos), NEW y,
         y.free_lists = z.free_lists, y.free_blocks = z.free_blocks,
         \A a \in Fr : /\ y.hdr[a].next = z.hdr[a].next /\ y.hdr[a].prev = z.hdr[a].prev
                       /\ y.hdr[a].order = z.hdr[a].order
  PROVE  Lists(y, Fr, pos)
<1>1. Fr \in SUBSET Addrs /\ pos \in [Addrs -> Nat]
  BY DEF Lists
<1>2. ASSUME NEW a \in Fr PROVE LinksOf(y, Fr, pos, a)
  <2>1. LinksOf(z, Fr, pos, a)
    BY DEF Lists
  <2> QED BY <2>1 DEF LinksOf
<1>3. ASSUME NEW o \in Orders PROVE HeadOf(y, Fr, o)
  <2>1. HeadOf(z, Fr, o)
    BY DEF Lists
  <2> QED BY <2>1 DEF HeadOf
<1>4. ASSUME NEW o \in Orders PROVE y.free_blocks[o] = Cardinality(OfOrder(y.hdr, Fr, o))
  <2>1. OfOrder(y.hdr, Fr, o) = OfOrder(z.hdr, Fr, o)
    BY DEF OfOrder
  <2> QED BY <2>1 DEF Lists
<1> QED BY <1>1, <1>2, <1>3, <1>4 DEF Lists

\* The neighbours of a block on its list.
LEMMA Neighbours ==
  ASSUME NEW z \in ZoneRec, NEW Fr, NEW pos, Lists(z, Fr, pos), NEW a \in Fr
  PROVE  LET n == z.hdr[a].next
             p == z.hdr[a].prev
         IN  /\ a \in Addrs /\ z.hdr[a].order \in Orders
             /\ n # NULL => /\ n \in Fr /\ n # a /\ z.hdr[n].prev = a
                            /\ z.hdr[n].order = z.hdr[a].order /\ pos[a] < pos[n]
             /\ p # NULL => /\ p \in Fr /\ p # a /\ z.hdr[p].next = a
                            /\ z.hdr[p].order = z.hdr[a].order /\ pos[p] < pos[a] /\ p # n
             /\ p = NULL => z.free_lists[z.hdr[a].order] = a
<1> DEFINE n == z.hdr[a].next
           p == z.hdr[a].prev
<1>1. a \in Addrs /\ z.hdr[a].order \in Orders /\ \A x \in Fr : pos[x] \in Nat
  BY ZoneFields DEF Lists
<1>2. \A x \in Fr : LinksOf(z, Fr, pos, x)
  BY DEF Lists
<1>3. n # NULL => /\ n \in Fr /\ n # a /\ z.hdr[n].prev = a
                  /\ z.hdr[n].order = z.hdr[a].order /\ pos[a] < pos[n]
  BY <1>1, <1>2 DEF LinksOf
<1>4. p # NULL => /\ p \in Fr /\ z.hdr[p].next = a /\ z.hdr[p].order = z.hdr[a].order
  BY <1>2 DEF LinksOf
<1>5. ASSUME p # NULL PROVE a # NULL /\ pos[p] < pos[a]
  <2>1. a # NULL
    BY <1>1, NullIsNoAddr
  <2> QED BY <1>2, <1>4, <1>5, <2>1 DEF LinksOf
<1>6. p = NULL => z.free_lists[z.hdr[a].order] = a
  BY <1>2 DEF LinksOf
<1> HIDE DEF n, p
<1>7. p # NULL => p # a /\ p # n
  BY <1>1, <1>3, <1>4, <1>5
<1> QED BY <1>1, <1>3, <1>4, <1>5, <1>6, <1>7 DEF n, p

Ahead(pos, a) == [x \in Addrs |-> IF x = a THEN 0 ELSE pos[x] + 1]

\* After add_to_free_list the lists are whole and have the block.
LEMMA AddLists ==
  ASSUME NEW z \in ZoneRec, NEW Fr, NEW pos, Lists(z, Fr, pos), NEW a \in Addrs, a \notin Fr,
         NEW o \in Orders, z.hdr[a].order = o, NEW y, Added(z, y, a, o)
  PROVE  Lists(y, Fr \cup {a}, Ahead(pos, a))
<1> DEFINE Gr == Fr \cup {a}
           pm == Ahead(pos, a)
           head == z.free_lists[o]
<1>0. /\ Fr \in SUBSET Addrs /\ Gr \in SUBSET Addrs /\ \A x \in Addrs : pos[x] \in Nat
      /\ NULL \notin Addrs /\ a # NULL /\ head \in Ptr
  BY NullIsNoAddr, ZoneFields DEF Lists
<1>1. pm \in [Addrs -> Nat] /\ pm[a] = 0 /\ \A x \in Addrs : x # a => pm[x] = pos[x] + 1
  BY <1>0 DEF Ahead
<1>2. head # NULL => head \in Fr /\ z.hdr[head].order = o /\ z.hdr[head].prev = NULL
  BY DEF Lists, HeadOf
<1>3. \A x \in Addrs :
        /\ y.hdr[x].next = IF x = a THEN head ELSE z.hdr[x].next
        /\ y.hdr[x].prev = IF x = head THEN a ELSE IF x = a THEN NULL ELSE z.hdr[x].prev
        /\ y.hdr[x].order = z.hdr[x].order
  BY DEF Added, SameKind
<1>4. \A p \in Orders :
       /\ y.free_lists[p] = IF p = o THEN a ELSE z.free_lists[p]
       /\ y.free_blocks[p] = IF p = o THEN z.free_blocks[p] + 1 ELSE z.free_blocks[p]
  BY DEF Added
<1> HIDE DEF head, pm
<1>5. LinksOf(y, Gr, pm, a)
  <2>1. head # NULL => head \in Gr /\ head \in Addrs /\ head # a /\ pm[a] < pm[head]
    BY <1>0, <1>1, <1>2
  <2>2. y.hdr[a].next = head /\ y.hdr[a].prev = NULL /\ y.hdr[a].order = o
    BY <1>0, <1>2, <1>3
  <2>3. head # NULL => y.hdr[head].prev = a /\ y.hdr[head].order = o
    BY <1>2, <1>3, <2>1
  <2>4. y.free_lists[o] = a
    BY <1>4
  <2> QED BY <2>1, <2>2, <2>3, <2>4 DEF LinksOf
<1>6. ASSUME NEW x \in Fr PROVE LinksOf(y, Gr, pm, x)
  <2> DEFINE n == z.hdr[x].next
             p == z.hdr[x].prev
             q == z.hdr[x].order
  <2>1. /\ x \in Addrs /\ q \in Orders /\ x # a
        /\ n # NULL => /\ n \in Fr /\ n # x /\ z.hdr[n].prev = x
                       /\ z.hdr[n].order = q /\ pos[x] < pos[n]
        /\ p # NULL => /\ p \in Fr /\ p # x /\ z.hdr[p].next = x
                       /\ z.hdr[p].order = q
        /\ p = NULL => z.free_lists[q] = x
    BY Neighbours
  <2> HIDE DEF n, p, q
  <2>2. y.hdr[x].next = n /\ y.hdr[x].order = q /\ y.hdr[x].prev = IF x = head THEN a ELSE p
    BY <1>3, <2>1 DEF n, p, q
  <2>3. ASSUME n # NULL
        PROVE  /\ n \in Gr /\ y.hdr[n].prev = x /\ y.hdr[n].order = q /\ pm[x] < pm[n]
    <3>1. n \in Addrs /\ n # a /\ n # head
      BY <1>0, <1>2, <2>1, <2>3
    <3>2. y.hdr[n].prev = x /\ y.hdr[n].order = q
      BY <1>3, <2>1, <2>3, <3>1
    <3> QED BY <1>0, <1>1, <2>1, <2>3, <3>1, <3>2
  <2>4. CASE x = head
    <3>1. p = NULL /\ q = o /\ y.hdr[x].prev = a /\ a \in Gr
      BY <1>0, <1>2, <2>1, <2>2, <2>4 DEF p, q
    <3>2. y.hdr[a].next = x /\ y.hdr[a].order = q
      BY <1>3, <2>4, <3>1
    <3> QED BY <1>0, <2>2, <2>3, <3>1, <3>2 DEF LinksOf
  <2>5. CASE x # head
    <3>1. y.hdr[x].prev = p
      BY <2>2, <2>5
    <3>2. ASSUME p # NULL PROVE p \in Gr /\ y.hdr[p].next = x /\ y.hdr[p].order = q
      <4>1. p \in Addrs /\ p # a
        BY <1>0, <2>1, <3>2
      <4> QED BY <1>3, <2>1, <3>2, <4>1
    <3>3. ASSUME p = NULL PROVE y.free_lists[q] = x
      <4>1. q # o
        BY <2>1, <2>5, <3>3 DEF head
      <4> QED BY <1>4, <2>1, <3>3, <4>1
    <3> QED BY <2>2, <2>3, <3>1, <3>2, <3>3 DEF LinksOf
  <2> QED BY <2>4, <2>5
<1>7. ASSUME NEW q \in Orders PROVE HeadOf(y, Gr, q)
  <2>1. CASE q = o
    <3>1. y.free_lists[q] = a /\ y.hdr[a].order = o /\ y.hdr[a].prev = NULL
      BY <1>0, <1>2, <1>3, <1>4, <2>1
    <3> QED BY <2>1, <3>1 DEF HeadOf
  <2>2. CASE q # o
    <3> DEFINE w == z.free_lists[q]
    <3>1. w # NULL => w \in Fr /\ z.hdr[w].order = q /\ z.hdr[w].prev = NULL
      BY DEF Lists, HeadOf
    <3>2. y.free_lists[q] = w
      BY <1>4, <2>2
    <3> HIDE DEF w
    <3>3. w # NULL => w \in Gr /\ w # head /\ w # a /\ w \in Addrs
      BY <1>0, <1>2, <2>2, <3>1
    <3>4. w # NULL => y.hdr[w].order = q /\ y.hdr[w].prev = NULL
      BY <1>3, <3>1, <3>3
    <3> QED BY <3>2, <3>3, <3>4 DEF HeadOf
  <2> QED BY <2>1, <2>2
<1>8. ASSUME NEW q \in Orders PROVE y.free_blocks[q] = Cardinality(OfOrder(y.hdr, Gr, q))
  <2> DEFINE S == OfOrder(z.hdr, Fr, q)
  <2>1. z.free_blocks[q] = Cardinality(S)
    BY DEF Lists
  <2>2. IsFiniteSet(S) /\ Cardinality(S) \in Nat /\ a \notin S
    <3>1. S \subseteq Addrs /\ a \notin S
      BY <1>0 DEF OfOrder
    <3> QED BY <3>1, AddrsFinite
  <2>3. OfOrder(y.hdr, Gr, q) = IF q = o THEN S \cup {a} ELSE S
    BY <1>0, <1>3 DEF OfOrder
  <2> HIDE DEF S
  <2>4. Cardinality(S \cup {a}) = Cardinality(S) + 1
    BY <2>2, FS_AddElement
  <2> QED BY <1>4, <2>1, <2>3, <2>4
<1> HIDE DEF Gr
<1>9. \A x \in Gr : LinksOf(y, Gr, pm, x)
  BY <1>5, <1>6 DEF Gr
<1>10. Lists(y, Gr, pm)
  BY <1>0, <1>1, <1>7, <1>8, <1>9 DEF Lists
<1> QED BY <1>10 DEF Gr, pm

\* After remove_from_free_list the lists are whole and lack the block.
LEMMA TakeLists ==
  ASSUME NEW z \in ZoneRec, NEW Fr, NEW pos, Lists(z, Fr, pos), NEW a \in Fr,
         NEW o, z.hdr[a].order = o, NEW y, Taken(z, y, a, o)
  PROVE  Lists(y, Fr \ {a}, pos)
<1> DEFINE Gr == Fr \ {a}
           n == z.hdr[a].next
           p == z.hdr[a].prev
<1>0. /\ Fr \in SUBSET Addrs /\ Gr \in SUBSET Addrs /\ pos \in [Addrs -> Nat]
      /\ NULL \notin Addrs /\ a \in Addrs /\ a # NULL /\ o \in Orders
  BY NullIsNoAddr, ZoneFields DEF Lists
<1>1. /\ n # NULL => /\ n \in Fr /\ n # a /\ z.hdr[n].prev = a
                     /\ z.hdr[n].order = o /\ pos[a] < pos[n]
      /\ p # NULL => /\ p \in Fr /\ p # a /\ z.hdr[p].next = a
                     /\ z.hdr[p].order = o /\ pos[p] < pos[a] /\ p # n
      /\ p = NULL => z.free_lists[o] = a
  BY Neighbours
<1>2. \A x \in Addrs :
        /\ y.hdr[x].next = IF x = p THEN n ELSE z.hdr[x].next
        /\ y.hdr[x].prev = IF x = n THEN p ELSE z.hdr[x].prev
        /\ y.hdr[x].order = z.hdr[x].order
  BY DEF Taken, SameKind
<1>3. \A q \in Orders :
       /\ y.free_lists[q] = IF q = o /\ p = NULL THEN n ELSE z.free_lists[q]
       /\ y.free_blocks[q] = IF q = o THEN z.free_blocks[q] - 1 ELSE z.free_blocks[q]
  BY DEF Taken
<1> HIDE DEF n, p
<1>4. ASSUME NEW x \in Gr PROVE LinksOf(y, Gr, pos, x)
  <2> DEFINE m == z.hdr[x].next
             r == z.hdr[x].prev
             q == z.hdr[x].order
  <2>1. /\ x \in Addrs /\ q \in Orders /\ x # a
        /\ m # NULL => /\ m \in Fr /\ m # x /\ z.hdr[m].prev = x
                       /\ z.hdr[m].order = q /\ pos[x] < pos[m]
        /\ r # NULL => /\ r \in Fr /\ r # x /\ z.hdr[r].next = x
                       /\ z.hdr[r].order = q
        /\ r = NULL => z.free_lists[q] = x
    BY Neighbours
  <2>2. /\ y.hdr[x].next = IF x = p THEN n ELSE m
        /\ y.hdr[x].prev = IF x = n THEN p ELSE r
        /\ y.hdr[x].order = q
    BY <1>2, <2>1
  <2>3. x = p => q = o /\ m = a
    BY <1>0, <1>1, <2>1
  <2>4. x = n => q = o /\ r = a
    BY <1>0, <1>1, <2>1
  <2> HIDE DEF m, r, q
  <2>5. ASSUME y.hdr[x].next # NULL
        PROVE  LET w == y.hdr[x].next
               IN  w \in Gr /\ y.hdr[w].prev = x /\ y.hdr[w].order = q /\ pos[x] < pos[w]
    <3>1. CASE x = p
      <4>1. y.hdr[x].next = n /\ n # NULL /\ n \in Gr /\ n \in Addrs
        BY <1>0, <1>1, <2>2, <2>5, <3>1
      <4>2. y.hdr[n].prev = p /\ y.hdr[n].order = o
        BY <1>1, <1>2, <4>1
      <4>3. pos[p] < pos[a] /\ pos[a] < pos[n] /\ pos[p] \in Nat /\ pos[a] \in Nat /\ pos[n] \in Nat
        BY <1>0, <1>1, <2>1, <3>1, <4>1
      <4> QED BY <2>3, <3>1, <4>1, <4>2, <4>3
    <3>2. CASE x # p
      <4>1. y.hdr[x].next = m /\ m # NULL /\ m \in Fr /\ m \in Addrs
        BY <1>0, <2>1, <2>2, <2>5, <3>2
      <4>2. m # a
        <5>1. p = z.hdr[a].prev
          BY DEF p
        <5> QED BY <2>1, <3>2, <4>1, <5>1
      <4>3. m # n
        BY <1>1, <2>1, <4>1
      <4> QED BY <1>2, <2>1, <4>1, <4>2, <4>3
    <3> QED BY <3>1, <3>2
  <2>6. ASSUME y.hdr[x].prev # NULL
        PROVE  LET w == y.hdr[x].prev
               IN  w \in Gr /\ y.hdr[w].next = x /\ y.hdr[w].order = q
    <3>1. CASE x = n
      <4>1. y.hdr[x].prev = p /\ p # NULL /\ p \in Gr /\ p \in Addrs
        BY <1>0, <1>1, <2>2, <2>6, <3>1
      <4>2. y.hdr[p].next = n /\ y.hdr[p].order = o
        BY <1>1, <1>2, <4>1
      <4> QED BY <2>4, <3>1, <4>1, <4>2
    <3>2. CASE x # n
      <4>1. y.hdr[x].prev = r /\ r # NULL /\ r \in Fr /\ r \in Addrs
        BY <1>0, <2>1, <2>2, <2>6, <3>2
      <4>2. r # a
        <5>1. n = z.hdr[a].next
          BY DEF n
        <5> QED BY <2>1, <3>2, <4>1, <5>1
      <4>3. r # p
        BY <1>1, <2>1, <4>1
      <4> QED BY <1>2, <2>1, <4>1, <4>2, <4>3
    <3> QED BY <3>1, <3>2
  <2>7. ASSUME y.hdr[x].prev = NULL PROVE y.free_lists[q] = x
    <3>1. CASE x = n
      <4>1. p = NULL
        BY <2>2, <2>7, <3>1
      <4> QED BY <1>0, <1>3, <2>4, <3>1, <4>1
    <3>2. CASE x # n
      <4>1. r = NULL /\ z.free_lists[q] = x
        BY <2>1, <2>2, <2>7, <3>2
      <4>2. ~(q = o /\ p = NULL)
        BY <1>1, <2>1, <4>1
      <4> QED BY <1>3, <2>1, <4>1, <4>2
    <3> QED BY <3>1, <3>2
  <2> QED BY <2>2, <2>5, <2>6, <2>7 DEF LinksOf
<1>5. ASSUME NEW q \in Orders PROVE HeadOf(y, Gr, q)
  <2>1. CASE q = o /\ p = NULL
    <3>1. y.free_lists[q] = n
      BY <1>3, <2>1
    <3>2. n # NULL => n \in Gr /\ n \in Addrs /\ y.hdr[n].order = o /\ y.hdr[n].prev = NULL
      BY <1>0, <1>1, <1>2, <2>1
    <3> QED BY <2>1, <3>1, <3>2 DEF HeadOf
  <2>2. CASE ~(q = o /\ p = NULL)
    <3> DEFINE w == z.free_lists[q]
    <3>1. w # NULL => w \in Fr /\ z.hdr[w].order = q /\ z.hdr[w].prev = NULL
      BY DEF Lists, HeadOf
    <3>2. y.free_lists[q] = w
      BY <1>3, <2>2
    <3> HIDE DEF w
    <3>3. w # NULL => w # a
      BY <2>2, <3>1 DEF p
    <3>4. w # NULL => w # n
      BY <1>0, <1>1, <3>1
    <3>5. w # NULL => w \in Gr /\ y.hdr[w].order = q /\ y.hdr[w].prev = NULL
      BY <1>0, <1>2, <3>1, <3>3, <3>4
    <3> QED BY <3>2, <3>5 DEF HeadOf
  <2> QED BY <2>1, <2>2
<1>6. ASSUME NEW q \in Orders PROVE y.free_blocks[q] = Cardinality(OfOrder(y.hdr, Gr, q))
  <2> DEFINE S == OfOrder(z.hdr, Fr, q)
  <2>1. z.free_blocks[q] = Cardinality(S)
    BY DEF Lists
  <2>2. IsFiniteSet(S) /\ Cardinality(S) \in Nat
    <3>1. S \subseteq Addrs
      BY <1>0 DEF OfOrder
    <3> QED BY <3>1, AddrsFinite
  <2>3. OfOrder(y.hdr, Gr, q) = IF q = o THEN S \ {a} ELSE S
    BY <1>0, <1>2 DEF OfOrder
  <2>4. q = o => a \in S
    BY DEF OfOrder
  <2> HIDE DEF S
  <2>5. q = o => Cardinality(S \ {a}) = Cardinality(S) - 1
    BY <2>2, <2>4, FS_RemoveElement
  <2> QED BY <1>3, <2>1, <2>3, <2>5
<1>7. Lists(y, Gr, pos)
  BY <1>0, <1>4, <1>5, <1>6 DEF Lists
<1> QED BY <1>7

-------------------------------------------------------------------------------
(* The zone.  The blocks are the free ones, the ones that callers own, and   *)
(* those in X, which an operation has in hand.                               *)

OrderOf(z) == [x \in Addrs |-> z.hdr[x].order]

Listed(z, Fr) == \E pos : Lists(z, Fr, pos)

\* No two free blocks could be merged.
Apart(od, Fr) ==
  \A a, b \in Fr : od[a] < MaxOrder /\ od[b] = od[a] => b # BuddyAddr(a, od[a])

\* The headers of the blocks are true, and no other header has the flag.
Marked(z, B, Hs) ==
  /\ \A a \in B : z.hdr[a].magic
  /\ \A x \in Addrs : z.hdr[x].allocated <=> x \in Hs

Sound(z, Fr, Hs, X, end) ==
  /\ z \in ZoneRec /\ Listed(z, Fr)
  /\ Tiled(OrderOf(z), Fr \cup Hs \cup X, end)
  /\ Fr \cap Hs = {} /\ X \cap (Fr \cup Hs) = {}
  /\ Marked(z, Fr \cup Hs \cup X, Hs)
  /\ z.allocated_blocks = Cardinality(Hs)
  /\ Apart(OrderOf(z), Fr)

\* The order of a header.
LEMMA OrderIs ==
  ASSUME NEW z, NEW x \in Addrs
  PROVE  OrderOf(z)[x] = z.hdr[x].order
BY DEF OrderOf

\* The blocks of a sound zone.
LEMMA SoundBlocks ==
  ASSUME NEW z, NEW Fr, NEW Hs, NEW X, NEW end, Sound(z, Fr, Hs, X, end)
  PROVE  /\ z \in ZoneRec /\ Fr \cup Hs \cup X \subseteq Addrs
         /\ \A a \in Fr \cup Hs \cup X :
              /\ OrderOf(z)[a] = z.hdr[a].order /\ z.hdr[a].order \in Orders
              /\ z.hdr[a].magic /\ (z.hdr[a].allocated <=> a \in Hs)
<1>1. z \in ZoneRec /\ Fr \cup Hs \cup X \subseteq Addrs
  BY DEF Sound, Tiled
<1>2. \A a \in Fr \cup Hs \cup X : z.hdr[a].magic /\ (z.hdr[a].allocated <=> a \in Hs)
  BY <1>1 DEF Sound, Marked
<1> QED BY <1>1, <1>2, ZoneFields, OrderIs

\* The list of an order starts with a free block of that order.
LEMMA ListHead ==
  ASSUME NEW z, NEW Fr, Listed(z, Fr), NEW o \in Orders, z.free_lists[o] # NULL
  PROVE  z.free_lists[o] \in Fr /\ z.hdr[z.free_lists[o]].order = o
<1>1. PICK pos : Lists(z, Fr, pos)
  BY DEF Listed
<1> QED BY <1>1 DEF Lists, HeadOf

\* If the list of an order is empty there is no free block of that order.
LEMMA ListEmpty ==
  ASSUME NEW z \in ZoneRec, NEW Fr, Listed(z, Fr), NEW o \in Orders, z.free_lists[o] = NULL
  PROVE  \A a \in Fr : z.hdr[a].order # o
<1>1. PICK pos : Lists(z, Fr, pos)
  BY DEF Listed
<1> SUFFICES ASSUME NEW c \in Fr, z.hdr[c].order = o PROVE FALSE
  OBVIOUS
<1> DEFINE L == {a \in Fr : z.hdr[a].order = o}
           P == {pos[a] : a \in L}
<1>2. \A a \in Fr : pos[a] \in Nat /\ a \in Addrs /\ a # NULL
  BY <1>1, NullIsNoAddr DEF Lists
<1>3. P \in SUBSET Nat /\ P # {}
  BY <1>2
<1>4. PICK m \in P : \A y \in P : m <= y
  <2> HIDE DEF P
  <2> QED BY <1>3, NatSetMin
<1>5. PICK a \in L : m = pos[a]
  OBVIOUS
<1>6. /\ z.hdr[a].prev # NULL => /\ z.hdr[a].prev \in Fr
                                 /\ z.hdr[z.hdr[a].prev].order = z.hdr[a].order
                                 /\ pos[z.hdr[a].prev] < pos[a]
      /\ z.hdr[a].prev = NULL => z.free_lists[z.hdr[a].order] = a
  BY <1>1, Neighbours
<1>7. z.hdr[a].prev # NULL
  BY <1>2, <1>6
<1>8. z.hdr[a].prev \in L /\ pos[z.hdr[a].prev] < pos[a]
  BY <1>6, <1>7
<1> QED BY <1>2, <1>4, <1>5, <1>8

AllSameKind(z, y) == \A x \in Addrs : SameKind(z.hdr[x], y.hdr[x])

\* Pointers do not matter to the tiling and to what the headers say.
LEMMA KindsKept ==
  ASSUME NEW z, NEW y, AllSameKind(z, y)
  PROVE  /\ OrderOf(y) = OrderOf(z)
         /\ \A B, Hs : B \subseteq Addrs /\ Marked(z, B, Hs) => Marked(y, B, Hs)
<1>1. OrderOf(y) = OrderOf(z)
  BY DEF OrderOf, AllSameKind, SameKind
<1>2. \A B, Hs : B \subseteq Addrs /\ Marked(z, B, Hs) => Marked(y, B, Hs)
  BY DEF Marked, AllSameKind, SameKind
<1> QED BY <1>1, <1>2

\* Whether the free block b is one with which a of the order o could be merged.
Mergeable(z, a, o, b) == o < MaxOrder /\ z.hdr[b].order = o /\ b = BuddyAddr(a, o)

\* A block that no free block could be merged with joins the free ones.
LEMMA ApartAdd ==
  ASSUME NEW z, NEW Fr, Fr \subseteq Addrs, NEW a \in Addrs, NEW o \in Orders, z.hdr[a].order = o,
         Aligned(a, o), \A b \in Fr : Aligned(b, z.hdr[b].order),
         \A b \in Fr : ~Mergeable(z, a, o, b), Apart(OrderOf(z), Fr)
  PROVE  Apart(OrderOf(z), Fr \cup {a})
<1> DEFINE od == OrderOf(z)
<1>0. o \in Nat /\ block_size[o] \in Nat /\ block_size[o] >= 1 /\ a \in Nat
  BY SizeIs, NullIsNoAddr, BuddyAssumption DEF Orders
<1>1. \A x \in Fr \cup {a} : od[x] = z.hdr[x].order
  BY OrderIs
<1>2. BuddyAddr(a, o) # a
  <2>1. Pair(a, BuddyAddr(a, o), o) \/ Pair(BuddyAddr(a, o), a, o)
    BY <1>0, BuddyPairs
  <2> QED BY <1>0, <2>1, BuddyPairs DEF Pair
<1>3. ASSUME NEW b \in Fr, z.hdr[b].order = o, a = BuddyAddr(b, o) PROVE b = BuddyAddr(a, o)
  <2>1. Pair(b, a, o) \/ Pair(a, b, o)
    BY <1>0, <1>3, BuddyPairs
  <2> QED BY <1>0, <2>1, PairBuddy
<1> SUFFICES ASSUME NEW c \in Fr \cup {a}, NEW b \in Fr \cup {a}, od[c] < MaxOrder, od[b] = od[c],
                    b = BuddyAddr(c, od[c])
             PROVE  FALSE
  BY DEF Apart
<1>4. CASE c = a /\ b = a
  BY <1>1, <1>2, <1>4
<1>5. CASE c = a /\ b \in Fr
  BY <1>1, <1>5 DEF Mergeable
<1>6. CASE c \in Fr /\ b = a
  <2>1. z.hdr[c].order = o /\ a = BuddyAddr(c, o) /\ o < MaxOrder
    BY <1>1, <1>6
  <2>2. c = BuddyAddr(a, o)
    BY <1>3, <1>6, <2>1
  <2> QED BY <1>6, <2>1, <2>2 DEF Mergeable
<1>7. CASE c \in Fr /\ b \in Fr
  BY <1>7 DEF Apart
<1> QED BY <1>4, <1>5, <1>6, <1>7

\* add_to_free_list, of a block in hand.
LEMMA AddSound ==
  ASSUME NEW z, NEW Fr, NEW Hs, NEW X, NEW end \in Nat, Sound(z, Fr, Hs, X, end), NEW a \in X,
         NEW o, z.hdr[a].order = o, \A b \in Fr : ~Mergeable(z, a, o, b)
  PROVE  Sound(add_to_free_list(z, a, o), Fr \cup {a}, Hs, X \ {a}, end)
<1> DEFINE y == add_to_free_list(z, a, o)
           B == Fr \cup Hs \cup X
<1>0. /\ z \in ZoneRec /\ B \subseteq Addrs /\ a \in Addrs /\ o \in Orders /\ a \notin Fr
      /\ Listed(z, Fr) /\ Tiled(OrderOf(z), B, end) /\ Marked(z, B, Hs)
  BY SoundBlocks DEF Sound
<1>1. PICK pos : Lists(z, Fr, pos)
  BY <1>0 DEF Listed
<1>2. z.free_lists[o] # a
  BY <1>0, ListHead, NullIsNoAddr
<1>3. Added(z, y, a, o)
  BY <1>0, <1>2, AddPointers
<1> HIDE DEF y
<1>4. Listed(y, Fr \cup {a})
  <2>1. Lists(y, Fr \cup {a}, Ahead(pos, a))
    BY <1>0, <1>1, <1>3, AddLists
  <2> QED BY <2>1 DEF Listed
<1>5. y \in ZoneRec /\ AllSameKind(z, y) /\ y.allocated_blocks = z.allocated_blocks
  BY <1>3 DEF Added, AllSameKind
<1>6. OrderOf(y) = OrderOf(z) /\ Marked(y, B, Hs)
  BY <1>0, <1>5, KindsKept
<1>7. Apart(OrderOf(z), Fr \cup {a})
  <2>1. \A b \in B : Aligned(b, z.hdr[b].order)
    BY <1>0, SoundBlocks DEF Tiled
  <2>2. Apart(OrderOf(z), Fr) /\ Fr \subseteq Addrs
    BY <1>0 DEF Sound
  <2> QED BY <1>0, <2>1, <2>2, ApartAdd
<1>8. (Fr \cup {a}) \cup Hs \cup (X \ {a}) = B
  OBVIOUS
<1>9. (Fr \cup {a}) \cap Hs = {} /\ (X \ {a}) \cap ((Fr \cup {a}) \cup Hs) = {}
  BY DEF Sound
<1>10. y.allocated_blocks = Cardinality(Hs)
  BY <1>5 DEF Sound
<1> HIDE DEF B
<1> QED BY <1>0, <1>4, <1>5, <1>6, <1>7, <1>8, <1>9, <1>10 DEF Sound, y

\* remove_from_free_list.
LEMMA TakeSound ==
  ASSUME NEW z, NEW Fr, NEW Hs, NEW X, NEW end \in Nat, Sound(z, Fr, Hs, X, end), NEW a \in Fr,
         NEW o, z.hdr[a].order = o
  PROVE  LET y == remove_from_free_list(z, a, o)
         IN  Sound(y, Fr \ {a}, Hs, X \cup {a}, end) /\ AllSameKind(z, y)
<1> DEFINE y == remove_from_free_list(z, a, o)
           B == Fr \cup Hs \cup X
<1>0. /\ z \in ZoneRec /\ B \subseteq Addrs /\ a \in Addrs /\ o \in Orders
      /\ Listed(z, Fr) /\ Tiled(OrderOf(z), B, end) /\ Marked(z, B, Hs)
  BY SoundBlocks DEF Sound
<1>1. PICK pos : Lists(z, Fr, pos)
  BY <1>0 DEF Listed
<1>3. Taken(z, y, a, o)
  BY <1>0, RemovePointers
<1> HIDE DEF y
<1>4. Listed(y, Fr \ {a})
  <2>1. Lists(y, Fr \ {a}, pos)
    BY <1>0, <1>1, <1>3, TakeLists
  <2> QED BY <2>1 DEF Listed
<1>5. y \in ZoneRec /\ AllSameKind(z, y) /\ y.allocated_blocks = z.allocated_blocks
  BY <1>3 DEF Taken, AllSameKind
<1>6. OrderOf(y) = OrderOf(z) /\ Marked(y, B, Hs)
  BY <1>0, <1>5, KindsKept
<1>7. Apart(OrderOf(z), Fr \ {a})
  BY DEF Sound, Apart
<1>8. (Fr \ {a}) \cup Hs \cup (X \cup {a}) = B
  OBVIOUS
<1>9. (Fr \ {a}) \cap Hs = {} /\ (X \cup {a}) \cap ((Fr \ {a}) \cup Hs) = {}
  BY DEF Sound
<1>10. y.allocated_blocks = Cardinality(Hs)
  BY <1>5 DEF Sound
<1> HIDE DEF B
<1> QED BY <1>0, <1>4, <1>5, <1>6, <1>7, <1>8, <1>9, <1>10 DEF Sound, y

\* The lists do not depend on headers of blocks that are not free.
LEMMA SameListed ==
  ASSUME NEW z, NEW Fr, Listed(z, Fr), NEW y,
         y.free_lists = z.free_lists, y.free_blocks = z.free_blocks,
         \A a \in Fr : /\ y.hdr[a].next = z.hdr[a].next /\ y.hdr[a].prev = z.hdr[a].prev
                       /\ y.hdr[a].order = z.hdr[a].order
  PROVE  Listed(y, Fr)
<1>1. PICK pos : Lists(z, Fr, pos)
  BY DEF Listed
<1>2. Lists(y, Fr, pos)
  BY <1>1, SameLists
<1> QED BY <1>2 DEF Listed

\* The free blocks stay apart when their orders stay.
LEMMA SameApart ==
  ASSUME NEW od, NEW oe, NEW Fr, Apart(od, Fr), \A a \in Fr : oe[a] = od[a]
  PROVE  Apart(oe, Fr)
BY DEF Apart

\* The zone after a header gets another order.
LEMMA OrderWritten ==
  ASSUME NEW z \in ZoneRec, NEW a \in Addrs, NEW o \in Orders
  PROVE  LET y == [z EXCEPT !.hdr[a].order = o]
         IN  /\ y \in ZoneRec /\ y.free_lists = z.free_lists /\ y.free_blocks = z.free_blocks
             /\ y.allocated_blocks = z.allocated_blocks
             /\ \A x \in Addrs :
                  /\ y.hdr[x].order = IF x = a THEN o ELSE z.hdr[x].order
                  /\ y.hdr[x].next = z.hdr[x].next /\ y.hdr[x].prev = z.hdr[x].prev
                  /\ y.hdr[x].magic = z.hdr[x].magic /\ y.hdr[x].allocated = z.hdr[x].allocated
<1> DEFINE hd == z.hdr
           hx == [hd EXCEPT ![a].order = o]
           y == [z EXCEPT !.hdr = hx]
<1>1. hd \in [Addrs -> Header]
  BY ZoneFields
<1>2. [z EXCEPT !.hdr[a].order = o] = y
  OBVIOUS
<1> HIDE DEF hd
<1>3. /\ hx \in [Addrs -> Header]
      /\ \A x \in Addrs : /\ hx[x].order = IF x = a THEN o ELSE hd[x].order
                          /\ hx[x].next = hd[x].next /\ hx[x].prev = hd[x].prev
                          /\ hx[x].magic = hd[x].magic /\ hx[x].allocated = hd[x].allocated
  BY <1>1, OrderSet
<1> HIDE DEF hx
<1>4. /\ y \in ZoneRec /\ y.hdr = hx /\ y.free_lists = z.free_lists
      /\ y.free_blocks = z.free_blocks /\ y.allocated_blocks = z.allocated_blocks
  BY <1>3 DEF ZoneRec
<1> HIDE DEF y
<1> QED BY <1>2, <1>3, <1>4 DEF hd

\* The zone where the flag of the block a says whether it is in S, and n blocks are
\* allocated.
Flagged(z, a, S, n) == [z EXCEPT !.hdr = WithFlag(z.hdr, a, S), !.allocated_blocks = n]

\* The zone after the flag of a header and the count of the allocated blocks change.
LEMMA FlagWritten ==
  ASSUME NEW z \in ZoneRec, NEW a \in Addrs, NEW S, NEW n \in Int
  PROVE  LET y == Flagged(z, a, S, n)
         IN  /\ y \in ZoneRec /\ y.free_lists = z.free_lists /\ y.free_blocks = z.free_blocks
             /\ y.allocated_blocks = n
             /\ \A x \in Addrs :
                  /\ FlagIs(z.hdr, y.hdr, x, a, S)
                  /\ y.hdr[x].next = z.hdr[x].next /\ y.hdr[x].prev = z.hdr[x].prev
                  /\ y.hdr[x].magic = z.hdr[x].magic /\ y.hdr[x].order = z.hdr[x].order
<1> DEFINE hd == z.hdr
           hx == WithFlag(hd, a, S)
           y == [z EXCEPT !.hdr = hx, !.allocated_blocks = n]
<1>1. hd \in [Addrs -> Header]
  BY ZoneFields
<1>2. Flagged(z, a, S, n) = y
  BY DEF Flagged
<1> HIDE DEF hd
<1>3. /\ hx \in [Addrs -> Header]
      /\ \A x \in Addrs : /\ FlagIs(hd, hx, x, a, S)
                          /\ hx[x].next = hd[x].next /\ hx[x].prev = hd[x].prev
                          /\ hx[x].magic = hd[x].magic /\ hx[x].order = hd[x].order
  BY <1>1, FlagSet
<1> HIDE DEF hx
<1>4. /\ y \in ZoneRec /\ y.hdr = hx /\ y.free_lists = z.free_lists
      /\ y.free_blocks = z.free_blocks /\ y.allocated_blocks = n
  BY <1>3 DEF ZoneRec
<1> HIDE DEF y
<1> QED BY <1>2, <1>3, <1>4 DEF hd

FreshHeader(order) ==
  [next |-> NULL, prev |-> NULL, order |-> order, magic |-> TRUE, allocated |-> FALSE]

\* The zone after a header is written at a.
LEMMA HeaderWritten ==
  ASSUME NEW z \in ZoneRec, NEW a \in Addrs, NEW o \in Orders
  PROVE  LET y == [z EXCEPT !.hdr[a] = FreshHeader(o)]
         IN  /\ y \in ZoneRec /\ y.free_lists = z.free_lists /\ y.free_blocks = z.free_blocks
             /\ y.allocated_blocks = z.allocated_blocks
             /\ \A x \in Addrs : y.hdr[x] = IF x = a THEN FreshHeader(o) ELSE z.hdr[x]
<1> DEFINE hd == z.hdr
           hx == [hd EXCEPT ![a] = FreshHeader(o)]
           y == [z EXCEPT !.hdr = hx]
<1>1. hd \in [Addrs -> Header]
  BY ZoneFields
<1>2. [z EXCEPT !.hdr[a] = FreshHeader(o)] = y
  OBVIOUS
<1>3. FreshHeader(o) \in Header
  BY NullIsNoAddr DEF FreshHeader, Header
<1> HIDE DEF hd
<1>4. hx \in [Addrs -> Header] /\ \A x \in Addrs : hx[x] = IF x = a THEN FreshHeader(o) ELSE hd[x]
  BY <1>1, <1>3
<1> HIDE DEF hx
<1>5. /\ y \in ZoneRec /\ y.hdr = hx /\ y.free_lists = z.free_lists
      /\ y.free_blocks = z.free_blocks /\ y.allocated_blocks = z.allocated_blocks
  BY <1>4 DEF ZoneRec
<1> HIDE DEF y
<1> QED BY <1>2, <1>4, <1>5 DEF hd

\* All headers are as they were but the one at a, a free block's of the order o.
Fresh(z, y, a, o) ==
  \A x \in Addrs : /\ y.hdr[x].order = IF x = a THEN o ELSE z.hdr[x].order
                   /\ y.hdr[x].magic <=> (x = a \/ z.hdr[x].magic)
                   /\ y.hdr[x].allocated <=> (x # a /\ z.hdr[x].allocated)

\* A new free block: its header is fresh, and the lists have it.
LEMMA NewBlock ==
  ASSUME NEW z \in ZoneRec, NEW Fr, Listed(z, Fr), NEW a \in Addrs, a \notin Fr, NEW o \in Orders
  PROVE  LET y == NewFreeBlock(z, a, o)
         IN  /\ y \in ZoneRec /\ Listed(y, Fr \cup {a}) /\ y.allocated_blocks = z.allocated_blocks
             /\ Fresh(z, y, a, o)
<1> DEFINE v == [z EXCEPT !.hdr[a] = FreshHeader(o)]
           y == add_to_free_list(v, a, o)
<1>1. NewFreeBlock(z, a, o) = y
  BY DEF NewFreeBlock, FreshHeader
<1>2. /\ v \in ZoneRec /\ v.free_lists = z.free_lists /\ v.free_blocks = z.free_blocks
      /\ v.allocated_blocks = z.allocated_blocks
      /\ \A x \in Addrs : v.hdr[x] = IF x = a THEN FreshHeader(o) ELSE z.hdr[x]
  BY HeaderWritten
<1> HIDE DEF v
<1>3. Fr \subseteq Addrs
  BY DEF Listed, Lists
<1>4. Listed(v, Fr)
  <2>1. \A x \in Fr : v.hdr[x] = z.hdr[x]
    BY <1>2, <1>3
  <2> QED BY <1>2, <2>1, SameListed
<1>5. v.hdr[a].order = o /\ v.hdr[a].magic = TRUE /\ v.hdr[a].allocated = FALSE
  BY <1>2 DEF FreshHeader
<1>6. v.free_lists[o] # a
  BY <1>4, ListHead, NullIsNoAddr
<1>7. Added(v, y, a, o)
  BY <1>2, <1>6, AddPointers
<1> HIDE DEF y
<1>8. PICK pos : Lists(v, Fr, pos)
  BY <1>4 DEF Listed
<1>9. Lists(y, Fr \cup {a}, Ahead(pos, a))
  BY <1>2, <1>5, <1>7, <1>8, AddLists
<1>10. y \in ZoneRec /\ y.allocated_blocks = v.allocated_blocks
       /\ \A x \in Addrs : SameKind(v.hdr[x], y.hdr[x])
  BY <1>7 DEF Added
<1>11. Fresh(z, y, a, o)
  BY <1>2, <1>5, <1>10 DEF SameKind, Fresh
<1>12. Listed(y, Fr \cup {a})
  BY <1>9 DEF Listed
<1> QED BY <1>1, <1>2, <1>10, <1>11, <1>12

\* The blocks of callers keep their orders.
SameOrders(z, y, Hs) == \A x \in Hs : y.hdr[x].order = z.hdr[x].order

\* Two buddies in hand become one block.
LEMMA MergeSound ==
  ASSUME NEW z, NEW Fr, NEW Hs, NEW l, NEW h, NEW end \in Nat, Sound(z, Fr, Hs, {l, h}, end),
         NEW o \in Orders, o < MaxOrder, z.hdr[l].order = o, z.hdr[h].order = o, Pair(l, h, o)
  PROVE  LET y == [z EXCEPT !.hdr[l].order = o + 1]
         IN  Sound(y, Fr, Hs, {l}, end) /\ y.hdr[l].order = o + 1 /\ SameOrders(z, y, Hs)
<1> DEFINE y == [z EXCEPT !.hdr[l].order = o + 1]
           B == Fr \cup Hs \cup {l, h}
           C == Fr \cup Hs \cup {l}
<1>0. /\ z \in ZoneRec /\ B \subseteq Addrs /\ l \in Addrs /\ h \in Addrs
      /\ Listed(z, Fr) /\ Tiled(OrderOf(z), B, end) /\ Marked(z, B, Hs)
      /\ Fr \cap Hs = {} /\ {l, h} \cap (Fr \cup Hs) = {} /\ Apart(OrderOf(z), Fr)
      /\ z.allocated_blocks = Cardinality(Hs)
  <2>1. z \in ZoneRec /\ B \subseteq Addrs
    BY SoundBlocks
  <2>2. l \in Addrs /\ h \in Addrs
    BY <2>1
  <2> QED BY <2>1, <2>2 DEF Sound
<1>1. o \in Nat /\ o + 1 \in Orders /\ block_size[o] \in Nat /\ block_size[o] >= 1
  BY SizeIs, BuddyAssumption DEF Orders
<1>2. l # h
  BY <1>0, <1>1, NullIsNoAddr DEF Pair
<1>3. /\ y \in ZoneRec /\ y.free_lists = z.free_lists /\ y.free_blocks = z.free_blocks
      /\ y.allocated_blocks = z.allocated_blocks
      /\ \A x \in Addrs :
           /\ y.hdr[x].order = IF x = l THEN o + 1 ELSE z.hdr[x].order
           /\ y.hdr[x].next = z.hdr[x].next /\ y.hdr[x].prev = z.hdr[x].prev
           /\ y.hdr[x].magic = z.hdr[x].magic /\ y.hdr[x].allocated = z.hdr[x].allocated
  BY <1>0, <1>1, OrderWritten
<1> HIDE DEF y
<1>4. \A x \in Addrs : /\ OrderOf(z)[x] = z.hdr[x].order
                       /\ OrderOf(y)[x] = IF x = l THEN o + 1 ELSE z.hdr[x].order
  BY <1>3, OrderIs
<1>5. Tiled(OrderOf(y), B \ {h}, end)
  <2>1. OrderOf(z)[l] = o /\ OrderOf(z)[h] = o /\ OrderOf(y)[l] = o + 1
    BY <1>0, <1>4
  <2>2. \A x \in B \ {l, h} : OrderOf(y)[x] = OrderOf(z)[x]
    BY <1>0, <1>4
  <2>3. l \in B /\ h \in B
    OBVIOUS
  <2> HIDE DEF B
  <2> QED BY <1>0, <1>1, <2>1, <2>2, <2>3, MergeTiling
<1>6. B \ {h} = C
  BY <1>0, <1>2
<1>7. Listed(y, Fr)
  <2>1. \A a \in Fr : a \in Addrs /\ a # l
    BY <1>0
  <2> QED BY <1>0, <1>3, <2>1, SameListed
<1>8. Apart(OrderOf(y), Fr)
  <2>1. \A a \in Fr : OrderOf(y)[a] = OrderOf(z)[a]
    BY <1>0, <1>4
  <2> QED BY <1>0, <2>1, SameApart
<1>9. Marked(y, C, Hs)
  BY <1>0, <1>3 DEF Marked
<1>10. {l} \cap (Fr \cup Hs) = {}
  BY <1>0
<1>11. Sound(y, Fr, Hs, {l}, end)
  BY <1>0, <1>3, <1>5, <1>6, <1>7, <1>8, <1>9, <1>10 DEF Sound
<1>12. y.hdr[l].order = o + 1
  BY <1>0, <1>3
<1>13. SameOrders(z, y, Hs)
  BY <1>0, <1>3 DEF SameOrders
<1> QED BY <1>11, <1>12, <1>13 DEF y

\* One round of split_block: the block in hand loses its upper half.
LEMMA HalveSound ==
  ASSUME NEW z, NEW Fr, NEW Hs, NEW a, Sound(z, Fr, Hs, {a}, Units),
         NEW o \in Orders, z.hdr[a].order = o + 1
  PROVE  LET u == a + block_size[o]
             y == [NewFreeBlock(z, u, o) EXCEPT !.hdr[a].order = o]
         IN  Sound(y, Fr \cup {u}, Hs, {a}, Units) /\ y.hdr[a].order = o /\ SameOrders(z, y, Hs)
<1> DEFINE u == a + block_size[o]
           v == NewFreeBlock(z, u, o)
           y == [v EXCEPT !.hdr[a].order = o]
           B == Fr \cup Hs \cup {a}
           od == OrderOf(z)
           oe == [x \in Addrs |-> IF x = a \/ x = u THEN o ELSE z.hdr[x].order]
           Gr == Fr \cup {u}
<1>0. /\ z \in ZoneRec /\ B \subseteq Addrs /\ a \in Addrs
      /\ Listed(z, Fr) /\ Tiled(od, B, Units) /\ Marked(z, B, Hs)
      /\ Fr \cap Hs = {} /\ a \notin Fr \cup Hs /\ Apart(od, Fr)
      /\ z.allocated_blocks = Cardinality(Hs)
      /\ \A x \in Addrs : od[x] = z.hdr[x].order
  <2>1. z \in ZoneRec /\ B \subseteq Addrs /\ \A x \in Addrs : od[x] = z.hdr[x].order
    BY SoundBlocks, OrderIs
  <2>2. a \in Addrs
    BY <2>1
  <2>3. {a} \cap (Fr \cup Hs) = {}
    BY DEF Sound
  <2>4. a \notin Fr \cup Hs
    BY <2>3
  <2> QED BY <2>1, <2>2, <2>4 DEF Sound
<1>1. o \in Nat /\ Units \in Nat /\ Units \in 0 .. Units /\ block_size[o] \in Nat /\ block_size[o] >= 1
  BY SizeIs, BuddyAssumption DEF Orders
<1> HIDE DEF B, od, u, v, y
<1>2. a \in B
  BY DEF B
<1>3. u \in Addrs /\ u \notin B
  <2>1. od[a] = o + 1 /\ u = a + block_size[o]
    BY <1>0 DEF u
  <2>2. /\ a \in Nat /\ Ends(od, a) = a + block_size[o + 1] /\ block_size[o + 1] = 2 * block_size[o]
    BY <1>0, <1>1, <2>1, NullIsNoAddr, SizeIs DEF Ends
  <2>3. Ends(od, a) <= Units /\ \A x \in B : a < x => Ends(od, a) <= x
    BY <1>0, <1>2 DEF Tiled
  <2> QED BY <1>1, <2>1, <2>2, <2>3 DEF Addrs
<1>4. oe[a] = o /\ oe[u] = o /\ \A x \in B \ {a} : oe[x] = od[x]
  BY <1>0, <1>3
<1>5. Tiled(oe, B \cup {u}, Units) /\ Pair(a, u, o)
  <2>1. u = a + block_size[o] /\ od[a] = o + 1
    BY <1>0 DEF u
  <2> HIDE DEF oe
  <2> QED BY <1>0, <1>1, <1>2, <1>4, <2>1, SplitTiling
<1>6. u \notin Fr /\ u \notin Hs /\ u # a
  BY <1>3 DEF B
<1>7. /\ v \in ZoneRec /\ Listed(v, Gr) /\ v.allocated_blocks = z.allocated_blocks
      /\ Fresh(z, v, u, o)
  <2>1. z \in ZoneRec /\ Listed(z, Fr)
    BY <1>0
  <2> QED BY <1>3, <1>6, <2>1, NewBlock DEF v
<1>8. /\ y \in ZoneRec /\ y.free_lists = v.free_lists /\ y.free_blocks = v.free_blocks
      /\ y.allocated_blocks = v.allocated_blocks
      /\ \A x \in Addrs :
           /\ y.hdr[x].order = IF x = a THEN o ELSE v.hdr[x].order
           /\ y.hdr[x].next = v.hdr[x].next /\ y.hdr[x].prev = v.hdr[x].prev
           /\ y.hdr[x].magic = v.hdr[x].magic /\ y.hdr[x].allocated = v.hdr[x].allocated
  BY <1>0, <1>7, OrderWritten DEF y
<1>9. OrderOf(y) = oe
  BY <1>7, <1>8 DEF OrderOf, Fresh
<1>10. Listed(y, Gr)
  <2>1. \A x \in Gr : x \in Addrs /\ x # a
    BY <1>0, <1>3, <1>6 DEF B
  <2> HIDE DEF Gr
  <2> QED BY <1>7, <1>8, <2>1, SameListed
<1>11. Gr \cup Hs \cup {a} = B \cup {u}
  BY DEF B
<1>12. Gr \cap Hs = {} /\ {a} \cap (Gr \cup Hs) = {}
  BY <1>0, <1>6
<1>13. Marked(y, B \cup {u}, Hs)
  BY <1>0, <1>3, <1>6, <1>7, <1>8 DEF Marked, B, Fresh
<1>14. Apart(OrderOf(y), Gr)
  <2>1. Apart(OrderOf(y), Fr)
    <3>1. \A x \in Fr : oe[x] = od[x]
      BY <1>0, <1>4 DEF B
    <3> HIDE DEF oe
    <3> QED BY <1>0, <1>9, <3>1, SameApart
  <2>2. BuddyAddr(u, o) = a
    BY <1>1, <1>5, PairBuddy
  <2>3. \A b \in Fr : ~Mergeable(y, u, o, b)
    BY <1>0, <2>2 DEF Mergeable
  <2>4. y.hdr[u].order = o /\ Aligned(u, o)
    BY <1>3, <1>5, <1>6, <1>7, <1>8 DEF Pair, Fresh
  <2>5. Fr \subseteq Addrs /\ Fr \subseteq B
    BY <1>0 DEF B
  <2>6. \A b \in Fr : Aligned(b, y.hdr[b].order)
    <3>1. \A b \in Fr : Aligned(b, oe[b])
      BY <1>5, <2>5 DEF Tiled
    <3>2. \A b \in Fr : OrderOf(y)[b] = y.hdr[b].order
      BY <2>5, OrderIs
    <3> QED BY <1>9, <3>1, <3>2
  <2> QED BY <1>3, <2>1, <2>3, <2>4, <2>5, <2>6, ApartAdd
<1> HIDE DEF Gr, oe
<1>15. Sound(y, Gr, Hs, {a}, Units)
  BY <1>0, <1>5, <1>7, <1>8, <1>9, <1>10, <1>11, <1>12, <1>13, <1>14 DEF Sound
<1>16. y.hdr[a].order = o
  BY <1>0, <1>8
<1>17. SameOrders(z, y, Hs)
  BY <1>0, <1>6, <1>7, <1>8 DEF SameOrders, Fresh, B
<1> QED BY <1>15, <1>16, <1>17 DEF y, Gr, v, u

\* What changes with the flag.
LEMMA FlagSound ==
  ASSUME NEW z, NEW Fr, NEW Hs, NEW X, Sound(z, Fr, Hs, X, Units), NEW a \in Hs \cup X,
         NEW n \in Int, NEW Hn, NEW Xn, Hn \cup Xn = Hs \cup X,
         Xn \cap (Fr \cup Hn) = {}, Hn \ {a} = Hs \ {a}, n = Cardinality(Hn)
  PROVE  /\ Sound(Flagged(z, a, Hn, n), Fr, Hn, Xn, Units)
         /\ OrderOf(Flagged(z, a, Hn, n)) = OrderOf(z)
<1> DEFINE y == Flagged(z, a, Hn, n)
           B == Fr \cup Hs \cup X
<1>0. z \in ZoneRec /\ B \subseteq Addrs
  BY SoundBlocks
<1>1. a \in Addrs
  BY <1>0
<1>2. /\ y \in ZoneRec /\ y.free_lists = z.free_lists /\ y.free_blocks = z.free_blocks
      /\ y.allocated_blocks = n
      /\ \A x \in Addrs :
           /\ FlagIs(z.hdr, y.hdr, x, a, Hn)
           /\ y.hdr[x].next = z.hdr[x].next /\ y.hdr[x].prev = z.hdr[x].prev
           /\ y.hdr[x].magic = z.hdr[x].magic /\ y.hdr[x].order = z.hdr[x].order
  BY <1>0, <1>1, FlagWritten
<1> HIDE DEF y
<1>3. OrderOf(y) = OrderOf(z)
  BY <1>2 DEF OrderOf
<1>4. Listed(z, Fr) /\ Tiled(OrderOf(z), B, Units) /\ Marked(z, B, Hs) /\ Apart(OrderOf(z), Fr)
  BY DEF Sound
<1>5. Listed(y, Fr)
  <2>1. \A x \in Fr : x \in Addrs
    BY <1>0
  <2> QED BY <1>2, <1>4, <2>1, SameListed
<1>6. Fr \cup Hn \cup Xn = B
  OBVIOUS
<1>7. Fr \cap Hn = {}
  <2>1. Fr \cap (Hs \cup X) = {}
    BY DEF Sound
  <2> QED BY <2>1
<1>8. Marked(y, B, Hn)
  <2>1. \A x \in B : y.hdr[x].magic
    BY <1>0, <1>2, <1>4 DEF Marked
  <2>2. ASSUME NEW x \in Addrs PROVE y.hdr[x].allocated <=> x \in Hn
    <3>1. z.hdr[x].allocated <=> x \in Hs
      BY <1>4 DEF Marked
    <3>2. CASE x = a
      BY <1>2, <3>2 DEF FlagIs, FlagFor
    <3>3. CASE x # a
      BY <1>2, <3>1, <3>3 DEF FlagIs
    <3> QED BY <3>2, <3>3
  <2> QED BY <2>1, <2>2 DEF Marked
<1> HIDE DEF B
<1> QED BY <1>2, <1>3, <1>4, <1>5, <1>6, <1>7, <1>8 DEF Sound, y

\* alloc_order gives the block in hand to the caller.
LEMMA GiveSound ==
  ASSUME NEW z, NEW Fr, NEW Hs, NEW a, Sound(z, Fr, Hs, {a}, Units)
  PROVE  LET y == [z EXCEPT !.hdr[a].allocated = TRUE, !.allocated_blocks = @ + 1]
         IN  Sound(y, Fr, Hs \cup {a}, {}, Units) /\ OrderOf(y) = OrderOf(z)
<1> DEFINE n == z.allocated_blocks + 1
<1>1. z.allocated_blocks = Cardinality(Hs) /\ {a} \cap (Fr \cup Hs) = {}
  BY DEF Sound
<1>2. Hs \subseteq Addrs
  BY SoundBlocks
<1>3. IsFiniteSet(Hs) /\ Cardinality(Hs) \in Nat /\ a \notin Hs
  BY <1>1, <1>2, AddrsFinite
<1>4. Cardinality(Hs \cup {a}) = Cardinality(Hs) + 1
  BY <1>3, FS_AddElement
<1>5. n \in Int /\ n = Cardinality(Hs \cup {a})
  BY <1>1, <1>3, <1>4
<1> HIDE DEF n
<1>6. /\ Sound(Flagged(z, a, Hs \cup {a}, n), Fr, Hs \cup {a}, {}, Units)
      /\ OrderOf(Flagged(z, a, Hs \cup {a}, n)) = OrderOf(z)
  <2>1. a \in Hs \cup {a} /\ (Hs \cup {a}) \cup {} = Hs \cup {a}
        /\ {} \cap (Fr \cup (Hs \cup {a})) = {} /\ (Hs \cup {a}) \ {a} = Hs \ {a}
    OBVIOUS
  <2> QED BY <1>5, <2>1, FlagSound
<1>7. [z EXCEPT !.hdr[a].allocated = TRUE, !.allocated_blocks = @ + 1] = Flagged(z, a, Hs \cup {a}, n)
  <2>1. z \in ZoneRec
    BY SoundBlocks
  <2>2. FlagFor(a, Hs \cup {a}) = TRUE
    BY DEF FlagFor
  <2> QED BY <2>1, <2>2 DEF Flagged, WithFlag, n, ZoneRec
<1> QED BY <1>6, <1>7

\* free_order takes the block back.
LEMMA ReturnSound ==
  ASSUME NEW z, NEW Fr, NEW Hs, Sound(z, Fr, Hs, {}, Units), NEW a \in Hs
  PROVE  LET y == [z EXCEPT !.hdr[a].allocated = FALSE, !.allocated_blocks = @ - 1]
         IN  Sound(y, Fr, Hs \ {a}, {a}, Units) /\ OrderOf(y) = OrderOf(z)
<1> DEFINE n == z.allocated_blocks - 1
<1>1. z.allocated_blocks = Cardinality(Hs) /\ Fr \cap Hs = {}
  BY DEF Sound
<1>2. Hs \subseteq Addrs
  BY SoundBlocks
<1>3. IsFiniteSet(Hs) /\ Cardinality(Hs) \in Nat
  BY <1>2, AddrsFinite
<1>4. Cardinality(Hs \ {a}) = Cardinality(Hs) - 1
  BY <1>3, FS_RemoveElement
<1>5. n \in Int /\ n = Cardinality(Hs \ {a})
  BY <1>1, <1>3, <1>4
<1> HIDE DEF n
<1>6. /\ Sound(Flagged(z, a, Hs \ {a}, n), Fr, Hs \ {a}, {a}, Units)
      /\ OrderOf(Flagged(z, a, Hs \ {a}, n)) = OrderOf(z)
  <2>1. a \in Hs \cup {} /\ (Hs \ {a}) \cup {a} = Hs \cup {}
        /\ {a} \cap (Fr \cup (Hs \ {a})) = {} /\ (Hs \ {a}) \ {a} = Hs \ {a}
    BY <1>1
  <2> QED BY <1>5, <2>1, FlagSound
<1>7. [z EXCEPT !.hdr[a].allocated = FALSE, !.allocated_blocks = @ - 1] = Flagged(z, a, Hs \ {a}, n)
  <2>1. z \in ZoneRec
    BY SoundBlocks
  <2>2. FlagFor(a, Hs \ {a}) = FALSE
    BY DEF FlagFor
  <2> QED BY <2>1, <2>2 DEF Flagged, WithFlag, n, ZoneRec
<1> QED BY <1>6, <1>7

\* What the owner of a block writes behind its header changes no block.
LEMMA WriteSound ==
  ASSUME NEW z, NEW Fr, NEW Hs, Sound(z, Fr, Hs, {}, Units), NEW W, W \cap (Fr \cup Hs) = {}
  PROVE  LET y == [z EXCEPT !.hdr = [x \in Addrs |-> IF x \in W THEN UserData ELSE z.hdr[x]]]
         IN  Sound(y, Fr, Hs, {}, Units) /\ \A x \in Fr \cup Hs : y.hdr[x] = z.hdr[x]
<1> DEFINE hx == [x \in Addrs |-> IF x \in W THEN UserData ELSE z.hdr[x]]
           y == [z EXCEPT !.hdr = hx]
           B == Fr \cup Hs \cup {}
<1>0. z \in ZoneRec /\ B \subseteq Addrs
  BY SoundBlocks
<1>1. UserData \in Header /\ UserData.allocated = FALSE
  BY NullIsNoAddr, BuddyAssumption DEF UserData, Header, Orders
<1>2. hx \in [Addrs -> Header] /\ \A x \in Addrs : hx[x] = IF x \in W THEN UserData ELSE z.hdr[x]
  BY <1>0, <1>1, ZoneFields
<1> HIDE DEF hx
<1>3. /\ y \in ZoneRec /\ y.hdr = hx /\ y.free_lists = z.free_lists
      /\ y.free_blocks = z.free_blocks /\ y.allocated_blocks = z.allocated_blocks
  BY <1>0, <1>2 DEF ZoneRec
<1> HIDE DEF y
<1>4. \A x \in B : y.hdr[x] = z.hdr[x] /\ x \in Addrs
  BY <1>0, <1>2, <1>3
<1>5. /\ Listed(z, Fr) /\ Tiled(OrderOf(z), B, Units) /\ Marked(z, B, Hs) /\ Apart(OrderOf(z), Fr)
      /\ Fr \cap Hs = {} /\ z.allocated_blocks = Cardinality(Hs)
  BY DEF Sound
<1>6. Listed(y, Fr)
  <2>1. \A x \in Fr : y.hdr[x] = z.hdr[x]
    BY <1>4
  <2> QED BY <1>3, <1>5, <2>1, SameListed
<1>7. \A x \in B : OrderOf(y)[x] = OrderOf(z)[x]
  BY <1>4, OrderIs
<1>8. Tiled(OrderOf(y), B, Units)
  BY <1>5, <1>7, SameTiling
<1>9. Apart(OrderOf(y), Fr)
  <2>1. \A x \in Fr : OrderOf(y)[x] = OrderOf(z)[x]
    BY <1>7
  <2> QED BY <1>5, <2>1, SameApart
<1>10. Marked(y, B, Hs)
  <2>1. \A x \in B : y.hdr[x].magic
    BY <1>4, <1>5 DEF Marked
  <2>2. ASSUME NEW x \in Addrs PROVE y.hdr[x].allocated <=> x \in Hs
    <3>1. z.hdr[x].allocated <=> x \in Hs
      BY <1>5 DEF Marked
    <3>2. CASE x \in W
      BY <1>1, <1>2, <1>3, <3>2
    <3>3. CASE x \notin W
      BY <1>2, <1>3, <3>1, <3>3
    <3> QED BY <3>2, <3>3
  <2> QED BY <2>1, <2>2 DEF Marked
<1>11. {} \cap (Fr \cup Hs) = {}
  OBVIOUS
<1>12. \A x \in Fr \cup Hs : y.hdr[x] = z.hdr[x]
  BY <1>4
<1>13. Sound(y, Fr, Hs, {}, Units)
  BY <1>3, <1>5, <1>6, <1>8, <1>9, <1>10, <1>11 DEF Sound
<1> QED BY <1>12, <1>13 DEF y, hx

-------------------------------------------------------------------------------
(* The loops of split_block and coalesce_block.  The block a of the order o  *)
(* is in hand; z0 is the zone before the loop.                               *)

InHand(z0, z, a, o, Hs) ==
  /\ \E Fr : Sound(z, Fr, Hs, {a}, Units)
  /\ z.hdr[a].order = o /\ SameOrders(z0, z, Hs)

\* One round of split_block.
LEMMA HalveInHand ==
  ASSUME NEW z0, NEW Hs, NEW a, NEW s, InHand(z0, s.zone, a, s.order, Hs), NEW o \in Orders,
         s.order = o + 1
  PROVE  /\ InHand(z0, Halve(s, a).zone, a, o, Hs) /\ Halve(s, a).zone \in ZoneRec
         /\ Halve(s, a) = [zone |-> Halve(s, a).zone, order |-> o]
<1> DEFINE z == s.zone
           u == a + block_size[o]
           y == [NewFreeBlock(z, u, o) EXCEPT !.hdr[a].order = o]
<1>0. o \in Nat /\ s.order - 1 = o
  BY BuddyAssumption DEF Orders
<1>1. Halve(s, a) = [zone |-> y, order |-> o]
  BY <1>0 DEF Halve
<1>2. PICK Fr : Sound(z, Fr, Hs, {a}, Units)
  BY DEF InHand
<1>3. z.hdr[a].order = o + 1 /\ SameOrders(z0, z, Hs)
  BY DEF InHand
<1> HIDE DEF z
<1>4. Sound(y, Fr \cup {u}, Hs, {a}, Units) /\ y.hdr[a].order = o /\ SameOrders(z, y, Hs)
  BY <1>2, <1>3, HalveSound
<1> HIDE DEF y, u
<1>5. SameOrders(z0, y, Hs)
  BY <1>3, <1>4 DEF SameOrders
<1>6. InHand(z0, y, a, o, Hs) /\ y \in ZoneRec
  BY <1>4, <1>5 DEF InHand, Sound
<1>7. Halve(s, a).zone = y
  BY <1>1
<1> QED BY <1>1, <1>6, <1>7

\* split_block brings the block in hand to the order target.
LEMMA SplitSound ==
  ASSUME NEW z, NEW Fr, NEW Hs, NEW a, Sound(z, Fr, Hs, {a}, Units), NEW from \in Orders,
         z.hdr[a].order = from, NEW target \in Orders, target <= from
  PROVE  InHand(z, split_block(z, a, from, target), a, target, Hs)
<1> DEFINE States == [zone : ZoneRec, order : target .. MaxOrder]
           D == {s \in States : InHand(z, s.zone, a, s.order, Hs)}
           G(s) == IF s.order > target THEN Halve(s, a) ELSE s
           F == [s \in D |-> G(s)]
           b == [zone |-> z, order |-> from]
           IsHalved(f) == f = [k \in Nat |-> IF k = 0 THEN b
                               ELSE LET s == f[k - 1] IN IF s.order > target THEN Halve(s, a) ELSE s]
           H == CHOOSE f : IsHalved(f)
<1>0. target \in Nat /\ from \in Nat /\ MaxOrder \in Nat /\ from <= MaxOrder
  BY BuddyAssumption DEF Orders
<1>1. b \in D
  <2>1. z \in ZoneRec
    BY DEF Sound
  <2>2. InHand(z, z, a, from, Hs)
    BY DEF InHand, SameOrders
  <2>3. b \in States /\ b.zone = z /\ b.order = from
    BY <1>0, <2>1
  <2> QED BY <2>2, <2>3
<1>2. ASSUME NEW s \in D
      PROVE  /\ G(s) \in D /\ s.order \in Nat /\ s.order >= target
             /\ s.order > target => G(s).order = s.order - 1
  <2>1. s \in States /\ InHand(z, s.zone, a, s.order, Hs)
    OBVIOUS
  <2>2. s.order \in target .. MaxOrder
    BY <2>1
  <2>3. CASE s.order > target
    <3> DEFINE o == s.order - 1
               t == Halve(s, a)
    <3>1. o \in Orders /\ s.order = o + 1 /\ o \in target .. MaxOrder
      BY <1>0, <2>2, <2>3 DEF Orders
    <3> HIDE DEF o
    <3>2. InHand(z, t.zone, a, o, Hs) /\ t.zone \in ZoneRec /\ t = [zone |-> t.zone, order |-> o]
      BY <2>1, <3>1, HalveInHand
    <3> HIDE DEF t
    <3>3. t \in States /\ t.order = o
      BY <3>1, <3>2
    <3>4. t \in D
      BY <3>2, <3>3
    <3>5. G(s) = t
      BY <2>3 DEF t
    <3> HIDE DEF D, G
    <3> QED BY <1>0, <2>2, <3>3, <3>4, <3>5 DEF o
  <2>4. CASE ~(s.order > target)
    BY <1>0, <2>2, <2>4
  <2> QED BY <2>3, <2>4
<1> HIDE DEF D, b
<1>3. F \in [D -> D] /\ \A s \in D : F[s] = G(s)
  <2> HIDE DEF G
  <2> QED BY <1>2
<1>4. PICK w \in [Nat -> D] : IsLoop(w, b, F)
  <2> HIDE DEF F
  <2> QED BY <1>1, <1>3, LoopDefined
<1> HIDE DEF F
<1>5. IsHalved(w)
  <2> DEFINE v == [k \in Nat |-> IF k = 0 THEN b ELSE G(w[k - 1])]
  <2>1. \A k \in Nat : w[k] = v[k]
    <3>1. \A k \in Nat : k # 0 => k - 1 \in Nat /\ w[k - 1] \in D
      OBVIOUS
    <3>2. \A k \in Nat : w[k] = IF k = 0 THEN b ELSE F[w[k - 1]]
      BY <1>4 DEF IsLoop
    <3> HIDE DEF G
    <3> QED BY <1>3, <3>1, <3>2
  <2>2. w = v
    <3> HIDE DEF G
    <3> QED BY <2>1
  <2> QED BY <2>2, Zenon
<1>6. IsHalved(H)
  <2> HIDE DEF IsHalved
  <2> QED BY <1>5, Zenon
<1>7. split_block(z, a, from, target) = H[MaxOrder].zone
  BY Zenon DEF split_block, b
<1> HIDE DEF H
<1>8. H[0] = b /\ \A k \in Nat : H[k + 1] = G(H[k])
  <2>1. \A k \in Nat : k + 1 \in Nat /\ k + 1 # 0 /\ (k + 1) - 1 = k
    OBVIOUS
  <2> HIDE DEF Halve
  <2> QED BY <1>6, <2>1
<1> HIDE DEF IsHalved
<1>9. \A k \in Nat : H[k] \in D
  <2>1. \A k \in Nat : H[k] \in D => H[k + 1] \in D
    BY <1>2, <1>8
  <2> QED BY <1>1, <1>8, <2>1, LoopStays
<1> DEFINE M == [s \in D |-> s.order - target]
           Done == {s \in D : s.order = target}
<1>10. M \in [D -> Nat]
  BY <1>0, <1>2
<1>11. ASSUME NEW k \in Nat
       PROVE  \/ H[k] \in Done /\ H[k + 1] = H[k]
              \/ H[k] \notin Done /\ M[H[k + 1]] < M[H[k]]
  <2> DEFINE s == H[k]
             t == H[k + 1]
  <2>1. s \in D /\ t \in D /\ t = G(s)
    BY <1>8, <1>9
  <2> HIDE DEF s, t
  <2>2. s.order \in Nat /\ s.order >= target /\ (s.order > target => t.order = s.order - 1)
    BY <1>2, <2>1
  <2>3. CASE s.order = target
    BY <1>0, <2>1, <2>3 DEF s, t
  <2>4. CASE s.order # target
    <3>1. s \notin Done /\ M[t] = t.order - target /\ M[s] = s.order - target
      BY <2>1, <2>4
    <3>2. t.order = s.order - 1
      BY <1>0, <2>2, <2>4
    <3>3. M[t] < M[s]
      BY <1>0, <2>2, <3>1, <3>2
    <3> QED BY <3>1, <3>3 DEF s, t
  <2> QED BY <2>3, <2>4
<1>12. M[H[0]] <= MaxOrder
  BY <1>0, <1>1, <1>8 DEF b
<1>13. H[MaxOrder] \in Done
  <2> HIDE DEF M, Done
  <2> QED BY <1>0, <1>9, <1>10, <1>11, <1>12, LoopEnds
<1>14. H[MaxOrder] \in D /\ H[MaxOrder].order = target
  BY <1>13
<1> QED BY <1>7, <1>14 DEF D

\* A block is not its own buddy.
LEMMA BuddyIsOther ==
  ASSUME NEW o \in Nat, NEW a, Aligned(a, o)
  PROVE  BuddyAddr(a, o) # a
<1> DEFINE b == BuddyAddr(a, o)
<1>1. Pair(a, b, o) \/ Pair(b, a, o)
  BY BuddyPairs
<1>2. a \in Nat /\ block_size[o] \in Nat /\ block_size[o] >= 1
  BY AlignedNat, SizeIs
<1> HIDE DEF b
<1> QED BY <1>1, <1>2 DEF Pair, b

\* The buddy that coalesce_block merges with, or NULL at the end of the loop.
BuddyOf(z, a, o) == IF Merges(o) THEN find_buddy(z, a, o) ELSE NULL

\* b is free and makes a pair with a.
IsBuddy(z, Fr, a, o, b) ==
  /\ b \in Fr /\ z.hdr[b].order = o /\ o < MaxOrder /\ b # a
  /\ Pair(a, b, o) \/ Pair(b, a, o)

\* What find_buddy finds is a free block, the other one of the pair.
LEMMA FoundBuddy ==
  ASSUME NEW z, NEW Fr, NEW Hs, NEW a, Sound(z, Fr, Hs, {a}, Units), NEW o \in Orders,
         z.hdr[a].order = o, BuddyOf(z, a, o) # NULL
  PROVE  IsBuddy(z, Fr, a, o, BuddyOf(z, a, o))
<1> DEFINE B == Fr \cup Hs \cup {a}
           od == OrderOf(z)
           b == BuddyOf(z, a, o)
<1>0. o \in Nat /\ Units \in Nat
  BY BuddyAssumption DEF Orders
<1>1. o < MaxOrder /\ b = find_buddy(z, a, o) /\ b # NULL
  BY DEF BuddyOf, Merges
<1> HIDE DEF b
<1>2. b = BuddyAddr(a, o) /\ ~(b >= Units) /\ ~z.hdr[b].allocated /\ z.hdr[b].order = o
  BY <1>1 DEF find_buddy
<1>3. B \subseteq Addrs /\ a \in B /\ Tiled(od, B, Units) /\ od[a] = o
  <2>1. B \subseteq Addrs /\ a \in B
    BY SoundBlocks
  <2>2. Tiled(od, B, Units)
    BY DEF Sound
  <2>3. od[a] = z.hdr[a].order
    BY <2>1, OrderIs
  <2> QED BY <2>1, <2>2, <2>3
<1>4. Aligned(a, o)
  BY <1>3 DEF Tiled
<1>5. b \in Nat /\ (Pair(a, b, o) \/ Pair(b, a, o)) /\ b # a
  BY <1>0, <1>2, <1>4, BuddyPairs, BuddyIsOther
<1>6. BuddyAddr(a, od[a]) < Units
  BY <1>0, <1>2, <1>3, <1>5
<1>7. b \in B
  <2> HIDE DEF B, od
  <2>1. BuddyAddr(a, od[a]) \in B
    BY <1>0, <1>3, <1>6, BuddyStarts
  <2> QED BY <1>2, <1>3, <2>1
<1>8. z.hdr[b].allocated <=> b \in Hs
  BY <1>7, SoundBlocks
<1>9. b \in Fr
  BY <1>2, <1>5, <1>7, <1>8
<1> QED BY <1>1, <1>2, <1>5, <1>9 DEF IsBuddy, b

\* When find_buddy finds none, no free block could be merged with a.
LEMMA NoBuddy ==
  ASSUME NEW z, NEW Fr, NEW Hs, NEW a, Sound(z, Fr, Hs, {a}, Units), NEW o \in Orders,
         z.hdr[a].order = o, BuddyOf(z, a, o) = NULL
  PROVE  \A b \in Fr : ~Mergeable(z, a, o, b)
<1> SUFFICES ASSUME NEW b \in Fr, Mergeable(z, a, o, b) PROVE FALSE
  OBVIOUS
<1>1. o < MaxOrder /\ z.hdr[b].order = o /\ b = BuddyAddr(a, o)
  BY DEF Mergeable
<1>2. b \in Fr \cup Hs \cup {a} /\ Fr \cap Hs = {}
  BY DEF Sound
<1>3. z.hdr[b].magic /\ (z.hdr[b].allocated <=> b \in Hs) /\ b \in Addrs
  BY <1>2, SoundBlocks
<1>4. b # NULL /\ ~(b >= Units)
  BY <1>3, NullIsNoAddr, BuddyAssumption DEF Addrs
<1>5. ~z.hdr[b].allocated
  BY <1>2, <1>3
<1>6. find_buddy(z, a, o) = b
  BY <1>1, <1>3, <1>4, <1>5 DEF find_buddy
<1> QED BY <1>1, <1>4, <1>6 DEF BuddyOf, Merges

\* One merge of coalesce_block.
LEMMA MergeInHand ==
  ASSUME NEW z0, NEW Hs, NEW s, InHand(z0, s.zone, s.block, s.order, Hs), s.order \in Orders,
         NEW b, b = BuddyOf(s.zone, s.block, s.order), b # NULL
  PROVE  LET t == Merge(s, b)
         IN  /\ InHand(z0, t.zone, t.block, t.order, Hs) /\ t.order = s.order + 1
             /\ t \in [zone : ZoneRec, block : Addrs, order : Orders]
<1> DEFINE z == s.zone
           a == s.block
           o == s.order
           v == remove_from_free_list(z, b, o)
           l == IF b < a THEN b ELSE a
           h == IF b < a THEN a ELSE b
           y == [v EXCEPT !.hdr[l].order = o + 1]
<1>1. Merge(s, b) = [zone |-> y, block |-> l, order |-> o + 1]
  BY DEF Merge
<1>2. PICK Fr : Sound(z, Fr, Hs, {a}, Units)
  BY DEF InHand
<1>3. z.hdr[a].order = o /\ SameOrders(z0, z, Hs) /\ o \in Orders /\ b = BuddyOf(z, a, o)
  BY DEF InHand
<1>4. o \in Nat /\ Units \in Nat /\ block_size[o] \in Nat /\ block_size[o] >= 1
  BY SizeIs, BuddyAssumption DEF Orders
<1> HIDE DEF z, a, o
<1>5. /\ b \in Fr /\ z.hdr[b].order = o /\ o < MaxOrder /\ b # a
      /\ Pair(a, b, o) \/ Pair(b, a, o)
  <2>1. Sound(z, Fr, Hs, {a}, Units)
    BY <1>2
  <2>2. o \in Orders /\ z.hdr[a].order = o
    BY <1>3
  <2>3. b = BuddyOf(z, a, o) /\ b # NULL
    BY <1>3
  <2>4. IsBuddy(z, Fr, a, o, b)
    BY ONLY <2>1, <2>2, <2>3, FoundBuddy
  <2> QED BY <2>4 DEF IsBuddy
<1>6. a \in Addrs /\ b \in Addrs /\ Hs \subseteq Addrs /\ a \in Nat /\ b \in Nat
  <2>1. Fr \cup Hs \cup {a} \subseteq Addrs
    BY <1>2, SoundBlocks
  <2> QED BY <1>5, <2>1, NullIsNoAddr
<1>7. Sound(v, Fr \ {b}, Hs, {a} \cup {b}, Units) /\ AllSameKind(z, v)
  BY <1>2, <1>4, <1>5, TakeSound
<1> HIDE DEF v
<1>8. \A x \in Addrs : v.hdr[x].order = z.hdr[x].order
  BY <1>7 DEF AllSameKind, SameKind
<1>9. Pair(l, h, o) /\ {a} \cup {b} = {l, h} /\ l \in Addrs /\ h \in Addrs
  <2>1. CASE Pair(a, b, o)
    <3>1. b = a + block_size[o]
      BY <2>1 DEF Pair
    <3>2. ~(b < a)
      BY <1>4, <1>6, <3>1
    <3> QED BY <1>6, <2>1, <3>2
  <2>2. CASE Pair(b, a, o)
    <3>1. a = b + block_size[o]
      BY <2>2 DEF Pair
    <3>2. b < a
      BY <1>4, <1>6, <3>1
    <3> QED BY <1>6, <2>2, <3>2
  <2> QED BY <1>5, <2>1, <2>2
<1>10. v.hdr[l].order = o /\ v.hdr[h].order = o
  BY <1>3, <1>5, <1>6, <1>8
<1> HIDE DEF l, h
<1>11. Sound(v, Fr \ {b}, Hs, {l, h}, Units)
  BY <1>7, <1>9
<1>12. Sound(y, Fr \ {b}, Hs, {l}, Units) /\ y.hdr[l].order = o + 1 /\ SameOrders(v, y, Hs)
  BY <1>3, <1>4, <1>5, <1>9, <1>10, <1>11, MergeSound
<1> HIDE DEF y
<1>13. SameOrders(z0, y, Hs)
  BY <1>3, <1>6, <1>8, <1>12 DEF SameOrders
<1>14. InHand(z0, y, l, o + 1, Hs) /\ y \in ZoneRec /\ o + 1 \in Orders
  <2>1. o + 1 \in Orders
    BY <1>4, <1>5, BuddyAssumption DEF Orders
  <2> QED BY <1>12, <1>13, <2>1 DEF InHand, Sound
<1> DEFINE t == Merge(s, b)
<1> HIDE DEF t
<1>15. t = [zone |-> y, block |-> l, order |-> o + 1]
  BY <1>1 DEF t
<1>16. t.zone = y /\ t.block = l /\ t.order = o + 1
  BY <1>15
<1>17. t \in [zone : ZoneRec, block : Addrs, order : Orders]
  BY <1>9, <1>14, <1>15
<1> QED BY <1>14, <1>16, <1>17 DEF t, o

\* coalesce_block puts the block in hand, with what it merges, on the free lists.
LEMMA CoalesceSound ==
  ASSUME NEW z, NEW Fr, NEW Hs, NEW a, Sound(z, Fr, Hs, {a}, Units), NEW o \in Orders,
         z.hdr[a].order = o
  PROVE  /\ \E Gr : Sound(coalesce_block(z, a, o), Gr, Hs, {}, Units)
         /\ SameOrders(z, coalesce_block(z, a, o), Hs)
<1> DEFINE States == [zone : ZoneRec, block : Addrs, order : Orders]
           D == {s \in States : InHand(z, s.zone, s.block, s.order, Hs)}
           F == [s \in D |-> Coalesce(s)]
           b == [zone |-> z, block |-> a, order |-> o]
           IsMerged(f) == f = [k \in Nat |-> IF k = 0 THEN b ELSE Coalesce(f[k - 1])]
           H == CHOOSE f : IsMerged(f)
           Bud(s) == BuddyOf(s.zone, s.block, s.order)
<1>0. o \in Nat /\ MaxOrder \in Nat /\ o <= MaxOrder /\ Units \in Nat
  BY BuddyAssumption DEF Orders
<1>1. b \in D
  <2>1. z \in ZoneRec /\ a \in Addrs
    BY SoundBlocks
  <2>2. InHand(z, z, a, o, Hs)
    BY DEF InHand, SameOrders
  <2>3. b \in States /\ b.zone = z /\ b.block = a /\ b.order = o
    BY <2>1
  <2> QED BY <2>2, <2>3
<1>2. ASSUME NEW s \in D
      PROVE  /\ Coalesce(s) \in D /\ s.order \in Nat /\ s.order <= MaxOrder
             /\ IF Bud(s) = NULL THEN Coalesce(s) = s ELSE Coalesce(s).order = s.order + 1
  <2>1. s \in States /\ InHand(z, s.zone, s.block, s.order, Hs)
    OBVIOUS
  <2>2. s.order \in Orders
    BY <2>1
  <2>3. s.order \in Nat /\ s.order <= MaxOrder
    BY <2>2, BuddyAssumption DEF Orders
  <2>4. Coalesce(s) = IF Bud(s) = NULL THEN s ELSE Merge(s, Bud(s))
    BY DEF Coalesce, BuddyOf
  <2> DEFINE c == Bud(s)
             t == Merge(s, c)
  <2>5. CASE c = NULL
    BY <2>3, <2>4, <2>5
  <2>6. CASE c # NULL
    <3>1. /\ InHand(z, t.zone, t.block, t.order, Hs) /\ t.order = s.order + 1 /\ t \in States
      BY <2>1, <2>2, <2>6, MergeInHand
    <3> HIDE DEF t
    <3>2. t \in D
      BY <3>1
    <3>3. Coalesce(s) = t
      BY <2>4, <2>6 DEF t
    <3> HIDE DEF D, Bud
    <3> QED BY <2>3, <2>6, <3>1, <3>2, <3>3
  <2> QED BY <2>5, <2>6
<1> HIDE DEF D, b, Bud
<1>3. F \in [D -> D] /\ \A s \in D : F[s] = Coalesce(s)
  BY <1>2
<1>4. PICK w \in [Nat -> D] : IsLoop(w, b, F)
  <2> HIDE DEF F
  <2> QED BY <1>1, <1>3, LoopDefined
<1> HIDE DEF F
<1>5. IsMerged(w)
  <2> DEFINE v == [k \in Nat |-> IF k = 0 THEN b ELSE Coalesce(w[k - 1])]
  <2>1. \A k \in Nat : w[k] = v[k]
    <3>1. \A k \in Nat : k # 0 => k - 1 \in Nat /\ w[k - 1] \in D
      OBVIOUS
    <3>2. \A k \in Nat : w[k] = IF k = 0 THEN b ELSE F[w[k - 1]]
      BY <1>4 DEF IsLoop
    <3> QED BY <1>3, <3>1, <3>2
  <2>2. w = v
    BY <2>1
  <2> QED BY <2>2, Zenon
<1>6. IsMerged(H)
  <2> HIDE DEF IsMerged
  <2> QED BY <1>5, Zenon
<1> DEFINE e == H[MaxOrder]
<1>7. coalesce_block(z, a, o) = add_to_free_list(e.zone, e.block, e.order)
  BY Zenon DEF coalesce_block, b
<1> HIDE DEF H
<1>8. H[0] = b /\ \A k \in Nat : H[k + 1] = Coalesce(H[k])
  <2>1. \A k \in Nat : k + 1 \in Nat /\ k + 1 # 0 /\ (k + 1) - 1 = k
    OBVIOUS
  <2> QED BY <1>6, <2>1
<1> HIDE DEF IsMerged
<1>9. \A k \in Nat : H[k] \in D
  <2>1. \A k \in Nat : H[k] \in D => H[k + 1] \in D
    BY <1>2, <1>8
  <2> QED BY <1>1, <1>8, <2>1, LoopStays
<1> DEFINE M == [s \in D |-> MaxOrder - s.order]
           Done == {s \in D : Bud(s) = NULL}
<1>10. M \in [D -> Nat]
  BY <1>0, <1>2
<1>11. ASSUME NEW k \in Nat
       PROVE  \/ H[k] \in Done /\ H[k + 1] = H[k]
              \/ H[k] \notin Done /\ M[H[k + 1]] < M[H[k]]
  <2> DEFINE s == H[k]
             t == H[k + 1]
  <2>1. s \in D /\ t \in D /\ t = Coalesce(s)
    BY <1>8, <1>9
  <2> HIDE DEF s, t
  <2>2. s.order \in Nat /\ (Bud(s) = NULL => t = s) /\ (Bud(s) # NULL => t.order = s.order + 1)
    BY <1>2, <2>1
  <2>3. CASE Bud(s) = NULL
    BY <2>1, <2>2, <2>3 DEF s, t
  <2>4. CASE Bud(s) # NULL
    <3>1. s \notin Done /\ M[t] = MaxOrder - t.order /\ M[s] = MaxOrder - s.order
      BY <2>1, <2>4
    <3>2. M[t] < M[s]
      BY <1>0, <2>2, <2>4, <3>1
    <3> QED BY <3>1, <3>2 DEF s, t
  <2> QED BY <2>3, <2>4
<1>12. M[H[0]] <= MaxOrder
  BY <1>0, <1>1, <1>8 DEF b
<1>13. H[MaxOrder] \in Done
  <2> HIDE DEF M, Done
  <2> QED BY <1>0, <1>9, <1>10, <1>11, <1>12, LoopEnds
<1>14. e \in D /\ Bud(e) = NULL
  BY <1>13
<1> HIDE DEF e
<1> DEFINE ez == e.zone
           ea == e.block
           eo == e.order
           y == add_to_free_list(ez, ea, eo)
<1>15. InHand(z, ez, ea, eo, Hs) /\ BuddyOf(ez, ea, eo) = NULL /\ eo \in Orders
  BY <1>14 DEF D, Bud
<1> HIDE DEF ez, ea, eo
<1>16. PICK Gr : Sound(ez, Gr, Hs, {ea}, Units)
  BY <1>15 DEF InHand
<1>17. ez.hdr[ea].order = eo /\ SameOrders(z, ez, Hs)
  BY <1>15 DEF InHand
<1>18. \A c \in Gr : ~Mergeable(ez, ea, eo, c)
  BY <1>15, <1>16, <1>17, NoBuddy
<1>19. Sound(y, Gr \cup {ea}, Hs, {}, Units)
  <2>1. Sound(y, Gr \cup {ea}, Hs, {ea} \ {ea}, Units)
    BY <1>0, <1>16, <1>17, <1>18, AddSound
  <2>2. {ea} \ {ea} = {}
    OBVIOUS
  <2> QED BY <2>1, <2>2
<1>20. SameOrders(ez, y, Hs)
  <2>1. /\ ez \in ZoneRec /\ ea \in Addrs /\ ea \notin Gr /\ Listed(ez, Gr) /\ Hs \subseteq Addrs
    <3>1. Gr \cup Hs \cup {ea} \subseteq Addrs
      BY <1>16, SoundBlocks
    <3>2. ez \in ZoneRec /\ Listed(ez, Gr) /\ {ea} \cap (Gr \cup Hs) = {}
      BY <1>16 DEF Sound
    <3> QED BY <3>1, <3>2
  <2>2. ez.free_lists[eo] # ea
    BY <1>15, <2>1, ListHead, NullIsNoAddr
  <2>3. Added(ez, y, ea, eo)
    BY <1>15, <2>1, <2>2, AddPointers
  <2> HIDE DEF y
  <2> QED BY <2>1, <2>3 DEF Added, SameKind, SameOrders
<1> HIDE DEF y
<1>21. SameOrders(z, y, Hs)
  BY <1>17, <1>20 DEF SameOrders
<1>22. coalesce_block(z, a, o) = y
  BY <1>7 DEF y, ez, ea, eo
<1> QED BY <1>19, <1>21, <1>22

-------------------------------------------------------------------------------
(* init. *)

\* There is a largest order that fits.
LEMMA FitOrderIs ==
  ASSUME NEW size \in Nat, size >= 1
  PROVE  LET o == FitOrder(size)
         IN  /\ o \in Orders /\ block_size[o] <= size
             /\ o < MaxOrder => block_size[o + 1] > size
<1> DEFINE Fits(o) == block_size[o] <= size /\ (o < MaxOrder => block_size[o + 1] > size)
           S == {k \in Nat : k <= MaxOrder /\ block_size[MaxOrder - k] <= size}
<1>0. MaxOrder \in Nat
  BY BuddyAssumption
<1>1. MaxOrder \in S
  <2>1. MaxOrder - MaxOrder = 0 /\ block_size[0] = 1
    BY <1>0, Sizes
  <2> QED BY <1>0, <2>1
<1>2. PICK k \in S : \A j \in S : k <= j
  <2>1. S \in SUBSET Nat /\ S # {}
    BY <1>1
  <2> HIDE DEF S
  <2> QED BY <2>1, NatSetMin
<1> DEFINE p == MaxOrder - k
<1>3. p \in Orders /\ p \in Nat /\ block_size[p] <= size /\ k \in Nat /\ k <= MaxOrder
  BY <1>0 DEF Orders
<1>4. ASSUME p < MaxOrder PROVE block_size[p + 1] > size
  <2>1. k - 1 \in Nat /\ k - 1 <= MaxOrder /\ MaxOrder - (k - 1) = p + 1
    BY <1>0, <1>3, <1>4
  <2>2. k - 1 \notin S
    <3> HIDE DEF S
    <3> QED BY <1>2, <1>3, <2>1
  <2>3. ~(block_size[p + 1] <= size)
    BY <2>1, <2>2
  <2>4. block_size[p + 1] \in Nat
    BY <1>3, SizeIs
  <2> QED BY <2>3, <2>4
<1>5. Fits(p)
  BY <1>3, <1>4
<1> HIDE DEF p
<1>6. FitOrder(size) = CHOOSE o \in Orders : Fits(o)
  BY DEF FitOrder
<1> HIDE DEF Fits
<1>7. FitOrder(size) \in Orders /\ Fits(FitOrder(size))
  BY <1>3, <1>5, <1>6, Zenon
<1> QED BY <1>7 DEF Fits

\* get_order is an order.
LEMMA GetOrderIs ==
  ASSUME NEW size \in Nat
  PROVE  get_order(size) \in Orders
<1> DEFINE Fits(o) == block_size[o] >= size /\ (o > 0 => block_size[o - 1] < size)
           S == {o \in Nat : o <= MaxOrder /\ block_size[o] >= size}
<1>0. MaxOrder \in Nat /\ block_size[MaxOrder] \in Nat
  BY BuddyAssumption, SizeIs
<1>1. CASE size > block_size[MaxOrder]
  BY <1>0, <1>1 DEF get_order, Orders
<1>2. CASE ~(size > block_size[MaxOrder])
  <2>1. S \in SUBSET Nat /\ MaxOrder \in S
    BY <1>0, <1>2
  <2>2. PICK p \in S : \A j \in S : p <= j
    <3> HIDE DEF S
    <3> QED BY <2>1, NatSetMin
  <2>3. p \in Orders /\ p \in Nat /\ block_size[p] >= size /\ p <= MaxOrder
    BY <1>0 DEF Orders
  <2>4. ASSUME p > 0 PROVE block_size[p - 1] < size
    <3>1. p - 1 \in Nat /\ p - 1 <= MaxOrder /\ ~(p <= p - 1)
      BY <1>0, <2>3, <2>4
    <3>2. p - 1 \notin S
      <4> HIDE DEF S
      <4> QED BY <2>2, <3>1
    <3>3. ~(block_size[p - 1] >= size)
      BY <3>1, <3>2
    <3>4. block_size[p - 1] \in Nat
      BY <3>1, SizeIs
    <3> QED BY <3>3, <3>4
  <2>5. Fits(p)
    BY <2>3, <2>4
  <2>6. get_order(size) = CHOOSE o \in Orders : Fits(o)
    BY <1>2 DEF get_order
  <2> HIDE DEF Fits
  <2> QED BY <2>3, <2>5, <2>6, Zenon
<1> QED BY <1>1, <1>2

\* The empty zone is sound.
LEMMA EmptySound ==
  Sound(EmptyZone, {}, {}, {}, 0)
<1> DEFINE z == EmptyZone
           pos == [x \in Addrs |-> 0]
<1>0. Units \in Nat /\ Units >= 1 /\ MaxOrder \in Nat /\ 0 \in Orders
  BY BuddyAssumption DEF Orders
<1>1. z \in ZoneRec
  BY <1>0, NullIsNoAddr DEF EmptyZone, ZoneRec, Header
<1>2. /\ \A o \in Orders : z.free_lists[o] = NULL /\ z.free_blocks[o] = 0
      /\ z.allocated_blocks = 0 /\ \A x \in Addrs : z.hdr[x].allocated = FALSE
  BY DEF EmptyZone
<1> HIDE DEF z
<1>3. Cardinality({}) = 0
  BY FS_EmptySet
<1>4. Lists(z, {}, pos)
  <2>1. pos \in [Addrs -> Nat] /\ {} \in SUBSET Addrs
    OBVIOUS
  <2>2. \A o \in Orders : OfOrder(z.hdr, {}, o) = {} /\ HeadOf(z, {}, o)
    BY <1>2 DEF OfOrder, HeadOf
  <2> HIDE DEF pos
  <2> QED BY <1>2, <1>3, <2>1, <2>2 DEF Lists
<1>5. Tiled(OrderOf(z), {}, 0)
  BY DEF Tiled
<1>6. Marked(z, {}, {}) /\ Apart(OrderOf(z), {})
  BY <1>2 DEF Marked, Apart
<1>7. {} \cup {} \cup {} = {} /\ {} \cap {} = {} /\ {} \cap ({} \cup {}) = {}
  OBVIOUS
<1>8. Sound(z, {}, {}, {}, 0)
  BY <1>1, <1>2, <1>3, <1>4, <1>5, <1>6, <1>7 DEF Sound, Listed
<1> QED BY <1>8 DEF z

\* The blocks below at are carved.  What is left is too small for another block of
\* an order already used, except the largest, and starts where its blocks may start.
Rest(z, Fr, at) ==
  /\ \A o \in Orders : block_size[o] <= Units - at => Aligned(at, o)
  /\ \A b \in Fr : z.hdr[b].order < MaxOrder => block_size[z.hdr[b].order] > Units - at

Carving(z, at) == \E Fr : Sound(z, Fr, {}, {}, at) /\ Rest(z, Fr, at)

\* The loop of init starts with nothing carved.
LEMMA CarvingStarts ==
  Carving(EmptyZone, 0)
<1>1. ASSUME NEW o \in Orders PROVE Aligned(0, o)
  <2>1. o \in Nat
    BY BuddyAssumption DEF Orders
  <2>2. 0 = 0 * block_size[o]
    BY <2>1, SizeIs
  <2> QED BY <2>2 DEF Aligned
<1> QED BY <1>1, EmptySound DEF Carving, Rest

\* One round of the loop of init.
LEMMA CarveRound ==
  ASSUME NEW z, NEW at \in Addrs, Carving(z, at)
  PROVE  LET o == FitOrder(Units - at)
         IN  /\ Carving(NewFreeBlock(z, at, o), at + block_size[o])
             /\ NewFreeBlock(z, at, o) \in ZoneRec
             /\ at + block_size[o] \in 0 .. Units /\ at + block_size[o] > at
<1> DEFINE o == FitOrder(Units - at)
           s == block_size[o]
           y == NewFreeBlock(z, at, o)
           end == at + s
<1>0. Units \in Nat /\ at \in Nat /\ Units - at \in Nat /\ Units - at >= 1 /\ MaxOrder \in Nat
  BY BuddyAssumption DEF Addrs
<1>1. o \in Orders /\ s <= Units - at /\ (o < MaxOrder => block_size[o + 1] > Units - at)
  BY <1>0, FitOrderIs
<1> HIDE DEF o
<1>2. o \in Nat /\ o <= MaxOrder /\ s \in Nat /\ s >= 1 /\ block_size[o + 1] = 2 * s
  BY <1>0, <1>1, SizeIs DEF Orders
<1> HIDE DEF s
<1>3. end \in Nat /\ end <= Units /\ end > at /\ end \in 0 .. Units
  BY <1>0, <1>1, <1>2
<1>4. PICK Fr : Sound(z, Fr, {}, {}, at) /\ Rest(z, Fr, at)
  BY DEF Carving
<1> DEFINE od == OrderOf(z)
           Gr == Fr \cup {at}
<1>5. Fr \cup {} \cup {} = Fr
  OBVIOUS
<1>6. /\ z \in ZoneRec /\ Fr \subseteq Addrs /\ Listed(z, Fr) /\ Tiled(od, Fr, at)
      /\ Marked(z, Fr, {}) /\ z.allocated_blocks = Cardinality({}) /\ Apart(od, Fr)
  <2>1. Fr \subseteq Addrs
    BY <1>4, SoundBlocks
  <2> QED BY <1>4, <1>5, <2>1 DEF Sound
<1>7. Aligned(at, o)
  BY <1>1, <1>4 DEF Rest, s
<1> DEFINE oe == [x \in Addrs |-> IF x = at THEN o ELSE z.hdr[x].order]
<1>8. \A x \in Fr : x # at
  <2>1. \A x \in Fr : Ends(od, x) <= at /\ x \in Nat /\ block_size[od[x]] \in Nat
                      /\ block_size[od[x]] >= 1
    BY <1>0, <1>6, TiledNat
  <2> QED BY <1>0, <2>1 DEF Ends
<1>9. at \notin Fr
  BY <1>8
<1>10. /\ y \in ZoneRec /\ Listed(y, Gr) /\ y.allocated_blocks = z.allocated_blocks
       /\ Fresh(z, y, at, o)
  BY <1>1, <1>6, <1>9, NewBlock
<1> HIDE DEF y
<1>11. OrderOf(y) = oe
  BY <1>10 DEF OrderOf, Fresh
<1>12. oe[at] = o /\ \A x \in Fr : oe[x] = od[x]
  BY <1>6, <1>8 DEF OrderOf
<1> HIDE DEF oe
<1>13. Tiled(oe, Gr, end)
  <2>1. end = at + block_size[o]
    BY DEF s
  <2> HIDE DEF od, end
  <2> QED BY <1>1, <1>3, <1>6, <1>7, <1>12, <2>1, CarveTiling
<1>14. Marked(y, Gr, {})
  BY <1>6, <1>10 DEF Marked, Fresh
<1>15. \A b \in Fr : y.hdr[b].order = z.hdr[b].order
  BY <1>6, <1>8, <1>10 DEF Fresh
<1>16. \A b \in Fr : z.hdr[b].order < MaxOrder => block_size[z.hdr[b].order] > Units - at
  BY <1>4 DEF Rest
<1>17. Apart(OrderOf(y), Gr)
  <2>1. Apart(OrderOf(y), Fr)
    BY <1>6, <1>11, <1>12, SameApart
  <2>2. \A b \in Fr : ~Mergeable(y, at, o, b)
    <3> SUFFICES ASSUME NEW b \in Fr, Mergeable(y, at, o, b) PROVE FALSE
      OBVIOUS
    <3>1. z.hdr[b].order = o /\ o < MaxOrder
      BY <1>15 DEF Mergeable
    <3>2. s > Units - at
      BY <1>16, <3>1 DEF s
    <3> QED BY <1>0, <1>1, <1>2, <3>2
  <2>3. y.hdr[at].order = o
    BY <1>10 DEF Fresh
  <2>4. \A b \in Fr : Aligned(b, y.hdr[b].order)
    <3>1. \A b \in Fr : Aligned(b, od[b]) /\ od[b] = z.hdr[b].order
      BY <1>6, OrderIs DEF Tiled
    <3> QED BY <1>15, <3>1
  <2> QED BY <1>1, <1>6, <1>7, <2>1, <2>2, <2>3, <2>4, ApartAdd
<1>18. Sound(y, Gr, {}, {}, end)
  <2>1. Gr \cup {} \cup {} = Gr /\ Gr \cap {} = {} /\ {} \cap (Gr \cup {}) = {}
    OBVIOUS
  <2> HIDE DEF Gr, end
  <2> QED BY <1>6, <1>10, <1>11, <1>13, <1>14, <1>17, <2>1 DEF Sound
<1>19. ASSUME NEW p \in Orders, block_size[p] <= Units - end PROVE Aligned(end, p)
  <2>1. p \in Nat /\ p <= MaxOrder /\ block_size[p] \in Nat
    BY <1>0, SizeIs DEF Orders
  <2>2. ASSUME o < p PROVE FALSE
    <3>1. o + 1 \in Nat /\ o + 1 <= p /\ o < MaxOrder
      BY <1>0, <1>2, <2>1, <2>2
    <3>2. block_size[o + 1] <= block_size[p]
      BY <2>1, <3>1, SizeMultiple
    <3> QED BY <1>0, <1>1, <1>2, <1>3, <1>19, <2>1, <3>1, <3>2
  <2>3. p <= o
    BY <1>2, <2>1, <2>2
  <2>4. Aligned(at + block_size[o], p)
    BY <1>2, <1>7, <2>1, <2>3, AlignedDown
  <2> QED BY <2>4 DEF s
<1>20. ASSUME NEW b \in Gr, y.hdr[b].order < MaxOrder
       PROVE  block_size[y.hdr[b].order] > Units - end
  <2>1. CASE b = at
    <3>1. y.hdr[b].order = o
      BY <1>10, <2>1 DEF Fresh
    <3>2. 2 * s > Units - at
      BY <1>1, <1>2, <1>20, <3>1
    <3>3. s > Units - end
      BY <1>0, <1>2, <3>2
    <3> QED BY <3>1, <3>3 DEF s
  <2>2. CASE b \in Fr
    <3>1. block_size[z.hdr[b].order] > Units - at /\ y.hdr[b].order = z.hdr[b].order
      BY <1>15, <1>16, <1>20, <2>2
    <3>2. z.hdr[b].order \in Orders
      BY <1>6, <2>2, ZoneFields
    <3>3. block_size[z.hdr[b].order] \in Nat
      BY <1>0, <3>2, SizeIs DEF Orders
    <3> QED BY <1>0, <1>2, <1>3, <3>1, <3>3
  <2> QED BY <2>1, <2>2
<1>21. Carving(y, end)
  BY <1>18, <1>19, <1>20 DEF Carving, Rest
<1> QED BY <1>3, <1>10, <1>21 DEF y, o, s

\* After init the free blocks tile the zone.
LEMMA InitSound ==
  ASSUME Init
  PROVE  \E Fr : Sound(zone, Fr, {}, {}, Units)
<1> DEFINE States == [zone : ZoneRec, at : 0 .. Units]
           D == {s \in States : Carving(s.zone, s.at)}
           F == [s \in D |-> Carve(s)]
           b == [zone |-> EmptyZone, at |-> 0]
           IsCarved(f) == f = [k \in Nat |-> IF k = 0 THEN b ELSE Carve(f[k - 1])]
<1>0. Units \in Nat /\ Units >= 1
  BY BuddyAssumption
<1>1. b \in D
  <2>1. EmptyZone \in ZoneRec
    BY EmptySound DEF Sound
  <2>2. b \in States /\ b.zone = EmptyZone /\ b.at = 0
    BY <1>0, <2>1
  <2> QED BY <2>2, CarvingStarts
<1>2. ASSUME NEW s \in D
      PROVE  /\ Carve(s) \in D /\ s.at \in 0 .. Units
             /\ IF s.at = Units THEN Carve(s) = s ELSE Carve(s).at > s.at
  <2>1. s \in States /\ Carving(s.zone, s.at)
    OBVIOUS
  <2>2. s.at \in 0 .. Units
    BY <2>1
  <2>3. CASE s.at = Units
    BY <2>2, <2>3 DEF Carve
  <2>4. CASE s.at # Units
    <3> DEFINE o == FitOrder(Units - s.at)
               y == NewFreeBlock(s.zone, s.at, o)
               t == [zone |-> y, at |-> s.at + block_size[o]]
    <3>1. Carve(s) = t
      BY <2>4 DEF Carve
    <3>2. s.at \in Addrs
      BY <1>0, <2>2, <2>4 DEF Addrs
    <3>3. /\ Carving(y, s.at + block_size[o]) /\ y \in ZoneRec
          /\ s.at + block_size[o] \in 0 .. Units /\ s.at + block_size[o] > s.at
      BY <2>1, <3>2, CarveRound
    <3> HIDE DEF y, o
    <3>4. t \in States /\ t.zone = y /\ t.at = s.at + block_size[o]
      BY <3>3
    <3> HIDE DEF t
    <3>5. t \in D
      BY <3>3, <3>4
    <3> HIDE DEF D
    <3> QED BY <2>2, <2>4, <3>1, <3>3, <3>4, <3>5
  <2> QED BY <2>3, <2>4
<1> HIDE DEF D, b
<1>3. F \in [D -> D] /\ \A s \in D : F[s] = Carve(s)
  BY <1>2
<1>4. PICK w \in [Nat -> D] : IsLoop(w, b, F)
  <2> HIDE DEF F
  <2> QED BY <1>1, <1>3, LoopDefined
<1> HIDE DEF F
<1>5. IsCarved(w)
  <2> DEFINE v == [k \in Nat |-> IF k = 0 THEN b ELSE Carve(w[k - 1])]
  <2>1. \A k \in Nat : w[k] = v[k]
    <3>1. \A k \in Nat : k # 0 => k - 1 \in Nat /\ w[k - 1] \in D
      OBVIOUS
    <3>2. \A k \in Nat : w[k] = IF k = 0 THEN b ELSE F[w[k - 1]]
      BY <1>4 DEF IsLoop
    <3> QED BY <1>3, <3>1, <3>2
  <2>2. w = v
    BY <2>1
  <2> QED BY <2>2, Zenon
<1>6. IsCarved(carved)
  <2>1. carved = CHOOSE f : IsCarved(f)
    BY Zenon DEF carved, b
  <2> HIDE DEF IsCarved
  <2> QED BY <1>5, <2>1, Zenon
<1>8. carved[0] = b /\ \A k \in Nat : carved[k + 1] = Carve(carved[k])
  <2>1. \A k \in Nat : k + 1 \in Nat /\ k + 1 # 0 /\ (k + 1) - 1 = k
    OBVIOUS
  <2> QED BY <1>6, <2>1
<1> HIDE DEF IsCarved
<1>9. \A k \in Nat : carved[k] \in D
  <2>1. \A k \in Nat : carved[k] \in D => carved[k + 1] \in D
    BY <1>2, <1>8
  <2> QED BY <1>1, <1>8, <2>1, LoopStays
<1> DEFINE M == [s \in D |-> Units - s.at]
           Done == {s \in D : s.at = Units}
<1>10. M \in [D -> Nat]
  BY <1>0, <1>2
<1>11. ASSUME NEW k \in Nat
       PROVE  \/ carved[k] \in Done /\ carved[k + 1] = carved[k]
              \/ carved[k] \notin Done /\ M[carved[k + 1]] < M[carved[k]]
  <2> DEFINE s == carved[k]
             t == carved[k + 1]
  <2>1. s \in D /\ t \in D /\ t = Carve(s)
    BY <1>8, <1>9
  <2> HIDE DEF s, t
  <2>2. s.at \in 0 .. Units /\ t.at \in 0 .. Units /\ (s.at = Units => t = s)
        /\ (s.at # Units => t.at > s.at)
    BY <1>2, <2>1
  <2>3. CASE s.at = Units
    BY <2>1, <2>2, <2>3 DEF s, t
  <2>4. CASE s.at # Units
    <3>1. s \notin Done /\ M[t] = Units - t.at /\ M[s] = Units - s.at
      BY <2>1, <2>4
    <3>2. M[t] < M[s]
      BY <1>0, <2>2, <2>4, <3>1
    <3> QED BY <3>1, <3>2 DEF s, t
  <2> QED BY <2>3, <2>4
<1>12. M[carved[0]] <= Units
  BY <1>0, <1>1, <1>8 DEF b
<1>13. carved[Units] \in Done
  <2> HIDE DEF M, Done
  <2> QED BY <1>0, <1>9, <1>10, <1>11, <1>12, LoopEnds
<1>14. carved[Units] \in D /\ carved[Units].at = Units
  BY <1>13
<1>15. Carving(zone, Units)
  BY <1>14 DEF D, Init
<1> QED BY <1>15 DEF Carving

-------------------------------------------------------------------------------
(* The inductive invariant: the zone is sound, no block is in hand between   *)
(* the calls, and the callers own the blocks whose flag is set.              *)

HeldOf(z, Hs) == {<<a, z.hdr[a].order>> : a \in Hs}

Holds(z, Fr, Hs) == Sound(z, Fr, Hs, {}, Units) /\ held = HeldOf(z, Hs)

BuddyInv == \E Fr, Hs : Holds(zone, Fr, Hs)

\* init establishes the invariant.
LEMMA InitInv ==
  Init => BuddyInv
<1> SUFFICES ASSUME Init PROVE BuddyInv
  OBVIOUS
<1>1. PICK Fr : Sound(zone, Fr, {}, {}, Units)
  BY InitSound
<1>2. held = HeldOf(zone, {})
  BY DEF Init, HeldOf
<1> QED BY <1>1, <1>2 DEF BuddyInv, Holds

\* The blocks of callers, as pairs, depend only on their orders.
LEMMA HeldSame ==
  ASSUME NEW z, NEW y, NEW Hs, SameOrders(z, y, Hs)
  PROVE  HeldOf(y, Hs) = HeldOf(z, Hs)
BY DEF HeldOf, SameOrders

\* The lowest order with a free block.
LEMMA UsableMin ==
  ASSUME NEW o \in Orders, Usable(o) # {}
  PROVE  LET from == CHOOSE p \in Usable(o) : \A q \in Usable(o) : p <= q
         IN  from \in Orders /\ o <= from /\ zone.free_lists[from] # NULL
<1> DEFINE U == Usable(o)
           Least(p) == \A q \in U : p <= q
           from == CHOOSE p \in U : Least(p)
<1>1. U \in SUBSET Nat /\ \A p \in U : p \in Orders /\ o <= p /\ zone.free_lists[p] # NULL
  BY BuddyAssumption DEF Usable, Orders
<1> HIDE DEF U
<1>2. \E p \in U : Least(p)
  BY <1>1, NatSetMin DEF U
<1>3. from \in U
  <2> HIDE DEF Least
  <2> QED BY <1>2, Zenon
<1> HIDE DEF from
<1>4. from \in Orders /\ o <= from /\ zone.free_lists[from] # NULL
  BY <1>1, <1>3
<1> QED BY <1>4 DEF from, U

\* alloc_order keeps the invariant.
LEMMA AllocKeeps ==
  ASSUME NEW Fr, NEW Hs, Holds(zone, Fr, Hs), NEW o \in Orders, alloc_order(o)
  PROVE  BuddyInv'
<1> DEFINE from == CHOOSE p \in Usable(o) : \A q \in Usable(o) : p <= q
           a == zone.free_lists[from]
           v == remove_from_free_list(zone, a, from)
           z == split_block(v, a, from, o)
           y == [z EXCEPT !.hdr[a].allocated = TRUE, !.allocated_blocks = @ + 1]
<1>0. Usable(o) # {} /\ zone' = y /\ held' = held \cup {<<a, o>>}
  BY DEF alloc_order
<1>1. from \in Orders /\ o <= from /\ zone.free_lists[from] # NULL
  BY <1>0, UsableMin
<1> HIDE DEF from
<1>2. Sound(zone, Fr, Hs, {}, Units) /\ held = HeldOf(zone, Hs) /\ Units \in Nat
  BY BuddyAssumption DEF Holds
<1>3. a \in Fr /\ zone.hdr[a].order = from
  BY <1>1, <1>2, ListHead DEF Sound
<1> HIDE DEF a
<1>4. Hs \subseteq Addrs /\ a \in Addrs
  <2>1. Fr \cup Hs \cup {} \subseteq Addrs
    BY <1>2, SoundBlocks
  <2> QED BY <1>3, <2>1
<1>5. Sound(v, Fr \ {a}, Hs, {a}, Units) /\ AllSameKind(zone, v)
  <2>1. Sound(v, Fr \ {a}, Hs, {} \cup {a}, Units) /\ AllSameKind(zone, v)
    BY <1>2, <1>3, TakeSound
  <2>2. {} \cup {a} = {a}
    OBVIOUS
  <2> QED BY <2>1, <2>2
<1> HIDE DEF v
<1>6. v.hdr[a].order = from /\ SameOrders(zone, v, Hs)
  BY <1>3, <1>4, <1>5 DEF AllSameKind, SameKind, SameOrders
<1>7. InHand(v, z, a, o, Hs)
  BY <1>1, <1>5, <1>6, SplitSound
<1> HIDE DEF z
<1>8. PICK Gr : Sound(z, Gr, Hs, {a}, Units)
  BY <1>7 DEF InHand
<1>9. z.hdr[a].order = o /\ SameOrders(v, z, Hs)
  BY <1>7 DEF InHand
<1>10. Sound(y, Gr, Hs \cup {a}, {}, Units) /\ OrderOf(y) = OrderOf(z)
  BY <1>8, GiveSound
<1> HIDE DEF y
<1>11. \A x \in Addrs : y.hdr[x].order = z.hdr[x].order
  <2>1. \A x \in Addrs : OrderOf(y)[x] = y.hdr[x].order /\ OrderOf(z)[x] = z.hdr[x].order
    BY OrderIs
  <2> QED BY <1>10, <2>1
<1>12. y.hdr[a].order = o
  BY <1>4, <1>9, <1>11
<1>13. SameOrders(zone, y, Hs)
  BY <1>4, <1>6, <1>9, <1>11 DEF SameOrders
<1>14. HeldOf(y, Hs) = HeldOf(zone, Hs)
  BY <1>13, HeldSame
<1>15. HeldOf(y, Hs \cup {a}) = HeldOf(y, Hs) \cup {<<a, o>>}
  BY <1>12 DEF HeldOf
<1>16. PICK Hn : Hn = Hs \cup {a}
  OBVIOUS
<1>17. Holds(zone, Gr, Hn)'
  <2>1. held' = HeldOf(y, Hn)
    BY <1>0, <1>2, <1>14, <1>15, <1>16
  <2>2. zone' = y
    BY <1>0
  <2> QED BY <1>10, <1>16, <2>1, <2>2 DEF Holds
<1> QED BY <1>17 DEF BuddyInv

\* free_order of a block that a caller owns keeps the invariant.
LEMMA FreeKeeps ==
  ASSUME NEW Fr, NEW Hs, Holds(zone, Fr, Hs), NEW a \in Hs,
         free_order(a, zone.hdr[a].order), held' = held \ {<<a, zone.hdr[a].order>>}
  PROVE  BuddyInv'
<1> DEFINE o == zone.hdr[a].order
           z == [zone EXCEPT !.hdr[a].allocated = FALSE, !.allocated_blocks = @ - 1]
           y == coalesce_block(z, a, o)
           Hm == Hs \ {a}
<1>0. zone' = y
  BY DEF free_order
<1>1. Sound(zone, Fr, Hs, {}, Units) /\ held = HeldOf(zone, Hs)
  BY DEF Holds
<1>2. Hs \subseteq Addrs /\ o \in Orders
  <2>1. Fr \cup Hs \cup {} \subseteq Addrs /\ zone \in ZoneRec
    BY <1>1, SoundBlocks
  <2> QED BY <2>1, ZoneFields
<1> HIDE DEF o
<1>3. Sound(z, Fr, Hm, {a}, Units) /\ OrderOf(z) = OrderOf(zone)
  BY <1>1, ReturnSound
<1> HIDE DEF z
<1>4. \A x \in Addrs : z.hdr[x].order = zone.hdr[x].order
  <2>1. \A x \in Addrs : OrderOf(z)[x] = z.hdr[x].order /\ OrderOf(zone)[x] = zone.hdr[x].order
    BY OrderIs
  <2> QED BY <1>3, <2>1
<1>5. z.hdr[a].order = o
  BY <1>2, <1>4 DEF o
<1> HIDE DEF Hm
<1>6. (\E Gr : Sound(y, Gr, Hm, {}, Units)) /\ SameOrders(z, y, Hm)
  BY <1>2, <1>3, <1>5, CoalesceSound
<1> HIDE DEF y
<1>7. PICK Gr : Sound(y, Gr, Hm, {}, Units)
  BY <1>6
<1>8. SameOrders(zone, y, Hm)
  BY <1>2, <1>4, <1>6 DEF SameOrders, Hm
<1>9. HeldOf(y, Hm) = HeldOf(zone, Hm)
  BY <1>8, HeldSame
<1>10. HeldOf(zone, Hm) = HeldOf(zone, Hs) \ {<<a, o>>}
  BY DEF HeldOf, Hm, o
<1>11. held' = HeldOf(y, Hm)
  BY <1>1, <1>9, <1>10 DEF o
<1>12. Holds(zone, Gr, Hm)'
  <2>1. zone' = y
    BY <1>0
  <2> QED BY <1>7, <1>11, <2>1 DEF Holds
<1> QED BY <1>12 DEF BuddyInv

\* A block that a caller owns.
LEMMA HeldBlock ==
  ASSUME NEW Fr, NEW Hs, Holds(zone, Fr, Hs), NEW b \in held
  PROVE  /\ b[1] \in Hs /\ b = <<b[1], zone.hdr[b[1]].order>> /\ b[1] \in Addrs
         /\ ValidBlock(b[1])
<1>1. Sound(zone, Fr, Hs, {}, Units) /\ held = HeldOf(zone, Hs)
  BY DEF Holds
<1>2. PICK a \in Hs : b = <<a, zone.hdr[a].order>>
  BY <1>1 DEF HeldOf
<1>3. a \in Fr \cup Hs \cup {} /\ Fr \cup Hs \cup {} \subseteq Addrs
  BY <1>1, SoundBlocks
<1>4. zone.hdr[a].magic /\ zone.hdr[a].allocated
  BY <1>1, <1>3, SoundBlocks
<1> QED BY <1>2, <1>3, <1>4 DEF ValidBlock

\* No other block starts in a block.
LEMMA BlockInside ==
  ASSUME NEW z, NEW Fr, NEW Hs, NEW X, Sound(z, Fr, Hs, X, Units), NEW a \in Fr \cup Hs \cup X,
         NEW c \in Fr \cup Hs \cup X, c \in UnitsOf(<<a, z.hdr[a].order>>)
  PROVE  c = a
<1> DEFINE B == Fr \cup Hs \cup X
           od == OrderOf(z)
<1>1. Tiled(od, B, Units) /\ Units \in Nat
  BY BuddyAssumption DEF Sound
<1>2. od[a] = z.hdr[a].order
  BY SoundBlocks
<1>3. a \in Nat /\ c \in Nat /\ Ends(od, a) \in Nat /\ block_size[od[a]] \in Nat
  BY <1>1, TiledNat
<1>4. a <= c /\ c < Ends(od, a)
  BY <1>2, <1>3 DEF UnitsOf, Ends
<1>5. a < c => Ends(od, a) <= c
  BY <1>1 DEF Tiled
<1> QED BY <1>3, <1>4, <1>5

\* What the owner of a block writes keeps the invariant.
LEMMA WriteKeeps ==
  ASSUME NEW Fr, NEW Hs, Holds(zone, Fr, Hs), NEW b \in held, Write(b)
  PROVE  BuddyInv'
<1> DEFINE W == UnitsOf(b) \ {b[1]}
           y == [zone EXCEPT !.hdr = [x \in Addrs |-> IF x \in W THEN UserData ELSE zone.hdr[x]]]
<1>0. zone' = y /\ held' = held
  BY DEF Write
<1>1. Sound(zone, Fr, Hs, {}, Units) /\ held = HeldOf(zone, Hs)
  BY DEF Holds
<1>2. b[1] \in Hs /\ b = <<b[1], zone.hdr[b[1]].order>>
  BY HeldBlock
<1>3. W \cap (Fr \cup Hs) = {}
  <2> SUFFICES ASSUME NEW c \in Fr \cup Hs, c \in W PROVE FALSE
    OBVIOUS
  <2>1. c \in UnitsOf(<<b[1], zone.hdr[b[1]].order>>)
    BY <1>2
  <2>2. c \in Fr \cup Hs \cup {} /\ b[1] \in Fr \cup Hs \cup {}
    BY <1>2
  <2>3. c = b[1]
    BY <1>1, <2>1, <2>2, BlockInside
  <2> QED BY <2>3
<1> HIDE DEF W
<1>4. Sound(y, Fr, Hs, {}, Units) /\ \A x \in Fr \cup Hs : y.hdr[x] = zone.hdr[x]
  BY <1>1, <1>3, WriteSound
<1> HIDE DEF y
<1>5. SameOrders(zone, y, Hs)
  BY <1>4 DEF SameOrders
<1>6. HeldOf(y, Hs) = HeldOf(zone, Hs)
  BY <1>5, HeldSame
<1>7. Holds(zone, Fr, Hs)'
  BY <1>0, <1>1, <1>4, <1>6 DEF Holds
<1> QED BY <1>7 DEF BuddyInv

\* A second free of a block changes nothing.
LEMMA FreeAgainKeeps ==
  ASSUME NEW Fr, NEW Hs, Holds(zone, Fr, Hs), NEW a \in Addrs, FreeAgain(a)
  PROVE  UNCHANGED vars
<1>1. Sound(zone, Fr, Hs, {}, Units) /\ held = HeldOf(zone, Hs)
  BY DEF Holds
<1>2. zone.hdr[a].allocated <=> a \in Hs
  BY <1>1 DEF Sound, Marked
<1>3. ASSUME a \in Hs PROVE a \in HeldUnits
  <2> DEFINE o == zone.hdr[a].order
  <2>1. <<a, o>> \in held
    BY <1>1, <1>3 DEF HeldOf
  <2>2. zone \in ZoneRec
    BY <1>1, SoundBlocks
  <2>3. o \in Nat
    BY <2>2, ZoneFields, BuddyAssumption DEF Orders
  <2> HIDE DEF o
  <2>4. a \in UnitsOf(<<a, o>>)
    BY <2>3, SizeIs, NullIsNoAddr DEF UnitsOf
  <2> QED BY <2>1, <2>4 DEF HeldUnits
<1>4. ~ValidBlock(a)
  BY <1>2, <1>3 DEF FreeAgain, ValidBlock
<1> QED BY <1>4 DEF FreeAgain, free, vars

\* Every step keeps the invariant.
LEMMA NextInv ==
  BuddyInv /\ [Next]_vars => BuddyInv'
<1> SUFFICES ASSUME BuddyInv, [Next]_vars PROVE BuddyInv'
  OBVIOUS
<1>1. PICK Fr, Hs : Holds(zone, Fr, Hs)
  BY DEF BuddyInv
<1>2. ASSUME UNCHANGED vars PROVE BuddyInv'
  <2>1. Holds(zone, Fr, Hs)'
    BY <1>1, <1>2 DEF Holds, vars
  <2> QED BY <2>1 DEF BuddyInv
<1>3. ASSUME NEW size \in 1 .. block_size[MaxOrder] + 1, alloc(size) PROVE BuddyInv'
  <2>1. block_size[MaxOrder] \in Nat
    BY BuddyAssumption, SizeIs
  <2>2. get_order(size) \in Orders
    BY <2>1, GetOrderIs
  <2> QED BY <1>1, <1>3, <2>2, AllocKeeps DEF alloc
<1>4. ASSUME NEW o \in Orders, allocFails(o) PROVE BuddyInv'
  BY <1>2, <1>4 DEF allocFails
<1>5. ASSUME NEW b \in held, Free(b) PROVE BuddyInv'
  <2> DEFINE a == b[1]
  <2>1. a \in Hs /\ b = <<a, zone.hdr[a].order>> /\ ValidBlock(a)
    BY <1>1, HeldBlock
  <2>2. free_order(a, zone.hdr[a].order) /\ held' = held \ {<<a, zone.hdr[a].order>>}
    BY <1>5, <2>1 DEF Free, free
  <2> HIDE DEF a
  <2> QED BY <1>1, <2>1, <2>2, FreeKeeps
<1>6. ASSUME NEW b \in held, FreeOrder(b) PROVE BuddyInv'
  <2> DEFINE a == b[1]
  <2>1. a \in Hs /\ b = <<a, zone.hdr[a].order>>
    BY <1>1, HeldBlock
  <2>2. b[2] = zone.hdr[a].order
    BY <2>1
  <2>3. free_order(a, zone.hdr[a].order) /\ held' = held \ {<<a, zone.hdr[a].order>>}
    BY <1>6, <2>1, <2>2 DEF FreeOrder
  <2> HIDE DEF a
  <2> QED BY <1>1, <2>1, <2>3, FreeKeeps
<1>7. ASSUME NEW b \in held, Write(b) PROVE BuddyInv'
  BY <1>1, <1>7, WriteKeeps
<1>8. ASSUME NEW a \in Addrs, FreeAgain(a) PROVE BuddyInv'
  <2>1. UNCHANGED vars
    BY <1>1, <1>8, FreeAgainKeeps
  <2> QED BY <1>2, <2>1
<1> QED BY <1>2, <1>3, <1>4, <1>5, <1>6, <1>7, <1>8 DEF Next

\* The invariant holds in every state.
THEOREM BuddyInvariant == Spec => []BuddyInv
BY InitInv, NextInv, PTL DEF Spec

-------------------------------------------------------------------------------
(* The walk along a free list. *)

WalkSteps(w, z, o) ==
  w = [i \in Nat |-> IF i = 0 THEN z.free_lists[o]
                     ELSE IF w[i - 1] = NULL THEN NULL ELSE z.hdr[w[i - 1]].next]
Walk(z, o) == CHOOSE w : WalkSteps(w, z, o)

\* The walk has a pointer after each number of steps.
LEMMA WalkDefined ==
  ASSUME NEW z \in ZoneRec, NEW o \in Orders
  PROVE  /\ Walk(z, o)[0] = z.free_lists[o]
         /\ \A k \in Nat : Walk(z, o)[k + 1] =
              IF Walk(z, o)[k] = NULL THEN NULL ELSE z.hdr[Walk(z, o)[k]].next
<1> DEFINE h == z.free_lists[o]
           G(x) == IF x = NULL THEN NULL ELSE z.hdr[x].next
           F == [x \in Ptr |-> G(x)]
           W == Walk(z, o)
<1>1. h \in Ptr /\ \A x \in Ptr : G(x) \in Ptr
  BY ZoneFields, NullIsNoAddr DEF Ptr
<1>2. F \in [Ptr -> Ptr] /\ \A x \in Ptr : F[x] = G(x)
  <2> HIDE DEF G
  <2> QED BY <1>1
<1>3. PICK w \in [Nat -> Ptr] : IsLoop(w, h, F)
  <2> HIDE DEF F, h
  <2> QED BY <1>1, <1>2, LoopDefined
<1> HIDE DEF F
<1>4. WalkSteps(w, z, o)
  <2> DEFINE v == [k \in Nat |-> IF k = 0 THEN h ELSE G(w[k - 1])]
  <2>1. \A k \in Nat : w[k] = v[k]
    <3>1. \A k \in Nat : k # 0 => k - 1 \in Nat /\ w[k - 1] \in Ptr
      OBVIOUS
    <3>2. \A k \in Nat : w[k] = IF k = 0 THEN h ELSE F[w[k - 1]]
      BY <1>3 DEF IsLoop
    <3> HIDE DEF G, h
    <3> QED BY <1>2, <3>1, <3>2
  <2>2. w = v
    <3> HIDE DEF G, h
    <3> QED BY <2>1
  <2> QED BY <2>2, Zenon DEF WalkSteps
<1>5. WalkSteps(W, z, o)
  BY <1>4, Zenon DEF Walk
<1> HIDE DEF W
<1>6. W[0] = z.free_lists[o] /\ \A k \in Nat : k + 1 \in Nat /\ k + 1 # 0 /\ (k + 1) - 1 = k
  BY <1>5 DEF WalkSteps
<1>7. \A k \in Nat : W[k + 1] = IF W[k] = NULL THEN NULL ELSE z.hdr[W[k]].next
  BY <1>5, <1>6 DEF WalkSteps
<1> QED BY <1>6, <1>7 DEF W

\* The walk meets just the free blocks of the order, and it ends.
LEMMA WalkIsList ==
  ASSUME NEW z \in ZoneRec, NEW Fr, Listed(z, Fr), NEW o \in Orders
  PROVE  /\ Walk(z, o)[Units] = NULL
         /\ {Walk(z, o)[k] : k \in 0 .. Units} \ {NULL} = OfOrder(z.hdr, Fr, o)
<1> DEFINE A == Walk(z, o)
           h == z.free_lists[o]
           L == OfOrder(z.hdr, Fr, o)
           N == Units
<1>0. PICK pos : Lists(z, Fr, pos)
  BY DEF Listed
<1>1. /\ A[0] = h
      /\ \A k \in Nat : A[k + 1] = IF A[k] = NULL THEN NULL ELSE z.hdr[A[k]].next
  BY WalkDefined
<1>2. h # NULL => h \in L
  BY ListHead DEF OfOrder
<1>3. /\ N \in Nat /\ NULL \notin Fr /\ Fr \subseteq Addrs /\ NULL \notin Addrs
      /\ \A a \in Fr : pos[a] \in Nat
  BY <1>0, BuddyAssumption, NullIsNoAddr DEF Lists
<1>4. \A a \in L : a \in Fr /\ (z.hdr[a].next # NULL =>
                                  z.hdr[a].next \in L /\ pos[a] < pos[z.hdr[a].next])
  <2> SUFFICES ASSUME NEW a \in L
               PROVE  a \in Fr /\ (z.hdr[a].next # NULL =>
                                     z.hdr[a].next \in L /\ pos[a] < pos[z.hdr[a].next])
    OBVIOUS
  <2>1. a \in Fr /\ z.hdr[a].order = o
    BY DEF OfOrder
  <2> QED BY <1>0, <2>1, Neighbours DEF OfOrder
<1>5. \A a \in L : /\ z.hdr[a].prev # NULL =>
                        /\ z.hdr[a].prev \in L /\ pos[z.hdr[a].prev] < pos[a]
                        /\ z.hdr[z.hdr[a].prev].next = a
                   /\ z.hdr[a].prev = NULL => h = a
  <2> SUFFICES ASSUME NEW a \in L
               PROVE  /\ z.hdr[a].prev # NULL =>
                           /\ z.hdr[a].prev \in L /\ pos[z.hdr[a].prev] < pos[a]
                           /\ z.hdr[z.hdr[a].prev].next = a
                      /\ z.hdr[a].prev = NULL => h = a
    OBVIOUS
  <2>1. a \in Fr /\ z.hdr[a].order = o
    BY DEF OfOrder
  <2> QED BY <1>0, <2>1, Neighbours DEF OfOrder
<1> HIDE DEF A, N, h
<1>6. L \subseteq Fr
  BY DEF OfOrder
<1> HIDE DEF L
<1>7. \A k \in Nat : A[k] = NULL \/ A[k] \in L
  <2> DEFINE T == {k \in Nat : A[k] = NULL \/ A[k] \in L}
  <2>1. 0 \in T
    BY <1>1, <1>2
  <2>2. ASSUME NEW k \in T PROVE k + 1 \in T
    <3>1. k \in Nat /\ k + 1 \in Nat
      OBVIOUS
    <3>2. A[k + 1] = IF A[k] = NULL THEN NULL ELSE z.hdr[A[k]].next
      BY <1>1, <3>1
    <3> QED BY <1>4, <3>1, <3>2
  <2>3. T \in SUBSET Nat
    OBVIOUS
  <2>4. T = Nat
    <3> HIDE DEF T
    <3> QED BY <2>1, <2>2, <2>3, NatSetInduction
  <2> QED BY <2>4
<1>8. \A k \in Nat : \A j \in 0 .. k - 1 : A[k] # NULL => A[j] # NULL /\ pos[A[j]] < pos[A[k]]
  <2> DEFINE T == {k \in Nat : \A j \in 0 .. k - 1 :
                     A[k] # NULL => A[j] # NULL /\ pos[A[j]] < pos[A[k]]}
  <2>1. 0 \in T
    OBVIOUS
  <2>2. ASSUME NEW k \in T PROVE k + 1 \in T
    <3> SUFFICES ASSUME NEW j \in 0 .. k, A[k + 1] # NULL
                 PROVE  A[j] # NULL /\ pos[A[j]] < pos[A[k + 1]]
      OBVIOUS
    <3>1. k \in Nat /\ k + 1 \in Nat /\ j \in Nat
      OBVIOUS
    <3>2. A[k] # NULL /\ A[k + 1] = z.hdr[A[k]].next
      BY <1>1, <3>1
    <3>3. A[k] \in L /\ A[k + 1] \in L /\ pos[A[k]] < pos[A[k + 1]]
      BY <1>4, <1>7, <3>1, <3>2
    <3>4. CASE j = k
      BY <3>2, <3>3, <3>4
    <3>5. CASE j # k
      <4>1. j \in 0 .. k - 1
        BY <3>1, <3>5
      <4>2. A[j] # NULL /\ pos[A[j]] < pos[A[k]]
        BY <3>2, <4>1
      <4>3. A[j] \in L
        BY <1>7, <3>1, <4>2
      <4> QED BY <1>3, <1>6, <3>3, <4>2, <4>3
    <3> QED BY <3>4, <3>5
  <2>3. T \in SUBSET Nat
    OBVIOUS
  <2>4. T = Nat
    <3> HIDE DEF T
    <3> QED BY <2>1, <2>2, <2>3, NatSetInduction
  <2> QED BY <2>4
<1>9. A[N] = NULL
  <2> SUFFICES ASSUME A[N] # NULL PROVE FALSE
    OBVIOUS
  <2>1. \A k \in 0 .. N : A[k] # NULL /\ A[k] \in Addrs /\ A[k] \in L
    <3> SUFFICES ASSUME NEW k \in 0 .. N PROVE A[k] # NULL
      BY <1>3, <1>6, <1>7
    <3>1. CASE k = N
      BY <3>1
    <3>2. CASE k # N
      <4>1. k \in 0 .. N - 1
        BY <1>3, <3>2
      <4> QED BY <1>3, <1>8, <4>1
    <3> QED BY <3>1, <3>2
  <2> DEFINE f == [k \in 0 .. N |-> A[k]]
  <2>2. f \in [0 .. N -> Addrs]
    BY <2>1
  <2>3. IsFiniteSet(0 .. N) /\ Cardinality(0 .. N) = N + 1
    BY <1>3, FS_Interval
  <2>4. IsFiniteSet(Addrs) /\ Cardinality(Addrs) < Cardinality(0 .. N)
    <3>1. IsFiniteSet(Addrs) /\ Cardinality(Addrs) \in Nat /\ Cardinality(Addrs) <= N
      BY AddrsFinite DEF N
    <3> QED BY <1>3, <2>3, <3>1
  <2>5. PICK x, y \in 0 .. N : x # y /\ f[x] = f[y]
    <3> HIDE DEF f
    <3> QED BY <2>2, <2>3, <2>4, FS_PigeonHole
  <2>6. A[x] = A[y] /\ A[x] \in Fr
    BY <1>6, <2>1, <2>5
  <2>7. pos[A[x]] \in Nat /\ x \in Nat /\ y \in Nat
    BY <1>3, <2>6
  <2>8. CASE x < y
    <3>1. x \in 0 .. y - 1
      BY <2>7, <2>8
    <3>2. pos[A[x]] < pos[A[y]]
      BY <1>8, <2>1, <2>7, <3>1
    <3> QED BY <2>6, <2>7, <3>2
  <2>9. CASE y < x
    <3>1. y \in 0 .. x - 1
      BY <2>7, <2>9
    <3>2. pos[A[y]] < pos[A[x]]
      BY <1>8, <2>1, <2>7, <3>1
    <3> QED BY <2>6, <2>7, <3>2
  <2> QED BY <2>5, <2>7, <2>8, <2>9
<1> DEFINE R == {A[k] : k \in 0 .. N} \ {NULL}
<1>10. R \subseteq L
  BY <1>3, <1>7
<1>11. ASSUME NEW s \in L, s \notin R PROVE FALSE
  <2> DEFINE P == {pos[t] : t \in L \ R}
  <2>1. P \in SUBSET Nat /\ P # {}
    BY <1>3, <1>6, <1>11
  <2>2. PICK x \in P : \A y \in P : x <= y
    <3> HIDE DEF P
    <3> QED BY <2>1, NatSetMin
  <2>3. PICK t \in L \ R : x = pos[t]
    OBVIOUS
  <2>4. t \in L /\ t \in Fr /\ t # NULL
    BY <1>3, <1>6
  <2>5. \A u \in L \ R : pos[t] <= pos[u]
    BY <2>2, <2>3
  <2>6. CASE z.hdr[t].prev = NULL
    <3>1. t = A[0]
      BY <1>1, <1>5, <2>4, <2>6
    <3> QED BY <1>3, <2>4, <3>1
  <2>7. CASE z.hdr[t].prev # NULL
    <3> DEFINE p == z.hdr[t].prev
    <3>1. p \in L /\ pos[p] < pos[t] /\ z.hdr[p].next = t /\ p # NULL
      BY <1>5, <2>4, <2>7
    <3> HIDE DEF p
    <3>2. p \in R
      <4>1. pos[p] \in Nat /\ pos[t] \in Nat
        BY <1>3, <1>6, <2>4, <3>1
      <4> HIDE DEF R
      <4> QED BY <2>5, <3>1, <4>1
    <3>3. PICK k \in 0 .. N : p = A[k]
      BY <3>2
    <3>4. k \in Nat /\ k # N /\ k + 1 \in 0 .. N
      BY <1>3, <1>9, <3>1, <3>3
    <3>5. A[k + 1] = t
      BY <1>1, <3>1, <3>3, <3>4
    <3> QED BY <2>4, <3>4, <3>5
  <2> QED BY <2>6, <2>7
<1>12. R = L
  BY <1>10, <1>11
<1> QED BY <1>9, <1>12 DEF A, L, N

-------------------------------------------------------------------------------
(* The properties. *)

\* The free blocks of the properties are those of the invariant.
LEMMA FreeOfIs ==
  ASSUME NEW Fr, NEW Hs, Holds(zone, Fr, Hs), NEW o \in Orders
  PROVE  Nth(o, Units) = NULL /\ FreeOf(o) = OfOrder(zone.hdr, Fr, o)
<1>1. zone \in ZoneRec /\ Listed(zone, Fr)
  BY DEF Holds, Sound
<1>2. \A k : Nth(o, k) = Walk(zone, o)[k]
  BY Zenon DEF Nth, Walk, WalkSteps
<1>3. FreeOf(o) = {Walk(zone, o)[k] : k \in 0 .. Units} \ {NULL}
  BY <1>2 DEF FreeOf
<1> QED BY <1>1, <1>2, <1>3, WalkIsList

\* The blocks, with their orders.
LEMMA BlocksAre ==
  ASSUME NEW Fr, NEW Hs, Holds(zone, Fr, Hs)
  PROVE  Blocks = HeldOf(zone, Fr \cup Hs)
<1>1. zone \in ZoneRec /\ Fr \cup Hs \cup {} \subseteq Addrs /\ held = HeldOf(zone, Hs)
  BY SoundBlocks DEF Holds
<1>2. \A a \in Fr : zone.hdr[a].order \in Orders
  BY <1>1, ZoneFields
<1>3. \A o \in Orders : FreeOf(o) = OfOrder(zone.hdr, Fr, o)
  BY FreeOfIs
<1>4. ASSUME NEW b \in FreeBlocks PROVE b \in HeldOf(zone, Fr)
  <2>1. PICK o \in Orders : b \in FreeOf(o) \X {o}
    BY DEF FreeBlocks
  <2>2. PICK a \in FreeOf(o) : b = <<a, o>>
    BY <2>1
  <2>3. a \in Fr /\ zone.hdr[a].order = o
    BY <1>3, <2>2 DEF OfOrder
  <2> QED BY <2>2, <2>3 DEF HeldOf
<1>5. ASSUME NEW b \in HeldOf(zone, Fr) PROVE b \in FreeBlocks
  <2>1. PICK a \in Fr : b = <<a, zone.hdr[a].order>>
    BY DEF HeldOf
  <2> DEFINE o == zone.hdr[a].order
  <2>2. o \in Orders
    BY <1>2
  <2>3. a \in FreeOf(o)
    BY <1>3, <2>2 DEF OfOrder
  <2>4. b \in FreeOf(o) \X {o}
    BY <2>1, <2>3
  <2> HIDE DEF o
  <2> QED BY <2>2, <2>4 DEF FreeBlocks
<1>6. FreeBlocks = HeldOf(zone, Fr)
  BY <1>4, <1>5
<1>7. HeldOf(zone, Fr \cup Hs) = HeldOf(zone, Fr) \cup HeldOf(zone, Hs)
  BY DEF HeldOf
<1> QED BY <1>1, <1>6, <1>7 DEF Blocks

\* The types.
LEMMA InvType ==
  BuddyInv => TypeOK
<1> SUFFICES ASSUME BuddyInv PROVE TypeOK
  OBVIOUS
<1>1. PICK Fr, Hs : Holds(zone, Fr, Hs)
  BY DEF BuddyInv
<1>2. /\ zone \in ZoneRec /\ Listed(zone, Fr) /\ zone.allocated_blocks = Cardinality(Hs)
      /\ held = HeldOf(zone, Hs)
  BY <1>1 DEF Holds, Sound
<1>3. Fr \cup Hs \cup {} \subseteq Addrs
  BY <1>1, SoundBlocks DEF Holds
<1>4. Units \in Nat
  BY BuddyAssumption
<1>5. zone.allocated_blocks \in 0 .. Units
  <2>1. Hs \subseteq Addrs
    BY <1>3
  <2>2. Cardinality(Hs) \in Nat /\ Cardinality(Hs) <= Units
    BY <2>1, AddrsFinite
  <2> QED BY <1>2, <1>4, <2>2
<1>6. ASSUME NEW o \in Orders PROVE zone.free_blocks[o] \in 0 .. Units
  <2> DEFINE S == OfOrder(zone.hdr, Fr, o)
  <2>1. zone.free_blocks[o] = Cardinality(S)
    BY <1>2 DEF Listed, Lists
  <2>2. S \subseteq Addrs
    BY <1>3 DEF OfOrder
  <2> HIDE DEF S
  <2>3. Cardinality(S) \in Nat /\ Cardinality(S) <= Units
    BY <2>2, AddrsFinite
  <2> QED BY <1>4, <2>1, <2>3
<1>7. zone.free_blocks \in [Orders -> 0 .. Units]
  <2>1. zone.free_blocks \in [Orders -> Int]
    BY <1>2, ZoneFields
  <2> QED BY <1>6, <2>1
<1>8. held \subseteq Addrs \X Orders
  <2> SUFFICES ASSUME NEW a \in Hs PROVE <<a, zone.hdr[a].order>> \in Addrs \X Orders
    BY <1>2 DEF HeldOf
  <2> QED BY <1>2, <1>3, ZoneFields
<1> QED BY <1>2, <1>5, <1>7, <1>8 DEF ZoneRec, TypeOK

\* The lists.
LEMMA InvLists ==
  BuddyInv => ListsOK
<1> SUFFICES ASSUME BuddyInv, NEW o \in Orders
             PROVE  /\ Nth(o, Units) = NULL
                    /\ zone.free_blocks[o] = Cardinality(FreeOf(o))
                    /\ \A a \in FreeOf(o) :
                         LET h == zone.hdr[a]
                         IN  /\ h.magic /\ ~h.allocated /\ h.order = o
                             /\ h.prev = NULL <=> zone.free_lists[o] = a
                             /\ h.next # NULL => zone.hdr[h.next].prev = a
  BY DEF ListsOK
<1>1. PICK Fr, Hs : Holds(zone, Fr, Hs)
  BY DEF BuddyInv
<1>2. /\ zone \in ZoneRec /\ Listed(zone, Fr) /\ Sound(zone, Fr, Hs, {}, Units) /\ Fr \cap Hs = {}
  BY <1>1 DEF Holds, Sound
<1>3. PICK pos : Lists(zone, Fr, pos)
  BY <1>2 DEF Listed
<1>4. Nth(o, Units) = NULL /\ FreeOf(o) = OfOrder(zone.hdr, Fr, o)
  BY <1>1, FreeOfIs
<1>5. zone.free_blocks[o] = Cardinality(FreeOf(o))
  BY <1>3, <1>4 DEF Lists
<1>6. ASSUME NEW a \in FreeOf(o)
      PROVE  LET h == zone.hdr[a]
             IN  /\ h.magic /\ ~h.allocated /\ h.order = o
                 /\ h.prev = NULL <=> zone.free_lists[o] = a
                 /\ h.next # NULL => zone.hdr[h.next].prev = a
  <2> DEFINE h == zone.hdr[a]
  <2>1. a \in Fr /\ h.order = o
    BY <1>4 DEF OfOrder
  <2>2. a \in Fr \cup Hs \cup {} /\ a \notin Hs
    BY <1>2, <2>1
  <2>3. h.magic /\ (h.allocated <=> a \in Hs) /\ a \in Addrs
    BY <1>2, <2>2, SoundBlocks
  <2>4. a # NULL
    BY <2>3, NullIsNoAddr
  <2>5. h.next # NULL => zone.hdr[h.next].prev = a
    BY <1>2, <1>3, <2>1, Neighbours
  <2>6. h.prev = NULL => zone.free_lists[o] = a
    BY <1>2, <1>3, <2>1, Neighbours
  <2>7. zone.free_lists[o] = a => h.prev = NULL
    BY <1>3, <2>4 DEF Lists, HeadOf
  <2> HIDE DEF h
  <2>8. /\ h.magic /\ ~h.allocated /\ h.order = o
        /\ h.prev = NULL <=> zone.free_lists[o] = a
        /\ h.next # NULL => zone.hdr[h.next].prev = a
    BY <2>1, <2>2, <2>3, <2>5, <2>6, <2>7
  <2> QED BY <2>8 DEF h
<1> QED BY <1>4, <1>5, <1>6

\* The units of a block.
LEMMA BlockUnits ==
  ASSUME NEW z, NEW B, Tiled(OrderOf(z), B, Units), NEW a \in B
  PROVE  /\ \A x : x \in UnitsOf(<<a, z.hdr[a].order>>) <=>
                     x \in Int /\ a <= x /\ x < Ends(OrderOf(z), a)
         /\ a \in Nat /\ Ends(OrderOf(z), a) \in Nat /\ Ends(OrderOf(z), a) <= Units
         /\ a < Ends(OrderOf(z), a)
<1> DEFINE od == OrderOf(z)
           o == z.hdr[a].order
           s == block_size[o]
<1>0. Units \in Nat
  BY BuddyAssumption
<1>1. a \in Addrs
  BY DEF Tiled
<1>2. od[a] = o
  BY <1>1, OrderIs
<1>3. a \in Nat /\ s \in Nat /\ s >= 1 /\ Ends(od, a) = a + s /\ Ends(od, a) <= Units
  BY <1>0, <1>2, TiledNat DEF Ends
<1>4. UnitsOf(<<a, o>>) = a .. a + s - 1
  BY DEF UnitsOf
<1> HIDE DEF s, o, od
<1>5. \A x : x \in UnitsOf(<<a, o>>) <=> x \in Int /\ a <= x /\ x < Ends(od, a)
  BY <1>3, <1>4
<1>6. Ends(od, a) \in Nat /\ a < Ends(od, a)
  BY <1>3
<1> QED BY <1>3, <1>5, <1>6 DEF od, o

\* The tiling.
LEMMA InvTiling ==
  BuddyInv => Tiling
<1> SUFFICES ASSUME BuddyInv PROVE Tiling
  OBVIOUS
<1>1. PICK Fr, Hs : Holds(zone, Fr, Hs)
  BY DEF BuddyInv
<1> DEFINE B == Fr \cup Hs
           od == OrderOf(zone)
           Blk(a) == <<a, zone.hdr[a].order>>
<1>2. Tiled(od, B, Units) /\ Units \in Nat
  <2>1. Fr \cup Hs \cup {} = B
    OBVIOUS
  <2> QED BY <1>1, <2>1, BuddyAssumption DEF Holds, Sound
<1>3. Blocks = {Blk(a) : a \in B}
  BY <1>1, BlocksAre DEF HeldOf
<1>4. \A a \in B : /\ \A x : x \in UnitsOf(Blk(a)) <=> x \in Int /\ a <= x /\ x < Ends(od, a)
                   /\ a \in Nat /\ Ends(od, a) \in Nat /\ Ends(od, a) <= Units
  BY <1>2, BlockUnits
<1> HIDE DEF B, od, Blk
<1>5. ASSUME NEW b \in Blocks, NEW d \in Blocks, b # d PROVE UnitsOf(b) \cap UnitsOf(d) = {}
  <2>1. PICK a \in B : b = Blk(a)
    BY <1>3
  <2>2. PICK c \in B : d = Blk(c)
    BY <1>3
  <2>3. a # c
    BY <1>5, <2>1, <2>2
  <2>4. a < c => Ends(od, a) <= c
    BY <1>2 DEF Tiled
  <2>5. c < a => Ends(od, c) <= a
    BY <1>2 DEF Tiled
  <2> SUFFICES ASSUME NEW x, x \in UnitsOf(b), x \in UnitsOf(d) PROVE FALSE
    OBVIOUS
  <2>6. x \in Int /\ a <= x /\ x < Ends(od, a) /\ c <= x /\ x < Ends(od, c)
    BY <1>4, <2>1, <2>2
  <2>7. a \in Nat /\ c \in Nat /\ Ends(od, a) \in Nat /\ Ends(od, c) \in Nat
    BY <1>4
  <2> QED BY <2>3, <2>4, <2>5, <2>6, <2>7
<1>6. ASSUME NEW x \in Addrs PROVE x \in UNION {UnitsOf(b) : b \in Blocks}
  <2>1. x \in 0 .. Units - 1 /\ x \in Int
    BY <1>2 DEF Addrs
  <2>2. PICK a \in B : a <= x /\ x < Ends(od, a)
    BY <1>2, <2>1 DEF Tiled
  <2>3. x \in UnitsOf(Blk(a))
    BY <1>4, <2>1, <2>2
  <2>4. Blk(a) \in Blocks
    BY <1>3
  <2> QED BY <2>3, <2>4
<1>7. ASSUME NEW b \in Blocks, NEW x \in UnitsOf(b) PROVE x \in Addrs
  <2>1. PICK a \in B : b = Blk(a)
    BY <1>3
  <2>2. x \in Int /\ a <= x /\ x < Ends(od, a) /\ a \in Nat /\ Ends(od, a) \in Nat
        /\ Ends(od, a) <= Units
    BY <1>4, <2>1
  <2> QED BY <1>2, <2>2 DEF Addrs
<1>8. UNION {UnitsOf(b) : b \in Blocks} = Addrs
  BY <1>6, <1>7
<1> QED BY <1>5, <1>8 DEF Tiling

\* The addresses of buddies.
LEMMA InvBuddy ==
  BuddyInv => BuddyIsBlock
<1> SUFFICES ASSUME BuddyInv, NEW b \in Blocks
             PROVE  LET buddy == BuddyAddr(b[1], b[2])
                    IN  b[2] < MaxOrder /\ buddy < Units => \E d \in Blocks : buddy = d[1]
  BY DEF BuddyIsBlock
<1>1. PICK Fr, Hs : Holds(zone, Fr, Hs)
  BY DEF BuddyInv
<1> DEFINE B == Fr \cup Hs
           od == OrderOf(zone)
<1>2. /\ Tiled(od, B, Units) /\ Units \in Nat /\ Fr \cap Hs = {} /\ held = HeldOf(zone, Hs)
      /\ Sound(zone, Fr, Hs, {}, Units)
  <2>1. Fr \cup Hs \cup {} = B
    OBVIOUS
  <2> QED BY <1>1, <2>1, BuddyAssumption DEF Holds, Sound
<1>3. Blocks = HeldOf(zone, B)
  BY <1>1, BlocksAre
<1>4. PICK a \in B : b = <<a, zone.hdr[a].order>>
  BY <1>3 DEF HeldOf
<1>5. b[1] = a /\ b[2] = zone.hdr[a].order
  BY <1>4
<1>6. od[a] = zone.hdr[a].order
  <2>1. a \in Fr \cup Hs \cup {}
    OBVIOUS
  <2> QED BY <1>2, <2>1, SoundBlocks
<1>7. ASSUME BuddyAddr(a, od[a]) < Units PROVE \E d \in Blocks : d[1] = BuddyAddr(a, od[a])
  <2> DEFINE c == BuddyAddr(a, od[a])
  <2> HIDE DEF B, od
  <2>1. c \in B
    BY <1>2, <1>7, BuddyStarts
  <2> HIDE DEF c
  <2>2. <<c, zone.hdr[c].order>> \in Blocks
    BY <1>3, <2>1 DEF HeldOf
  <2>3. <<c, zone.hdr[c].order>>[1] = c
    OBVIOUS
  <2>4. \E d \in Blocks : d[1] = c
    BY <2>2, <2>3
  <2> QED BY <2>4 DEF c
<1> HIDE DEF od
<1> QED BY <1>5, <1>6, <1>7

\* If all the free blocks are smaller than a block of the order o, no aligned run of
\* that size is free: the smallest free block in it would have its buddy in it, free
\* and of the same order, and the two would have been merged.
LEMMA NoFreeRun ==
  ASSUME NEW z, NEW Fr, NEW Hs, Sound(z, Fr, Hs, {}, Units), NEW o \in Orders,
         \A a \in Fr : z.hdr[a].order < o, NEW L, Aligned(L, o), L + block_size[o] <= Units,
         \A a \in Hs : Ends(OrderOf(z), a) <= L \/ L + block_size[o] <= a
  PROVE  FALSE
<1> DEFINE B == Fr \cup Hs
           od == OrderOf(z)
           S == block_size[o]
           In(x) == L <= x /\ x < L + S
<1>0. Units \in Nat /\ MaxOrder \in Nat /\ o \in Nat /\ o <= MaxOrder /\ S \in Nat /\ S >= 1
  BY BuddyAssumption, SizeIs DEF Orders
<1>1. L \in Nat
  BY <1>0, AlignedNat
<1>2. Tiled(od, B, Units) /\ Apart(od, Fr)
  <2>1. Fr \cup Hs \cup {} = B
    OBVIOUS
  <2> QED BY <2>1 DEF Sound
<1>3. \A a \in B : /\ a \in Nat /\ od[a] \in Nat /\ block_size[od[a]] \in Nat /\ block_size[od[a]] >= 1
                   /\ Ends(od, a) \in Nat /\ Aligned(a, od[a]) /\ Ends(od, a) = a + block_size[od[a]]
  BY <1>0, <1>2, TiledNat DEF Ends
<1>4. \A a \in Fr : od[a] < o
  <2>1. \A a \in Fr : od[a] = z.hdr[a].order
    <3>1. Fr \subseteq Fr \cup Hs \cup {}
      OBVIOUS
    <3> QED BY <3>1, SoundBlocks
  <2> QED BY <2>1
<1>5. \A a \in B : In(a) => a \in Fr
  <2> SUFFICES ASSUME NEW a \in Hs, In(a) PROVE FALSE
    OBVIOUS
  <2>1. a \in Nat /\ Ends(od, a) \in Nat /\ a < Ends(od, a)
    BY <1>3
  <2> QED BY <1>0, <1>1, <2>1
<1>6. L \in Fr
  <2>1. L \in 0 .. Units - 1
    BY <1>0, <1>1
  <2>2. PICK c \in B : c <= L /\ L < Ends(od, c)
    BY <1>2, <2>1 DEF Tiled
  <2>3. c \in Fr
    <3> SUFFICES ASSUME c \in Hs PROVE FALSE
      OBVIOUS
    <3> QED BY <1>0, <1>1, <1>3, <2>2
  <2>4. Aligned(L, od[c])
    BY <1>0, <1>3, <1>4, <2>3, AlignedDown
  <2>5. ASSUME c < L PROVE FALSE
    <3>1. c + block_size[od[c]] <= L
      BY <1>3, <2>4, <2>5, AlignedApart
    <3> QED BY <1>1, <1>3, <2>2, <3>1
  <2>6. c = L
    BY <1>1, <1>3, <2>2, <2>5
  <2> QED BY <2>3, <2>6
<1> DEFINE P == {od[a] : a \in {c \in Fr : In(c)}}
<1>7. PICK p \in P : \A q \in P : p <= q
  <2>1. P \in SUBSET Nat /\ P # {}
    BY <1>0, <1>1, <1>3, <1>6
  <2> HIDE DEF P
  <2> QED BY <2>1, NatSetMin
<1>8. PICK a \in Fr : In(a) /\ od[a] = p
  OBVIOUS
<1>9. \A c \in Fr : In(c) => p <= od[c]
  BY <1>7
<1> HIDE DEF P
<1>10. a \in Nat /\ p \in Nat /\ p < o /\ Aligned(a, p) /\ block_size[p] \in Nat /\ block_size[p] >= 1
  BY <1>3, <1>4, <1>8
<1> DEFINE s == block_size[p]
           b == BuddyAddr(a, p)
<1>11. b \in Nat /\ (Pair(a, b, p) \/ Pair(b, a, p)) /\ b # a
  BY <1>10, BuddyPairs, BuddyIsOther
<1> HIDE DEF b
<1>12. PICK l, h : Pair(l, h, p) /\ ((l = a /\ h = b) \/ (l = b /\ h = a))
  BY <1>11
<1>13. h = l + s /\ l \in Nat /\ h \in Nat
  BY <1>10, <1>11, <1>12 DEF Pair
<1>14. L <= l /\ l + 2 * s <= L + S
  <2>1. l <= a /\ a < l + 2 * s
    BY <1>10, <1>12, <1>13
  <2> QED BY <1>0, <1>8, <1>10, <1>12, <2>1, PairInside
<1>15. In(b) /\ b < Units
  BY <1>0, <1>1, <1>10, <1>11, <1>12, <1>13, <1>14
<1>16. b \in B
  <2>1. BuddyAddr(a, od[a]) = b /\ a \in B
    BY <1>8 DEF b
  <2> HIDE DEF B, od
  <2> QED BY <1>0, <1>2, <1>15, <2>1, BuddyStarts
<1>17. b \in Fr
  BY <1>5, <1>15, <1>16
<1> DEFINE q == od[b]
<1>18. p <= q /\ q \in Nat
  BY <1>3, <1>9, <1>15, <1>17
<1>19. q = p
  <2> SUFFICES ASSUME p < q PROVE FALSE
    BY <1>10, <1>18
  <2>1. Aligned(b, q) /\ Ends(od, b) = b + block_size[q] /\ Ends(od, b) \in Nat
        /\ block_size[q] \in Nat /\ block_size[q] >= 1
    BY <1>3, <1>16
  <2>2. b <= b /\ b < b + block_size[q] /\ l <= b /\ b < l + 2 * s
    BY <1>10, <1>11, <1>12, <1>13, <2>1
  <2>3. b <= l /\ l + 2 * s <= b + block_size[q]
    BY <1>10, <1>11, <1>12, <1>18, <2>1, <2>2, PairInside
  <2>4. l = b /\ h = a /\ b < a
    BY <1>10, <1>11, <1>12, <1>13, <2>3
  <2>5. Ends(od, b) <= a
    BY <1>2, <1>8, <1>16, <2>4 DEF Tiled
  <2> QED BY <1>10, <1>11, <1>13, <2>1, <2>3, <2>4, <2>5
<1>20. p < MaxOrder
  BY <1>0, <1>10
<1> QED BY <1>2, <1>8, <1>17, <1>19, <1>20 DEF Apart, b

\* The failures.
LEMMA InvNoFailure ==
  BuddyInv => NoFalseFailure
<1> SUFFICES ASSUME BuddyInv, NEW o \in Orders, Usable(o) = {}, NEW i \in 0 .. Units,
                    (i + 1) * block_size[o] <= Units,
                    (i * block_size[o]) .. ((i + 1) * block_size[o] - 1) \cap HeldUnits = {}
             PROVE  FALSE
  BY DEF NoFalseFailure
<1>1. PICK Fr, Hs : Holds(zone, Fr, Hs)
  BY DEF BuddyInv
<1> DEFINE S == block_size[o]
           L == i * S
           B == Fr \cup Hs
           od == OrderOf(zone)
<1>2. /\ Sound(zone, Fr, Hs, {}, Units) /\ held = HeldOf(zone, Hs) /\ Tiled(od, B, Units)
      /\ Listed(zone, Fr) /\ zone \in ZoneRec
  <2>1. Fr \cup Hs \cup {} = B
    OBVIOUS
  <2> QED BY <1>1, <2>1 DEF Holds, Sound
<1>3. o \in Nat /\ MaxOrder \in Nat /\ Units \in Nat /\ i \in Nat /\ S \in Nat /\ S >= 1
  BY BuddyAssumption, SizeIs DEF Orders
<1>4. Aligned(L, o) /\ L \in Nat
  BY <1>3 DEF Aligned
<1>5. (i + 1) * S = L + S
  <2> HIDE DEF S
  <2> QED BY <1>3
<1>6. \A x \in Int : L <= x /\ x < L + S => x \notin HeldUnits
  BY <1>3, <1>4, <1>5
<1>7. L + S <= Units
  BY <1>5
<1> HIDE DEF L, S
<1>8. ASSUME NEW a \in Fr PROVE zone.hdr[a].order < o
  <2> DEFINE p == zone.hdr[a].order
  <2>1. p \in Orders
    <3>1. a \in Fr \cup Hs \cup {}
      OBVIOUS
    <3> QED BY <1>2, <3>1, SoundBlocks
  <2>2. zone.free_lists[p] # NULL
    BY <1>2, <2>1, ListEmpty
  <2>3. p \notin o .. MaxOrder
    BY <2>2 DEF Usable
  <2> QED BY <1>3, <2>1, <2>3 DEF Orders
<1>9. ASSUME NEW a \in Hs, ~(Ends(od, a) <= L), ~(L + S <= a) PROVE FALSE
  <2> DEFINE u == <<a, zone.hdr[a].order>>
             x == IF a < L THEN L ELSE a
  <2>1. /\ \A y : y \in UnitsOf(u) <=> y \in Int /\ a <= y /\ y < Ends(od, a)
        /\ a \in Nat /\ Ends(od, a) \in Nat /\ a < Ends(od, a)
    BY <1>2, BlockUnits
  <2>2. u \in held
    BY <1>2 DEF HeldOf
  <2> HIDE DEF u
  <2>3. x \in Int /\ a <= x /\ x < Ends(od, a) /\ L <= x /\ x < L + S
    BY <1>3, <1>4, <1>9, <2>1
  <2> HIDE DEF x
  <2>4. x \in UnitsOf(u)
    BY <2>1, <2>3
  <2>5. x \in HeldUnits
    BY <2>2, <2>4 DEF HeldUnits
  <2> QED BY <1>6, <2>3, <2>5
<1>10. \A a \in Hs : Ends(od, a) <= L \/ L + S <= a
  BY <1>9
<1> QED BY <1>2, <1>4, <1>7, <1>8, <1>10, NoFreeRun DEF S

\* In every state pointers, orders and counters have their types.  The counters of
\* the zone never leave 0 .. Units, for every sequence of calls: a free that no
\* alloc matches never gets as far as the decrement.
THEOREM BuddyTypeCorrect == Spec => []TypeOK
BY BuddyInvariant, InvType, PTL

\* In every state each free list is a proper doubly linked list of the free blocks of
\* its order, although coalesce_block takes blocks out of it that it found by address.
THEOREM BuddyLists == Spec => []ListsOK
BY BuddyInvariant, InvLists, PTL

\* In every state the free blocks and those of callers tile the zone: alloc never
\* gives a byte out twice, and free loses none.
THEOREM BuddyTiling == Spec => []Tiling
BY BuddyInvariant, InvTiling, PTL

\* In every state the address that find_buddy computes, if it lies in the zone, is the
\* start of a present block and not the middle of one, for every size of the zone and
\* every sequence of splits and merges by callers that stay within their bytes.
THEOREM BuddyStartsAreBlocks == Spec => []BuddyIsBlock
BY BuddyInvariant, InvBuddy, PTL

\* In every state alloc_order fails only if no aligned run of free units is large
\* enough: coalesce_block never leaves two free buddies apart.
THEOREM BuddyFailuresHonest == Spec => []NoFalseFailure
BY BuddyInvariant, InvNoFailure, PTL
===============================================================================
