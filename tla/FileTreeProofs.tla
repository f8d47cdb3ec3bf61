---------------------------- MODULE FileTreeProofs ----------------------------
(***************************************************************************)
(* Proofs about module FileTree, for any tree of directories, any number   *)
(* of files, processes and descriptors, and any contents of the device.    *)
(***************************************************************************)
EXTENDS FileTree, ProofLemmas, FiniteSetTheorems

-------------------------------------------------------------------------------
(* The memory of the files. *)

FileRec == [kind : Kinds, name : STRING \cup {Garbage}, parent : Ptr, child : Ptr, next : Ptr,
            prec : Ptr, link : Ptr, ino : {0} \cup DOMAIN Disk, loaded : BOOLEAN]
Mem == [Nodes -> FileRec]

\* The pointers of a file.
LEMMA Pointers ==
  ASSUME NEW h \in Mem, NEW n \in Nodes
  PROVE  /\ h[n] \in FileRec
         /\ h[n].parent \in Ptr /\ h[n].child \in Ptr /\ h[n].next \in Ptr /\ h[n].prec \in Ptr
         /\ h[n].link \in Ptr
BY DEF Mem, FileRec

\* The null pointer is no file; there are finitely many files.
LEMMA NodesAre ==
  /\ NULL \notin Nodes /\ "/" \in Nodes /\ Static \subseteq Nodes /\ Files \subseteq Nodes
  /\ IsFiniteSet(Nodes) /\ Cap \in Nat
<1>1. IsFiniteSet(Static) /\ IsFiniteSet(Files)
  BY LayoutAssumption, FileTreeAssumption
<1>2. IsFiniteSet(Nodes)
  BY <1>1, FS_Union DEF Nodes
<1>3. Cap \in Nat
  BY <1>2, FS_CardinalityType DEF Cap
<1> QED BY <1>2, <1>3, LayoutAssumption, FileTreeAssumption DEF Nodes

-------------------------------------------------------------------------------
(* The shape of the tree on the set L of files: next leads to a later sibling *)
(* and prec back, only the first child has none, and parents are above.       *)

Linked(h, L, pos, n) ==
  /\ h[n].child # NULL => /\ h[n].child \in L /\ h[h[n].child].parent = n
                          /\ h[h[n].child].prec = NULL
  /\ h[n].next # NULL => /\ h[n].next \in L /\ h[h[n].next].parent = h[n].parent
                         /\ h[h[n].next].prec = n /\ pos[n] < pos[h[n].next]
  /\ h[n].prec # NULL => h[n].prec \in L /\ h[h[n].prec].next = n

Under(h, L, level, n) ==
  n # "/" => /\ h[n].parent \in L /\ level[h[n].parent] < level[n]
             /\ h[n].prec = NULL => h[h[n].parent].child = n

Shape(h, L, pos, level) ==
  /\ h \in Mem /\ L \subseteq Nodes /\ "/" \in L /\ h["/"].parent = NULL
  /\ pos \in [Nodes -> Nat] /\ level \in [Nodes -> Nat]
  /\ \A n \in L : Linked(h, L, pos, n) /\ Under(h, L, level, n)

IsTree(h, L) == \E pos, level : Shape(h, L, pos, level)

\* s begins with the first child of d and goes along the next pointers.
Chain(h, L, d, s) ==
  /\ s \in Seq(Nodes)
  /\ \A i \in 1 .. Len(s) : /\ s[i] \in L /\ h[s[i]].parent = d
                            /\ h[s[i]].prec = IF i = 1 THEN NULL ELSE s[i - 1]
  /\ \A i \in 1 .. Len(s) : s[i] = IF i = 1 THEN h[d].child ELSE h[s[i - 1]].next

\* What comes after s, if anything.
After(h, d, s) == IF s = <<>> THEN h[d].child ELSE h[s[Len(s)]].next

\* A chain has its files in the order of their positions.
LEMMA ChainOrder ==
  ASSUME NEW h, NEW L, NEW pos, NEW level, Shape(h, L, pos, level), NEW d \in L, NEW s,
         Chain(h, L, d, s)
  PROVE  \A j \in 1 .. Len(s) : \A i \in 1 .. Len(s) : i < j => pos[s[i]] < pos[s[j]]
<1>0. Len(s) \in Nat
  BY DEF Chain
<1> DEFINE T == {k \in Nat : k <= Len(s) => \A i \in 1 .. Len(s) : i < k => pos[s[i]] < pos[s[k]]}
<1>1. 0 \in T
  OBVIOUS
<1>2. ASSUME NEW k \in T PROVE k + 1 \in T
  <2>0. k \in Nat
    OBVIOUS
  <2> SUFFICES ASSUME k + 1 <= Len(s), NEW i \in 1 .. Len(s), i < k + 1
               PROVE  pos[s[i]] < pos[s[k + 1]]
    BY <2>0
  <2>1. k \in 1 .. Len(s) /\ k + 1 \in 1 .. Len(s) /\ k + 1 # 1 /\ (k + 1) - 1 = k /\ k <= Len(s)
    BY <1>0, <2>0
  <2>2. s[k] \in L /\ s[k + 1] \in L /\ s[i] \in L /\ s[k + 1] = h[s[k]].next
    BY <2>1 DEF Chain
  <2>3. s[k + 1] # NULL /\ pos[s[k]] \in Nat /\ pos[s[k + 1]] \in Nat /\ pos[s[i]] \in Nat
    BY <2>2, NodesAre DEF Shape
  <2>4. pos[s[k]] < pos[s[k + 1]]
    BY <2>2, <2>3 DEF Shape, Linked
  <2>5. CASE i = k
    BY <2>4, <2>5
  <2>6. CASE i # k
    <3>1. i < k
      BY <2>0, <2>6
    <3>2. pos[s[i]] < pos[s[k]]
      BY <2>1, <3>1
    <3> QED BY <2>3, <2>4, <3>2
  <2> QED BY <2>5, <2>6
<1>3. T \in SUBSET Nat
  OBVIOUS
<1>4. T = Nat
  <2> HIDE DEF T
  <2> QED BY <1>1, <1>2, <1>3, NatSetInduction
<1> QED BY <1>0, <1>4

\* So they are different, and no chain is longer than there are files.
LEMMA ChainShort ==
  ASSUME NEW h, NEW L, NEW pos, NEW level, Shape(h, L, pos, level), NEW d \in L, NEW s,
         Chain(h, L, d, s)
  PROVE  /\ \A i, j \in 1 .. Len(s) : s[i] = s[j] => i = j
         /\ Len(s) \in Nat /\ Len(s) <= Cap
<1>0. Len(s) \in Nat /\ \A i \in 1 .. Len(s) : s[i] \in Nodes /\ pos[s[i]] \in Nat
  BY DEF Chain, Shape
<1>1. ASSUME NEW i \in 1 .. Len(s), NEW j \in 1 .. Len(s), s[i] = s[j] PROVE i = j
  <2>1. ~(i < j) /\ ~(j < i)
    BY <1>0, <1>1, ChainOrder
  <2> QED BY <2>1
<1> DEFINE f == [i \in 1 .. Len(s) |-> s[i]]
<1>2. f \in Injection(1 .. Len(s), Nodes)
  BY <1>0, <1>1 DEF Injection, IsInjective
<1>3. IsFiniteSet(1 .. Len(s)) /\ Cardinality(1 .. Len(s)) = Len(s)
  <2> DEFINE n == Len(s)
  <2>1. 1 \in Int /\ n \in Int /\ n \in Nat
    BY <1>0
  <2> HIDE DEF n
  <2>2. IsFiniteSet(1 .. n) /\ Cardinality(1 .. n) = IF 1 > n THEN 0 ELSE n - 1 + 1
    BY <2>1, FS_Interval
  <2>3. Cardinality(1 .. n) = n
    BY <2>1, <2>2
  <2> QED BY <2>2, <2>3 DEF n
<1>4. Cardinality(1 .. Len(s)) <= Cardinality(Nodes)
  BY <1>2, <1>3, NodesAre, FS_Injection
<1> QED BY <1>0, <1>1, <1>3, <1>4 DEF Cap

\* A chain can be made longer, until nothing comes after it.
LEMMA ChainGrows ==
  ASSUME NEW h, NEW L, NEW pos, NEW level, Shape(h, L, pos, level), NEW d \in L, NEW s,
         Chain(h, L, d, s), After(h, d, s) # NULL
  PROVE  Chain(h, L, d, Append(s, After(h, d, s))) /\ Len(Append(s, After(h, d, s))) = Len(s) + 1
<1> DEFINE n == After(h, d, s)
           t == Append(s, n)
<1>0. s \in Seq(Nodes) /\ Len(s) \in Nat /\ h \in Mem /\ L \subseteq Nodes
  BY DEF Chain, Shape
<1>1. /\ n \in L /\ h[n].parent = d /\ n = IF Len(s) = 0 THEN h[d].child ELSE h[s[Len(s)]].next
      /\ h[n].prec = IF Len(s) = 0 THEN NULL ELSE s[Len(s)]
  <2>1. CASE s = <<>>
    <3>1. n = h[d].child /\ Len(s) = 0
      BY <2>1 DEF After
    <3> QED BY <3>1 DEF Shape, Linked
  <2>2. CASE s # <<>>
    <3>1. n = h[s[Len(s)]].next /\ Len(s) # 0 /\ Len(s) \in 1 .. Len(s)
      BY <1>0, <2>2 DEF After
    <3>2. s[Len(s)] \in L /\ h[s[Len(s)]].parent = d
      BY <3>1 DEF Chain
    <3> QED BY <3>1, <3>2 DEF Shape, Linked
  <2> QED BY <2>1, <2>2
<1> HIDE DEF n
<1>2. /\ t \in Seq(Nodes) /\ Len(t) = Len(s) + 1 /\ t[Len(s) + 1] = n
      /\ \A i \in 1 .. Len(s) : t[i] = s[i]
  <2>1. n \in Nodes
    BY <1>0, <1>1
  <2> QED BY <1>0, <2>1, Appended
<1> HIDE DEF t
<1>3. ASSUME NEW i \in 1 .. Len(t)
      PROVE  /\ t[i] \in L /\ h[t[i]].parent = d
             /\ h[t[i]].prec = IF i = 1 THEN NULL ELSE t[i - 1]
             /\ t[i] = IF i = 1 THEN h[d].child ELSE h[t[i - 1]].next
  <2>1. CASE i <= Len(s)
    <3>1. i \in 1 .. Len(s) /\ (i # 1 => i - 1 \in 1 .. Len(s))
      BY <1>0, <2>1
    <3>2. t[i] = s[i] /\ (i # 1 => t[i - 1] = s[i - 1])
      BY <1>2, <3>1
    <3> QED BY <3>1, <3>2 DEF Chain
  <2>2. CASE ~(i <= Len(s))
    <3>1. i = Len(s) + 1 /\ (i = 1 <=> Len(s) = 0) /\ i - 1 = Len(s)
          /\ (i # 1 => Len(s) \in 1 .. Len(s))
      BY <1>0, <1>2, <2>2
    <3>2. t[i] = n /\ (i # 1 => t[i - 1] = s[Len(s)])
      BY <1>2, <3>1
    <3> QED BY <1>1, <3>1, <3>2
  <2> QED BY <2>1, <2>2
<1>4. Chain(h, L, d, t)
  BY <1>2, <1>3 DEF Chain
<1> QED BY <1>2, <1>4 DEF n, t

\* The recursion of Kids.
KidsRound(h, d, s) ==
  LET n == IF s = <<>> THEN h[d].child ELSE h[Last(s)].next
  IN  IF n = NULL THEN s ELSE Append(s, n)

KidsSteps(w, h, d) == w = [i \in Nat |-> IF i = 0 THEN <<>> ELSE KidsRound(h, d, w[i - 1])]

\* It has a solution.
LEMMA KidsDefined ==
  ASSUME NEW h \in Mem, NEW d \in Nodes
  PROVE  \E w \in [Nat -> Seq(Nodes)] :
           /\ Kids(h, d) = w[Cap] /\ w[0] = <<>>
           /\ \A i \in Nat : w[i + 1] = IF After(h, d, w[i]) = NULL THEN w[i]
                                        ELSE Append(w[i], After(h, d, w[i]))
<1> DEFINE D == Seq(Nodes)
           F == [s \in D |-> KidsRound(h, d, s)]
           e == <<>>
<1>1. \A s \in D : KidsRound(h, d, s) = IF After(h, d, s) = NULL THEN s ELSE Append(s, After(h, d, s))
  BY DEF KidsRound, After, Last
<1>2. \A s \in D : After(h, d, s) \in Ptr
  <2> TAKE s \in D
  <2>1. CASE s = <<>>
    BY <2>1, Pointers DEF After
  <2>2. CASE s # <<>>
    <3>1. Len(s) \in 1 .. Len(s)
      BY <2>2
    <3>2. s[Len(s)] \in Nodes
      BY <3>1
    <3> QED BY <2>2, <3>2, Pointers DEF After
  <2> QED BY <2>1, <2>2
<1>3. e \in D /\ F \in [D -> D]
  <2>1. \A s \in D : KidsRound(h, d, s) \in D
    BY <1>1, <1>2 DEF Ptr
  <2> QED BY <2>1
<1>4. PICK w \in [Nat -> D] : IsLoop(w, e, F)
  <2> HIDE DEF D, F, e
  <2> QED BY <1>3, LoopDefined
<1>5. KidsSteps(w, h, d)
  <2>1. \A i \in Nat : i # 0 => i - 1 \in Nat /\ F[w[i - 1]] = KidsRound(h, d, w[i - 1])
    <3> HIDE DEF D
    <3> QED OBVIOUS
  <2> HIDE DEF F, D
  <2> QED BY <1>4, <2>1 DEF IsLoop, KidsSteps
<1> DEFINE v == CHOOSE f : KidsSteps(f, h, d)
<1>6. KidsSteps(v, h, d)
  <2> HIDE DEF KidsSteps
  <2> QED BY <1>5, Zenon
<1>7. Kids(h, d) = v[Cap]
  BY DEF Kids, KidsSteps, KidsRound
<1> HIDE DEF v
<1>8. v[0] = <<>> /\ \A i \in Nat : v[i + 1] = KidsRound(h, d, v[i])
  <2>1. \A i \in Nat : i + 1 \in Nat /\ i + 1 # 0 /\ (i + 1) - 1 = i
    OBVIOUS
  <2> HIDE DEF D, F, e
  <2> QED BY <1>6, <2>1 DEF KidsSteps
<1>9. \A i \in Nat : v[i] \in D
  <2>1. \A i \in Nat : v[i] \in D => v[i + 1] \in D
    BY <1>3, <1>8
  <2>2. v[0] = e
    BY <1>8
  <2> HIDE DEF D, F, e
  <2> QED BY <1>3, <2>1, <2>2, LoopStays
<1>10. v \in [Nat -> Seq(Nodes)]
  <2>1. v = [i \in Nat |-> v[i]]
    BY <1>6 DEF KidsSteps
  <2> QED BY <1>9, <2>1
<1>11. \A i \in Nat : v[i + 1] = IF After(h, d, v[i]) = NULL THEN v[i]
                                 ELSE Append(v[i], After(h, d, v[i]))
  BY <1>1, <1>8, <1>9
<1> QED BY <1>7, <1>8, <1>10, <1>11

\* The children of d, all of them: a chain after which nothing comes.
AllKids(h, L, d, s) == Chain(h, L, d, s) /\ After(h, d, s) = NULL

\* In a tree, Kids gives all the children.
LEMMA KidsAll ==
  ASSUME NEW h, NEW L, IsTree(h, L), NEW d \in L
  PROVE  AllKids(h, L, d, Kids(h, d))
<1>1. PICK pos, level : Shape(h, L, pos, level)
  BY DEF IsTree
<1>2. h \in Mem /\ d \in Nodes
  BY <1>1 DEF Shape
<1>3. PICK w \in [Nat -> Seq(Nodes)] :
        /\ Kids(h, d) = w[Cap] /\ w[0] = <<>>
        /\ \A i \in Nat : w[i + 1] = IF After(h, d, w[i]) = NULL THEN w[i]
                                     ELSE Append(w[i], After(h, d, w[i]))
  BY <1>2, KidsDefined
<1> DEFINE T == {i \in Nat : Chain(h, L, d, w[i]) /\ (After(h, d, w[i]) = NULL \/ Len(w[i]) = i)}
<1>4. 0 \in T
  <2>1. Len(<<>>) = 0 /\ <<>> \in Seq(Nodes)
    OBVIOUS
  <2>2. Chain(h, L, d, <<>>)
    BY <2>1 DEF Chain
  <2> QED BY <1>3, <2>1, <2>2
<1>5. ASSUME NEW i \in T PROVE i + 1 \in T
  <2>1. i \in Nat /\ i + 1 \in Nat /\ Chain(h, L, d, w[i])
    OBVIOUS
  <2>2. CASE After(h, d, w[i]) = NULL
    BY <1>3, <2>1, <2>2
  <2>3. CASE After(h, d, w[i]) # NULL
    <3>1. w[i + 1] = Append(w[i], After(h, d, w[i])) /\ Len(w[i]) = i
      BY <1>3, <2>1, <2>3
    <3>2. Chain(h, L, d, w[i + 1]) /\ Len(w[i + 1]) = i + 1
      BY <1>1, <2>1, <2>3, <3>1, ChainGrows
    <3> QED BY <2>1, <3>2
  <2> QED BY <2>2, <2>3
<1>6. T = Nat
  <2>1. T \in SUBSET Nat
    OBVIOUS
  <2> HIDE DEF T
  <2> QED BY <1>4, <1>5, <2>1, NatSetInduction
<1>7. Chain(h, L, d, w[Cap]) /\ (After(h, d, w[Cap]) = NULL \/ Len(w[Cap]) = Cap)
  BY <1>6, NodesAre
<1>8. ASSUME After(h, d, w[Cap]) # NULL PROVE FALSE
  <2> DEFINE t == Append(w[Cap], After(h, d, w[Cap]))
  <2>1. Chain(h, L, d, t) /\ Len(t) = Cap + 1
    BY <1>1, <1>7, <1>8, ChainGrows
  <2> HIDE DEF t
  <2>2. Len(t) <= Cap
    BY <1>1, <2>1, ChainShort
  <2> QED BY <2>1, <2>2, NodesAre
<1> QED BY <1>3, <1>7, <1>8 DEF AllKids

\* There is only one such sequence.
LEMMA KidsUnique ==
  ASSUME NEW h, NEW L, NEW d, NEW s, NEW t, AllKids(h, L, d, s), AllKids(h, L, d, t), L \subseteq Nodes
  PROVE  s = t
<1>0. s \in Seq(Nodes) /\ t \in Seq(Nodes) /\ Len(s) \in Nat /\ Len(t) \in Nat
  BY DEF AllKids, Chain
<1> DEFINE T == {k \in Nat : k <= Len(s) => k <= Len(t) /\ \A i \in 1 .. k : s[i] = t[i]}
<1>1. 0 \in T
  BY <1>0
<1>2. ASSUME NEW k \in T PROVE k + 1 \in T
  <2>0. k \in Nat
    OBVIOUS
  <2> SUFFICES ASSUME k + 1 <= Len(s)
               PROVE  k + 1 <= Len(t) /\ \A i \in 1 .. k + 1 : s[i] = t[i]
    BY <2>0
  <2>1. k <= Len(s) /\ k + 1 \in 1 .. Len(s) /\ (k + 1 = 1 <=> k = 0) /\ (k + 1) - 1 = k
    BY <1>0, <2>0
  <2>2. k <= Len(t) /\ \A i \in 1 .. k : s[i] = t[i]
    BY <2>0, <2>1
  <2>3. s[k + 1] \in Nodes /\ s[k + 1] # NULL
        /\ s[k + 1] = IF k = 0 THEN h[d].child ELSE h[s[k]].next
    BY <2>1, NodesAre DEF AllKids, Chain
  <2>4. s[k + 1] = IF k = 0 THEN h[d].child ELSE h[t[k]].next
    BY <2>0, <2>2, <2>3
  <2>5. k # Len(t)
    <3> SUFFICES ASSUME k = Len(t) PROVE FALSE
      OBVIOUS
    <3>1. t = <<>> <=> k = 0
      BY <1>0
    <3>2. After(h, d, t) = s[k + 1]
      BY <2>4, <3>1 DEF After
    <3> QED BY <2>3, <3>2 DEF AllKids
  <2>6. k + 1 <= Len(t) /\ k + 1 \in 1 .. Len(t)
    BY <1>0, <2>0, <2>2, <2>5
  <2>7. t[k + 1] = IF k = 0 THEN h[d].child ELSE h[t[k]].next
    BY <2>1, <2>6 DEF AllKids, Chain
  <2>8. s[k + 1] = t[k + 1]
    BY <2>4, <2>7
  <2> QED BY <2>0, <2>2, <2>6, <2>8
<1>3. T = Nat
  <2>1. T \in SUBSET Nat
    OBVIOUS
  <2> HIDE DEF T
  <2> QED BY <1>1, <1>2, <2>1, NatSetInduction
<1>4. Len(s) <= Len(t) /\ \A i \in 1 .. Len(s) : s[i] = t[i]
  <2>1. Len(s) \in T
    BY <1>0, <1>3
  <2> QED BY <1>0, <2>1
<1>5. Len(t) = Len(s)
  <2> SUFFICES ASSUME Len(s) < Len(t) PROVE FALSE
    BY <1>0, <1>4
  <2> DEFINE k == Len(s)
  <2>1. k + 1 \in 1 .. Len(t) /\ (k + 1 = 1 <=> k = 0) /\ (k + 1) - 1 = k /\ (s = <<>> <=> k = 0)
    BY <1>0
  <2>2. t[k + 1] \in Nodes /\ t[k + 1] = IF k = 0 THEN h[d].child ELSE h[t[k]].next
    BY <2>1 DEF AllKids, Chain
  <2>3. k # 0 => t[k] = s[k]
    BY <1>0, <1>4
  <2>4. After(h, d, s) = t[k + 1]
    BY <2>1, <2>2, <2>3 DEF After
  <2> QED BY <2>2, <2>4, NodesAre DEF AllKids
<1> QED BY <1>0, <1>4, <1>5

\* Every file whose parent is d is among them.
LEMMA KidsHave ==
  ASSUME NEW h, NEW L, IsTree(h, L), NEW d \in L, NEW n \in L, h[n].parent = d
  PROVE  \E i \in 1 .. Len(Kids(h, d)) : Kids(h, d)[i] = n
<1> DEFINE s == Kids(h, d)
<1>1. PICK pos, level : Shape(h, L, pos, level)
  BY DEF IsTree
<1>2. AllKids(h, L, d, s)
  BY KidsAll
<1> HIDE DEF s
<1>3. L \subseteq Nodes /\ d \in Nodes /\ d # NULL /\ Len(s) \in Nat /\ \A x \in L : pos[x] \in Nat
  BY <1>1, <1>2, NodesAre DEF Shape, AllKids, Chain
<1> DEFINE In(x) == \E i \in 1 .. Len(s) : s[i] = x
           M == {pos[x] : x \in {y \in L : h[y].parent = d /\ ~In(y)}}
<1> SUFFICES ASSUME ~In(n) PROVE FALSE
  BY DEF s
<1>4. M \in SUBSET Nat /\ M # {}
  BY <1>3
<1>5. PICK k \in M : \A j \in M : k <= j
  <2> HIDE DEF M
  <2> QED BY <1>4, NatSetMin
<1>6. PICK x \in L : h[x].parent = d /\ ~In(x) /\ k = pos[x]
  OBVIOUS
<1>7. x # "/" /\ x # NULL
  BY <1>1, <1>3, <1>6, NodesAre DEF Shape
<1>8. CASE h[x].prec = NULL
  <2>1. h[d].child = x
    BY <1>1, <1>6, <1>7, <1>8 DEF Shape, Under
  <2>2. s # <<>>
    BY <1>2, <1>7, <2>1 DEF AllKids, After
  <2>3. 1 \in 1 .. Len(s)
    BY <1>2, <2>2 DEF AllKids, Chain
  <2>4. s[1] = x
    BY <1>2, <2>1, <2>3 DEF AllKids, Chain
  <2> QED BY <1>6, <2>3, <2>4
<1>9. CASE h[x].prec # NULL
  <2> DEFINE y == h[x].prec
  <2>1. y \in L /\ h[y].next = x
    BY <1>1, <1>9 DEF Shape, Linked
  <2> HIDE DEF y
  <2>2. h[y].parent = d /\ pos[y] < pos[x]
    BY <1>1, <1>6, <1>7, <2>1 DEF Shape, Linked
  <2>3. In(y)
    <3> SUFFICES ASSUME ~In(y) PROVE FALSE
      OBVIOUS
    <3>1. pos[y] \in M
      BY <2>1, <2>2
    <3> HIDE DEF M
    <3>2. k <= pos[y]
      BY <1>5, <3>1
    <3> QED BY <1>3, <1>6, <2>1, <2>2, <3>2
  <2>4. PICK i \in 1 .. Len(s) : s[i] = y
    BY <2>3
  <2>5. i # Len(s)
    <3> SUFFICES ASSUME i = Len(s) PROVE FALSE
      OBVIOUS
    <3>1. s # <<>>
      BY <1>3, <2>4
    <3> QED BY <1>2, <1>7, <2>1, <2>4, <3>1 DEF AllKids, After
  <2>6. i + 1 \in 1 .. Len(s) /\ i + 1 # 1 /\ (i + 1) - 1 = i
    BY <1>3, <2>5
  <2>7. s[i + 1] = h[s[i]].next
    BY <1>2, <2>6 DEF AllKids, Chain
  <2> QED BY <1>6, <2>1, <2>4, <2>6, <2>7
<1> QED BY <1>8, <1>9

-------------------------------------------------------------------------------
(* A new child. *)

\* What a file is, beside its place in the tree.
SameFile(a, b) ==
  a.kind = b.kind /\ a.name = b.name /\ a.link = b.link /\ a.ino = b.ino /\ a.loaded = b.loaded

\* g is h with the new file n, the first child of d.
Planted(h, g, d, n) ==
  /\ g \in Mem /\ g[n].kind # "free" /\ g[n].loaded = FALSE
  /\ g[n].parent = d /\ g[n].prec = NULL /\ g[n].next = h[d].child /\ g[n].child = NULL
  /\ g[d].child = n
  /\ h[d].child # NULL => g[h[d].child].prec = n
  /\ \A x \in Nodes \ {n} : /\ SameFile(g[x], h[x])
                            /\ g[x].parent = h[x].parent /\ g[x].next = h[x].next
                            /\ x # d => g[x].child = h[x].child
                            /\ x # h[d].child => g[x].prec = h[x].prec

\* The kinds of files that are constructed.
LEMMA KindsAre ==
  /\ "link" \in Kinds \ {"free"} /\ "node" \in Kinds \ {"free"} /\ "directory" \in Kinds \ {"free"}
  /\ "ext2dir" \in Kinds \ {"free"} /\ "ext2file" \in Kinds \ {"free"} /\ "free" \in Kinds
  /\ \A k \in Made : k \in Kinds \ {"free", "link", "directory", "ext2dir", "ext2file"}
<1>1. DOMAIN Homes = {"device", "socket", "module", "user", "variable"}
  BY DEF Homes
<1> QED BY <1>1, FileTreeAssumption DEF Kinds, Directories

\* f is h with the record of a new file n.
Built(h, f, n, nm, k) ==
  /\ f \in Mem /\ \A x \in Nodes \ {n} : f[x] = h[x]
  /\ f[n].kind = k /\ f[n].name = nm /\ f[n].child = NULL /\ f[n].loaded = FALSE
  /\ f[n].link = NULL

LEMMA NewIs ==
  ASSUME NEW h \in Mem, NEW n \in Nodes, NEW nm \in STRING \cup {Garbage}, NEW k \in Kinds
  PROVE  Built(h, New(h, n, nm, k), n, nm, k)
<1> DEFINE r == [Free EXCEPT !.kind = k, !.name = nm]
<1>1. /\ r \in FileRec /\ r.kind = k /\ r.name = nm /\ r.child = NULL /\ r.loaded = FALSE
      /\ r.link = NULL
  BY DEF Free, FileRec, Ptr
<1>2. New(h, n, nm, k) = [h EXCEPT ![n] = r]
  BY DEF New
<1> HIDE DEF r
<1> QED BY <1>1, <1>2 DEF Mem, Built

LEMMA AddChildIs ==
  ASSUME NEW h \in Mem, NEW n \in Nodes, NEW d \in Nodes, d # n, h[d].child # n
  PROVE  LET g == addChild(h, d, n)
         IN  /\ g \in Mem /\ SameFile(g[n], h[n]) /\ g[n].child = h[n].child
             /\ g[n].parent = d /\ g[n].prec = NULL /\ g[n].next = h[d].child
             /\ g[d].child = n
             /\ h[d].child # NULL => g[h[d].child].prec = n
             /\ \A x \in Nodes \ {n} : /\ SameFile(g[x], h[x])
                                       /\ g[x].parent = h[x].parent /\ g[x].next = h[x].next
                                       /\ x # d => g[x].child = h[x].child
                                       /\ x # h[d].child => g[x].prec = h[x].prec
<1> DEFINE first == h[d].child
           a == [h EXCEPT ![n].parent = d]
           b == [a EXCEPT ![n].prec = NULL]
           c == [b EXCEPT ![n].next = first]
           e == [c EXCEPT ![d].child = n]
           z == [e EXCEPT ![first].prec = n]
<1>0. first \in Ptr /\ first # n /\ d \in Ptr /\ n \in Ptr /\ NULL \in Ptr
  BY Pointers DEF Ptr
<1>1. /\ a \in Mem /\ a[n].parent = d /\ SameFile(a[n], h[n])
      /\ a[n].child = h[n].child
      /\ \A x \in Nodes \ {n} : a[x] = h[x]
  BY <1>0 DEF Mem, FileRec, SameFile
<1> HIDE DEF a
<1>2. /\ b \in Mem /\ b[n].parent = d /\ SameFile(b[n], h[n]) /\ b[n].prec = NULL
      /\ b[n].child = h[n].child
      /\ \A x \in Nodes \ {n} : b[x] = h[x]
  BY <1>0, <1>1 DEF Mem, FileRec, SameFile
<1> HIDE DEF b, first
<1>3. /\ c \in Mem /\ c[n].parent = d /\ SameFile(c[n], h[n]) /\ c[n].prec = NULL
      /\ c[n].child = h[n].child /\ c[n].next = first
      /\ \A x \in Nodes \ {n} : c[x] = h[x]
  BY <1>0, <1>2 DEF Mem, FileRec, SameFile
<1> HIDE DEF c
<1>4. /\ e \in Mem /\ e[n] = c[n] /\ e[d].child = n
      /\ e[d].parent = c[d].parent /\ e[d].next = c[d].next /\ e[d].prec = c[d].prec
      /\ SameFile(e[d], c[d])
      /\ \A x \in Nodes \ {d} : e[x] = c[x]
  BY <1>0, <1>3 DEF Mem, FileRec, SameFile
<1> HIDE DEF e
<1>5. ASSUME first # NULL
      PROVE  /\ z \in Mem /\ z[first].prec = n /\ z[n] = e[n] /\ z[d].child = n
             /\ z[first].parent = e[first].parent /\ z[first].next = e[first].next
             /\ z[first].child = e[first].child
             /\ SameFile(z[first], e[first])
             /\ \A x \in Nodes \ {first} : z[x] = e[x]
  <2>1. first \in Nodes
    BY <1>0, <1>5 DEF Ptr
  <2> QED BY <1>0, <1>4, <2>1 DEF Mem, FileRec, SameFile
<1> HIDE DEF z
<1> DEFINE g == addChild(h, d, n)
<1>6. g = IF first = NULL THEN e ELSE z
  BY DEF addChild, first, a, b, c, e, z
<1> HIDE DEF g
<1>7. CASE first = NULL
  <2>1. g = e
    BY <1>6, <1>7
  <2> QED BY <1>3, <1>4, <1>7, <2>1 DEF SameFile, first, g
<1>8. CASE first # NULL
  <2>1. g = z /\ first \in Nodes
    BY <1>0, <1>6, <1>8 DEF Ptr
  <2> QED BY <1>0, <1>3, <1>4, <1>5, <1>8, <2>1 DEF SameFile, first, g
<1> QED BY <1>7, <1>8

\* A constructor and addChild plant the file.
LEMMA NewChild ==
  ASSUME NEW h \in Mem, NEW n \in Nodes, NEW d \in Nodes, d # n, h[d].child # n,
         NEW nm \in STRING \cup {Garbage}, NEW k \in Kinds \ {"free"}
  PROVE  LET g == addChild(New(h, n, nm, k), d, n)
         IN  Planted(h, g, d, n) /\ g[n].kind = k /\ g[n].name = nm /\ g[n].link = NULL
<1> DEFINE f == New(h, n, nm, k)
           g == addChild(f, d, n)
<1>1. /\ f \in Mem /\ f[n].kind = k /\ f[n].name = nm /\ f[n].child = NULL /\ f[n].loaded = FALSE
      /\ f[n].link = NULL
      /\ \A x \in Nodes \ {n} : f[x] = h[x]
  <2>1. k \in Kinds
    OBVIOUS
  <2>2. Built(h, f, n, nm, k)
    BY <2>1, NewIs
  <2> QED BY <2>2 DEF Built
<1> HIDE DEF f
<1>2. f[d] = h[d] /\ f[d].child # n
  BY <1>1
<1>3. /\ g \in Mem /\ SameFile(g[n], f[n]) /\ g[n].child = f[n].child
      /\ g[n].parent = d /\ g[n].prec = NULL /\ g[n].next = f[d].child
      /\ g[d].child = n
      /\ f[d].child # NULL => g[f[d].child].prec = n
      /\ \A x \in Nodes \ {n} : /\ SameFile(g[x], f[x])
                                /\ g[x].parent = f[x].parent /\ g[x].next = f[x].next
                                /\ x # d => g[x].child = f[x].child
                                /\ x # f[d].child => g[x].prec = f[x].prec
  BY <1>1, <1>2, AddChildIs
<1> HIDE DEF g
<1>4. Planted(h, g, d, n)
  BY <1>1, <1>2, <1>3 DEF Planted, SameFile
<1>5. g[n].kind = k /\ g[n].name = nm /\ g[n].link = NULL
  BY <1>1, <1>3 DEF SameFile
<1> QED BY <1>4, <1>5 DEF f, g

\* The inode of the new file, and what a new link leads to, are written afterwards.
LEMMA WithIno ==
  ASSUME NEW h, NEW g, NEW d \in Nodes, NEW n \in Nodes, d # n, h[d].child # n, Planted(h, g, d, n),
         NEW i \in DOMAIN Disk
  PROVE  LET f == [g EXCEPT ![n].ino = i]
         IN  /\ Planted(h, f, d, n) /\ f[n].kind = g[n].kind /\ f[n].name = g[n].name
             /\ f[n].ino = i
<1> DEFINE f == [g EXCEPT ![n].ino = i]
<1>1. g \in Mem
  BY DEF Planted
<1>2. /\ f \in Mem /\ f[n].kind = g[n].kind /\ f[n].name = g[n].name /\ f[n].loaded = g[n].loaded
      /\ f[n].parent = g[n].parent /\ f[n].prec = g[n].prec /\ f[n].next = g[n].next
      /\ f[n].child = g[n].child /\ f[n].ino = i
      /\ \A x \in Nodes \ {n} : f[x] = g[x]
  BY <1>1 DEF Mem, FileRec
<1> HIDE DEF f
<1>3. h[d].child # NULL => f[h[d].child].prec = n
  <2> SUFFICES ASSUME h[d].child # NULL PROVE f[h[d].child].prec = n
    OBVIOUS
  <2>1. g[h[d].child].prec = n
    BY DEF Planted
  <2>2. CASE h[d].child \in Nodes
    BY <1>2, <2>1, <2>2
  <2>3. CASE h[d].child \notin Nodes
    BY <1>2, <2>1, <2>3 DEF f
  <2> QED BY <2>2, <2>3
<1>4. Planted(h, f, d, n)
  BY <1>2, <1>3 DEF Planted
<1> QED BY <1>2, <1>4 DEF f

LEMMA WithLink ==
  ASSUME NEW h, NEW g, NEW d \in Nodes, NEW n \in Nodes, d # n, h[d].child # n, Planted(h, g, d, n),
         NEW l \in Ptr
  PROVE  LET f == [g EXCEPT ![n].link = l]
         IN  Planted(h, f, d, n) /\ f[n].kind = g[n].kind /\ f[n].link = l
<1> DEFINE f == [g EXCEPT ![n].link = l]
<1>1. g \in Mem
  BY DEF Planted
<1>2. /\ f \in Mem /\ f[n].kind = g[n].kind /\ f[n].name = g[n].name /\ f[n].loaded = g[n].loaded
      /\ f[n].parent = g[n].parent /\ f[n].prec = g[n].prec /\ f[n].next = g[n].next
      /\ f[n].child = g[n].child /\ f[n].link = l
      /\ \A x \in Nodes \ {n} : f[x] = g[x]
  BY <1>1 DEF Mem, FileRec
<1> HIDE DEF f
<1>3. h[d].child # NULL => f[h[d].child].prec = n
  <2> SUFFICES ASSUME h[d].child # NULL PROVE f[h[d].child].prec = n
    OBVIOUS
  <2>1. g[h[d].child].prec = n
    BY DEF Planted
  <2>2. CASE h[d].child \in Nodes
    BY <1>2, <2>1, <2>2
  <2>3. CASE h[d].child \notin Nodes
    BY <1>2, <2>1, <2>3 DEF f
  <2> QED BY <2>2, <2>3
<1>4. Planted(h, f, d, n)
  BY <1>2, <1>3 DEF Planted
<1> QED BY <1>2, <1>4 DEF f

\* The files that exist afterwards.
LEMMA PlantLive ==
  ASSUME NEW h, NEW g, NEW d, NEW n \in Nodes, Planted(h, g, d, n)
  PROVE  Live(g) = Live(h) \cup {n}
BY DEF Planted, SameFile, Live

\* A first child keeps the shape of the tree.
LEMMA PlantTree ==
  ASSUME NEW h, NEW g, NEW L, NEW d \in L, NEW n \in Nodes \ L, IsTree(h, L), Planted(h, g, d, n)
  PROVE  IsTree(g, L \cup {n})
<1>1. PICK pos, level : Shape(h, L, pos, level)
  BY DEF IsTree
<1> DEFINE M == L \cup {n}
           pos2 == [x \in Nodes |-> IF x = n THEN 0 ELSE pos[x] + 1]
           level2 == [x \in Nodes |-> IF x = n THEN level[d] + 1 ELSE level[x]]
           c == h[d].child
<1>2. L \subseteq Nodes /\ h \in Mem /\ d \in Nodes /\ d # n /\ NULL \notin Nodes /\ "/" \in L
      /\ (c # NULL => c \in L) /\ c # n /\ n # "/"
  BY <1>1, NodesAre DEF Shape, Linked
<1>3. pos2 \in [Nodes -> Nat] /\ level2 \in [Nodes -> Nat]
  BY <1>1, <1>2 DEF Shape
<1>4. /\ \A x \in L : pos2[x] = pos[x] + 1 /\ level2[x] = level[x] /\ pos[x] \in Nat /\ level[x] \in Nat
      /\ pos2[n] = 0 /\ level2[n] = level[d] + 1
  BY <1>1, <1>2 DEF Shape
<1> HIDE DEF pos2, level2
<1>5. ASSUME NEW x \in L PROVE Linked(g, M, pos2, x) /\ Under(g, M, level2, x)
  <2>1. Linked(h, L, pos, x) /\ Under(h, L, level, x) /\ x \in Nodes /\ x # n
    BY <1>1, <1>2 DEF Shape
  <2>2. g[x].child # NULL => /\ g[x].child \in M /\ g[g[x].child].parent = x
                             /\ g[g[x].child].prec = NULL
    <3>1. CASE x = d
      BY <2>1, <3>1 DEF Planted
    <3>2. CASE x # d
      <4>1. g[x].child = h[x].child
        BY <2>1, <3>2 DEF Planted
      <4> SUFFICES ASSUME h[x].child # NULL
                   PROVE  /\ h[x].child \in M /\ g[h[x].child].parent = x
                          /\ g[h[x].child].prec = NULL
        BY <4>1
      <4>2. h[x].child \in L /\ h[h[x].child].parent = x /\ h[h[x].child].prec = NULL
        BY <2>1 DEF Linked
      <4>3. h[x].child # c
        <5>1. c # NULL => h[c].parent = d
          BY <1>1 DEF Shape, Linked
        <5> QED BY <3>2, <4>2, <5>1
      <4>4. h[x].child \in Nodes \ {n}
        BY <1>2, <4>2
      <4> QED BY <4>2, <4>3, <4>4 DEF Planted
    <3> QED BY <3>1, <3>2
  <2>3. g[x].next # NULL => /\ g[x].next \in M /\ g[g[x].next].parent = g[x].parent
                            /\ g[g[x].next].prec = x /\ pos2[x] < pos2[g[x].next]
    <3>1. g[x].next = h[x].next /\ g[x].parent = h[x].parent
      BY <2>1 DEF Planted
    <3> SUFFICES ASSUME h[x].next # NULL
                 PROVE  /\ h[x].next \in M /\ g[h[x].next].parent = h[x].parent
                        /\ g[h[x].next].prec = x /\ pos2[x] < pos2[h[x].next]
      BY <3>1
    <3> DEFINE y == h[x].next
    <3>2. y \in L /\ h[y].parent = h[x].parent /\ h[y].prec = x /\ pos[x] < pos[y]
      BY <2>1 DEF Linked
    <3> HIDE DEF y
    <3>3. y # c
      <4>1. c # NULL => h[c].prec = NULL
        BY <1>1 DEF Shape, Linked
      <4> QED BY <1>2, <2>1, <3>2, <4>1
    <3>4. y \in Nodes \ {n}
      BY <1>2, <3>2
    <3>5. g[y].parent = h[y].parent /\ g[y].prec = h[y].prec
      BY <3>3, <3>4 DEF Planted
    <3>6. pos2[x] < pos2[y]
      BY <1>4, <3>2
    <3> QED BY <3>2, <3>5, <3>6 DEF y
  <2>4. g[x].prec # NULL => g[x].prec \in M /\ g[g[x].prec].next = x
    <3>1. CASE x = c
      <4>1. g[x].prec = n /\ g[n].next = x
        BY <1>2, <2>1, <3>1 DEF Planted
      <4> QED BY <4>1
    <3>2. CASE x # c
      <4>1. g[x].prec = h[x].prec
        BY <2>1, <3>2 DEF Planted
      <4> SUFFICES ASSUME h[x].prec # NULL PROVE h[x].prec \in M /\ g[h[x].prec].next = x
        BY <4>1
      <4>2. h[x].prec \in L /\ h[h[x].prec].next = x
        BY <2>1 DEF Linked
      <4>3. h[x].prec \in Nodes \ {n}
        BY <1>2, <4>2
      <4> QED BY <4>2, <4>3 DEF Planted
    <3> QED BY <3>1, <3>2
  <2>5. ASSUME x # "/"
        PROVE  /\ g[x].parent \in M /\ level2[g[x].parent] < level2[x]
               /\ g[x].prec = NULL => g[g[x].parent].child = x
    <3>1. /\ h[x].parent \in L /\ level[h[x].parent] < level[x]
          /\ h[x].prec = NULL => h[h[x].parent].child = x
      BY <2>1, <2>5 DEF Under
    <3>2. g[x].parent = h[x].parent
      BY <2>1 DEF Planted
    <3>3. ASSUME g[x].prec = NULL PROVE g[h[x].parent].child = x
      <4>1. x # c
        BY <1>2, <2>1, <3>3, NodesAre DEF Planted
      <4>2. h[x].prec = NULL
        BY <2>1, <3>3, <4>1 DEF Planted
      <4>3. h[x].parent # d /\ h[x].parent \in Nodes \ {n}
        BY <1>2, <3>1, <4>1, <4>2
      <4> QED BY <3>1, <4>2, <4>3 DEF Planted
    <3> QED BY <1>4, <3>1, <3>2, <3>3
  <2>6. Linked(g, M, pos2, x)
    BY <2>2, <2>3, <2>4 DEF Linked
  <2>7. Under(g, M, level2, x)
    BY <2>5 DEF Under
  <2> QED BY <2>6, <2>7
<1>6. Linked(g, M, pos2, n) /\ Under(g, M, level2, n)
  <2>1. /\ g[n].child = NULL /\ g[n].prec = NULL /\ g[n].next = c /\ g[n].parent = d
        /\ g[d].child = n
    BY DEF Planted
  <2>2. ASSUME c # NULL
        PROVE  c \in M /\ g[c].parent = d /\ g[c].prec = n /\ pos2[n] < pos2[c]
    <3>1. c \in L /\ c \in Nodes \ {n} /\ h[c].parent = d
      BY <1>1, <1>2, <2>2 DEF Shape, Linked
    <3>2. g[c].parent = d /\ g[c].prec = n
      BY <2>2, <3>1 DEF Planted
    <3> QED BY <1>4, <3>1, <3>2
  <2>3. Linked(g, M, pos2, n)
    BY <2>1, <2>2 DEF Linked
  <2>4. level2[d] < level2[n]
    BY <1>4
  <2>5. Under(g, M, level2, n)
    BY <2>1, <2>4 DEF Under
  <2> QED BY <2>3, <2>5
<1>7. g["/"].parent = NULL
  BY <1>1, <1>2 DEF Shape, Planted
<1>8. g \in Mem /\ M \subseteq Nodes /\ "/" \in M
  BY <1>2 DEF Planted
<1> HIDE DEF M
<1>9. \A x \in M : Linked(g, M, pos2, x) /\ Under(g, M, level2, x)
  BY <1>5, <1>6 DEF M
<1>10. Shape(g, M, pos2, level2)
  BY <1>3, <1>7, <1>8, <1>9 DEF Shape
<1> QED BY <1>10 DEF IsTree, M

\* The children after a file was planted: one more in front, and no others.
LEMMA PlantKids ==
  ASSUME NEW h, NEW g, NEW L, NEW d \in L, NEW n \in Nodes \ L, IsTree(h, L), Planted(h, g, d, n)
  PROVE  /\ Kids(g, d) = <<n>> \o Kids(h, d)
         /\ \A e \in L \ {d} : Kids(g, e) = Kids(h, e)
<1> DEFINE M == L \cup {n}
           c == h[d].child
<1>1. PICK pos, level : Shape(h, L, pos, level)
  BY DEF IsTree
<1>2. /\ L \subseteq Nodes /\ M \subseteq Nodes /\ h \in Mem /\ d \in Nodes /\ d # n /\ NULL \notin Nodes
      /\ (c # NULL => c \in L /\ h[c].parent = d /\ h[c].prec = NULL) /\ c # n /\ d \in M
  BY <1>1, NodesAre DEF Shape, Linked
<1>3. IsTree(g, M)
  BY PlantTree
<1> HIDE DEF M
<1>4. L \subseteq M /\ n \in M
  BY DEF M
<1>5. ASSUME NEW e \in L \ {d} PROVE Kids(g, e) = Kids(h, e)
  <2> DEFINE s == Kids(h, e)
  <2>1. AllKids(h, L, e, s)
    BY KidsAll
  <2>2. AllKids(g, M, e, Kids(g, e))
    BY <1>3, <1>4, KidsAll
  <2> HIDE DEF s
  <2>3. s \in Seq(Nodes) /\ Len(s) \in Nat
    BY <2>1 DEF AllKids, Chain
  <2>4. ASSUME NEW i \in 1 .. Len(s)
        PROVE  /\ s[i] \in L /\ s[i] \in Nodes \ {n} /\ g[s[i]].parent = e
               /\ g[s[i]].prec = h[s[i]].prec /\ g[s[i]].next = h[s[i]].next
    <3>1. s[i] \in L /\ h[s[i]].parent = e
      BY <2>1 DEF AllKids, Chain
    <3>2. s[i] \in Nodes \ {n} /\ s[i] # c
      BY <1>2, <3>1
    <3> QED BY <3>1, <3>2 DEF Planted
  <2>5. g[e].child = h[e].child
    BY <1>2 DEF Planted
  <2>6. Chain(g, M, e, s)
    <3>1. ASSUME NEW i \in 1 .. Len(s)
          PROVE  /\ s[i] \in M /\ g[s[i]].parent = e
                 /\ g[s[i]].prec = IF i = 1 THEN NULL ELSE s[i - 1]
                 /\ s[i] = IF i = 1 THEN g[e].child ELSE g[s[i - 1]].next
      <4>1. /\ h[s[i]].prec = IF i = 1 THEN NULL ELSE s[i - 1]
            /\ s[i] = IF i = 1 THEN h[e].child ELSE h[s[i - 1]].next
        BY <2>1 DEF AllKids, Chain
      <4>2. i # 1 => i - 1 \in 1 .. Len(s)
        BY <2>3
      <4> QED BY <1>4, <2>4, <2>5, <4>1, <4>2
    <3> QED BY <2>3, <3>1 DEF Chain
  <2>7. After(g, e, s) = NULL
    <3>1. s # <<>> => Len(s) \in 1 .. Len(s)
      BY <2>3
    <3>2. After(h, e, s) = NULL
      BY <2>1 DEF AllKids
    <3> QED BY <2>4, <2>5, <3>1, <3>2 DEF After
  <2>8. AllKids(g, M, e, s)
    BY <2>6, <2>7 DEF AllKids
  <2> QED BY <1>2, <2>2, <2>8, KidsUnique DEF s
<1>6. Kids(g, d) = <<n>> \o Kids(h, d)
  <2> DEFINE s == Kids(h, d)
             t == <<n>> \o s
  <2>1. AllKids(h, L, d, s)
    BY KidsAll
  <2>2. AllKids(g, M, d, Kids(g, d))
    BY <1>2, <1>3, KidsAll
  <2> HIDE DEF s
  <2>3. s \in Seq(Nodes) /\ Len(s) \in Nat
    BY <2>1 DEF AllKids, Chain
  <2>4. /\ t \in Seq(Nodes) /\ Len(t) = Len(s) + 1 /\ t[1] = n
        /\ \A i \in 2 .. Len(t) : i - 1 \in 1 .. Len(s) /\ t[i] = s[i - 1]
    <3>1. <<n>> \in Seq(Nodes) /\ Len(<<n>>) = 1 /\ <<n>>[1] = n
      OBVIOUS
    <3>2. /\ t \in Seq(Nodes) /\ Len(t) = 1 + Len(s) /\ t[1] = n
          /\ \A i \in 1 .. Len(s) : t[1 + i] = s[i]
      <4> HIDE DEF t
      <4>1. /\ t \in Seq(Nodes) /\ Len(t) = Len(<<n>>) + Len(s)
            /\ \A i \in 1 .. Len(<<n>>) : t[i] = <<n>>[i]
            /\ \A i \in 1 .. Len(s) : t[Len(<<n>>) + i] = s[i]
        BY <2>3, <3>1, Joined DEF t
      <4> QED BY <3>1, <4>1
    <3>3. ASSUME NEW i \in 2 .. Len(t) PROVE i - 1 \in 1 .. Len(s) /\ t[i] = s[i - 1]
      <4>1. i - 1 \in 1 .. Len(s) /\ 1 + (i - 1) = i
        BY <2>3, <3>2
      <4> QED BY <3>2, <4>1
    <3> QED BY <2>3, <3>2, <3>3
  <2> HIDE DEF t
  <2>5. ASSUME NEW i \in 1 .. Len(s)
        PROVE  /\ s[i] \in L /\ g[s[i]].parent = d /\ g[s[i]].next = h[s[i]].next
               /\ g[s[i]].prec = IF i = 1 THEN n ELSE s[i - 1]
               /\ s[i] = IF i = 1 THEN c ELSE h[s[i - 1]].next
    <3>1. /\ s[i] \in L /\ h[s[i]].parent = d
          /\ h[s[i]].prec = IF i = 1 THEN NULL ELSE s[i - 1]
          /\ s[i] = IF i = 1 THEN c ELSE h[s[i - 1]].next
      BY <2>1 DEF AllKids, Chain
    <3>2. s[i] \in Nodes \ {n}
      BY <1>2, <3>1
    <3>3. CASE i = 1
      <4>1. c = s[i] /\ c # NULL
        BY <1>2, <3>1, <3>2, <3>3
      <4> QED BY <3>1, <3>2, <3>3, <4>1 DEF Planted
    <3>4. CASE i # 1
      <4>1. i - 1 \in 1 .. Len(s)
        BY <2>3, <3>4
      <4>2. s[i - 1] \in L
        BY <2>1, <4>1 DEF AllKids, Chain
      <4>3. s[i] # c
        BY <1>2, <3>1, <3>4, <4>2
      <4> QED BY <3>1, <3>2, <3>4, <4>3 DEF Planted
    <3> QED BY <3>3, <3>4
  <2>6. /\ g[n].parent = d /\ g[n].prec = NULL /\ g[n].next = c /\ g[d].child = n
    BY DEF Planted
  <2>7. ASSUME NEW i \in 1 .. Len(t)
        PROVE  /\ t[i] \in M /\ g[t[i]].parent = d
               /\ g[t[i]].prec = IF i = 1 THEN NULL ELSE t[i - 1]
               /\ t[i] = IF i = 1 THEN g[d].child ELSE g[t[i - 1]].next
    <3>1. CASE i = 1
      BY <1>4, <2>4, <2>6, <3>1
    <3>2. CASE i # 1
      <4>1. i \in 2 .. Len(t) /\ i - 1 \in 1 .. Len(s) /\ t[i] = s[i - 1]
        BY <2>3, <2>4, <3>2
      <4>2. CASE i = 2
        <5>1. t[i - 1] = n /\ i - 1 = 1
          BY <2>4, <4>2
        <5> QED BY <1>4, <2>5, <2>6, <3>2, <4>1, <5>1
      <4>3. CASE i # 2
        <5>1. i - 1 \in 2 .. Len(t) /\ i - 1 # 1 /\ (i - 1) - 1 \in 1 .. Len(s)
          BY <2>3, <2>4, <3>2, <4>1, <4>3
        <5>2. t[i - 1] = s[(i - 1) - 1]
          BY <2>4, <5>1
        <5> QED BY <1>4, <2>5, <3>2, <4>1, <5>1, <5>2
      <4> QED BY <4>2, <4>3
    <3> QED BY <3>1, <3>2
  <2>8. Chain(g, M, d, t)
    BY <2>4, <2>7 DEF Chain
  <2>9. After(g, d, t) = NULL
    <3>0. t # <<>>
      BY <2>3, <2>4
    <3>1. After(h, d, s) = NULL
      BY <2>1 DEF AllKids
    <3>2. CASE s = <<>>
      <4>1. c = NULL /\ Len(t) = 1
        BY <2>4, <3>1, <3>2 DEF After
      <4> QED BY <2>4, <2>6, <3>0, <4>1 DEF After
    <3>3. CASE s # <<>>
      <4>1. Len(s) \in 1 .. Len(s) /\ Len(t) \in 2 .. Len(t) /\ Len(t) - 1 = Len(s)
        BY <2>3, <2>4, <3>3
      <4>2. t[Len(t)] = s[Len(s)] /\ h[s[Len(s)]].next = NULL
        BY <2>4, <3>1, <3>3, <4>1 DEF After
      <4> QED BY <2>5, <3>0, <4>1, <4>2 DEF After
    <3> QED BY <3>2, <3>3
  <2>10. AllKids(g, M, d, t)
    BY <2>8, <2>9 DEF AllKids
  <2> QED BY <1>2, <2>2, <2>10, KidsUnique DEF s, t
<1> QED BY <1>5, <1>6

-------------------------------------------------------------------------------
(* Which child a file is, by the order in which getdents counts. *)

Index(h, x) ==
  CHOOSE i \in 1 .. Len(Kids(h, h[x].parent)) : Kids(h, h[x].parent)[i] = x

\* The i-th child has the index i.
LEMMA IndexIs ==
  ASSUME NEW h, NEW L, IsTree(h, L), NEW d \in L, NEW i \in 1 .. Len(Kids(h, d))
  PROVE  Kids(h, d)[i] \in L /\ h[Kids(h, d)[i]].parent = d /\ Index(h, Kids(h, d)[i]) = i
<1> DEFINE s == Kids(h, d)
           x == s[i]
<1>1. PICK pos, level : Shape(h, L, pos, level)
  BY DEF IsTree
<1>2. Chain(h, L, d, s)
  BY KidsAll DEF AllKids
<1>3. x \in L /\ h[x].parent = d
  BY <1>2 DEF Chain
<1>4. \A k, j \in 1 .. Len(s) : s[k] = s[j] => k = j
  <2> HIDE DEF s
  <2> QED BY <1>1, <1>2, ChainShort
<1>5. Index(h, x) = CHOOSE j \in 1 .. Len(s) : s[j] = x
  <2>1. h[x].parent = d
    BY <1>3
  <2> HIDE DEF x
  <2> QED BY <2>1 DEF Index
<1>0. i \in 1 .. Len(s)
  OBVIOUS
<1> HIDE DEF s
<1>6. ASSUME NEW j \in 1 .. Len(s), s[j] = x PROVE j = i
  BY <1>0, <1>4, <1>6
<1>7. (CHOOSE j \in 1 .. Len(s) : s[j] = x) = i
  <2>1. s[i] = x
    OBVIOUS
  <2> HIDE DEF x
  <2> QED BY <1>0, <1>6, <2>1
<1> QED BY <1>3, <1>5, <1>7 DEF s

\* Every file but the root is a child with an index.
LEMMA HasIndex ==
  ASSUME NEW h, NEW L, IsTree(h, L), NEW x \in L, x # "/"
  PROVE  /\ h[x].parent \in L /\ Index(h, x) \in 1 .. Len(Kids(h, h[x].parent))
         /\ Kids(h, h[x].parent)[Index(h, x)] = x
<1>1. h[x].parent \in L
  BY DEF IsTree, Shape, Under
<1>2. PICK i \in 1 .. Len(Kids(h, h[x].parent)) : Kids(h, h[x].parent)[i] = x
  BY <1>1, KidsHave
<1>3. Index(h, x) = i
  BY <1>1, <1>2, IndexIs
<1> QED BY <1>1, <1>2, <1>3

\* x is what it was, and not further in front among its siblings.
Kept(h, g, x) ==
  /\ g[x].kind = h[x].kind /\ g[x].link = h[x].link /\ g[x].parent = h[x].parent
  /\ x # "/" => Index(g, x) >= Index(h, x)

Grows(h, g) == Live(h) \subseteq Live(g) /\ \A x \in Live(h) : Kept(h, g, x)

LEMMA GrowsTwice ==
  ASSUME NEW f, NEW g, NEW h, IsTree(f, Live(f)), IsTree(g, Live(g)), IsTree(h, Live(h)),
         Grows(f, g), Grows(g, h)
  PROVE  Grows(f, h)
<1>1. Live(f) \subseteq Live(h)
  BY DEF Grows
<1>2. ASSUME NEW x \in Live(f) PROVE Kept(f, h, x)
  <2>1. Kept(f, g, x) /\ Kept(g, h, x) /\ x \in Live(g) /\ x \in Live(h)
    BY DEF Grows
  <2>2. ASSUME x # "/" PROVE Index(h, x) >= Index(f, x)
    <3>1. Index(f, x) \in 1 .. Len(Kids(f, f[x].parent))
      BY <2>2, HasIndex
    <3>2. Index(g, x) \in 1 .. Len(Kids(g, g[x].parent))
      BY <2>1, <2>2, HasIndex
    <3>3. Index(h, x) \in 1 .. Len(Kids(h, h[x].parent))
      BY <2>1, <2>2, HasIndex
    <3>4. Index(f, x) \in Int /\ Index(g, x) \in Int /\ Index(h, x) \in Int
      BY <3>1, <3>2, <3>3
    <3> QED BY <2>1, <2>2, <3>4 DEF Kept
  <2> QED BY <2>1, <2>2 DEF Kept
<1> QED BY <1>1, <1>2 DEF Grows

\* A file that is planted moves its siblings back.
LEMMA PlantGrows ==
  ASSUME NEW h, NEW g, NEW d \in Live(h), NEW n \in Nodes \ Live(h), IsTree(h, Live(h)),
         Planted(h, g, d, n)
  PROVE  Grows(h, g) /\ IsTree(g, Live(g)) /\ Live(g) = Live(h) \cup {n}
<1> DEFINE L == Live(h)
<1>1. Live(g) = L \cup {n}
  BY PlantLive
<1>2. IsTree(g, Live(g))
  BY <1>1, PlantTree
<1>3. /\ Kids(g, d) = <<n>> \o Kids(h, d)
      /\ \A e \in L \ {d} : Kids(g, e) = Kids(h, e)
  BY PlantKids
<1>4. L \subseteq Nodes
  BY DEF Live
<1>5. ASSUME NEW x \in L PROVE Kept(h, g, x)
  <2>1. g[x].kind = h[x].kind /\ g[x].link = h[x].link /\ g[x].parent = h[x].parent
    BY <1>4 DEF Planted, SameFile
  <2>2. ASSUME x # "/" PROVE Index(g, x) >= Index(h, x)
    <3> DEFINE p == h[x].parent
               i == Index(h, x)
               s == Kids(h, p)
    <3>1. p \in L /\ i \in 1 .. Len(s) /\ s[i] = x
      BY <2>2, HasIndex
    <3>2. p \in Live(g)
      BY <1>1, <3>1
    <3>3. s \in Seq(Nodes)
      BY <3>1, KidsAll DEF AllKids, Chain
    <3> HIDE DEF p, i, s
    <3>4. CASE p # d
      <4>1. Kids(g, p) = s
        BY <1>3, <3>1, <3>4 DEF s
      <4>2. Index(g, x) = i
        BY <1>2, <3>1, <3>2, <4>1, IndexIs
      <4> QED BY <3>1, <4>2 DEF i
    <3>5. CASE p = d
      <4> DEFINE t == Kids(g, p)
      <4>1. t = <<n>> \o s
        BY <1>3, <3>5 DEF s
      <4>2. i + 1 \in 1 .. Len(t) /\ t[i + 1] = x
        BY <3>1, <3>3, <4>1
      <4>3. Index(g, x) = i + 1
        BY <1>2, <3>2, <4>2, IndexIs
      <4> QED BY <3>1, <4>3 DEF i
    <3> QED BY <3>4, <3>5
  <2> QED BY <2>1, <2>2 DEF Kept
<1> QED BY <1>1, <1>2, <1>5 DEF Grows

\* What the flag of a directory is makes no difference to the tree.
LEMMA SetLoaded ==
  ASSUME NEW h, NEW d \in Live(h), IsTree(h, Live(h))
  PROVE  LET g == [h EXCEPT ![d].loaded = TRUE]
         IN  /\ IsTree(g, Live(g)) /\ Live(g) = Live(h) /\ Grows(h, g) /\ g[d].loaded
             /\ \A x \in Nodes : /\ g[x].kind = h[x].kind /\ g[x].name = h[x].name
                                 /\ g[x].ino = h[x].ino /\ g[x].link = h[x].link
                                 /\ g[x].parent = h[x].parent
                                 /\ x # d => g[x].loaded = h[x].loaded
<1> DEFINE g == [h EXCEPT ![d].loaded = TRUE]
           L == Live(h)
<1>1. PICK pos, level : Shape(h, L, pos, level)
  BY DEF IsTree
<1>2. h \in Mem /\ L \subseteq Nodes /\ d \in Nodes
  BY <1>1 DEF Shape
<1>3. /\ g \in Mem /\ g[d].loaded = TRUE
      /\ \A x \in Nodes : /\ g[x].kind = h[x].kind /\ g[x].name = h[x].name
                          /\ g[x].ino = h[x].ino /\ g[x].link = h[x].link
                          /\ g[x].parent = h[x].parent /\ g[x].child = h[x].child
                          /\ g[x].next = h[x].next /\ g[x].prec = h[x].prec
                          /\ x # d => g[x].loaded = h[x].loaded
  BY <1>2 DEF Mem, FileRec
<1> HIDE DEF g
<1>4. Live(g) = L
  BY <1>3 DEF Live
<1>5. \A x \in L : Linked(g, L, pos, x) /\ Under(g, L, level, x)
  <2> TAKE x \in L
  <2>1. Linked(h, L, pos, x) /\ Under(h, L, level, x) /\ x \in Nodes
    BY <1>1, <1>2 DEF Shape
  <2>2. Linked(g, L, pos, x)
    BY <1>2, <1>3, <2>1 DEF Linked
  <2>3. Under(g, L, level, x)
    BY <1>2, <1>3, <2>1 DEF Under
  <2> QED BY <2>2, <2>3
<1>6. Shape(g, L, pos, level)
  BY <1>1, <1>2, <1>3, <1>5 DEF Shape
<1>7. IsTree(g, L)
  BY <1>6 DEF IsTree
<1>8. ASSUME NEW e \in L PROVE Kids(g, e) = Kids(h, e)
  <2> DEFINE s == Kids(h, e)
  <2>1. AllKids(h, L, e, s)
    BY KidsAll
  <2>2. AllKids(g, L, e, Kids(g, e))
    BY <1>7, KidsAll
  <2> HIDE DEF s
  <2>3. s \in Seq(Nodes) /\ Len(s) \in Nat /\ \A i \in 1 .. Len(s) : s[i] \in Nodes
    BY <2>1 DEF AllKids, Chain
  <2>4. Chain(g, L, e, s)
    <3>1. ASSUME NEW i \in 1 .. Len(s)
          PROVE  /\ s[i] \in L /\ g[s[i]].parent = e
                 /\ g[s[i]].prec = IF i = 1 THEN NULL ELSE s[i - 1]
                 /\ s[i] = IF i = 1 THEN g[e].child ELSE g[s[i - 1]].next
      <4>1. /\ s[i] \in L /\ h[s[i]].parent = e
            /\ h[s[i]].prec = IF i = 1 THEN NULL ELSE s[i - 1]
            /\ s[i] = IF i = 1 THEN h[e].child ELSE h[s[i - 1]].next
        BY <2>1 DEF AllKids, Chain
      <4>2. (i # 1 => i - 1 \in 1 .. Len(s)) /\ e \in Nodes
        BY <1>2, <2>3
      <4> QED BY <1>3, <2>3, <4>1, <4>2
    <3> QED BY <2>3, <3>1 DEF Chain
  <2>5. After(g, e, s) = NULL
    <3>1. (s # <<>> => Len(s) \in 1 .. Len(s)) /\ e \in Nodes
      BY <1>2, <2>3
    <3>2. After(h, e, s) = NULL
      BY <2>1 DEF AllKids
    <3> QED BY <1>3, <2>3, <3>1, <3>2 DEF After
  <2>6. AllKids(g, L, e, s)
    BY <2>4, <2>5 DEF AllKids
  <2> QED BY <1>2, <2>2, <2>6, KidsUnique DEF s
<1>9. ASSUME NEW x \in L PROVE Kept(h, g, x)
  <2>1. g[x].kind = h[x].kind /\ g[x].link = h[x].link /\ g[x].parent = h[x].parent
    BY <1>2, <1>3
  <2>2. ASSUME x # "/" PROVE Index(g, x) >= Index(h, x)
    <3>1. h[x].parent \in L /\ Index(h, x) \in 1 .. Len(Kids(h, h[x].parent))
      BY <2>2, HasIndex
    <3>2. Index(g, x) = Index(h, x)
      BY <1>8, <2>1, <3>1 DEF Index
    <3> QED BY <3>1, <3>2
  <2> QED BY <2>1, <2>2 DEF Kept
<1>10. Grows(h, g)
  BY <1>4, <1>9 DEF Grows
<1> QED BY <1>3, <1>4, <1>7, <1>10 DEF g

-------------------------------------------------------------------------------
(***************************************************************************)
(* What the directories of the device hold.  Their files have an inode of  *)
(* the device; a directory made by init has such a parent, and so never    *)
(* lies in the device; a directory of the device holds no files of the     *)
(* device until it is loaded, except the directory x that is being loaded; *)
(* and it holds no two of them with one name.                              *)
(***************************************************************************)

OnDisk == {"ext2dir", "ext2file"}

Inos(h) == \A n \in Live(h) : h[n].kind \in OnDisk => h[n].ino \in DOMAIN Disk

DirsIn(h) ==
  \A n \in Live(h) \ {"/"} : h[n].kind = "directory" => h[h[n].parent].kind = "directory"

LoadedBefore(h, x) ==
  \A n \in Live(h) \ {"/"} :
    h[n].kind \in OnDisk /\ h[n].parent # x /\ h[h[n].parent].kind = "ext2dir"
    => h[h[n].parent].loaded = TRUE

OneOfName(h) ==
  \A m, n \in Live(h) \ {"/"} :
    /\ h[m].kind \in OnDisk /\ h[n].kind \in OnDisk /\ h[m].parent = h[n].parent
    /\ h[h[n].parent].kind = "ext2dir" /\ h[m].name = h[n].name
    => m = n

Good(h) ==
  IsTree(h, Live(h)) /\ Inos(h) /\ DirsIn(h) /\ LoadedBefore(h, NULL) /\ OneOfName(h)

\* The files of a tree, and where they are.
LEMMA TreeIs ==
  ASSUME NEW h, NEW L, IsTree(h, L)
  PROVE  /\ h \in Mem /\ L \subseteq Nodes /\ "/" \in L /\ NULL \notin L
         /\ \A n \in L : (n # "/" => h[n].parent \in L) /\ (n = "/" => h[n].parent = NULL)
         /\ \A n \in L : h[n].child # NULL => h[n].child \in L
<1>1. PICK pos, level : Shape(h, L, pos, level)
  BY DEF IsTree
<1>2. \A n \in L : Linked(h, L, pos, n) /\ Under(h, L, level, n)
  BY <1>1 DEF Shape
<1>3. h \in Mem /\ L \subseteq Nodes /\ "/" \in L /\ h["/"].parent = NULL
  BY <1>1 DEF Shape
<1>4. NULL \notin L
  BY <1>3, NodesAre
<1> QED BY <1>2, <1>3, <1>4 DEF Linked, Under

\* The files of h are in g what they were.
Extends(h, g) ==
  /\ Live(h) \subseteq Live(g)
  /\ \A x \in Live(h) : SameFile(g[x], h[x]) /\ g[x].parent = h[x].parent

LEMMA PlantExtends ==
  ASSUME NEW h, NEW g, NEW d \in Live(h), NEW n \in Nodes \ Live(h), Planted(h, g, d, n)
  PROVE  Extends(h, g) /\ Live(g) = Live(h) \cup {n} /\ g[n].parent = d /\ g[d].kind = h[d].kind
<1>1. Live(g) = Live(h) \cup {n}
  BY PlantLive
<1>2. Live(h) \subseteq Nodes \ {n}
  BY DEF Live
<1>3. Extends(h, g)
  BY <1>1, <1>2 DEF Planted, Extends
<1> QED BY <1>1, <1>3 DEF Planted, Extends, SameFile

\* A new file that is no directory of init and not of the device.
LEMMA PlantGood ==
  ASSUME NEW h, NEW g, NEW d \in Live(h), NEW n \in Nodes \ Live(h), Good(h), Planted(h, g, d, n),
         g[n].kind \notin OnDisk \cup {"directory"}
  PROVE  Good(g) /\ Grows(h, g) /\ Live(g) = Live(h) \cup {n}
<1>1. Grows(h, g) /\ IsTree(g, Live(g)) /\ Live(g) = Live(h) \cup {n}
  BY PlantGrows DEF Good
<1>2. Extends(h, g) /\ g[n].parent = d
  BY PlantExtends
<1>3. \A x \in Live(h) : /\ g[x].kind = h[x].kind /\ g[x].name = h[x].name /\ g[x].ino = h[x].ino
                         /\ g[x].loaded = h[x].loaded /\ g[x].parent = h[x].parent
                         /\ x # "/" => h[x].parent \in Live(h)
  BY <1>2, TreeIs DEF Extends, SameFile, Good
<1>4. Inos(g)
  BY <1>1, <1>3 DEF Good, Inos
<1>5. DirsIn(g)
  BY <1>1, <1>3 DEF Good, DirsIn
<1>6. LoadedBefore(g, NULL)
  BY <1>1, <1>3 DEF Good, LoadedBefore
<1>7. OneOfName(g)
  BY <1>1, <1>3 DEF Good, OneOfName
<1> QED BY <1>1, <1>4, <1>5, <1>6, <1>7 DEF Good

\* The memory that a constructor gets.
LEMMA FreshIs ==
  ASSUME NEW h, IsTree(h, Live(h)), Unused(h) # {}, NEW d \in Live(h)
  PROVE  /\ Fresh(h) \in Nodes \ Live(h) /\ Fresh(h) \in Files /\ Fresh(h) # d
         /\ h[d].child # Fresh(h) /\ d \in Nodes
<1>1. \E n : n \in Unused(h)
  OBVIOUS
<1>2. Fresh(h) \in Unused(h)
  BY <1>1, Zenon DEF Fresh
<1>3. Fresh(h) \in Files /\ Fresh(h) \notin Live(h) /\ Fresh(h) \in Nodes
  BY <1>2, NodesAre DEF Unused
<1>4. d \in Nodes /\ (h[d].child # NULL => h[d].child \in Live(h))
  BY TreeIs
<1> QED BY <1>3, <1>4, NodesAre

Entry == [name : STRING, kind : {"ext2dir", "ext2file"}, ino : DOMAIN Disk]

\* g is h with a file n in d for the entry e.
Entered(h, g, d, n, e) ==
  Planted(h, g, d, n) /\ g[n].kind = e.kind /\ g[n].name = e.name /\ g[n].ino = e.ino

LEMMA AddEntryIs ==
  ASSUME NEW h, IsTree(h, Live(h)), NEW d \in Live(h), NEW e \in Entry
  PROVE  \/ AddEntry(h, d, e) = h
         \/ \E n \in Nodes \ Live(h) : Entered(h, AddEntry(h, d, e), d, n, e)
<1>1. CASE Unused(h) = {}
  BY <1>1 DEF AddEntry
<1>2. CASE Unused(h) # {}
  <2> DEFINE n == Fresh(h)
             f == addChild(New(h, n, e.name, e.kind), d, n)
             g == [f EXCEPT ![n].ino = e.ino]
  <2>1. n \in Nodes \ Live(h) /\ n # d /\ h[d].child # n /\ d \in Nodes /\ n \in Nodes
    BY <1>2, FreshIs
  <2>2. h \in Mem /\ e.name \in STRING \cup {Garbage} /\ e.kind \in Kinds \ {"free"} /\ e.ino \in DOMAIN Disk
    BY TreeIs, KindsAre DEF Entry
  <2>3. AddEntry(h, d, e) = g
    BY <1>2 DEF AddEntry
  <2> HIDE DEF n
  <2>4. Planted(h, f, d, n) /\ f[n].kind = e.kind /\ f[n].name = e.name
    <3> DEFINE nm == e.name
               k == e.kind
    <3>1. nm \in STRING \cup {Garbage} /\ k \in Kinds \ {"free"}
      BY <2>2
    <3> HIDE DEF nm, k
    <3>2. LET u == addChild(New(h, n, nm, k), d, n)
          IN  Planted(h, u, d, n) /\ u[n].kind = k /\ u[n].name = nm
      BY <2>1, <2>2, <3>1, NewChild
    <3> QED BY <3>2 DEF nm, k
  <2> HIDE DEF f
  <2>5. Planted(h, g, d, n) /\ g[n].kind = f[n].kind /\ g[n].name = f[n].name /\ g[n].ino = e.ino
    BY <2>1, <2>2, <2>4, WithIno
  <2> HIDE DEF g
  <2>6. Entered(h, g, d, n, e)
    BY <2>4, <2>5 DEF Entered
  <2> QED BY <2>1, <2>3, <2>6
<1> QED BY <1>1, <1>2

\* What a lookup may do to the tree: files of the device appear in its directories.
Appeared(h, g) ==
  \A x \in Live(g) \ Live(h) :
    g[x].kind \in OnDisk /\ g[x].parent \in Live(g) /\ g[g[x].parent].kind = "ext2dir"

Reads(h, g) == Good(g) /\ Grows(h, g) /\ Appeared(h, g)

LEMMA AppearedTwice ==
  ASSUME NEW f, NEW g, NEW h, Appeared(f, g), Grows(g, h), Appeared(g, h)
  PROVE  Appeared(f, h)
<1> SUFFICES ASSUME NEW x \in Live(h) \ Live(f)
             PROVE  h[x].kind \in OnDisk /\ h[x].parent \in Live(h) /\ h[h[x].parent].kind = "ext2dir"
  BY DEF Appeared
<1>1. CASE x \in Live(g)
  <2>1. g[x].kind \in OnDisk /\ g[x].parent \in Live(g) /\ g[g[x].parent].kind = "ext2dir"
    BY <1>1 DEF Appeared
  <2>2. h[x].kind = g[x].kind /\ h[x].parent = g[x].parent /\ h[g[x].parent].kind = g[g[x].parent].kind
    BY <1>1, <2>1 DEF Grows, Kept
  <2>3. g[x].parent \in Live(h)
    BY <2>1 DEF Grows
  <2> QED BY <2>1, <2>2, <2>3
<1>2. CASE x \notin Live(g)
  BY <1>2 DEF Appeared
<1> QED BY <1>1, <1>2

LEMMA GrowsNone ==
  ASSUME NEW h, IsTree(h, Live(h))
  PROVE  Grows(h, h) /\ Appeared(h, h)
<1>1. ASSUME NEW x \in Live(h) PROVE Kept(h, h, x)
  <2>1. ASSUME x # "/" PROVE Index(h, x) >= Index(h, x)
    <3>1. Index(h, x) \in 1 .. Len(Kids(h, h[x].parent))
      BY <2>1, HasIndex
    <3> QED BY <3>1
  <2> QED BY <2>1 DEF Kept
<1> QED BY <1>1 DEF Grows, Appeared

LEMMA ReadsTwice ==
  ASSUME NEW f, NEW g, NEW h, Good(f), Reads(f, g), Reads(g, h)
  PROVE  Reads(f, h)
<1>1. Grows(f, h)
  BY GrowsTwice DEF Reads, Good
<1>2. Appeared(f, h)
  BY AppearedTwice DEF Reads
<1> QED BY <1>1, <1>2 DEF Reads

\* g is h after i entries of the list s have been loaded into d.
NamesOf(g, d, s, i) ==
  \A x \in Live(g) : g[x].parent = d /\ g[x].kind \in OnDisk
                     => \E j \in 1 .. Len(s) : j <= i /\ g[x].name = s[j].name

Loading(h, g, d, s, i) ==
  /\ IsTree(g, Live(g)) /\ Inos(g) /\ DirsIn(g) /\ LoadedBefore(g, d) /\ OneOfName(g)
  /\ Grows(h, g) /\ Appeared(h, g) /\ g[d].loaded = h[d].loaded /\ NamesOf(g, d, s, i)

Listing(s) ==
  s \in Seq(Entry) /\ \A i, j \in 1 .. Len(s) : s[i].name = s[j].name => i = j

LEMMA LoadStep ==
  ASSUME NEW h, NEW g, IsTree(h, Live(h)), NEW d \in Live(h), h[d].kind = "ext2dir", NEW s, Listing(s), NEW i \in Nat,
         i + 1 \in 1 .. Len(s), Loading(h, g, d, s, i)
  PROVE  Loading(h, AddEntry(g, d, s[i + 1]), d, s, i + 1)
<1> DEFINE e == s[i + 1]
           f == AddEntry(g, d, e)
<1>1. d \in Live(g) /\ g[d].kind = "ext2dir" /\ IsTree(g, Live(g))
  BY DEF Loading, Grows, Kept
<1>2. e \in Entry /\ Len(s) \in Nat
  BY DEF Listing
<1>3. CASE f = g
  <2>1. NamesOf(g, d, s, i + 1)
    BY <1>2 DEF Loading, NamesOf
  <2> QED BY <1>3, <2>1 DEF Loading
<1>4. ASSUME NEW n \in Nodes \ Live(g), Entered(g, f, d, n, e) PROVE Loading(h, f, d, s, i + 1)
  <2> HIDE DEF e, f
  <2>1. Planted(g, f, d, n) /\ f[n].kind = e.kind /\ f[n].name = e.name /\ f[n].ino = e.ino
    BY <1>4 DEF Entered
  <2>2. Grows(g, f) /\ IsTree(f, Live(f)) /\ Live(f) = Live(g) \cup {n}
    BY <1>1, <2>1, PlantGrows
  <2>3. Extends(g, f) /\ f[n].parent = d /\ f[d].kind = "ext2dir"
    BY <1>1, <2>1, PlantExtends
  <2>4. \A x \in Live(g) : /\ f[x].kind = g[x].kind /\ f[x].name = g[x].name /\ f[x].ino = g[x].ino
                           /\ f[x].loaded = g[x].loaded /\ f[x].parent = g[x].parent
                           /\ x # "/" => g[x].parent \in Live(g)
    BY <1>1, <2>3, TreeIs DEF Extends, SameFile
  <2>5. e.kind \in OnDisk /\ e.ino \in DOMAIN Disk
    BY <1>2 DEF Entry, OnDisk
  <2>6. Inos(f)
    BY <2>1, <2>2, <2>4, <2>5 DEF Loading, Inos
  <2>7. DirsIn(f)
    BY <2>1, <2>2, <2>4, <2>5 DEF Loading, DirsIn, OnDisk
  <2>8. LoadedBefore(f, d)
    BY <2>1, <2>2, <2>3, <2>4 DEF Loading, LoadedBefore
  <2>9. NamesOf(f, d, s, i + 1)
    <3>1. f[n].name = s[i + 1].name
      BY <2>1 DEF e
    <3>2. ASSUME NEW x \in Live(g), f[x].parent = d, f[x].kind \in OnDisk
          PROVE  \E j \in 1 .. Len(s) : j <= i + 1 /\ f[x].name = s[j].name
      <4>1. PICK j \in 1 .. Len(s) : j <= i /\ g[x].name = s[j].name
        BY <2>4, <3>2 DEF Loading, NamesOf
      <4> QED BY <1>2, <2>4, <4>1
    <3> QED BY <2>2, <3>1, <3>2 DEF NamesOf
  <2>10. OneOfName(f)
    <3>1. ASSUME NEW x \in Live(g), f[x].parent = d, f[x].kind \in OnDisk PROVE f[x].name # f[n].name
      <4>1. PICK j \in 1 .. Len(s) : j <= i /\ g[x].name = s[j].name
        BY <2>4, <3>1 DEF Loading, NamesOf
      <4>2. s[j].name # s[i + 1].name
        BY <1>2, <4>1 DEF Listing
      <4> QED BY <2>1, <2>4, <4>1, <4>2 DEF e
    <3> QED BY <2>2, <2>3, <2>4, <3>1 DEF Loading, OneOfName
  <2>11. Grows(h, f)
    BY <2>2, GrowsTwice DEF Loading
  <2>12. Appeared(g, f)
    BY <1>1, <2>1, <2>2, <2>3, <2>5 DEF Appeared
  <2>13. Appeared(h, f)
    BY <2>2, <2>12, AppearedTwice DEF Loading
  <2>14. f[d].loaded = h[d].loaded
    BY <1>1, <2>4 DEF Loading
  <2> QED BY <2>2, <2>6, <2>7, <2>8, <2>9, <2>10, <2>11, <2>13, <2>14 DEF Loading
<1> QED BY <1>1, <1>2, <1>3, <1>4, AddEntryIs

\* load_directory as a loop over the entries.
LoadRound(d, s, n, k, g) == IF k \in n \cap DOMAIN s THEN AddEntry(g, d, s[k]) ELSE g
LoadSteps(w, h, d, s, n) == w = [k \in Nat |-> IF k = 0 THEN h ELSE LoadRound(d, s, n, k, w[k - 1])]

LEMMA LoadDefined ==
  ASSUME NEW h, IsTree(h, Live(h)), NEW d \in Live(h), NEW n, Listing(Disk[h[d].ino])
  PROVE  \E w : /\ load_directory(h, d, n) = w[Len(Disk[h[d].ino])] /\ w[0] = h
                /\ \A k \in Nat : w[k + 1] = LoadRound(d, Disk[h[d].ino], n, k + 1, w[k])
<1> DEFINE s == Disk[h[d].ino]
           D == {g \in Mem : IsTree(g, Live(g)) /\ d \in Live(g)}
           F == [u \in Nat \X D |-> IF u[1] = 0 THEN u[2] ELSE LoadRound(d, s, n, u[1], u[2])]
<1>0. Len(s) \in Nat /\ s \in Seq(Entry)
  BY DEF Listing
<1>1. h \in D
  BY TreeIs
<1>2. load_directory(h, d, n) = (CHOOSE w : LoadSteps(w, h, d, s, n))[Len(s)]
  BY DEF load_directory, LoadSteps, LoadRound
<1> HIDE DEF s
<1>3. ASSUME NEW k \in Nat, k > 0, NEW g \in D PROVE LoadRound(d, s, n, k, g) \in D
  <2>1. CASE k \notin n \cap DOMAIN s
    BY <1>3, <2>1 DEF LoadRound
  <2>2. CASE k \in n \cap DOMAIN s
    <3>1. s[k] \in Entry
      BY <1>0, <2>2
    <3> DEFINE f == AddEntry(g, d, s[k])
    <3>2. ASSUME NEW m \in Nodes \ Live(g), Entered(g, f, d, m, s[k]) PROVE f \in D
      <4> HIDE DEF f
      <4>1. Planted(g, f, d, m)
        BY <3>2 DEF Entered
      <4>2. IsTree(f, Live(f)) /\ Live(f) = Live(g) \cup {m}
        BY <4>1, PlantGrows
      <4> QED BY <4>1, <4>2 DEF Planted
    <3>3. f \in D
      BY <3>1, <3>2, AddEntryIs
    <3> QED BY <2>2, <3>3 DEF LoadRound
  <2> QED BY <2>1, <2>2
<1>4. F \in [Nat \X D -> D]
  <2>1. \A u \in Nat \X D : (IF u[1] = 0 THEN u[2] ELSE LoadRound(d, s, n, u[1], u[2])) \in D
    <3> HIDE DEF D
    <3> TAKE u \in Nat \X D
    <3>1. u[1] \in Nat /\ u[2] \in D /\ (u[1] # 0 => u[1] > 0)
      OBVIOUS
    <3> QED BY <1>3, <3>1
  <2> HIDE DEF D
  <2> QED BY <2>1
<1>5. PICK w \in [Nat -> D] : IsCounted(w, h, F)
  <2> HIDE DEF D, F
  <2> QED BY <1>1, <1>4, CountedDefined
<1>6. LoadSteps(w, h, d, s, n)
  <2>1. \A i \in Nat : i # 0 => i - 1 \in Nat /\ F[<<i, w[i - 1]>>] = LoadRound(d, s, n, i, w[i - 1])
    <3> HIDE DEF D
    <3> QED OBVIOUS
  <2> HIDE DEF F, D
  <2> QED BY <1>5, <2>1 DEF IsCounted, LoadSteps
<1> DEFINE v == CHOOSE f : LoadSteps(f, h, d, s, n)
<1>7. LoadSteps(v, h, d, s, n)
  <2> HIDE DEF LoadSteps
  <2> QED BY <1>6, Zenon
<1>8. load_directory(h, d, n) = v[Len(s)]
  BY <1>2
<1> HIDE DEF v
<1>9. v[0] = h /\ \A k \in Nat : v[k + 1] = LoadRound(d, s, n, k + 1, v[k])
  <2>1. \A i \in Nat : i + 1 \in Nat /\ i + 1 # 0 /\ (i + 1) - 1 = i
    OBVIOUS
  <2> HIDE DEF D, F
  <2> QED BY <1>7, <2>1 DEF LoadSteps
<1> QED BY <1>8, <1>9 DEF s

\* The directory d of the device is what the assumption on the device says.
LEMMA DiskListing ==
  ASSUME NEW h, Inos(h), NEW d \in Live(h), h[d].kind = "ext2dir"
  PROVE  Listing(Disk[h[d].ino])
<1>1. h[d].ino \in DOMAIN Disk
  BY DEF Inos, OnDisk
<1> DEFINE i == h[d].ino
<1>2. i \in DOMAIN Disk
  BY <1>1
<1> HIDE DEF i
<1>3. Disk[i] \in Seq(Entry)
  BY <1>2, DeviceAssumption DEF Entry
<1>4. DOMAIN Disk[i] = 1 .. Len(Disk[i])
  BY <1>3
<1>5. \A j, k \in 1 .. Len(Disk[i]) : Disk[i][j].name = Disk[i][k].name => j = k
  BY <1>2, <1>4, DeviceAssumption
<1>6. Listing(Disk[i])
  BY <1>3, <1>5 DEF Listing
<1> QED BY <1>6 DEF i

LEMMA LoadIs ==
  ASSUME NEW h, Good(h), NEW d \in Live(h), h[d].kind = "ext2dir", h[d].loaded = FALSE, NEW n
  PROVE  \E i \in Nat : Loading(h, load_directory(h, d, n), d, Disk[h[d].ino], i)
<1> DEFINE s == Disk[h[d].ino]
<1>1. Listing(s) /\ IsTree(h, Live(h))
  BY DiskListing DEF Good
<1>2. PICK w : /\ load_directory(h, d, n) = w[Len(s)] /\ w[0] = h
               /\ \A k \in Nat : w[k + 1] = LoadRound(d, s, n, k + 1, w[k])
  BY <1>1, LoadDefined
<1>3. Loading(h, h, d, s, 0)
  <2>1. NULL # d
    BY <1>1, TreeIs
  <2>2. \A x \in Live(h) : h[x].parent = d => x # "/"
    BY <1>1, <2>1, TreeIs
  <2>3. NamesOf(h, d, s, 0)
    BY <2>1, <2>2 DEF NamesOf, Good, LoadedBefore
  <2>4. LoadedBefore(h, d)
    BY <1>1, TreeIs DEF Good, LoadedBefore
  <2> QED BY <1>1, <2>3, <2>4, GrowsNone DEF Good, Loading
<1> HIDE DEF s
<1> DEFINE T == {k \in Nat : k <= Len(s) => Loading(h, w[k], d, s, k)}
<1>4. 0 \in T
  BY <1>2, <1>3
<1>5. ASSUME NEW k \in T PROVE k + 1 \in T
  <2>1. Len(s) \in Nat /\ k \in Nat /\ DOMAIN s = 1 .. Len(s)
    BY <1>1 DEF Listing
  <2> SUFFICES ASSUME k + 1 <= Len(s)
               PROVE  Loading(h, w[k + 1], d, s, k + 1)
    BY <2>1
  <2>2. Loading(h, w[k], d, s, k) /\ k + 1 \in 1 .. Len(s)
    BY <2>1
  <2>3. CASE k + 1 \notin n
    <3>1. w[k + 1] = w[k]
      BY <1>2, <2>1, <2>3 DEF LoadRound
    <3>2. NamesOf(w[k], d, s, k + 1)
      BY <2>1, <2>2 DEF Loading, NamesOf
    <3> QED BY <2>2, <3>1, <3>2 DEF Loading
  <2>4. CASE k + 1 \in n
    <3>1. w[k + 1] = AddEntry(w[k], d, s[k + 1])
      BY <1>2, <2>1, <2>2, <2>4 DEF LoadRound
    <3> QED BY <1>1, <2>1, <2>2, <3>1, LoadStep
  <2> QED BY <2>3, <2>4
<1>6. T = Nat
  <2>1. T \in SUBSET Nat
    OBVIOUS
  <2> HIDE DEF T
  <2> QED BY <1>4, <1>5, <2>1, NatSetInduction
<1>7. Len(s) \in Nat /\ Len(s) \in T
  BY <1>1, <1>6 DEF Listing
<1>8. Loading(h, load_directory(h, d, n), d, s, Len(s))
  BY <1>2, <1>7
<1> QED BY <1>7, <1>8, Zenon DEF s

\* A scan only brings files of the device.
LEMMA ScanReads ==
  ASSUME NEW h, Good(h), NEW d \in Live(h), NEW n
  PROVE  Reads(h, scan(h, d, n))
<1>1. IsTree(h, Live(h)) /\ d \in Nodes /\ h \in Mem
  BY TreeIs DEF Good
<1>2. CASE h[d].kind = "ext2dir" /\ h[d].loaded = FALSE /\ 0 \in n
  <2> DEFINE f == load_directory(h, d, n)
             g == [f EXCEPT ![d].loaded = TRUE]
  <2>1. scan(h, d, n) = g
    BY <1>2 DEF scan
  <2>3. PICK i \in Nat : Loading(h, f, d, Disk[h[d].ino], i)
    BY <1>2, LoadIs
  <2>4. IsTree(f, Live(f)) /\ Grows(h, f) /\ Appeared(h, f) /\ d \in Live(f)
    BY <2>3 DEF Loading, Grows
  <2> HIDE DEF f
  <2>5. /\ IsTree(g, Live(g)) /\ Live(g) = Live(f) /\ Grows(f, g) /\ g[d].loaded
        /\ \A x \in Nodes : /\ g[x].kind = f[x].kind /\ g[x].name = f[x].name
                            /\ g[x].ino = f[x].ino /\ g[x].link = f[x].link
                            /\ g[x].parent = f[x].parent
                            /\ x # d => g[x].loaded = f[x].loaded
    BY <2>4, SetLoaded
  <2> HIDE DEF g
  <2>6. g[d].loaded = TRUE
    <3>1. g \in Mem /\ d \in Nodes
      BY <1>1, <2>5, TreeIs
    <3>2. g[d].loaded \in BOOLEAN
      BY <3>1 DEF Mem, FileRec
    <3> QED BY <2>5, <3>2
  <2>7. \A x \in Live(f) : x \in Nodes /\ (x # "/" => f[x].parent \in Nodes)
    BY <2>4, TreeIs
  <2>8. Inos(g)
    BY <2>3, <2>5, <2>7 DEF Loading, Inos
  <2>9. DirsIn(g)
    BY <2>3, <2>5, <2>7 DEF Loading, DirsIn
  <2>10. LoadedBefore(g, NULL)
    BY <2>3, <2>5, <2>6, <2>7 DEF Loading, LoadedBefore
  <2>11. OneOfName(g)
    BY <2>3, <2>5, <2>7 DEF Loading, OneOfName
  <2>12. Appeared(f, g)
    BY <2>5 DEF Appeared
  <2>13. Grows(h, g) /\ Appeared(h, g)
    BY <1>1, <2>4, <2>5, <2>12, GrowsTwice, AppearedTwice
  <2> QED BY <2>1, <2>5, <2>8, <2>9, <2>10, <2>11, <2>13 DEF Reads, Good
<1>3. CASE ~(h[d].kind = "ext2dir" /\ h[d].loaded = FALSE /\ 0 \in n)
  <2>1. h[d].loaded \in BOOLEAN
    BY <1>1 DEF Mem, FileRec
  <2>2. scan(h, d, n) = h
    BY <1>3, <2>1 DEF scan
  <2> QED BY <1>1, <2>2, GrowsNone DEF Reads
<1> QED BY <1>2, <1>3

-------------------------------------------------------------------------------
(* Lookups. *)

\* find returns a child of d.
LEMMA FindIs ==
  ASSUME NEW h, IsTree(h, Live(h)), NEW d \in Live(h), NEW nm
  PROVE  find(h, d, nm) = NULL \/ (find(h, d, nm) \in Live(h) /\ h[find(h, d, nm)].parent = d)
<1> DEFINE kids == Kids(h, d)
           Hits == {i \in DOMAIN kids : h[kids[i]].name = nm}
<1>1. Chain(h, Live(h), d, kids)
  BY KidsAll DEF AllKids
<1> HIDE DEF kids
<1>2. kids \in Seq(Nodes) /\ DOMAIN kids = 1 .. Len(kids) /\ Len(kids) \in Nat
  BY <1>1 DEF Chain
<1>3. find(h, d, nm) = IF Hits = {} THEN NULL ELSE kids[Min(Hits)]
  BY DEF find, kids
<1>4. ASSUME Hits # {} PROVE Min(Hits) \in 1 .. Len(kids)
  <2>1. Hits \in SUBSET Nat /\ Hits \subseteq 1 .. Len(kids)
    BY <1>2
  <2> HIDE DEF Hits
  <2>2. \E x \in Hits : \A y \in Hits : x <= y
    BY <1>4, <2>1, NatSetMin
  <2>3. Min(Hits) \in Hits
    BY <2>2, Zenon DEF Min
  <2> QED BY <2>1, <2>3
<1>5. \A i \in 1 .. Len(kids) : kids[i] \in Live(h) /\ h[kids[i]].parent = d
  BY <1>1 DEF Chain
<1> QED BY <1>3, <1>4, <1>5

(***************************************************************************)
(* No file lies under a link, and no link leads to a link or to a file     *)
(* that is gone, as long as nothing is mounted.                            *)
(***************************************************************************)
At(h, fp) == fp = NULL \/ (fp \in Live(h) /\ h[fp].kind # "link")

LinkInv(h) ==
  \A n \in Live(h) :
    /\ n # "/" => h[h[n].parent].kind # "link"
    /\ h[n].kind = "link" => h[n].link \in Live(h) /\ h[h[n].link].kind # "link"

LEMMA ReadsLinks ==
  ASSUME NEW h, NEW g, Good(h), Reads(h, g)
  PROVE  (LinkInv(h) => LinkInv(g)) /\ \A fp : At(h, fp) => At(g, fp)
<1>1. \A x \in Live(h) : /\ x \in Live(g) /\ g[x].kind = h[x].kind /\ g[x].link = h[x].link
                         /\ g[x].parent = h[x].parent /\ (x # "/" => h[x].parent \in Live(h))
  BY TreeIs DEF Reads, Grows, Kept, Good
<1>2. \A fp : At(h, fp) => At(g, fp)
  BY <1>1 DEF At
<1>3. ASSUME LinkInv(h), NEW n \in Live(g)
      PROVE  /\ n # "/" => g[g[n].parent].kind # "link"
             /\ g[n].kind = "link" => g[n].link \in Live(g) /\ g[g[n].link].kind # "link"
  <2>1. CASE n \in Live(h)
    BY <1>1, <1>3, <2>1 DEF LinkInv
  <2>2. CASE n \notin Live(h)
    BY <2>2 DEF Reads, Appeared, OnDisk
  <2> QED BY <2>1, <2>2
<1> QED BY <1>2, <1>3 DEF LinkInv

\* The components of the path are in C.
WalkState(C) == [h : Mem, fp : Ptr, st : {"go", "none", "missing", "fault"}, miss : C \cup {Garbage},
                 via : SUBSET Nodes]

\* w is a state of a walk through h from start.
Walked(h, start, isPath, C, w) ==
  /\ w \in WalkState(C) /\ Reads(h, w.h) /\ (~isPath => w.h = h)
  /\ LinkInv(h) /\ At(h, start) => At(w.h, w.fp)

LEMMA StepWalks ==
  ASSUME NEW h, Good(h), NEW start, NEW isPath \in BOOLEAN, NEW C, NEW w, Walked(h, start, isPath, C, w),
         NEW c \in C, NEW n
  PROVE  Walked(h, start, isPath, C, Step(w, c, isPath, n))
<1> DEFINE here == IF isPath THEN scan(w.h, w.fp, n) ELSE w.h
           found == find(here, w.fp, c)
           v == Step(w, c, isPath, n)
<1> SUFFICES Walked(h, start, isPath, C, v)
  OBVIOUS
<1>0. w \in WalkState(C) /\ Reads(h, w.h) /\ (~isPath => w.h = h) /\ Good(w.h)
  BY DEF Walked, Reads
<1>1. ASSUME NEW st \in {"none", "fault"}, v = [w EXCEPT !.st = st] PROVE Walked(h, start, isPath, C, v)
  <2> HIDE DEF v
  <2>1. v \in WalkState(C) /\ v.h = w.h /\ v.fp = w.fp
    BY <1>0, <1>1 DEF WalkState
  <2>2. LinkInv(h) /\ At(h, start) => At(v.h, v.fp)
    BY <2>1 DEF Walked
  <2>3. Reads(h, v.h) /\ (~isPath => v.h = h)
    BY <1>0, <2>1
  <2> QED BY ONLY <2>1, <2>2, <2>3 DEF Walked
<1>2. CASE w.fp = NULL \/ w.fp \notin Live(w.h)
  <2>1. v = [w EXCEPT !.st = "fault"]
    BY <1>2 DEF Step
  <2> QED BY <1>1, <2>1
<1>3. CASE w.fp \in Live(w.h) /\ w.fp # NULL
  <2>0. IsTree(w.h, Live(w.h)) /\ w.h \in Mem /\ w.fp \in Nodes
    BY <1>0, <1>3, TreeIs DEF Good
  <2>1. CASE w.h[w.fp].kind \notin Directories
    <3>1. v = [w EXCEPT !.st = "none"]
      BY <1>3, <2>1 DEF Step
    <3> QED BY <1>1, <3>1
  <2>2. CASE w.h[w.fp].kind \in Directories /\ c = ""
    <3>1. v = [w EXCEPT !.st = "fault"]
      BY <1>3, <2>2 DEF Step
    <3> QED BY <1>1, <3>1
  <2>3. CASE w.h[w.fp].kind \in Directories /\ c = ".."
    <3>1. v = [w EXCEPT !.fp = w.h[w.fp].parent]
      BY <1>3, <2>3 DEF Step
    <3> HIDE DEF v
    <3>2. w.h[w.fp].parent \in Ptr
      BY <2>0, Pointers
    <3>3. v \in WalkState(C) /\ v.h = w.h /\ v.fp = w.h[w.fp].parent
      BY <1>0, <3>1, <3>2 DEF WalkState
    <3>4. ASSUME LinkInv(h) PROVE At(w.h, v.fp)
      <4>1. LinkInv(w.h)
        BY <1>0, <3>4, ReadsLinks
      <4>2. CASE w.fp = "/"
        BY <2>0, <3>3, <4>2, TreeIs DEF At
      <4>3. CASE w.fp # "/"
        BY <1>3, <2>0, <3>3, <4>1, <4>3, TreeIs DEF At, LinkInv
      <4> QED BY <4>2, <4>3
    <3> QED BY <1>0, <3>3, <3>4 DEF Walked
  <2>4. CASE w.h[w.fp].kind \in Directories /\ c = "."
    <3>1. v = w
      BY <1>3, <2>4 DEF Step
    <3> QED BY <3>1
  <2>5. CASE w.h[w.fp].kind \in Directories /\ c \notin {"", "..", "."}
    <3>0. CASE isPath /\ NoMemory(w.h, w.fp, n)
      <4>1. v = [w EXCEPT !.st = "fault"]
        BY <1>3, <2>5, <3>0 DEF Step
      <4> QED BY <1>1, <4>1
    <3> SUFFICES ASSUME ~(isPath /\ NoMemory(w.h, w.fp, n)) PROVE Walked(h, start, isPath, C, v)
      BY <3>0
    <3>1. v = IF found = NULL THEN [w EXCEPT !.h = here, !.st = "missing", !.miss = c]
              ELSE [w EXCEPT !.h = here, !.fp = Follow(here, found), !.via = @ \cup {found}]
      BY <1>3, <2>5 DEF Step
    <3>2. Reads(w.h, here)
      <4>1. CASE isPath
        BY <1>0, <1>3, <4>1, ScanReads
      <4>2. CASE ~isPath
        BY <1>0, <2>0, <4>2, GrowsNone DEF Reads
      <4> QED BY <4>1, <4>2
    <3>3. Reads(h, here) /\ (~isPath => here = h)
      BY <1>0, <3>2, ReadsTwice
    <3>4. IsTree(here, Live(here)) /\ here \in Mem /\ w.fp \in Live(here)
      BY <1>3, <3>2, TreeIs DEF Reads, Good, Grows
    <3>5. found = NULL \/ (found \in Live(here) /\ found \in Nodes)
      <4> HIDE DEF here
      <4> QED BY <3>4, FindIs, TreeIs
    <3> HIDE DEF here, v, found
    <3>6. CASE found = NULL
      <4>1. v \in WalkState(C) /\ v.h = here /\ v.fp = w.fp
        BY <1>0, <3>1, <3>4, <3>6 DEF WalkState
      <4>2. At(w.h, w.fp) => At(here, w.fp)
        BY <1>0, <3>2, ReadsLinks
      <4> QED BY <3>3, <4>1, <4>2 DEF Walked
    <3>7. CASE found # NULL
      <4>1. Follow(here, found) \in Ptr
        BY <3>4, <3>5, <3>7, Pointers DEF Follow, Ptr
      <4>2. v \in WalkState(C) /\ v.h = here /\ v.fp = Follow(here, found)
        BY <1>0, <3>1, <3>4, <3>5, <3>7, <4>1 DEF WalkState
      <4>3. ASSUME LinkInv(h) PROVE At(here, Follow(here, found))
        <5>1. LinkInv(here)
          BY <3>3, <4>3, ReadsLinks
        <5>2. NULL \notin Live(here)
          BY <3>4, TreeIs
        <5> QED BY <3>5, <3>7, <5>1, <5>2 DEF LinkInv, At, Follow
      <4> QED BY <3>3, <4>2, <4>3 DEF Walked
    <3> QED BY <3>6, <3>7
  <2> QED BY <2>1, <2>2, <2>3, <2>4, <2>5
<1> QED BY <1>2, <1>3

\* Walk as a loop over the components.
WalkRound(comps, isPath, n, i, w) ==
  IF w.st # "go" \/ \A j \in i .. Len(comps) : comps[j] = "" THEN w ELSE Step(w, comps[i], isPath, n)

WalkStart(h, start) == [h |-> h, fp |-> start, st |-> "go", miss |-> Garbage, via |-> {}]

WalkSteps(w, h, start, comps, isPath, n) ==
  w = [i \in Nat |-> IF i = 0 THEN WalkStart(h, start)
                     ELSE WalkRound(comps, isPath, n, i, w[i - 1])]

\* A lookup from start only brings files of the device, and while links are good
\* it ends at a file that is there and is no link.
LEMMA WalkIs ==
  ASSUME NEW h, Good(h), NEW start \in Ptr, NEW C, NEW comps \in Seq(C), NEW isPath \in BOOLEAN,
         NEW n
  PROVE  Walked(h, start, isPath, C, Walk(h, start, comps, isPath, n))
<1> DEFINE D == {w \in WalkState(C) : Walked(h, start, isPath, C, w)}
           b == WalkStart(h, start)
           F == [u \in Nat \X D |-> IF u[1] = 0 THEN u[2] ELSE WalkRound(comps, isPath, n, u[1], u[2])]
<1>1. b \in D
  <2>1. h \in Mem /\ Reads(h, h)
    BY TreeIs, GrowsNone DEF Good, Reads
  <2>2. b \in WalkState(C) /\ b.h = h /\ b.fp = start
    <3>1. {} \in SUBSET Nodes
      OBVIOUS
    <3> QED BY <2>1, <3>1 DEF WalkStart, WalkState
  <2> HIDE DEF b
  <2> QED BY <2>1, <2>2 DEF Walked
<1>2. ASSUME NEW i \in Nat, i # 0, NEW w \in D PROVE WalkRound(comps, isPath, n, i, w) \in D
  <2>1. CASE w.st # "go" \/ \A j \in i .. Len(comps) : comps[j] = ""
    BY <2>1 DEF WalkRound
  <2>2. CASE w.st = "go" /\ ~\A j \in i .. Len(comps) : comps[j] = ""
    <3>1. WalkRound(comps, isPath, n, i, w) = Step(w, comps[i], isPath, n)
      BY <2>2 DEF WalkRound
    <3>2. i \in 1 .. Len(comps)
      <4>1. PICK j \in i .. Len(comps) : TRUE
        BY <2>2, Zenon
      <4> QED BY <1>2, <4>1
    <3>3. comps[i] \in C
      BY <3>2
    <3>4. Walked(h, start, isPath, C, Step(w, comps[i], isPath, n))
      BY <3>3, StepWalks
    <3> QED BY <3>1, <3>4 DEF Walked
  <2> QED BY <2>1, <2>2
<1> DEFINE v == CHOOSE w : WalkSteps(w, h, start, comps, isPath, n)
<1>3. Walk(h, start, comps, isPath, n) = v[Len(comps)]
  BY DEF Walk, WalkSteps, WalkRound, WalkStart
<1>4. WalkSteps(v, h, start, comps, isPath, n)
  <2>1. F \in [Nat \X D -> D]
    <3> HIDE DEF D
    <3> QED BY <1>2
  <2>2. PICK w \in [Nat -> D] : IsCounted(w, b, F)
    <3> HIDE DEF D, F, b
    <3> QED BY <1>1, <2>1, CountedDefined
  <2>3. \A i \in Nat : i # 0 => i - 1 \in Nat
                                /\ F[<<i, w[i - 1]>>] = WalkRound(comps, isPath, n, i, w[i - 1])
    <3> HIDE DEF D
    <3> QED OBVIOUS
  <2>4. WalkSteps(w, h, start, comps, isPath, n)
    <3> HIDE DEF D, F
    <3> QED BY <2>2, <2>3 DEF IsCounted, WalkSteps
  <2> QED BY <2>4, Zenon
<1> HIDE DEF v
<1>5. v[0] = b /\ \A i \in Nat : v[i + 1] = WalkRound(comps, isPath, n, i + 1, v[i])
  <2>1. \A i \in Nat : i + 1 \in Nat /\ i + 1 # 0 /\ (i + 1) - 1 = i
    OBVIOUS
  <2> QED BY <1>4, <2>1 DEF WalkSteps
<1>6. \A i \in Nat : v[i] \in D => v[i + 1] \in D
  <2> TAKE i \in Nat
  <2>1. i + 1 \in Nat /\ i + 1 # 0
    OBVIOUS
  <2> HIDE DEF D
  <2> QED BY <1>2, <1>5, <2>1
<1>7. \A i \in Nat : v[i] \in D
  <2> HIDE DEF D, b, F
  <2> QED BY <1>1, <1>5, <1>6, LoopStays
<1>8. Len(comps) \in Nat
  OBVIOUS
<1> QED BY <1>3, <1>7, <1>8

-------------------------------------------------------------------------------
(* What lies under a file. *)

\* S has n and what lies under the files in S, and nothing else.
Descent(h, n, S) ==
  /\ n \in S /\ S \subseteq Live(h)
  /\ \A m \in Live(h) : h[m].parent \in S => m \in S
  /\ \A m \in S : m # n => h[m].parent \in S

\* Subtree as a loop.
UpRound(h, S) == S \cup {m \in Live(h) : h[m].parent \in S}
UpSteps(w, h, n) == w = [i \in Nat |-> IF i = 0 THEN {n} ELSE UpRound(h, w[i - 1])]

LEMMA SubtreeIs ==
  ASSUME NEW h, NEW n \in Live(h)
  PROVE  Descent(h, n, Subtree(h, n))
<1> DEFINE D == {S \in SUBSET Live(h) : n \in S /\ \A m \in S : m # n => h[m].parent \in S}
           F == [S \in D |-> UpRound(h, S)]
           b == {n}
<1>1. b \in D
  OBVIOUS
<1>2. ASSUME NEW S \in D PROVE UpRound(h, S) \in D
  BY DEF UpRound
<1> DEFINE v == CHOOSE w : UpSteps(w, h, n)
<1>3. Subtree(h, n) = v[Cap]
  BY DEF Subtree, UpSteps, UpRound
<1>4. UpSteps(v, h, n)
  <2>1. F \in [D -> D]
    BY <1>2
  <2>2. PICK w \in [Nat -> D] : IsLoop(w, b, F)
    <3> HIDE DEF D, F, b
    <3> QED BY <1>1, <2>1, LoopDefined
  <2>3. \A i \in Nat : i # 0 => i - 1 \in Nat /\ F[w[i - 1]] = UpRound(h, w[i - 1])
    <3> HIDE DEF D
    <3> QED OBVIOUS
  <2>4. UpSteps(w, h, n)
    <3> HIDE DEF D, F
    <3> QED BY <2>2, <2>3 DEF IsLoop, UpSteps
  <2> QED BY <2>4, Zenon
<1> HIDE DEF v
<1>5. v[0] = b /\ \A i \in Nat : v[i + 1] = UpRound(h, v[i])
  <2>1. \A i \in Nat : i + 1 \in Nat /\ i + 1 # 0 /\ (i + 1) - 1 = i
    OBVIOUS
  <2> QED BY <1>4, <2>1 DEF UpSteps
<1>6. \A i \in Nat : v[i] \in D
  <2>1. \A i \in Nat : v[i] \in D => v[i + 1] \in D
    BY <1>2, <1>5
  <2> HIDE DEF D, b, F
  <2> QED BY <1>1, <1>5, <2>1, LoopStays
<1> DEFINE M == [S \in D |-> Cap - Cardinality(S)]
           Done == {S \in D : UpRound(h, S) = S}
<1>7. ASSUME NEW S \in D PROVE IsFiniteSet(S) /\ Cardinality(S) \in Nat /\ Cardinality(S) <= Cap
  <2>1. S \subseteq Nodes
    BY DEF Live
  <2> QED BY <2>1, NodesAre, FS_Subset, FS_CardinalityType DEF Cap
<1>8. M \in [D -> Nat] /\ \A S \in D : M[S] = Cap - Cardinality(S)
  <2>1. \A S \in D : Cap - Cardinality(S) \in Nat
    <3> HIDE DEF D
    <3> QED BY <1>7, NodesAre
  <2> HIDE DEF D
  <2> QED BY <2>1
<1>9. ASSUME NEW k \in Nat
      PROVE  \/ v[k] \in Done /\ v[k + 1] = v[k]
             \/ v[k] \notin Done /\ M[v[k + 1]] < M[v[k]]
  <2>1. v[k] \in D /\ v[k + 1] \in D /\ v[k + 1] = UpRound(h, v[k])
    BY <1>5, <1>6
  <2>2. CASE v[k] \in Done
    BY <2>1, <2>2
  <2>3. CASE v[k] \notin Done
    <3>1. v[k] \subseteq v[k + 1] /\ v[k] # v[k + 1]
      BY <2>1, <2>3 DEF UpRound
    <3>2. Cardinality(v[k]) < Cardinality(v[k + 1])
      BY <1>7, <2>1, <3>1, FS_Subset
    <3>3. Cap \in Nat /\ Cardinality(v[k]) \in Nat /\ Cardinality(v[k + 1]) \in Nat
      BY <1>7, <2>1, NodesAre
    <3> HIDE DEF D, M
    <3> QED BY <1>8, <2>1, <2>3, <3>2, <3>3
  <2> QED BY <2>2, <2>3
<1>10. v[Cap] \in Done
  <2>1. M[v[0]] <= Cap
    <3>1. v[0] \in D
      BY <1>6
    <3> HIDE DEF D, M
    <3> QED BY <1>7, <1>8, <3>1, NodesAre
  <2> HIDE DEF D, M, Done
  <2> QED BY <1>6, <1>8, <1>9, <2>1, NodesAre, LoopEnds
<1> QED BY <1>3, <1>10 DEF Descent, UpRound

\* Everything lies under the root.
LEMMA AllUnderRoot ==
  ASSUME NEW h, IsTree(h, Live(h))
  PROVE  Subtree(h, "/") = Live(h)
<1> DEFINE S == Subtree(h, "/")
<1>1. PICK pos, level : Shape(h, Live(h), pos, level)
  BY DEF IsTree
<1>2. Descent(h, "/", S)
  BY <1>1, SubtreeIs DEF Shape
<1> HIDE DEF S
<1> DEFINE T == {k \in Nat : \A x \in Live(h) : level[x] <= k => x \in S}
<1>3. \A x \in Live(h) : /\ level[x] \in Nat /\ h["/"].parent = NULL
                         /\ x # "/" => h[x].parent \in Live(h) /\ level[h[x].parent] < level[x]
  BY <1>1 DEF Shape, Under
<1>4. 0 \in T
  BY <1>2, <1>3 DEF Descent
<1>5. ASSUME NEW k \in T PROVE k + 1 \in T
  <2>1. ASSUME NEW x \in Live(h), level[x] <= k + 1 PROVE x \in S
    <3>1. CASE x = "/"
      BY <1>2, <3>1 DEF Descent
    <3>2. CASE x # "/"
      <4>1. h[x].parent \in Live(h) /\ level[h[x].parent] <= k
        BY <1>3, <2>1, <3>2
      <4> QED BY <1>2, <4>1 DEF Descent
    <3> QED BY <3>1, <3>2
  <2> QED BY <2>1
<1>6. T = Nat
  <2>1. T \in SUBSET Nat
    OBVIOUS
  <2> HIDE DEF T
  <2> QED BY <1>4, <1>5, <2>1, NatSetInduction
<1>7. \A x \in Live(h) : x \in S
  BY <1>3, <1>6
<1> QED BY <1>2, <1>7 DEF S, Descent

-------------------------------------------------------------------------------
(* What ~File leaves. *)

\* f is h without the files in gone, which lie under p: its siblings are joined.
Cut(h, f, p, gone) ==
  /\ f \in Mem
  /\ \A x \in Live(h) \ gone :
       /\ SameFile(f[x], h[x]) /\ f[x].parent = h[x].parent
       /\ f[x].child = IF h[x].child = p THEN h[p].next ELSE h[x].child
       /\ f[x].next = IF h[x].next = p THEN h[p].next ELSE h[x].next
       /\ f[x].prec = IF h[x].prec = p THEN h[p].prec ELSE h[x].prec

\* The parent of p does not lie under p.
LEMMA AboveIsOutside ==
  ASSUME NEW h, NEW pos, NEW level, Shape(h, Live(h), pos, level), NEW p \in Live(h), p # "/",
         NEW gone, Descent(h, p, gone)
  PROVE  "/" \notin gone /\ h[p].parent \in Live(h) \ gone
<1>1. /\ gone \subseteq Live(h)
      /\ \A x \in Live(h) :
           /\ level[x] \in Nat
           /\ x # "/" => h[x].parent \in Live(h) /\ level[h[x].parent] < level[x]
  BY DEF Shape, Under, Descent
<1>2. "/" \notin gone
  <2>1. NULL \notin gone /\ h["/"].parent = NULL
    BY NodesAre DEF Shape, Descent
  <2> QED BY <2>1 DEF Descent
<1> DEFINE K == {level[x] : x \in gone}
<1>3. K \in SUBSET Nat /\ K # {}
  BY <1>1 DEF Descent
<1>4. PICK k \in K : \A j \in K : k <= j
  <2> HIDE DEF K
  <2> QED BY <1>3, NatSetMin
<1>5. PICK x \in gone : level[x] = k
  BY <1>4
<1>6. x = p
  <2>1. ASSUME x # p PROVE FALSE
    <3>1. h[x].parent \in gone
      BY <2>1 DEF Descent
    <3>2. level[h[x].parent] < level[x] /\ level[x] \in Nat /\ level[h[x].parent] \in Nat
      BY <1>1, <1>2, <3>1
    <3>3. level[h[x].parent] \in K
      BY <3>1
    <3>4. k <= level[h[x].parent]
      BY <1>4, <3>3
    <3> HIDE DEF K
    <3> QED BY <1>5, <3>2, <3>4
  <2> QED BY <2>1
<1>7. level[h[p].parent] < level[p] /\ h[p].parent \in Live(h)
  BY <1>1
<1>8. h[p].parent \notin gone
  <2>1. ASSUME h[p].parent \in gone PROVE FALSE
    <3>1. level[h[p].parent] \in K /\ level[h[p].parent] \in Nat /\ level[p] \in Nat
      BY <1>1, <2>1
    <3> QED BY <1>4, <1>5, <1>6, <1>7, <3>1
  <2> QED BY <2>1
<1> QED BY <1>2, <1>7, <1>8

LEMMA CutTree ==
  ASSUME NEW h, NEW f, IsTree(h, Live(h)), NEW p \in Live(h), p # "/", NEW gone, Descent(h, p, gone),
         Cut(h, f, p, gone)
  PROVE  IsTree(f, Live(h) \ gone)
<1> DEFINE L == Live(h)
           M == L \ gone
<1>1. PICK pos, level : Shape(h, L, pos, level)
  BY DEF IsTree
<1>2. /\ h \in Mem /\ L \subseteq Nodes /\ "/" \in L /\ h["/"].parent = NULL
      /\ pos \in [Nodes -> Nat] /\ level \in [Nodes -> Nat]
      /\ \A n \in L : Linked(h, L, pos, n) /\ Under(h, L, level, n)
  BY <1>1 DEF Shape
<1>3. "/" \in M /\ h[p].parent \in M /\ NULL \notin L
  BY <1>1, <1>2, AboveIsOutside, NodesAre
<1>4. p \in gone /\ p \in L /\ p \notin M
  BY DEF Descent
<1>5. /\ \A x \in L : h[x].parent \in M => x \in M \/ x = p
      /\ \A x \in M : x # "/" => h[x].parent \in M
  BY <1>2 DEF Descent, Under
<1>6. \A x \in M : x \in L /\ SameFile(f[x], h[x]) /\ f[x].parent = h[x].parent
  BY DEF Cut
<1>7. \A x \in M : /\ f[x].child = IF h[x].child = p THEN h[p].next ELSE h[x].child
                   /\ f[x].next = IF h[x].next = p THEN h[p].next ELSE h[x].next
                   /\ f[x].prec = IF h[x].prec = p THEN h[p].prec ELSE h[x].prec
  BY DEF Cut
<1>8. Linked(h, L, pos, p) /\ Under(h, L, level, p)
  BY <1>2
<1> HIDE DEF L, M
<1>9. (h[p].next # NULL => h[p].next \in M) /\ (h[p].prec # NULL => h[p].prec \in M)
  <2>1. ASSUME h[p].next # NULL PROVE h[p].next \in M
    <3>1. h[p].next \in L /\ h[h[p].next].parent = h[p].parent /\ h[h[p].next].prec = p /\ pos[p] < pos[h[p].next]
      BY <1>8, <2>1 DEF Linked
    <3>2. h[p].next # p
      BY <1>2, <1>4, <3>1
    <3> QED BY <1>3, <1>5, <3>1, <3>2
  <2>2. ASSUME h[p].prec # NULL PROVE h[p].prec \in M
    <3>1. h[p].prec \in L /\ h[h[p].prec].next = p
      BY <1>8, <2>2 DEF Linked
    <3>2. Linked(h, L, pos, h[p].prec)
      BY <1>2, <3>1
    <3>3. p # NULL
      BY <1>3, <1>4
    <3>4. h[h[p].prec].parent = h[p].parent /\ pos[h[p].prec] < pos[p]
      BY <3>1, <3>2, <3>3 DEF Linked
    <3>5. h[p].prec # p
      BY <1>2, <1>4, <3>4
    <3> QED BY <1>3, <1>5, <3>1, <3>4, <3>5
  <2> QED BY <2>1, <2>2
<1>10. ASSUME NEW x \in M PROVE Linked(f, M, pos, x)
  <2>0. Linked(h, L, pos, x) /\ x \in L /\ x # p
    BY <1>2, <1>4, <1>6
  <2>1. ASSUME f[x].child # NULL
        PROVE  /\ f[x].child \in M /\ f[f[x].child].parent = x /\ f[f[x].child].prec = NULL
    <3>1. CASE h[x].child = p
      <4>1. f[x].child = h[p].next /\ h[p].next # NULL /\ h[p].parent = x /\ h[p].prec = NULL
        BY <1>3, <1>4, <1>7, <2>0, <2>1, <3>1 DEF Linked
      <4>2. h[h[p].next].parent = x /\ h[h[p].next].prec = p /\ h[p].next \in M
        BY <1>8, <1>9, <4>1 DEF Linked
      <4> QED BY <1>6, <1>7, <4>1, <4>2
    <3>2. CASE h[x].child # p
      <4>1. f[x].child = h[x].child /\ h[x].child # NULL
        BY <1>7, <2>1, <3>2
      <4>2. h[x].child \in L /\ h[h[x].child].parent = x /\ h[h[x].child].prec = NULL
        BY <2>0, <4>1 DEF Linked
      <4>3. h[x].child \in M
        BY <1>5, <3>2, <4>2
      <4>4. NULL # p
        BY <1>3, <1>4
      <4> QED BY <1>6, <1>7, <4>1, <4>2, <4>3, <4>4
    <3> QED BY <3>1, <3>2
  <2>2. ASSUME f[x].next # NULL
        PROVE  /\ f[x].next \in M /\ f[f[x].next].parent = f[x].parent
               /\ f[f[x].next].prec = x /\ pos[x] < pos[f[x].next]
    <3>1. CASE h[x].next = p
      <4>1. f[x].next = h[p].next /\ h[p].next # NULL
        BY <1>7, <2>2, <3>1
      <4>2. h[p].parent = h[x].parent /\ h[p].prec = x /\ pos[x] < pos[p]
        BY <1>3, <1>4, <2>0, <3>1 DEF Linked
      <4>3. h[p].next \in M /\ h[h[p].next].parent = h[p].parent /\ h[h[p].next].prec = p /\ pos[p] < pos[h[p].next]
        BY <1>8, <1>9, <4>1 DEF Linked
      <4>4. pos[x] \in Nat /\ pos[p] \in Nat /\ pos[h[p].next] \in Nat
        BY <1>2, <1>4, <1>6, <2>0, <4>3
      <4>5. pos[x] < pos[h[p].next]
        BY <4>2, <4>3, <4>4
      <4> QED BY <1>6, <1>7, <4>1, <4>2, <4>3, <4>5
    <3>2. CASE h[x].next # p
      <4>1. f[x].next = h[x].next /\ h[x].next # NULL
        BY <1>7, <2>2, <3>2
      <4>2. h[x].next \in L /\ h[h[x].next].parent = h[x].parent /\ h[h[x].next].prec = x /\ pos[x] < pos[h[x].next]
        BY <2>0, <4>1 DEF Linked
      <4>3. h[x].next \in M
        <5>1. CASE x = "/"
          BY <1>2, <1>3, <1>4, <4>2, <5>1 DEF Descent, Under, Shape
        <5>2. CASE x # "/"
          BY <1>5, <3>2, <4>2, <5>2
        <5> QED BY <5>1, <5>2
      <4> QED BY <1>6, <1>7, <2>0, <4>1, <4>2, <4>3
    <3> QED BY <3>1, <3>2
  <2>3. ASSUME f[x].prec # NULL PROVE f[x].prec \in M /\ f[f[x].prec].next = x
    <3>1. CASE h[x].prec = p
      <4>1. f[x].prec = h[p].prec /\ h[p].prec # NULL
        BY <1>7, <2>3, <3>1
      <4>2. h[p].prec \in M /\ h[h[p].prec].next = p /\ h[p].next = x
        BY <1>3, <1>4, <1>8, <1>9, <2>0, <3>1, <4>1 DEF Linked
      <4> QED BY <1>6, <1>7, <4>1, <4>2
    <3>2. CASE h[x].prec # p
      <4>1. f[x].prec = h[x].prec /\ h[x].prec # NULL
        BY <1>7, <2>3, <3>2
      <4>2. h[x].prec \in L /\ h[h[x].prec].next = x
        BY <2>0, <4>1 DEF Linked
      <4>3. Linked(h, L, pos, h[x].prec) /\ x # NULL
        BY <1>2, <1>3, <2>0, <4>2
      <4>4. h[h[x].prec].parent = h[x].parent
        BY <4>2, <4>3 DEF Linked
      <4>5. h[x].prec \in M
        <5>1. CASE x = "/"
          BY <1>2, <1>3, <1>4, <4>2, <4>4, <5>1 DEF Descent, Under, Shape
        <5>2. CASE x # "/"
          BY <1>5, <3>2, <4>2, <4>4, <5>2
        <5> QED BY <5>1, <5>2
      <4> QED BY <1>7, <2>0, <4>1, <4>2, <4>5
    <3> QED BY <3>1, <3>2
  <2> QED BY <2>1, <2>2, <2>3 DEF Linked
<1>11. ASSUME NEW x \in M PROVE Under(f, M, level, x)
  <2>0. Linked(h, L, pos, x) /\ Under(h, L, level, x) /\ x \in L /\ x # p
    BY <1>2, <1>4, <1>6
  <2>1. ASSUME x # "/" PROVE f[x].parent \in M /\ level[f[x].parent] < level[x]
    BY <1>5, <1>6, <2>0, <2>1 DEF Under
  <2>2. ASSUME x # "/", f[x].prec = NULL PROVE f[f[x].parent].child = x
    <3>0. h[x].parent \in M /\ f[x].parent = h[x].parent
      BY <1>5, <1>6, <2>2
    <3>1. CASE h[x].prec = p
      <4>1. h[p].prec = NULL /\ h[p].next = x
        BY <1>3, <1>4, <1>7, <2>0, <2>2, <3>1 DEF Linked
      <4>2. h[x].parent = h[p].parent /\ h[h[p].parent].child = p
        BY <1>3, <1>8, <2>0, <4>1 DEF Linked, Under
      <4> QED BY <1>7, <3>0, <4>1, <4>2
    <3>2. CASE h[x].prec # p
      <4>1. h[x].prec = NULL
        BY <1>7, <2>2, <3>2
      <4>2. h[h[x].parent].child = x
        BY <2>0, <2>2, <4>1 DEF Under
      <4> QED BY <1>7, <2>0, <3>0, <4>2
    <3> QED BY <3>1, <3>2
  <2> QED BY <2>1, <2>2 DEF Under
<1>12. f["/"].parent = NULL /\ f \in Mem /\ M \subseteq Nodes
  BY <1>2, <1>3, <1>6 DEF Cut, M
<1>13. Shape(f, M, pos, level)
  BY <1>2, <1>3, <1>10, <1>11, <1>12 DEF Shape
<1> QED BY <1>13 DEF IsTree, M, L

\* The other directories keep their children, and that of p loses p.
LEMMA CutKids ==
  ASSUME NEW h, NEW f, IsTree(h, Live(h)), NEW p \in Live(h), p # "/", NEW gone, Descent(h, p, gone),
         Cut(h, f, p, gone)
  PROVE  /\ Kids(f, h[p].parent) = RemoveAt(Kids(h, h[p].parent), Index(h, p))
         /\ \A e \in Live(h) \ gone : e # h[p].parent => Kids(f, e) = Kids(h, e)
<1> DEFINE L == Live(h)
           M == L \ gone
           d == h[p].parent
<1>1. IsTree(f, M)
  BY CutTree
<1>2. PICK pos, level : Shape(h, L, pos, level)
  BY DEF IsTree
<1>3. d \in M /\ h \in Mem /\ L \subseteq Nodes /\ NULL \notin L /\ p \in gone /\ d \in L
  BY <1>2, AboveIsOutside, TreeIs DEF Descent
<1>4. \A x \in L : x # p /\ h[x].parent \in M => x \in M
  BY DEF Descent
<1>5. \A x \in M : /\ f[x].parent = h[x].parent
                   /\ f[x].child = IF h[x].child = p THEN h[p].next ELSE h[x].child
                   /\ f[x].next = IF h[x].next = p THEN h[p].next ELSE h[x].next
                   /\ f[x].prec = IF h[x].prec = p THEN h[p].prec ELSE h[x].prec
  BY DEF Cut
<1> HIDE DEF M
<1>6. ASSUME NEW e \in M, e # d PROVE Kids(f, e) = Kids(h, e)
  <2> DEFINE s == Kids(h, e)
  <2>1. AllKids(h, L, e, s) /\ e \in L
    BY KidsAll DEF M
  <2>2. AllKids(f, M, e, Kids(f, e))
    BY <1>1, KidsAll
  <2> HIDE DEF s
  <2>3. s \in Seq(Nodes) /\ Len(s) \in Nat
    BY <2>1 DEF AllKids, Chain
  <2>4. \A i \in 1 .. Len(s) : /\ s[i] \in L /\ h[s[i]].parent = e
                               /\ h[s[i]].prec = IF i = 1 THEN NULL ELSE s[i - 1]
                               /\ s[i] = IF i = 1 THEN h[e].child ELSE h[s[i - 1]].next
    BY <2>1 DEF AllKids, Chain
  <2>5. \A i \in 1 .. Len(s) : s[i] \in M /\ s[i] # p
    BY <1>4, <1>6, <2>4
  <2>6. h[e].child # p
    <3>1. Linked(h, L, pos, e)
      BY <1>2, <2>1 DEF Shape
    <3> QED BY <1>3, <1>6, <3>1 DEF Linked
  <2>7. \A i \in 1 .. Len(s) : h[s[i]].next # p
    <3> TAKE i \in 1 .. Len(s)
    <3>1. Linked(h, L, pos, s[i])
      BY <1>2, <2>4 DEF Shape
    <3>2. h[s[i]].parent = e
      BY <2>4
    <3> QED BY <1>3, <1>6, <3>1, <3>2 DEF Linked
  <2>8. \A i \in 1 .. Len(s) : i # 1 => i - 1 \in 1 .. Len(s)
    BY <2>3
  <2>9. NULL # p
    BY <1>3
  <2>10. \A i \in 1 .. Len(s) : /\ f[s[i]].parent = e
                                /\ f[s[i]].prec = IF i = 1 THEN NULL ELSE s[i - 1]
                                /\ s[i] = IF i = 1 THEN f[e].child ELSE f[s[i - 1]].next
    <3> TAKE i \in 1 .. Len(s)
    <3>1. CASE i = 1
      BY <1>5, <1>6, <2>4, <2>5, <2>6, <2>9, <3>1
    <3>2. CASE i # 1
      <4>1. s[i - 1] \in M /\ s[i - 1] # p /\ h[s[i - 1]].next # p /\ s[i] \in M /\ s[i] # p
        BY <2>5, <2>7, <2>8, <3>2
      <4>2. h[s[i]].parent = e /\ h[s[i]].prec = s[i - 1] /\ s[i] = h[s[i - 1]].next
        BY <2>4, <3>2
      <4> QED BY <1>5, <3>2, <4>1, <4>2
    <3> QED BY <3>1, <3>2
  <2>11. Chain(f, M, e, s)
    BY <2>3, <2>5, <2>10 DEF Chain
  <2>12. After(f, e, s) = NULL
    <3>1. After(h, e, s) = NULL
      BY <2>1 DEF AllKids
    <3>2. CASE s = <<>>
      BY <1>5, <1>6, <2>6, <3>1, <3>2 DEF After
    <3>3. CASE s # <<>>
      <4>1. Len(s) \in 1 .. Len(s)
        BY <2>3, <3>3
      <4>2. s[Len(s)] \in M /\ h[s[Len(s)]].next # p
        BY <2>5, <2>7, <4>1
      <4> QED BY <1>5, <3>1, <3>3, <4>2 DEF After
    <3> QED BY <3>2, <3>3
  <2>13. AllKids(f, M, e, s) /\ M \subseteq Nodes
    BY <1>3, <2>11, <2>12 DEF AllKids, M
  <2> QED BY <2>2, <2>13, KidsUnique DEF s
<1> DEFINE s == Kids(h, d)
           k == Index(h, p)
           t == RemoveAt(s, k)
<1>7. Kids(f, d) = t
  <2>1. AllKids(h, L, d, s) /\ s \in Seq(Nodes) /\ Len(s) \in Nat
    BY <1>3, KidsAll DEF AllKids, Chain
  <2>2. AllKids(f, M, d, Kids(f, d))
    BY <1>1, <1>3, KidsAll
  <2>3. k \in 1 .. Len(s) /\ s[k] = p
    BY HasIndex
  <2>4. \A i, j \in 1 .. Len(s) : s[i] = s[j] => i = j
    BY <1>2, <1>3, <2>1, ChainShort DEF AllKids
  <2>5. \A i \in 1 .. Len(s) : /\ s[i] \in L /\ h[s[i]].parent = d
                               /\ h[s[i]].prec = IF i = 1 THEN NULL ELSE s[i - 1]
                               /\ s[i] = IF i = 1 THEN h[d].child ELSE h[s[i - 1]].next
    BY <2>1 DEF AllKids, Chain
  <2>6. s = <<>> \/ h[s[Len(s)]].next = NULL
    BY <2>1 DEF AllKids, After
  <2> HIDE DEF s, k, d
  <2>7. /\ t \in Seq(Nodes) /\ Len(t) = Len(s) - 1
        /\ \A i \in 1 .. Len(s) - 1 : t[i] = IF i < k THEN s[i] ELSE s[i + 1]
    BY <2>1, <2>3, Removed
  <2> HIDE DEF t
  <2>8. \A i \in 1 .. Len(s) : i # k => s[i] \in M /\ s[i] # p
    BY <1>3, <1>4, <2>3, <2>4, <2>5
  <2> DEFINE nx == IF k = Len(s) THEN NULL ELSE s[k + 1]
  <2>9. h[p].next = nx /\ h[p].prec = IF k = 1 THEN NULL ELSE s[k - 1]
    <3>1. CASE k = Len(s)
      BY <2>1, <2>3, <2>5, <2>6, <3>1
    <3>2. CASE k # Len(s)
      <4>1. k + 1 \in 1 .. Len(s) /\ k + 1 # 1 /\ (k + 1) - 1 = k
        BY <2>1, <2>3, <3>2
      <4> QED BY <2>3, <2>5, <3>2, <4>1
    <3> QED BY <3>1, <3>2
  <2>10. NULL # p /\ d \in M
    BY <1>3 DEF d
  <2>11. ASSUME NEW i \in 1 .. Len(t)
         PROVE  /\ t[i] \in M /\ f[t[i]].parent = d
                /\ f[t[i]].prec = IF i = 1 THEN NULL ELSE t[i - 1]
                /\ t[i] = IF i = 1 THEN f[d].child ELSE f[t[i - 1]].next
    <3>0. i \in 1 .. Len(s) - 1 /\ i \in 1 .. Len(s) /\ i + 1 \in 1 .. Len(s) /\ k \in Nat /\ i \in Nat
          /\ Len(s) \in Nat
      BY <2>1, <2>3, <2>7
    <3>1. CASE i < k
      <4>1. t[i] = s[i] /\ s[i] \in M /\ s[i] # p /\ h[s[i]].parent = d
        BY <2>5, <2>7, <2>8, <3>0, <3>1
      <4>2. CASE i = 1
        BY <1>5, <2>5, <2>10, <3>0, <4>1, <4>2
      <4>3. CASE i # 1
        <5>1. i - 1 \in 1 .. Len(s) - 1 /\ i - 1 \in 1 .. Len(s) /\ i - 1 < k /\ i - 1 # k
          BY <3>0, <3>1, <4>3
        <5>2. t[i - 1] = s[i - 1] /\ s[i - 1] \in M /\ s[i - 1] # p
          BY <2>7, <2>8, <5>1
        <5>3. h[s[i]].prec = s[i - 1] /\ s[i] = h[s[i - 1]].next
          BY <2>5, <3>0, <4>3
        <5> QED BY <1>5, <4>1, <4>3, <5>2, <5>3
      <4> QED BY <4>2, <4>3
    <3>2. CASE i = k
      <4>1. t[i] = s[i + 1] /\ s[i + 1] \in M /\ s[i + 1] # p
        BY <2>7, <2>8, <3>0, <3>2
      <4>2. h[s[i + 1]].parent = d /\ h[s[i + 1]].prec = p /\ h[p].next = s[i + 1]
        <5>1. i + 1 # 1 /\ (i + 1) - 1 = i
          BY <3>0
        <5> QED BY <2>3, <2>5, <3>0, <3>2, <5>1
      <4>3. CASE i = 1
        <5>1. h[d].child = p /\ h[p].prec = NULL
          BY <2>3, <2>5, <2>9, <3>0, <3>2, <4>3
        <5> QED BY <1>5, <2>10, <4>1, <4>2, <4>3, <5>1
      <4>4. CASE i # 1
        <5>1. i - 1 \in 1 .. Len(s) - 1 /\ i - 1 \in 1 .. Len(s) /\ i - 1 < k /\ i - 1 # k
          BY <3>0, <3>2, <4>4
        <5>2. t[i - 1] = s[i - 1] /\ s[i - 1] \in M
          BY <2>7, <2>8, <5>1
        <5>3. h[p].prec = s[i - 1] /\ h[s[i - 1]].next = p
          BY <2>3, <2>5, <2>9, <3>0, <3>2, <4>4
        <5> QED BY <1>5, <4>1, <4>2, <4>4, <5>2, <5>3
      <4> QED BY <4>3, <4>4
    <3>3. CASE i > k
      <4>1. t[i] = s[i + 1] /\ s[i + 1] \in M /\ s[i + 1] # p /\ s[i] \in M /\ s[i] # p
        BY <2>7, <2>8, <3>0, <3>3
      <4>2. h[s[i + 1]].parent = d /\ h[s[i + 1]].prec = s[i] /\ h[s[i]].next = s[i + 1]
        <5>1. i + 1 # 1 /\ (i + 1) - 1 = i
          BY <3>0
        <5> QED BY <2>5, <3>0, <5>1
      <4>3. i # 1 /\ t[i - 1] = s[i]
        <5>1. i - 1 \in 1 .. Len(s) - 1 /\ ~(i - 1 < k) /\ (i - 1) + 1 = i
          BY <2>3, <3>0, <3>3
        <5> QED BY <2>7, <3>0, <5>1
      <4> QED BY <1>5, <4>1, <4>2, <4>3
    <3> QED BY <3>0, <3>1, <3>2, <3>3
  <2>12. Chain(f, M, d, t)
    BY <2>7, <2>11 DEF Chain
  <2>13. After(f, d, t) = NULL
    <3>1. CASE Len(s) = 1
      <4>1. k = 1 /\ t = <<>> /\ h[d].child = p /\ h[p].next = NULL
        BY <2>3, <2>5, <2>7, <2>9, <3>1
      <4> QED BY <1>5, <2>10, <4>1 DEF After
    <3>2. CASE Len(s) # 1 /\ k = Len(s)
      <4>1. Len(t) = k - 1 /\ Len(t) \in 1 .. Len(s) /\ Len(t) \in 1 .. Len(s) - 1 /\ Len(t) < k /\ t # <<>>
        BY <2>1, <2>3, <2>7, <3>2
      <4>2. t[Len(t)] = s[Len(t)] /\ s[Len(t)] \in M
        BY <2>7, <2>8, <4>1
      <4>3. h[s[Len(t)]].next = p
        BY <2>3, <2>5, <3>2, <4>1
      <4>4. f[s[Len(t)]].next = NULL
        BY <1>5, <2>9, <3>2, <4>2, <4>3
      <4> QED BY <4>1, <4>2, <4>4 DEF After
    <3>3. CASE Len(s) # 1 /\ k # Len(s)
      <4>1. /\ Len(t) + 1 = Len(s) /\ Len(s) \in 1 .. Len(s) /\ Len(t) \in 1 .. Len(s) - 1 /\ ~(Len(t) < k)
            /\ t # <<>>
        BY <2>1, <2>3, <2>7, <3>3
      <4>2. t[Len(t)] = s[Len(s)] /\ s[Len(s)] \in M
        BY <2>7, <2>8, <3>3, <4>1
      <4>3. h[s[Len(s)]].next = NULL
        BY <2>3, <2>6, <4>1
      <4>4. f[s[Len(s)]].next = NULL
        BY <1>5, <2>10, <4>2, <4>3
      <4> QED BY <4>1, <4>2, <4>4 DEF After
    <3> QED BY <3>1, <3>2, <3>3
  <2>14. AllKids(f, M, d, t) /\ M \subseteq Nodes
    BY <1>3, <2>12, <2>13 DEF AllKids, M
  <2> QED BY <2>2, <2>14, KidsUnique
<1> QED BY <1>6, <1>7 DEF M

\* Delete does that, in a memory u that has the file m besides the tree h.
LEMMA DeleteCuts ==
  ASSUME NEW h, NEW u, IsTree(h, Live(h)), NEW p \in Live(h), p # "/", NEW m \in Nodes \ Live(h),
         u \in Mem, \A x \in Live(h) : u[x] = h[x], Live(u) = Live(h) \cup {m}, u[m].parent = NULL
  PROVE  LET gone == Subtree(u, p)
             f == Delete(u, p)
         IN  /\ Descent(h, p, gone) /\ Cut(h, f, p, gone) /\ f[m] = u[m]
             /\ Live(f) = (Live(h) \ gone) \cup {m}
<1> DEFINE L == Live(h)
           gone == Subtree(u, p)
           f == Delete(u, p)
           par == u[p].parent
           pr == u[p].prec
           nx == u[p].next
           before == IF pr = NULL THEN [u EXCEPT ![par].child = nx] ELSE [u EXCEPT ![pr].next = nx]
           after == IF nx = NULL THEN before ELSE [before EXCEPT ![nx].prec = pr]
<1>1. f = [x \in Nodes |-> IF x \in gone THEN Free ELSE after[x]]
  BY DEF Delete
<1>2. Descent(u, p, gone)
  <2>1. p \in Live(u)
    OBVIOUS
  <2> QED BY <2>1, SubtreeIs
<1> HIDE DEF f, gone
<1>3. PICK pos, level : Shape(h, L, pos, level)
  BY DEF IsTree
<1>4. /\ h \in Mem /\ L \subseteq Nodes /\ NULL \notin L
      /\ \A n \in L : Linked(h, L, pos, n) /\ Under(h, L, level, n)
  BY <1>3, TreeIs DEF Shape
<1>5. m \notin gone /\ Descent(h, p, gone)
  <2>1. m \notin gone
    <3>1. NULL \notin gone /\ m # p
      BY <1>2, <1>4, NodesAre DEF Descent
    <3> QED BY <1>2, <3>1 DEF Descent
  <2>2. gone \subseteq L
    BY <1>2, <2>1 DEF Descent
  <2> QED BY <1>2, <2>1, <2>2 DEF Descent
<1>6. /\ par = h[p].parent /\ pr = h[p].prec /\ nx = h[p].next
      /\ par \in L /\ (pr # NULL => pr \in L) /\ (nx # NULL => nx \in L)
  BY <1>4 DEF Linked, Under
<1>7. par \in Nodes /\ pr \in Ptr /\ nx \in Ptr /\ (pr # NULL => pr \in Nodes) /\ (nx # NULL => nx \in Nodes)
  BY <1>4, <1>6 DEF Ptr
<1> HIDE DEF par, pr, nx
<1>8. /\ before \in Mem
      /\ \A x \in Nodes : /\ SameFile(before[x], u[x]) /\ before[x].parent = u[x].parent
                          /\ before[x].prec = u[x].prec
                          /\ before[x].child = IF pr = NULL /\ x = par THEN nx ELSE u[x].child
                          /\ before[x].next = IF pr # NULL /\ x = pr THEN nx ELSE u[x].next
  <2>1. CASE pr = NULL
    BY <1>7, <2>1 DEF Mem, FileRec, SameFile
  <2>2. CASE pr # NULL
    BY <1>7, <2>2 DEF Mem, FileRec, SameFile
  <2> QED BY <2>1, <2>2
<1>9. /\ after \in Mem
      /\ \A x \in Nodes : /\ SameFile(after[x], before[x]) /\ after[x].parent = before[x].parent
                          /\ after[x].child = before[x].child /\ after[x].next = before[x].next
                          /\ after[x].prec = IF nx # NULL /\ x = nx THEN pr ELSE before[x].prec
  <2> HIDE DEF before
  <2>1. CASE nx = NULL
    BY <1>8, <2>1 DEF SameFile
  <2>2. CASE nx # NULL
    BY <1>7, <1>8, <2>2 DEF Mem, FileRec, SameFile
  <2> QED BY <2>1, <2>2
<1> HIDE DEF before, after
<1>10. f \in Mem
  <2>1. Free \in FileRec
    BY KindsAre DEF Free, FileRec, Ptr
  <2> QED BY <1>1, <1>9, <2>1 DEF Mem
<1>11. ASSUME NEW x \in L \ gone
       PROVE  /\ SameFile(f[x], h[x]) /\ f[x].parent = h[x].parent
              /\ f[x].child = IF h[x].child = p THEN h[p].next ELSE h[x].child
              /\ f[x].next = IF h[x].next = p THEN h[p].next ELSE h[x].next
              /\ f[x].prec = IF h[x].prec = p THEN h[p].prec ELSE h[x].prec
  <2>1. x \in Nodes /\ u[x] = h[x] /\ f[x] = after[x] /\ x # NULL
    BY <1>1, <1>4
  <2>2. SameFile(f[x], h[x]) /\ f[x].parent = h[x].parent
    BY <1>8, <1>9, <2>1 DEF SameFile
  <2>3. Linked(h, L, pos, x) /\ Linked(h, L, pos, p) /\ Under(h, L, level, p) /\ p # NULL
    BY <1>4
  <2>4. (h[x].child = p) <=> (pr = NULL /\ x = par)
    BY <1>6, <2>3 DEF Linked, Under
  <2>5. (h[x].next = p) <=> (pr # NULL /\ x = pr)
    BY <1>6, <2>1, <2>3 DEF Linked
  <2>6. (h[x].prec = p) <=> (nx # NULL /\ x = nx)
    BY <1>6, <2>1, <2>3 DEF Linked
  <2> QED BY <1>6, <1>8, <1>9, <2>1, <2>2, <2>4, <2>5, <2>6
<1>12. Cut(h, f, p, gone)
  BY <1>10, <1>11 DEF Cut
<1>13. f[m] = u[m]
  <2>1. f[m] = after[m]
    BY <1>1, <1>5
  <2>2. m # par /\ m # pr /\ m # nx
    BY <1>6, NodesAre
  <2>3. before[m] = u[m]
    BY <2>2, <1>7 DEF before
  <2>4. after[m] = before[m]
    BY <2>2, <1>7, <1>8 DEF after, Mem
  <2> QED BY <2>1, <2>3, <2>4
<1>14. Live(f) = (L \ gone) \cup {m}
  <2>1. \A x \in Nodes : x \notin gone => f[x].kind = u[x].kind
    BY <1>1, <1>8, <1>9 DEF SameFile
  <2>2. \A x \in gone : x \in Nodes /\ f[x].kind = "free"
    BY <1>1, <1>4, <1>5 DEF Free, Descent
  <2> QED BY <1>5, <2>1, <2>2 DEF Live
<1> QED BY <1>5, <1>12, <1>13, <1>14 DEF f, gone

\* The files that h and g share are what they were.
Keeps(h, g) == \A x \in Live(h) \cap Live(g) : Kept(h, g, x)

\* g is h with the directory m of the device in the place of p.
Mounted(h, g, p, m, gone) ==
  /\ IsTree(g, Live(g)) /\ Live(g) = (Live(h) \ gone) \cup {m} /\ h[p].parent \in Live(h) \ gone
  /\ Descent(h, p, gone)
  /\ g[m].kind = "ext2dir" /\ g[m].name = h[p].name /\ g[m].ino = ROOT_INO
  /\ g[m].parent = h[p].parent
  /\ \A x \in Live(h) \ gone : SameFile(g[x], h[x]) /\ g[x].parent = h[x].parent
  /\ Keeps(h, g)

LEMMA MountIs ==
  ASSUME NEW h, IsTree(h, Live(h)), NEW p \in Live(h), p # "/", NEW m \in Nodes \ Live(h)
  PROVE  \E gone : Mounted(h, MountOver(h, p, m), p, m, gone)
<1> DEFINE L == Live(h)
           d == h[p].parent
           nm == h[p].name
           new == New(h, m, nm, "ext2dir")
           u == [new EXCEPT ![m].ino = ROOT_INO]
           gone == Subtree(u, p)
           f == Delete(u, p)
           g == addChild(f, d, m)
           M == L \ gone
<1>0. MountOver(h, p, m) = g
  BY DEF MountOver
<1>1. h \in Mem /\ L \subseteq Nodes /\ NULL \notin L /\ d \in L
  BY TreeIs
<1>2. nm \in STRING \cup {Garbage} /\ "ext2dir" \in Kinds /\ ROOT_INO \in {0} \cup DOMAIN Disk
  BY <1>1, KindsAre, DeviceAssumption DEF Mem, FileRec
<1>3. new = [h EXCEPT ![m] = [Free EXCEPT !.kind = "ext2dir", !.name = nm]]
  BY DEF New
<1>4. /\ u \in Mem /\ u[m].kind = "ext2dir" /\ u[m].name = nm /\ u[m].ino = ROOT_INO
      /\ u[m].parent = NULL /\ u[m].child = NULL /\ u[m].loaded = FALSE
      /\ \A x \in Nodes \ {m} : u[x] = h[x]
  <2> HIDE DEF nm
  <2> DEFINE r == [Free EXCEPT !.kind = "ext2dir", !.name = nm, !.ino = ROOT_INO]
  <2>1. /\ r \in FileRec /\ r.kind = "ext2dir" /\ r.name = nm /\ r.ino = ROOT_INO
        /\ r.parent = NULL /\ r.child = NULL /\ r.loaded = FALSE
    BY <1>2 DEF Free, FileRec, Ptr
  <2>2. u = [h EXCEPT ![m] = r]
    BY <1>1, <1>3 DEF Mem, Free
  <2> HIDE DEF r, u
  <2> QED BY <1>1, <2>1, <2>2 DEF Mem
<1> HIDE DEF u, new
<1>5. Live(u) = L \cup {m} /\ \A x \in L : u[x] = h[x]
  BY <1>1, <1>4 DEF Live
<1>6. /\ Descent(h, p, gone) /\ Cut(h, f, p, gone) /\ f[m] = u[m]
      /\ Live(f) = (L \ gone) \cup {m}
  BY <1>4, <1>5, DeleteCuts
<1> HIDE DEF f, gone
<1>7. IsTree(f, M) /\ d \in M
  <2>1. PICK pos, level : Shape(h, L, pos, level)
    BY DEF IsTree
  <2>2. d \in M
    BY <1>6, <2>1, AboveIsOutside
  <2> QED BY <1>6, <2>2, CutTree
<1>8. f \in Mem /\ M \subseteq Nodes /\ d \in Nodes /\ m \notin M /\ d # m
      /\ (f[d].child # NULL => f[d].child \in M) /\ f[d].child # m
  <2>1. f \in Mem /\ M \subseteq Nodes /\ (f[d].child # NULL => f[d].child \in M)
    BY <1>7, TreeIs
  <2> QED BY <1>7, <2>1, NodesAre
<1>9. Planted(f, g, d, m) /\ SameFile(g[m], f[m])
  <2>1. /\ g \in Mem /\ SameFile(g[m], f[m]) /\ g[m].child = f[m].child
        /\ g[m].parent = d /\ g[m].prec = NULL /\ g[m].next = f[d].child
        /\ g[d].child = m
        /\ f[d].child # NULL => g[f[d].child].prec = m
        /\ \A x \in Nodes \ {m} : /\ SameFile(g[x], f[x])
                                  /\ g[x].parent = f[x].parent /\ g[x].next = f[x].next
                                  /\ x # d => g[x].child = f[x].child
                                  /\ x # f[d].child => g[x].prec = f[x].prec
    <3> HIDE DEF d
    <3> QED BY <1>8, AddChildIs
  <2> HIDE DEF g
  <2> QED BY <1>4, <1>6, <2>1 DEF Planted, SameFile
<1> HIDE DEF g
<1>10. IsTree(g, M \cup {m})
  BY <1>7, <1>8, <1>9, PlantTree
<1>11. Live(g) = M \cup {m}
  BY <1>6, <1>9, PlantLive
<1>12. ASSUME NEW x \in M PROVE SameFile(g[x], h[x]) /\ g[x].parent = h[x].parent
  <2>1. SameFile(f[x], h[x]) /\ f[x].parent = h[x].parent
    BY <1>6 DEF Cut
  <2>2. SameFile(g[x], f[x]) /\ g[x].parent = f[x].parent
    BY <1>8, <1>9 DEF Planted
  <2> QED BY <2>1, <2>2 DEF SameFile
<1>13. Kids(g, d) = <<m>> \o Kids(f, d) /\ \A e \in M \ {d} : Kids(g, e) = Kids(f, e)
  <2>1. m \in Nodes \ M
    BY <1>8
  <2> HIDE DEF M, d
  <2> QED BY <1>7, <1>9, <2>1, PlantKids
<1>14. /\ Kids(f, d) = RemoveAt(Kids(h, d), Index(h, p))
       /\ \A e \in M : e # d => Kids(f, e) = Kids(h, e)
  BY <1>6, CutKids
<1>15. ASSUME NEW x \in M PROVE Kept(h, g, x)
  <2>1. g[x].kind = h[x].kind /\ g[x].link = h[x].link /\ g[x].parent = h[x].parent
    BY <1>12 DEF SameFile
  <2>2. ASSUME x # "/" PROVE Index(g, x) >= Index(h, x)
    <3> DEFINE e == h[x].parent
               i == Index(h, x)
               s == Kids(h, e)
               k == Index(h, p)
    <3>1. e \in L /\ i \in 1 .. Len(s) /\ s[i] = x
      BY <2>2, HasIndex
    <3>2. e \in M
      BY <1>6, <3>1 DEF Descent
    <3>3. e \in M \cup {m} /\ s \in Seq(Nodes) /\ Len(s) \in Nat
      BY <3>1, <3>2, KidsAll DEF AllKids, Chain
    <3>4. CASE e # d
      <4> HIDE DEF e, i, d
      <4>1. Kids(g, e) = s
        BY <1>13, <1>14, <3>2, <3>4
      <4> HIDE DEF s
      <4>2. Index(g, x) = i
        BY <1>10, <3>1, <3>3, <4>1, IndexIs
      <4> QED BY <3>1, <4>2 DEF i
    <3>5. CASE e = d
      <4> DEFINE r == RemoveAt(s, k)
                 t == Kids(g, e)
      <4>0. k \in 1 .. Len(s) /\ s[k] = p /\ k \in Nat /\ i \in Nat
        BY <3>1, <3>5, HasIndex
      <4>1. i # k
        BY <1>6, <3>1, <4>0 DEF Descent
      <4>2. t = <<m>> \o r
        BY <1>13, <1>14, <3>5
      <4> HIDE DEF s, k, i, e, d
      <4>3. /\ r \in Seq(Nodes) /\ Len(r) = Len(s) - 1
            /\ \A j \in 1 .. Len(s) - 1 : r[j] = IF j < k THEN s[j] ELSE s[j + 1]
        BY <3>3, <4>0, Removed
      <4> HIDE DEF r, t
      <4>4. Len(t) = Len(s) /\ \A j \in 1 .. Len(r) : t[j + 1] = r[j]
        BY <3>3, <4>2, <4>3
      <4>5. CASE i < k
        <5>1. i + 1 \in 1 .. Len(t) /\ t[i + 1] = x
          BY <3>1, <3>3, <4>0, <4>3, <4>4, <4>5
        <5>2. Index(g, x) = i + 1
          BY <1>10, <3>3, <5>1, IndexIs DEF t
        <5> QED BY <4>0, <5>2 DEF i
      <4>6. CASE i > k
        <5>1. i \in 1 .. Len(t) /\ t[i] = x
          <6>1. i - 1 \in 1 .. Len(s) - 1 /\ ~(i - 1 < k) /\ (i - 1) + 1 = i
            BY <3>1, <3>3, <4>0, <4>6
          <6>2. r[i - 1] = x
            BY <3>1, <4>3, <6>1
          <6> QED BY <3>1, <4>3, <4>4, <6>1, <6>2
        <5>2. Index(g, x) = i
          BY <1>10, <3>3, <5>1, IndexIs DEF t
        <5> QED BY <4>0, <5>2 DEF i
      <4> QED BY <4>0, <4>1, <4>5, <4>6
    <3> QED BY <3>4, <3>5
  <2> QED BY <2>1, <2>2 DEF Kept
<1>16. Keeps(h, g)
  BY <1>11, <1>15 DEF Keeps
<1>17. g[m].kind = "ext2dir" /\ g[m].name = h[p].name /\ g[m].ino = ROOT_INO /\ g[m].parent = d
  BY <1>4, <1>6, <1>9 DEF SameFile, Planted
<1>18. Mounted(h, g, p, m, gone)
  BY <1>6, <1>7, <1>10, <1>11, <1>12, <1>16, <1>17 DEF Mounted
<1> QED BY <1>0, <1>18

\* The invariant of the tree survives a mount.
LEMMA MountGood ==
  ASSUME NEW h, NEW g, Good(h), NEW p \in Live(h), p # "/", h[p].kind \in Directories,
         NEW m \in Nodes \ Live(h), NEW gone, Mounted(h, g, p, m, gone)
  PROVE  Good(g)
<1> DEFINE M == Live(h) \ gone
           d == h[p].parent
<1>1. IsTree(g, Live(g)) /\ Live(g) = M \cup {m} /\ d \in M /\ p \in gone /\ m \notin M /\ p \notin M
  BY DEF Mounted, Descent
<1>2. \A x \in M : /\ g[x].kind = h[x].kind /\ g[x].name = h[x].name /\ g[x].ino = h[x].ino
                   /\ g[x].loaded = h[x].loaded /\ g[x].parent = h[x].parent
                   /\ x \in Live(h) /\ (x # "/" => h[x].parent \in M)
  <2>1. \A x \in Live(h) : x # "/" => h[x].parent \in Live(h)
    BY TreeIs DEF Good
  <2> QED BY <2>1 DEF Mounted, SameFile, Descent
<1>3. g[m].kind = "ext2dir" /\ g[m].name = h[p].name /\ g[m].ino = ROOT_INO /\ g[m].parent = d
  BY DEF Mounted
<1> HIDE DEF M
<1>4. Inos(g)
  BY <1>1, <1>2, <1>3, DeviceAssumption DEF Good, Inos
<1>5. DirsIn(g)
  BY <1>1, <1>2, <1>3 DEF Good, DirsIn
<1>6. h[d].kind = "ext2dir" => h[p].kind \in OnDisk /\ h[d].loaded = TRUE
  <2>1. ASSUME h[d].kind = "ext2dir" PROVE h[p].kind = "ext2dir"
    BY <2>1 DEF Good, DirsIn, Directories
  <2>2. d # NULL
    BY <1>1, TreeIs DEF Good, M
  <2> QED BY <2>1, <2>2 DEF Good, LoadedBefore, OnDisk
<1>7. LoadedBefore(g, NULL)
  <2>1. ASSUME NEW x \in M, x # "/", g[x].kind \in OnDisk, g[x].parent # NULL, g[g[x].parent].kind = "ext2dir"
        PROVE  g[g[x].parent].loaded = TRUE
    BY <1>2, <2>1 DEF Good, LoadedBefore
  <2>2. g[d].kind = h[d].kind /\ g[d].loaded = h[d].loaded
    BY <1>1, <1>2
  <2> QED BY <1>1, <1>3, <1>6, <2>1, <2>2 DEF LoadedBefore
<1>8. OneOfName(g)
  <2>1. ASSUME NEW x \in M, x # "/", g[x].kind \in OnDisk, g[x].parent = d, g[d].kind = "ext2dir"
        PROVE  g[x].name # g[m].name
    BY <1>1, <1>2, <1>3, <1>6, <2>1 DEF Good, OneOfName
  <2>2. \A x, y \in M \ {"/"} :
          /\ g[x].kind \in OnDisk /\ g[y].kind \in OnDisk /\ g[x].parent = g[y].parent
          /\ g[g[y].parent].kind = "ext2dir" /\ g[x].name = g[y].name
          => x = y
    BY <1>2 DEF Good, OneOfName
  <2> QED BY <1>1, <1>3, <2>1, <2>2 DEF OneOfName
<1> QED BY <1>1, <1>4, <1>5, <1>7, <1>8 DEF Good

-------------------------------------------------------------------------------
(***************************************************************************)
(* The invariant.  The tree is good; while nothing is mounted links are,   *)
(* and no process and no pointer to a directory of init is at a link; and  *)
(* what getdents has not returned is a child of the open directory whose   *)
(* index is not behind the offset, unless a transfer has wrapped that.     *)
(***************************************************************************)

Beyond(i, o) == i > o.ptr \/ o.ptr = Modulus - 1

AheadIn(h, o, S) ==
  \A x \in S : x \in Live(h) /\ x # "/" /\ h[x].parent = o.fp /\ Beyond(Index(h, x), o)

PendingOK == \A p \in Procs, fd \in Fds : AheadIn(file, openfp[p][fd], pending[p][fd])

LinksOK ==
  /\ LinkInv(file) /\ \A f \in Static : At(file, f)
  /\ \A p \in Procs : At(file, cdir[p])

FileInv == TypeOK /\ Good(file) /\ (mounts = 0 => LinksOK) /\ PendingOK

LEMMA KeepsAhead ==
  ASSUME NEW h, NEW g, IsTree(h, Live(h)), IsTree(g, Live(g)), Keeps(h, g), NEW o, o.ptr \in Nat,
         NEW S, AheadIn(h, o, S)
  PROVE  AheadIn(g, o, S \cap Live(g))
<1> SUFFICES ASSUME NEW x \in S, x \in Live(g)
             PROVE  x # "/" /\ g[x].parent = o.fp /\ Beyond(Index(g, x), o)
  BY DEF AheadIn
<1>1. x \in Live(h) /\ x # "/" /\ h[x].parent = o.fp /\ Beyond(Index(h, x), o)
  BY DEF AheadIn
<1>2. g[x].parent = h[x].parent /\ Index(g, x) >= Index(h, x)
  BY <1>1 DEF Keeps, Kept
<1>3. Index(h, x) \in 1 .. Len(Kids(h, h[x].parent))
  BY <1>1, HasIndex
<1>4. Index(g, x) \in 1 .. Len(Kids(g, g[x].parent))
  BY <1>1, HasIndex
<1>5. Index(h, x) \in Int /\ Index(g, x) \in Int
  BY <1>3, <1>4
<1>6. Beyond(Index(g, x), o)
  BY <1>1, <1>2, <1>5 DEF Beyond
<1> QED BY <1>1, <1>2, <1>6

LEMMA GrowsKeeps ==
  ASSUME NEW h, NEW g, Grows(h, g)
  PROVE  Keeps(h, g) /\ \A fp : At(h, fp) => At(g, fp)
BY DEF Grows, Keeps, Kept, At

\* After a lookup, a file may be deleted.
LEMMA GrowsThenKeeps ==
  ASSUME NEW f, NEW g, NEW h, IsTree(f, Live(f)), IsTree(g, Live(g)), IsTree(h, Live(h)),
         Grows(f, g), Keeps(g, h)
  PROVE  Keeps(f, h)
<1> SUFFICES ASSUME NEW x \in Live(f), x \in Live(h) PROVE Kept(f, h, x)
  BY DEF Keeps
<1>1. Kept(f, g, x) /\ Kept(g, h, x) /\ x \in Live(g)
  BY DEF Grows, Keeps
<1>2. ASSUME x # "/" PROVE Index(h, x) >= Index(f, x)
  <2>1. Index(f, x) \in 1 .. Len(Kids(f, f[x].parent))
    BY <1>2, HasIndex
  <2>2. Index(g, x) \in 1 .. Len(Kids(g, g[x].parent))
    BY <1>1, <1>2, HasIndex
  <2>3. Index(h, x) \in 1 .. Len(Kids(h, h[x].parent))
    BY <1>2, HasIndex
  <2>4. Index(f, x) \in Int /\ Index(g, x) \in Int /\ Index(h, x) \in Int
    BY <2>1, <2>2, <2>3
  <2> QED BY <1>1, <1>2, <2>4 DEF Kept
<1> QED BY <1>1, <1>2 DEF Kept

LEMMA NumbersAre ==
  /\ CONFIG_MAX_FILE \in Nat /\ STD_FILES \in Nat /\ kMaxMounts \in Nat
  /\ Modulus \in Nat /\ Modulus > 4 /\ MaxOffset \in Nat /\ MaxOffset < Modulus - 1
BY FileTreeAssumption, Zenon

\* What TypeOK says of the tables.
LEMMA TablesAre ==
  ASSUME TypeOK
  PROVE  /\ file \in Mem
         /\ openfp \in [Procs -> [Fds -> [fp : Ptr, ptr : 0 .. Modulus - 1]]]
         /\ \A p \in Procs, fd \in Fds : /\ openfp[p][fd].ptr \in Nat /\ openfp[p][fd].fp \in Ptr
                                         /\ pending[p][fd] \in SUBSET Nodes
<1>1. /\ file \in Mem
      /\ openfp \in [Procs -> [Fds -> [fp : Ptr, ptr : 0 .. Modulus - 1]]]
      /\ pending \in [Procs -> [Fds -> SUBSET Nodes]]
  BY DEF TypeOK, Mem, FileRec
<1>2. ASSUME NEW p \in Procs, NEW fd \in Fds
      PROVE  /\ openfp[p][fd].ptr \in Nat /\ openfp[p][fd].fp \in Ptr
             /\ pending[p][fd] \in SUBSET Nodes
  <2>1. openfp[p][fd] \in [fp : Ptr, ptr : 0 .. Modulus - 1] /\ pending[p][fd] \in SUBSET Nodes
    BY <1>1
  <2>2. Modulus \in Nat
    BY NumbersAre
  <2>3. \A i \in 0 .. Modulus - 1 : i \in Nat
    BY <2>2
  <2> QED BY <2>1, <2>3
<1> QED BY <1>1, <1>2

\* A change of the tree alone.
LEMMA UpdateKeeps ==
  ASSUME FileInv, NEW h, Good(h), Keeps(file, h), Update(h), openfp' = openfp
  PROVE  /\ file' = h /\ Good(file)' /\ file' \in Mem /\ PendingOK'
         /\ pending' \in [Procs -> [Fds -> SUBSET Nodes]]
<1>1. IsTree(file, Live(file)) /\ IsTree(h, Live(h)) /\ h \in Mem
  BY TreeIs DEF FileInv, Good
<1>2. file' = h /\ pending' = [p \in Procs |-> [fd \in Fds |-> pending[p][fd] \cap Live(h)]]
  BY DEF Update
<1>3. ASSUME NEW p \in Procs, NEW fd \in Fds
      PROVE  /\ AheadIn(h, openfp[p][fd], pending[p][fd] \cap Live(h))
             /\ pending[p][fd] \cap Live(h) \in SUBSET Nodes
  <2>1. openfp[p][fd].ptr \in Nat /\ pending[p][fd] \in SUBSET Nodes
    BY TablesAre DEF FileInv
  <2>2. AheadIn(file, openfp[p][fd], pending[p][fd])
    BY DEF FileInv, PendingOK
  <2> QED BY <1>1, <2>1, <2>2, KeepsAhead
<1>4. PendingOK'
  <2> SUFFICES ASSUME NEW p \in Procs, NEW fd \in Fds
               PROVE  AheadIn(h, openfp[p][fd], pending'[p][fd])
    BY <1>2 DEF PendingOK
  <2>1. pending'[p][fd] = pending[p][fd] \cap Live(h)
    BY <1>2
  <2> QED BY <1>3, <2>1
<1>5. pending' \in [Procs -> [Fds -> SUBSET Nodes]]
  BY <1>2, <1>3
<1>6. Good(file)'
  BY <1>2 DEF Good
<1> QED BY <1>1, <1>2, <1>4, <1>5, <1>6

\* A lookup by path, for process p.
Found(w) ==
  /\ w.h \in Mem /\ w.fp \in Ptr /\ w.st \in {"go", "none", "missing", "fault"}
  /\ Reads(file, w.h) /\ (LinksOK => At(w.h, w.fp))

LEMMA PathIs ==
  ASSUME FileInv, NEW p \in Procs, NEW q \in Paths, NEW n
  PROVE  Found(path(p, q, n))
<1> DEFINE C == STRING
           start == IF q.abs THEN "/" ELSE cdir[p]
           w == Walk(file, start, q.comps, TRUE, n)
<1>1. q.comps \in Seq(C)
  <2>1. q \in Path
    BY FileTreeAssumption, Zenon
  <2> QED BY <2>1 DEF Path
<1>2. start \in Ptr /\ (LinksOK => LinkInv(file) /\ At(file, start))
  <2>1. "/" \in Ptr /\ "/" \in Static
    BY NodesAre, LayoutAssumption DEF Ptr
  <2>2. cdir[p] \in Ptr
    BY DEF FileInv, TypeOK
  <2> QED BY <2>1, <2>2 DEF LinksOK
<1>3. path(p, q, n) = w
  BY DEF path
<1> HIDE DEF C, start
<1>4. Walked(file, start, TRUE, C, w)
  BY <1>1, <1>2, WalkIs DEF FileInv
<1> HIDE DEF w
<1>5. Found(w)
  BY <1>2, <1>4 DEF Walked, WalkState, Found
<1> QED BY <1>3, <1>5

\* The lookup of the directory that a constructor puts its file into.
LEMMA HomeIs ==
  ASSUME FileInv, NEW k \in Made, NEW n
  PROVE  Found(path(Boot, [abs |-> TRUE, comps |-> Homes[k]], n))
<1> DEFINE C == {"", "dev", "sys", "sockets", "mods", "usr", "env"}
           q == Homes[k]
           w == Walk(file, "/", q, TRUE, n)
<1>1. q \in Seq(C)
  <2>1. ASSUME NEW a \in C, NEW b \in C, NEW c \in C PROVE <<a>> \in Seq(C) /\ <<a, b, c>> \in Seq(C)
    <3> HIDE DEF C
    <3> QED OBVIOUS
  <2>2. /\ "" \in C /\ "dev" \in C /\ "sys" \in C /\ "sockets" \in C /\ "mods" \in C
        /\ "usr" \in C /\ "env" \in C
    BY Zenon
  <2> HIDE DEF C
  <2>3. k \in {"device", "socket", "module", "user", "variable"}
    BY FileTreeAssumption DEF Homes
  <2>4. CASE k = "device"
    <3>1. Homes[k] = <<"dev">>
      BY <2>4 DEF Homes
    <3> QED BY <2>1, <2>2, <3>1, Zenon
  <2>5. CASE k = "socket"
    <3>1. Homes[k] = <<"sys", "sockets", "">>
      BY <2>5 DEF Homes
    <3> QED BY <2>1, <2>2, <3>1, Zenon
  <2>6. CASE k = "module"
    <3>1. Homes[k] = <<"sys", "mods", "">>
      BY <2>6 DEF Homes
    <3> QED BY <2>1, <2>2, <3>1, Zenon
  <2>7. CASE k = "user"
    <3>1. Homes[k] = <<"sys", "usr", "">>
      BY <2>7 DEF Homes
    <3> QED BY <2>1, <2>2, <3>1, Zenon
  <2>8. CASE k = "variable"
    <3>1. Homes[k] = <<"sys", "env", "">>
      BY <2>8 DEF Homes
    <3> QED BY <2>1, <2>2, <3>1, Zenon
  <2> QED BY <2>3, <2>4, <2>5, <2>6, <2>7, <2>8
<1>2. "/" \in Ptr /\ (LinksOK => LinkInv(file) /\ At(file, "/"))
  BY NodesAre, LayoutAssumption DEF Ptr, LinksOK
<1>3. path(Boot, [abs |-> TRUE, comps |-> Homes[k]], n) = w
  BY DEF path
<1> HIDE DEF C, q
<1>4. Walked(file, "/", TRUE, C, w)
  BY <1>1, <1>2, WalkIs DEF FileInv
<1> HIDE DEF w
<1>5. Found(w)
  BY <1>2, <1>4 DEF Walked, WalkState, Found
<1> QED BY <1>3, <1>5

\* A new file in d.
Born(h, g, d, m, k) ==
  Planted(h, g, d, m) /\ m \in Nodes \ Live(h) /\ d \in Live(h) /\ g[m].kind = k

LEMMA NewFileIs ==
  ASSUME NEW h, Good(h), Unused(h) # {}, NEW d \in Live(h), NEW nm \in STRING \cup {Garbage},
         NEW k \in Kinds \ {"free"}
  PROVE  Born(h, addChild(New(h, Fresh(h), nm, k), d, Fresh(h)), d, Fresh(h), k)
<1> DEFINE m == Fresh(h)
           g == addChild(New(h, m, nm, k), d, m)
<1>1. /\ m \in Nodes \ Live(h) /\ m \in Nodes /\ m # d /\ h[d].child # m /\ d \in Nodes
      /\ h \in Mem
  BY FreshIs, TreeIs DEF Good
<1> HIDE DEF m
<1>2. Planted(h, g, d, m) /\ g[m].kind = k
  BY <1>1, NewChild
<1> QED BY <1>1, <1>2 DEF Born, m

LEMMA NewLinkIs ==
  ASSUME NEW h, Good(h), Unused(h) # {}, NEW d \in Live(h), NEW nm \in STRING \cup {Garbage},
         NEW l \in Ptr
  PROVE  LET m == Fresh(h)
             g == [addChild(New(h, m, nm, "link"), d, m) EXCEPT ![m].link = l]
         IN  Born(h, g, d, m, "link") /\ g[m].link = l
<1> DEFINE m == Fresh(h)
           f == addChild(New(h, m, nm, "link"), d, m)
           g == [f EXCEPT ![m].link = l]
<1>1. m \in Nodes \ Live(h) /\ m \in Nodes /\ m # d /\ h[d].child # m /\ d \in Nodes
  BY FreshIs, TreeIs DEF Good
<1>2. Born(h, f, d, m, "link")
  BY NewFileIs, KindsAre
<1>3. Planted(h, f, d, m) /\ f[m].kind = "link"
  BY <1>2 DEF Born
<1> HIDE DEF m, f
<1>4. Planted(h, g, d, m) /\ g[m].kind = f[m].kind /\ g[m].link = l
  BY <1>1, <1>3, WithLink
<1> HIDE DEF g
<1>5. Born(h, g, d, m, "link") /\ g[m].link = l
  BY <1>1, <1>3, <1>4 DEF Born
<1> QED BY <1>5 DEF g, f, m

\* The tree is good after that, and links are if the new one is and lies in no link.
LEMMA BornGood ==
  ASSUME NEW h, NEW g, NEW d, NEW m, NEW k, Good(h), Born(h, g, d, m, k),
         k \notin {"directory", "ext2dir", "ext2file"}
  PROVE  /\ Good(g) /\ Grows(h, g)
         /\ LinkInv(h) /\ At(h, d) /\ (k = "link" => g[m].link # NULL /\ At(h, g[m].link)) => LinkInv(g)
<1>1. Planted(h, g, d, m) /\ m \in Nodes \ Live(h) /\ d \in Live(h) /\ g[m].kind = k
  BY DEF Born
<1>2. Good(g) /\ Grows(h, g) /\ Live(g) = Live(h) \cup {m}
  BY <1>1, PlantGood DEF OnDisk
<1>3. ASSUME LinkInv(h), At(h, d), k = "link" => g[m].link # NULL /\ At(h, g[m].link) PROVE LinkInv(g)
  <2>1. \A x \in Live(h) : /\ g[x].kind = h[x].kind /\ g[x].link = h[x].link
                           /\ g[x].parent = h[x].parent /\ (x # "/" => h[x].parent \in Live(h))
    BY <1>2, TreeIs DEF Grows, Kept, Good
  <2>2. g[m].parent = d /\ g[d].kind # "link"
    BY <1>1, <1>3, <2>1, TreeIs DEF Planted, At, Good
  <2>3. g[m].kind = "link" => g[m].link \in Live(g) /\ g[g[m].link].kind # "link"
    BY <1>1, <1>2, <1>3, <2>1 DEF At
  <2> QED BY <1>2, <1>3, <2>1, <2>2, <2>3 DEF LinkInv
<1> QED BY <1>2, <1>3

-------------------------------------------------------------------------------
(* The actions preserve the invariant. *)

LEMMA InvFromParts ==
  ASSUME file' \in Mem, Good(file)', mounts' \in 0 .. kMaxMounts, alive' \subseteq Procs,
         fault' \in BOOLEAN,
         openfp' \in [Procs -> [Fds -> [fp : Ptr, ptr : 0 .. Modulus - 1]]],
         cdir' \in [Procs -> Ptr], pending' \in [Procs -> [Fds -> SUBSET Nodes]],
         mounts' = 0 => LinksOK', PendingOK'
  PROVE  FileInv'
<1>1. TypeOK'
  BY DEF TypeOK, Mem, FileRec
<1> QED BY <1>1 DEF FileInv

\* A step that changes nothing of this.
LEMMA SameInv ==
  ASSUME FileInv, UNCHANGED <<file, mounts, alive, openfp, cdir, pending>>, fault' \in BOOLEAN
  PROVE  FileInv'
<1>1. file \in Mem /\ TypeOK
  BY TablesAre DEF FileInv
<1>2. /\ file' \in Mem /\ mounts' \in 0 .. kMaxMounts /\ alive' \subseteq Procs
      /\ openfp' \in [Procs -> [Fds -> [fp : Ptr, ptr : 0 .. Modulus - 1]]]
      /\ cdir' \in [Procs -> Ptr] /\ pending' \in [Procs -> [Fds -> SUBSET Nodes]]
  BY <1>1 DEF TypeOK
<1>3. Good(file)' /\ PendingOK'
  BY DEF FileInv, PendingOK
<1>4. mounts' = 0 => LinksOK'
  BY DEF FileInv, LinksOK
<1> QED BY <1>2, <1>3, <1>4, InvFromParts

LEMMA FaultInv ==
  ASSUME FileInv, Fault
  PROVE  FileInv'
<1>1. UNCHANGED <<file, mounts, alive, openfp, cdir, pending>> /\ fault' \in BOOLEAN
  BY DEF Fault
<1> QED BY <1>1, SameInv

\* The tree grows, and a current directory may be set.
LEMMA UpdateInv ==
  ASSUME FileInv, NEW h, Update(h), Good(h), Grows(file, h), LinksOK => LinkInv(h),
         UNCHANGED <<mounts, alive, openfp, fault>>, cdir' \in [Procs -> Ptr],
         LinksOK => \A p \in Procs : At(h, cdir'[p])
  PROVE  FileInv'
<1>1. Keeps(file, h) /\ \A fp : At(file, fp) => At(h, fp)
  BY GrowsKeeps
<1>2. /\ file' = h /\ Good(file)' /\ file' \in Mem /\ PendingOK'
      /\ pending' \in [Procs -> [Fds -> SUBSET Nodes]]
  BY <1>1, UpdateKeeps
<1>3. /\ mounts' \in 0 .. kMaxMounts /\ alive' \subseteq Procs /\ fault' \in BOOLEAN
      /\ openfp' \in [Procs -> [Fds -> [fp : Ptr, ptr : 0 .. Modulus - 1]]]
  BY DEF FileInv, TypeOK
<1>4. ASSUME mounts' = 0 PROVE LinksOK'
  <2>1. LinksOK
    BY <1>4 DEF FileInv
  <2>2. LinkInv(h) /\ \A f \in Static : At(h, f)
    BY <1>1, <2>1 DEF LinksOK
  <2> QED BY <1>2, <2>1, <2>2 DEF LinksOK
<1> QED BY <1>2, <1>3, <1>4, InvFromParts

\* The same, if no current directory is set.
LEMMA GrowInv ==
  ASSUME FileInv, NEW h, Update(h), Good(h), Grows(file, h), LinksOK => LinkInv(h),
         UNCHANGED <<mounts, alive, openfp, cdir, fault>>
  PROVE  FileInv'
<1>1. \A fp : At(file, fp) => At(h, fp)
  BY GrowsKeeps
<1>2. cdir' \in [Procs -> Ptr] /\ (LinksOK => \A p \in Procs : At(h, cdir'[p]))
  BY <1>1 DEF FileInv, TypeOK, LinksOK
<1>3. UNCHANGED <<mounts, alive, openfp, fault>>
  OBVIOUS
<1> QED BY <1>2, <1>3, UpdateInv

\* What a lookup finds, and what a new file after it does.
LEMMA FoundIs ==
  ASSUME FileInv, NEW w, Found(w)
  PROVE  /\ Good(file) /\ Good(w.h) /\ Grows(file, w.h) /\ (LinksOK => LinkInv(w.h) /\ At(w.h, w.fp))
         /\ IsTree(file, Live(file)) /\ IsTree(w.h, Live(w.h))
<1>1. Good(file) /\ Reads(file, w.h) /\ Good(w.h) /\ Grows(file, w.h)
  BY DEF Found, Reads, FileInv
<1>2. LinksOK => LinkInv(w.h)
  BY <1>1, ReadsLinks DEF LinksOK
<1> QED BY <1>1, <1>2 DEF Found, Good

LEMMA BornInv ==
  ASSUME FileInv, NEW w, Found(w), NEW g, NEW d, NEW m, NEW k, Born(w.h, g, d, m, k),
         k \notin {"directory", "ext2dir", "ext2file"}, LinksOK => At(w.h, d),
         LinksOK /\ k = "link" => g[m].link # NULL /\ At(w.h, g[m].link),
         Update(g), UNCHANGED <<mounts, alive, openfp, cdir, fault>>
  PROVE  FileInv'
<1>1. Good(w.h) /\ Grows(file, w.h) /\ (LinksOK => LinkInv(w.h)) /\ IsTree(file, Live(file))
  BY FoundIs
<1> DEFINE h == w.h
<1> HIDE DEF h
<1>2. /\ Good(g) /\ Grows(h, g)
      /\ LinkInv(h) /\ At(h, d) /\ (k = "link" => g[m].link # NULL /\ At(h, g[m].link)) => LinkInv(g)
  BY <1>1, BornGood DEF h
<1>3. Grows(file, g)
  BY <1>1, <1>2, GrowsTwice DEF h, Good
<1>4. LinksOK => LinkInv(g)
  BY <1>1, <1>2 DEF h
<1> QED BY <1>2, <1>3, <1>4, GrowInv

LEMMA NewFileInv ==
  ASSUME FileInv, NEW k \in Made, NEW nm \in Names, NEW n, NewFile(k, nm, n)
  PROVE  FileInv'
<1> DEFINE w == path(Boot, [abs |-> TRUE, comps |-> Homes[k]], n)
<1>1. Found(w)
  BY HomeIs
<1>2. /\ Unused(w.h) # {} /\ Result(w) # NULL
      /\ IF Result(w) \notin Live(w.h) THEN Fault
         ELSE /\ Update(addChild(New(w.h, Fresh(w.h), nm, k), w.fp, Fresh(w.h)))
              /\ UNCHANGED <<mounts, alive, openfp, cdir, fault>>
  BY DEF NewFile
<1> HIDE DEF w
<1>3. Result(w) = w.fp
  BY <1>2 DEF Result
<1>4. CASE w.fp \notin Live(w.h)
  BY <1>2, <1>3, <1>4, FaultInv
<1>5. CASE w.fp \in Live(w.h)
  <2> DEFINE h == w.h
             d == w.fp
             g == addChild(New(h, Fresh(h), nm, k), d, Fresh(h))
  <2>1. Update(g) /\ UNCHANGED <<mounts, alive, openfp, cdir, fault>>
    BY <1>2, <1>3, <1>5
  <2>2. k \in Kinds \ {"free"} /\ k \notin {"link", "directory", "ext2dir", "ext2file"}
    BY KindsAre
  <2>3. nm \in STRING \cup {Garbage}
    BY FileTreeAssumption, Zenon
  <2>4. Good(h) /\ Unused(h) # {} /\ d \in Live(h) /\ (LinksOK => At(h, d))
    BY <1>1, <1>2, <1>5, FoundIs
  <2>5. Born(h, g, d, Fresh(h), k)
    <3> HIDE DEF h, d
    <3> QED BY <2>2, <2>3, <2>4, NewFileIs
  <2> HIDE DEF g, d
  <2> QED BY <1>1, <2>1, <2>2, <2>4, <2>5, BornInv
<1> QED BY <1>4, <1>5

LEMMA MknodInv ==
  ASSUME FileInv, NEW nm \in Names, mknod(nm)
  PROVE  FileInv'
<1> DEFINE w == [h |-> file, fp |-> NULL, st |-> "go"]
           d == "dev"
           k == "node"
           g == addChild(New(file, Fresh(file), nm, k), d, Fresh(file))
<1>1. Good(file) /\ IsTree(file, Live(file)) /\ file \in Mem
  BY TreeIs DEF FileInv, Good
<1>2. Found(w) /\ w.h = file
  BY <1>1, GrowsNone DEF Found, Reads, At, Ptr
<1>3. CASE d \notin Live(file)
  BY <1>3, FaultInv DEF mknod
<1>4. CASE d \in Live(file)
  <2>1. Update(g) /\ UNCHANGED <<mounts, alive, openfp, cdir, fault>> /\ Unused(file) # {}
    BY <1>4 DEF mknod
  <2>2. k \in Kinds \ {"free"} /\ k \notin {"link", "directory", "ext2dir", "ext2file"}
    BY KindsAre
  <2>3. nm \in STRING \cup {Garbage}
    BY FileTreeAssumption, Zenon
  <2>4. LinksOK => At(file, d)
    BY LayoutAssumption DEF LinksOK
  <2> HIDE DEF d, k, w
  <2>5. Born(file, g, d, Fresh(file), k)
    BY <1>1, <1>4, <2>1, <2>2, <2>3, NewFileIs
  <2> HIDE DEF g
  <2> QED BY <1>2, <2>1, <2>2, <2>4, <2>5, BornInv
<1> QED BY <1>3, <1>4

LEMMA LinkPreserves ==
  ASSUME FileInv, NEW p \in Procs, NEW q \in Paths, NEW newf \in NewPaths, NEW n,
         link(p, q, newf, n)
  PROVE  FileInv'
<1> DEFINE w == path(p, q, n)
           h == w.h
           v == path_parent(h, newf)
           d == IF v.st = "none" THEN NULL ELSE v.fp
           m == Fresh(h)
           g(nm) == [addChild(New(h, m, nm, "link"), d, m) EXCEPT ![m].link = w.fp]
<1>1. Found(w)
  BY PathIs
<1>2. /\ w.st # "fault" => Result(w) # NULL
      /\ Unused(h) # {}
      /\ IF \/ "fault" \in {w.st, v.st} \/ d = NULL \/ d \notin Live(h) THEN Fault
         ELSE \E nm \in LinkNames(v) :
                /\ Update(g(nm))
                /\ UNCHANGED <<mounts, alive, openfp, cdir, fault>>
  BY DEF link
<1>3. Good(h) /\ (LinksOK => LinkInv(h) /\ At(h, w.fp) /\ At(h, "/")) /\ w.fp \in Ptr
  <2>1. Good(h) /\ (LinksOK => LinkInv(h) /\ At(h, w.fp)) /\ Grows(file, h) /\ w.fp \in Ptr
    BY <1>1, FoundIs DEF Found
  <2>2. LinksOK => At(file, "/")
    BY LayoutAssumption DEF LinksOK
  <2> QED BY <2>1, <2>2, GrowsKeeps
<1> HIDE DEF w
<1>4. /\ v.fp \in Ptr /\ v.h = h /\ (LinksOK => At(h, v.fp))
      /\ \A nm \in LinkNames(v) : nm \in STRING \cup {Garbage}
  <2> DEFINE C == STRING
             comps == newf.comps
             i == {}
             u == Walk(h, "/", comps, FALSE, i)
  <2>1. newf \in Path
    BY FileTreeAssumption, Zenon
  <2>2. comps \in Seq(C) /\ "/" \in Ptr
    BY <2>1, NodesAre DEF Path, Ptr
  <2>3. v = u
    BY DEF path_parent
  <2> HIDE DEF C, h, comps, i
  <2>4. Walked(h, "/", FALSE, C, u)
    BY <1>3, <2>2, WalkIs
  <2> HIDE DEF u, v
  <2>5. /\ u.fp \in Ptr /\ u.h = h /\ (LinkInv(h) /\ At(h, "/") => At(h, u.fp))
        /\ u.miss \in C \cup {Garbage}
    BY <2>4 DEF Walked, WalkState
  <2>6. \A nm \in LinkNames(u) : nm \in STRING \cup {Garbage}
    <3>1. \A nm \in LinkNames(u) : nm = u.miss \/ nm = Garbage \/ nm \in Names
      BY DEF LinkNames
    <3>2. \A nm \in Names : nm \in C
      BY FileTreeAssumption DEF C
    <3>3. \A nm \in LinkNames(u) : nm \in C \cup {Garbage}
      BY <2>5, <3>1, <3>2
    <3> QED BY <3>3 DEF C
  <2> QED BY <1>3, <2>3, <2>5, <2>6
<1> HIDE DEF v
<1>5. CASE "fault" \in {w.st, v.st} \/ d = NULL \/ d \notin Live(h)
  BY <1>2, <1>5, FaultInv
<1>6. CASE ~("fault" \in {w.st, v.st} \/ d = NULL \/ d \notin Live(h))
  <2>1. PICK nm \in LinkNames(v) : Update(g(nm)) /\ UNCHANGED <<mounts, alive, openfp, cdir, fault>>
    BY <1>2, <1>6
  <2> DEFINE r == g(nm)
  <2>2. d \in Live(h) /\ d = v.fp /\ Result(w) # NULL
    BY <1>2, <1>6
  <2>3. w.fp # NULL
    BY <2>2 DEF Result
  <2>4. nm \in STRING \cup {Garbage}
    BY <1>4
  <2> HIDE DEF h, d
  <2>5. Born(h, r, d, m, "link") /\ r[m].link = w.fp
    BY <1>2, <1>3, <2>2, <2>4, NewLinkIs
  <2>6. Update(r) /\ UNCHANGED <<mounts, alive, openfp, cdir, fault>>
    BY <2>1
  <2> HIDE DEF r, m
  <2>7. LinksOK => At(h, d) /\ r[m].link # NULL /\ At(h, r[m].link)
    BY <1>3, <1>4, <2>2, <2>3, <2>5
  <2> DEFINE k == "link"
  <2>8. k \notin {"directory", "ext2dir", "ext2file"} /\ Born(h, r, d, m, k)
    BY <2>5
  <2> HIDE DEF k
  <2> QED BY <1>1, <2>6, <2>7, <2>8, BornInv DEF h
<1> QED BY <1>5, <1>6

LEMMA MountInv ==
  ASSUME FileInv, NEW p \in Procs, NEW q \in Paths, NEW n, mount(p, q, n)
  PROVE  FileInv'
<1> DEFINE w == path(p, q, n)
           h == w.h
           mp == Result(w)
           m == Fresh(h)
           g == MountOver(h, mp, m)
<1>1. Found(w)
  BY PathIs
<1>2. /\ mounts < kMaxMounts /\ Unused(h) # {}
      /\ IF w.st = "fault" \/ mp \notin Live(h) \/ mp = "/" THEN Fault
         ELSE /\ h[mp].kind \in Directories
              /\ Update(g)
              /\ mounts' = mounts + 1 /\ UNCHANGED <<alive, openfp, cdir, fault>>
  BY DEF mount
<1>3. Good(h) /\ Grows(file, h) /\ IsTree(file, Live(file)) /\ IsTree(h, Live(h))
  BY <1>1, FoundIs
<1> HIDE DEF w
<1>4. CASE w.st = "fault" \/ mp \notin Live(h) \/ mp = "/"
  BY <1>2, <1>4, FaultInv
<1>5. CASE ~(w.st = "fault" \/ mp \notin Live(h) \/ mp = "/")
  <2>1. /\ mp \in Live(h) /\ mp # "/" /\ h[mp].kind \in Directories
        /\ Update(g) /\ mounts' = mounts + 1 /\ UNCHANGED <<alive, openfp, cdir, fault>>
    BY <1>2, <1>5
  <2> HIDE DEF h, mp
  <2>2. m \in Nodes \ Live(h)
    BY <1>2, <1>3, <2>1, FreshIs
  <2> HIDE DEF m
  <2>3. PICK gone : Mounted(h, g, mp, m, gone)
    BY <1>3, <2>1, <2>2, MountIs
  <2> HIDE DEF g
  <2>4. Good(g)
    BY <1>3, <2>1, <2>2, <2>3, MountGood
  <2>5. Keeps(file, g)
    BY <1>3, <2>3, GrowsThenKeeps DEF Mounted
  <2>6. /\ file' = g /\ Good(file)' /\ file' \in Mem /\ PendingOK'
        /\ pending' \in [Procs -> [Fds -> SUBSET Nodes]]
    BY <2>1, <2>4, <2>5, UpdateKeeps
  <2>7. /\ mounts' \in 0 .. kMaxMounts /\ mounts' # 0
    <3>1. kMaxMounts \in Nat /\ mounts \in 0 .. kMaxMounts
      BY NumbersAre DEF FileInv, TypeOK
    <3> QED BY <1>2, <2>1, <3>1
  <2>8. /\ alive' \subseteq Procs /\ fault' \in BOOLEAN /\ cdir' \in [Procs -> Ptr]
        /\ openfp' \in [Procs -> [Fds -> [fp : Ptr, ptr : 0 .. Modulus - 1]]]
    BY <2>1 DEF FileInv, TypeOK
  <2> QED BY <2>6, <2>7, <2>8, InvFromParts
<1> QED BY <1>4, <1>5

LEMMA LookupInv ==
  ASSUME FileInv, NEW p \in Procs, NEW q \in Paths, NEW cmd, NEW n, Lookup(p, q, cmd, n)
  PROVE  FileInv'
<1> DEFINE w == path(p, q, n)
           h == IF cmd = "ls" /\ Result(w) \in Live(w.h) THEN scan(w.h, w.fp, n) ELSE w.h
<1>1. Found(w)
  BY PathIs
<1>2. IF w.st = "fault" \/ Misused(w, cmd, n) THEN Fault
      ELSE Update(h) /\ UNCHANGED <<mounts, alive, openfp, cdir, fault>>
  BY DEF Lookup
<1> HIDE DEF w
<1>3. Good(w.h) /\ Reads(file, w.h) /\ IsTree(w.h, Live(w.h)) /\ Good(file)
  BY <1>1, FoundIs DEF Found
<1>4. Reads(file, h)
  <2>1. CASE cmd = "ls" /\ Result(w) \in Live(w.h)
    <3>1. Result(w) = w.fp
      BY <1>3, <2>1, TreeIs DEF Result
    <3>2. Reads(w.h, h)
      BY <1>3, <2>1, <3>1, ScanReads
    <3> QED BY <1>3, <3>2, ReadsTwice
  <2>2. CASE ~(cmd = "ls" /\ Result(w) \in Live(w.h))
    BY <1>3, <2>2
  <2> QED BY <2>1, <2>2
<1> HIDE DEF h
<1>5. Good(h) /\ Grows(file, h) /\ (LinksOK => LinkInv(h))
  BY <1>3, <1>4, ReadsLinks DEF Reads, LinksOK
<1>6. CASE w.st = "fault" \/ Misused(w, cmd, n)
  BY <1>2, <1>6, FaultInv
<1>7. CASE ~(w.st = "fault" \/ Misused(w, cmd, n))
  BY <1>2, <1>5, <1>7, GrowInv
<1> QED BY <1>6, <1>7

LEMMA ChdirInv ==
  ASSUME FileInv, NEW p \in Procs, NEW q \in Paths, NEW n, chdir(p, q, n)
  PROVE  FileInv'
<1> DEFINE w == path(p, q, n)
<1>1. Found(w)
  BY PathIs
<1>2. IF w.st = "fault" THEN Fault
      ELSE /\ Result(w) # NULL /\ Update(w.h)
           /\ cdir' = [cdir EXCEPT ![p] = w.fp] /\ UNCHANGED <<mounts, alive, openfp, fault>>
  BY DEF chdir
<1> HIDE DEF w
<1>3. CASE w.st = "fault"
  BY <1>2, <1>3, FaultInv
<1>4. CASE w.st # "fault"
  <2>1. /\ Update(w.h) /\ UNCHANGED <<mounts, alive, openfp, fault>>
        /\ cdir' = [cdir EXCEPT ![p] = w.fp]
    BY <1>2, <1>4
  <2>2. Good(w.h) /\ Grows(file, w.h) /\ (LinksOK => LinkInv(w.h) /\ At(w.h, w.fp)) /\ w.fp \in Ptr
    BY <1>1, FoundIs DEF Found
  <2>3. cdir' \in [Procs -> Ptr]
    BY <2>1, <2>2 DEF FileInv, TypeOK
  <2>4. \A r \in Procs : cdir'[r] = IF r = p THEN w.fp ELSE cdir[r]
    BY <2>1 DEF FileInv, TypeOK
  <2>5. \A fp : At(file, fp) => At(w.h, fp)
    BY <2>2, GrowsKeeps
  <2>6. LinksOK => \A r \in Procs : At(w.h, cdir'[r])
    BY <2>2, <2>4, <2>5 DEF LinksOK
  <2> QED BY <2>1, <2>2, <2>3, <2>6, UpdateInv
<1> QED BY <1>3, <1>4

-------------------------------------------------------------------------------
(* Descriptors. *)

Table == [Fds -> [fp : Ptr, ptr : 0 .. Modulus - 1]]

\* What a process has not read from a directory that it has just opened lies ahead.
LEMMA AllAhead ==
  ASSUME NEW h, IsTree(h, Live(h)), NEW o, o.fp \in Live(h), o.ptr = 0
  PROVE  AheadIn(h, o, ToSet(Kids(h, o.fp)))
<1> DEFINE d == o.fp
           s == Kids(h, d)
<1>1. Chain(h, Live(h), d, s)
  BY KidsAll DEF AllKids
<1>2. s \in Seq(Nodes) /\ ToSet(s) = {s[i] : i \in 1 .. Len(s)} /\ Len(s) \in Nat
  <2> HIDE DEF s
  <2> QED BY <1>1 DEF Chain, ToSet
<1>3. ASSUME NEW x \in ToSet(s) PROVE x \in Live(h) /\ x # "/" /\ h[x].parent = d /\ Index(h, x) > 0
  <2>1. PICK i \in 1 .. Len(s) : x = s[i]
    BY <1>2
  <2>2. x \in Live(h) /\ h[x].parent = d /\ Index(h, x) = i
    BY <2>1, IndexIs
  <2>3. x # "/"
    BY <2>2, TreeIs
  <2> QED BY <1>2, <2>1, <2>2, <2>3
<1> QED BY <1>3 DEF AheadIn, Beyond

\* A process gets a table in which the new entries are at their beginning.
LEMMA SetTableInv ==
  ASSUME FileInv, NEW p \in Procs, NEW h, Good(h), Grows(file, h), LinksOK => LinkInv(h),
         NEW t \in Table, \A fd \in Fds : t[fd] = openfp[p][fd] \/ t[fd].ptr = 0,
         SetTable(p, h, t), UNCHANGED <<mounts, fault>>, alive' \subseteq Procs,
         cdir' \in [Procs -> Ptr], \A q \in Procs : cdir'[q] = cdir[q] \/ cdir'[q] = NULL
  PROVE  FileInv'
<1>1. /\ file' = h /\ openfp' = [openfp EXCEPT ![p] = t]
      /\ pending' = [q \in Procs |-> IF q = p THEN Awaited(p, h, t)
                                     ELSE [fd \in Fds |-> pending[q][fd] \cap Live(h)]]
  BY DEF SetTable
<1>2. IsTree(file, Live(file)) /\ IsTree(h, Live(h)) /\ h \in Mem /\ Live(h) \subseteq Nodes /\ TypeOK
  BY TreeIs DEF FileInv, Good
<1>3. Keeps(file, h) /\ \A fp : At(file, fp) => At(h, fp)
  BY GrowsKeeps
<1>4. openfp \in [Procs -> Table]
  BY <1>2, TablesAre DEF Table
<1>5. openfp' \in [Procs -> Table] /\ \A q \in Procs : openfp'[q] = IF q = p THEN t ELSE openfp[q]
  BY <1>1, <1>4
<1>6. ASSUME NEW q \in Procs, NEW fd \in Fds
      PROVE  /\ AheadIn(h, openfp[q][fd], pending[q][fd] \cap Live(h))
             /\ pending[q][fd] \cap Live(h) \in SUBSET Nodes
  <2>1. openfp[q][fd].ptr \in Nat
    BY <1>2, TablesAre
  <2>2. AheadIn(file, openfp[q][fd], pending[q][fd])
    BY DEF FileInv, PendingOK
  <2> QED BY <1>2, <1>3, <2>1, <2>2, KeepsAhead
<1>7. ASSUME NEW fd \in Fds
      PROVE  AheadIn(h, t[fd], Awaited(p, h, t)[fd]) /\ Awaited(p, h, t)[fd] \in SUBSET Nodes
  <2> DEFINE S == Awaited(p, h, t)[fd]
  <2>0. S = IF t[fd] = openfp[p][fd] THEN pending[p][fd] \cap Live(h)
            ELSE IF t[fd].fp \in Live(h) THEN ToSet(Kids(h, t[fd].fp)) ELSE {}
    BY DEF Awaited
  <2> HIDE DEF S
  <2>1. CASE t[fd] = openfp[p][fd]
    <3>1. S = pending[p][fd] \cap Live(h)
      BY <2>0, <2>1
    <3>2. AheadIn(h, openfp[p][fd], S) /\ S \in SUBSET Nodes
      BY <1>6, <3>1
    <3> QED BY <2>1, <3>2, Zenon DEF S
  <2>2. CASE t[fd] # openfp[p][fd] /\ t[fd].fp \in Live(h)
    <3>1. t[fd].ptr = 0 /\ S = ToSet(Kids(h, t[fd].fp))
      BY <2>0, <2>2
    <3>2. AheadIn(h, t[fd], S)
      BY <1>2, <2>2, <3>1, AllAhead
    <3>3. S \subseteq Nodes
      BY <1>2, <3>2 DEF AheadIn
    <3> QED BY <3>2, <3>3 DEF S
  <2>3. CASE t[fd] # openfp[p][fd] /\ t[fd].fp \notin Live(h)
    <3>1. S = {}
      BY <2>0, <2>3
    <3> QED BY <3>1 DEF S, AheadIn
  <2> QED BY <2>1, <2>2, <2>3
<1>8. PendingOK'
  <2> SUFFICES ASSUME NEW q \in Procs, NEW fd \in Fds
               PROVE  AheadIn(h, openfp'[q][fd], pending'[q][fd])
    BY <1>1 DEF PendingOK
  <2>1. CASE q = p
    <3>1. pending'[q] = Awaited(p, h, t) /\ openfp'[q] = t
      BY <1>1, <1>5, <2>1
    <3> QED BY <1>7, <3>1
  <2>2. CASE q # p
    <3>1. pending'[q][fd] = pending[q][fd] \cap Live(h) /\ openfp'[q] = openfp[q]
      BY <1>1, <1>5, <2>2
    <3> QED BY <1>6, <3>1
  <2> QED BY <2>1, <2>2
<1>9. pending' \in [Procs -> [Fds -> SUBSET Nodes]]
  <2>1. Awaited(p, h, t) \in [Fds -> SUBSET Nodes]
    <3>1. Awaited(p, h, t) = [fd \in Fds |-> Awaited(p, h, t)[fd]]
      BY DEF Awaited
    <3> QED BY <1>7, <3>1
  <2>2. \A q \in Procs : [fd \in Fds |-> pending[q][fd] \cap Live(h)] \in [Fds -> SUBSET Nodes]
    BY <1>6
  <2> QED BY <1>1, <2>1, <2>2
<1>10. ASSUME mounts' = 0 PROVE LinksOK'
  <2>1. LinksOK
    BY <1>10 DEF FileInv
  <2>2. LinkInv(h) /\ (\A f \in Static : At(h, f)) /\ \A q \in Procs : At(h, cdir[q])
    BY <1>3, <2>1 DEF LinksOK
  <2>3. \A q \in Procs : At(h, cdir'[q])
    BY <2>2 DEF At
  <2> QED BY <1>1, <2>2, <2>3 DEF LinksOK
<1>11. Good(file)' /\ file' \in Mem
  BY <1>1, <1>2 DEF Good
<1>12. mounts' \in 0 .. kMaxMounts /\ fault' \in BOOLEAN
  BY <1>2 DEF TypeOK
<1> QED BY <1>5, <1>8, <1>9, <1>10, <1>11, <1>12, InvFromParts DEF Table

\* addFile puts the file at the first free place, if there is one.
LEMMA AddFileIs ==
  ASSUME NEW t \in Table, NEW fp \in Ptr
  PROVE  /\ addFile(t, fp) \in Table
         /\ \A fd \in Fds : addFile(t, fp)[fd] = t[fd] \/ addFile(t, fp)[fd].ptr = 0
<1>1. CASE fp = NULL \/ FreeFds(t) = {}
  BY <1>1 DEF addFile
<1>2. CASE ~(fp = NULL \/ FreeFds(t) = {})
  <2> DEFINE i == Min(FreeFds(t))
             e == [fp |-> fp, ptr |-> 0]
  <2>1. FreeFds(t) \in SUBSET Nat /\ FreeFds(t) \subseteq Fds
    BY NumbersAre DEF FreeFds, Fds
  <2>2. \E x \in FreeFds(t) : \A y \in FreeFds(t) : x <= y
    BY <1>2, <2>1, NatSetMin
  <2>3. i \in Fds
    <3>1. i \in FreeFds(t)
      BY <2>2, Zenon DEF Min
    <3> QED BY <2>1, <3>1
  <2>4. e \in [fp : Ptr, ptr : 0 .. Modulus - 1] /\ e.ptr = 0
    BY NumbersAre
  <2>5. addFile(t, fp) = [t EXCEPT ![i] = e]
    BY <1>2 DEF addFile
  <2> HIDE DEF i, e
  <2> QED BY <2>3, <2>4, <2>5 DEF Table
<1> QED BY <1>1, <1>2

LEMMA OpenInv ==
  ASSUME FileInv, NEW p \in Procs, NEW q \in Paths, NEW n, open(p, q, n)
  PROVE  FileInv'
<1> DEFINE w == path(p, q, n)
           t == addFile(openfp[p], w.fp)
<1>1. Found(w)
  BY PathIs
<1>2. IF Result(w) = NULL \/ w.fp \notin Live(w.h) THEN Fault
      ELSE SetTable(p, w.h, t) /\ UNCHANGED <<mounts, alive, cdir, fault>>
  BY DEF open
<1> HIDE DEF w
<1>3. CASE Result(w) = NULL \/ w.fp \notin Live(w.h)
  BY <1>2, <1>3, FaultInv
<1>4. CASE ~(Result(w) = NULL \/ w.fp \notin Live(w.h))
  <2>1. SetTable(p, w.h, t) /\ UNCHANGED <<mounts, alive, cdir, fault>>
    BY <1>2, <1>4
  <2>2. Good(w.h) /\ Grows(file, w.h) /\ (LinksOK => LinkInv(w.h)) /\ w.fp \in Ptr
    BY <1>1, FoundIs DEF Found
  <2>3. openfp[p] \in Table
    BY TablesAre DEF FileInv, Table
  <2>4. t \in Table /\ \A fd \in Fds : t[fd] = openfp[p][fd] \/ t[fd].ptr = 0
    BY <2>2, <2>3, AddFileIs
  <2> HIDE DEF t
  <2>5. UNCHANGED <<mounts, fault>> /\ alive' \subseteq Procs /\ cdir' \in [Procs -> Ptr]
    BY <2>1 DEF FileInv, TypeOK
  <2>6. \A r \in Procs : cdir'[r] = cdir[r] \/ cdir'[r] = NULL
    BY <2>1
  <2> QED BY <2>1, <2>2, <2>4, <2>5, <2>6, SetTableInv
<1> QED BY <1>3, <1>4

\* A change of the table alone.
LEMMA TableInv ==
  ASSUME FileInv, NEW p \in Procs, NEW t \in Table,
         \A fd \in Fds : t[fd] = openfp[p][fd] \/ t[fd].ptr = 0,
         SetTable(p, file, t), UNCHANGED <<mounts, alive, cdir, fault>>
  PROVE  FileInv'
<1>1. Good(file) /\ Grows(file, file) /\ (LinksOK => LinkInv(file))
  BY GrowsNone DEF FileInv, Good, LinksOK
<1>2. UNCHANGED <<mounts, fault>> /\ alive' \subseteq Procs /\ cdir' \in [Procs -> Ptr]
  BY DEF FileInv, TypeOK
<1>3. \A r \in Procs : cdir'[r] = cdir[r] \/ cdir'[r] = NULL
  OBVIOUS
<1> QED BY <1>1, <1>2, <1>3, SetTableInv

LEMMA CloseInv ==
  ASSUME FileInv, NEW p \in Procs, NEW fd, close(p, fd)
  PROVE  FileInv'
<1> DEFINE t == [openfp[p] EXCEPT ![fd] = Closed]
<1>1. CASE openfp[p][fd].fp \notin Live(file)
  BY <1>1, FaultInv DEF close
<1>2. CASE openfp[p][fd].fp \in Live(file)
  <2>1. fd \in Fds /\ SetTable(p, file, t) /\ UNCHANGED <<mounts, alive, cdir, fault>>
    BY <1>2 DEF close
  <2>2. openfp[p] \in Table
    BY TablesAre DEF FileInv, Table
  <2>3. Closed \in [fp : Ptr, ptr : 0 .. Modulus - 1] /\ Closed.ptr = 0
    BY NumbersAre DEF Closed, Ptr
  <2>4. t \in Table /\ \A i \in Fds : t[i] = openfp[p][i] \/ t[i].ptr = 0
    BY <2>1, <2>2, <2>3 DEF Table
  <2> HIDE DEF t
  <2> QED BY <2>1, <2>4, TableInv
<1> QED BY <1>1, <1>2

LEMMA Dup2Inv ==
  ASSUME FileInv, NEW p \in Procs, NEW oldfd, NEW newfd, dup2(p, oldfd, newfd)
  PROVE  FileInv'
<1> DEFINE fp == IF oldfd \in Fds THEN openfp[p][oldfd].fp ELSE NULL
           e == [fp |-> fp, ptr |-> 0]
           t == [openfp[p] EXCEPT ![newfd] = e]
<1>1. newfd \in Fds /\ SetTable(p, file, t) /\ UNCHANGED <<mounts, alive, cdir, fault>>
  BY DEF dup2
<1>2. fp \in Ptr
  BY TablesAre DEF FileInv, Ptr
<1> HIDE DEF fp
<1>3. e \in [fp : Ptr, ptr : 0 .. Modulus - 1] /\ e.ptr = 0
  BY <1>2, NumbersAre
<1> HIDE DEF e
<1>4. openfp[p] \in Table
  BY TablesAre DEF FileInv, Table
<1>5. t \in Table /\ \A i \in Fds : t[i] = openfp[p][i] \/ t[i].ptr = 0
  BY <1>1, <1>3, <1>4 DEF Table
<1> HIDE DEF t
<1> QED BY <1>1, <1>5, TableInv

\* A step that moves one offset, and leaves pending what lies ahead of it.
LEMMA OffsetInv ==
  ASSUME FileInv, NEW p \in Procs, NEW fd \in Fds, NEW i \in 0 .. Modulus - 1, NEW S \in SUBSET Nodes,
         openfp' = [openfp EXCEPT ![p][fd].ptr = i], pending' = [pending EXCEPT ![p][fd] = S],
         AheadIn(file, [openfp[p][fd] EXCEPT !.ptr = i], S), UNCHANGED <<file, mounts, alive, cdir, fault>>
  PROVE  FileInv'
<1> DEFINE Slot == [fp : Ptr, ptr : 0 .. Modulus - 1]
           e == [openfp[p][fd] EXCEPT !.ptr = i]
<1>1. openfp \in [Procs -> [Fds -> Slot]] /\ pending \in [Procs -> [Fds -> SUBSET Nodes]] /\ file \in Mem
  BY TablesAre DEF FileInv, TypeOK
<1>2. openfp' = [openfp EXCEPT ![p] = [openfp[p] EXCEPT ![fd] = e]]
  BY <1>1
<1>3. e \in Slot
  <2>1. openfp[p][fd] \in Slot
    BY <1>1
  <2>2. ASSUME NEW o \in Slot PROVE [o EXCEPT !.ptr = i] \in Slot
    OBVIOUS
  <2> QED BY <2>1, <2>2
<1> HIDE DEF e, Slot
<1>4. /\ openfp' \in [Procs -> [Fds -> Slot]]
      /\ \A q \in Procs, j \in Fds : openfp'[q][j] = IF q = p /\ j = fd THEN e ELSE openfp[q][j]
  <2> DEFINE t == [openfp[p] EXCEPT ![fd] = e]
  <2>1. t \in [Fds -> Slot] /\ \A j \in Fds : t[j] = IF j = fd THEN e ELSE openfp[p][j]
    BY <1>1, <1>3
  <2>2. openfp' = [openfp EXCEPT ![p] = t]
    BY <1>2
  <2> HIDE DEF t
  <2>3. openfp' \in [Procs -> [Fds -> Slot]] /\ \A q \in Procs : openfp'[q] = IF q = p THEN t ELSE openfp[q]
    BY ONLY <1>1, <2>1, <2>2
  <2> QED BY ONLY <2>1, <2>3
<1>5. /\ pending' \in [Procs -> [Fds -> SUBSET Nodes]]
      /\ \A q \in Procs, j \in Fds : pending'[q][j] = IF q = p /\ j = fd THEN S ELSE pending[q][j]
  BY <1>1
<1>6. PendingOK'
  <2> SUFFICES ASSUME NEW q \in Procs, NEW j \in Fds
               PROVE  AheadIn(file, openfp'[q][j], pending'[q][j])
    BY DEF PendingOK
  <2>1. CASE q = p /\ j = fd
    <3>1. openfp'[q][j] = e /\ pending'[q][j] = S
      BY <1>4, <1>5, <2>1
    <3> QED BY <3>1 DEF e
  <2>2. CASE ~(q = p /\ j = fd)
    <3>1. openfp'[q][j] = openfp[q][j] /\ pending'[q][j] = pending[q][j]
      BY <1>4, <1>5, <2>2
    <3>2. AheadIn(file, openfp[q][j], pending[q][j])
      BY DEF FileInv, PendingOK
    <3> QED BY <3>1, <3>2
  <2> QED BY <2>1, <2>2
<1>7. /\ file' \in Mem /\ mounts' \in 0 .. kMaxMounts /\ alive' \subseteq Procs /\ cdir' \in [Procs -> Ptr]
      /\ fault' \in BOOLEAN
  BY <1>1 DEF FileInv, TypeOK
<1>8. Good(file)' /\ (mounts' = 0 => LinksOK')
  BY DEF FileInv, LinksOK
<1> QED BY <1>4, <1>5, <1>6, <1>7, <1>8, InvFromParts DEF Slot

\* Offsets wrap around.
LEMMA Wrapped ==
  ASSUME NEW a \in Int
  PROVE  a % Modulus \in 0 .. Modulus - 1
BY NumbersAre

LEMMA NextOffset ==
  ASSUME NEW a \in 0 .. Modulus - 1
  PROVE  (a + 1) % Modulus \in 0 .. a + 1 /\ (a = Modulus - 1 => (a + 1) % Modulus = 0)
BY NumbersAre

LEMMA PreviousOffset ==
  ASSUME NEW a \in 0 .. Modulus - 1
  PROVE  (a + (-1)) % Modulus = IF a = 0 THEN Modulus - 1 ELSE a - 1
BY NumbersAre

LEMMA TransferInv ==
  ASSUME FileInv, NEW p \in Procs, NEW fd \in Fds, NEW op, Transfer(p, fd, op)
  PROVE  FileInv'
<1> DEFINE o == openfp[p][fd]
<1>1. CASE o.fp \notin Live(file)
  BY <1>1, FaultInv DEF Transfer
<1>2. CASE o.fp \in Live(file)
  <2>1. PICK ret \in Returns(file[o.fp].kind, op) :
          /\ openfp' = [openfp EXCEPT ![p][fd].ptr = (@ + ret) % Modulus]
          /\ pending' = StillAwaited(p, fd) /\ o.ptr <= MaxOffset
          /\ UNCHANGED <<file, mounts, alive, cdir, fault>>
    BY <1>2 DEF Transfer
  <2>2. ret \in Int /\ o.ptr \in Int
    BY <2>1, TablesAre DEF Returns, FileInv
  <2>3. o \in [fp : Ptr, ptr : 0 .. Modulus - 1] /\ pending[p][fd] \in SUBSET Nodes
    BY TablesAre DEF FileInv
  <2>4. pending \in [Procs -> [Fds -> SUBSET Nodes]]
    BY Zenon DEF FileInv, TypeOK
  <2> DEFINE i == (o.ptr + ret) % Modulus
             S == IF file[o.fp].kind \in Directories THEN pending[p][fd] ELSE {}
             e == [openfp[p][fd] EXCEPT !.ptr = i]
  <2>5. i \in 0 .. Modulus - 1 /\ S \in SUBSET Nodes
    BY <2>2, <2>3, Wrapped
  <2>6. openfp' = [openfp EXCEPT ![p][fd].ptr = i]
    BY <2>1
  <2>7. pending' = [pending EXCEPT ![p][fd] = S]
    <3>1. CASE file[o.fp].kind \in Directories
      BY <2>1, <2>4, <3>1 DEF StillAwaited
    <3>2. CASE file[o.fp].kind \notin Directories
      BY <2>1, <3>2 DEF StillAwaited
    <3> QED BY <3>1, <3>2
  <2>8. e.fp = o.fp /\ e.ptr = i
    BY <2>3
  <2>9. ASSUME file[o.fp].kind \in Directories PROVE AheadIn(file, e, pending[p][fd])
    <3>1. ret = -1
      BY <2>1, <2>9 DEF Returns, Directories
    <3>2. o.ptr \in 0 .. Modulus - 1 /\ o.ptr # Modulus - 1
      BY <2>1, <2>3, NumbersAre
    <3>3. i = IF o.ptr = 0 THEN Modulus - 1 ELSE o.ptr - 1
      BY <3>1, <3>2, PreviousOffset
    <3>4. AheadIn(file, o, pending[p][fd])
      BY DEF FileInv, PendingOK
    <3>5. IsTree(file, Live(file))
      BY DEF FileInv, Good
    <3> SUFFICES ASSUME NEW x \in pending[p][fd]
                 PROVE  x \in Live(file) /\ x # "/" /\ file[x].parent = e.fp /\ Beyond(Index(file, x), e)
      BY DEF AheadIn
    <3>6. x \in Live(file) /\ x # "/" /\ file[x].parent = o.fp /\ Beyond(Index(file, x), o)
      BY <3>4 DEF AheadIn
    <3>7. Index(file, x) \in 1 .. Len(Kids(file, file[x].parent))
      BY <3>5, <3>6, HasIndex
    <3> HIDE DEF i, o, e
    <3>8. Index(file, x) \in Int /\ Index(file, x) > o.ptr
      BY <3>2, <3>6, <3>7 DEF Beyond
    <3>9. Beyond(Index(file, x), e)
      BY <2>8, <3>2, <3>3, <3>8, NumbersAre DEF Beyond
    <3> QED BY <2>8, <3>6, <3>9
  <2> HIDE DEF i, o, e
  <2>10. AheadIn(file, e, S)
    <3>1. CASE file[o.fp].kind \in Directories
      BY <2>9, <3>1
    <3>2. CASE file[o.fp].kind \notin Directories
      BY <3>2 DEF AheadIn
    <3> QED BY <3>1, <3>2
  <2> HIDE DEF S
  <2> QED BY <2>1, <2>5, <2>6, <2>7, <2>10, OffsetInv DEF e
<1> QED BY <1>1, <1>2

LEMMA GetdentsInv ==
  ASSUME FileInv, NEW p \in Procs, NEW fd \in Fds, getdents(p, fd)
  PROVE  FileInv'
<1> DEFINE o == openfp[p][fd]
           kids == Kids(file, o.fp)
           i == (o.ptr + 1) % Modulus
           S == pending[p][fd] \ {kids[o.ptr + 1]}
<1>1. CASE o.fp \notin Live(file)
  BY <1>1, FaultInv DEF getdents
<1>2. CASE o.fp \in Live(file)
  <2>1. /\ o.ptr < Len(kids)
        /\ openfp' = [openfp EXCEPT ![p][fd].ptr = i]
        /\ pending' = [pending EXCEPT ![p][fd] = S]
        /\ UNCHANGED <<file, mounts, alive, cdir, fault>>
    BY <1>2 DEF getdents
  <2>2. o \in [fp : Ptr, ptr : 0 .. Modulus - 1] /\ S \in SUBSET Nodes
    BY TablesAre DEF FileInv
  <2>3. o.ptr \in 0 .. Modulus - 1 /\ o.ptr \in Nat /\ o.ptr + 1 \in Int
    BY <2>2, NumbersAre
  <2>4. i \in 0 .. Modulus - 1 /\ i \in 0 .. o.ptr + 1 /\ (o.ptr = Modulus - 1 => i = 0)
    BY <2>3, Wrapped, NextOffset
  <2>5. AheadIn(file, o, pending[p][fd])
    BY DEF FileInv, PendingOK
  <2>6. IsTree(file, Live(file))
    BY DEF FileInv, Good
  <2>7. ASSUME NEW x \in S PROVE x \in Live(file) /\ x # "/" /\ file[x].parent = o.fp /\ Index(file, x) > i
    <3>1. x \in Live(file) /\ x # "/" /\ file[x].parent = o.fp /\ Beyond(Index(file, x), o) /\ x # kids[o.ptr + 1]
      BY <2>5 DEF AheadIn
    <3>2. Index(file, x) \in 1 .. Len(kids) /\ kids[Index(file, x)] = x
      BY <2>6, <3>1, HasIndex
    <3> HIDE DEF o, kids, i
    <3>3. Index(file, x) \in Int /\ Index(file, x) # o.ptr + 1 /\ Index(file, x) > 0
      BY <3>1, <3>2
    <3>4. Index(file, x) > i
      BY <2>3, <2>4, <3>1, <3>3 DEF Beyond
    <3> QED BY <3>1, <3>4
  <2> DEFINE e == [openfp[p][fd] EXCEPT !.ptr = i]
  <2>8. e.fp = o.fp /\ e.ptr = i
    BY <2>2
  <2> HIDE DEF i, S, o, kids, e
  <2>9. AheadIn(file, e, S)
    BY <2>7, <2>8 DEF AheadIn, Beyond
  <2> QED BY <2>1, <2>2, <2>4, <2>9, OffsetInv DEF e
<1> QED BY <1>1, <1>2

LEMMA ForkInv ==
  ASSUME FileInv, NEW p \in Procs, NEW q \in Procs, fork(p, q)
  PROVE  FileInv'
<1>1. /\ alive' = alive \cup {q} /\ openfp' = [openfp EXCEPT ![q] = openfp[p]]
      /\ cdir' = [cdir EXCEPT ![q] = cdir[p]] /\ pending' = [pending EXCEPT ![q] = pending[p]]
      /\ UNCHANGED <<file, mounts, fault>>
  BY DEF fork
<1>2. /\ openfp \in [Procs -> Table] /\ pending \in [Procs -> [Fds -> SUBSET Nodes]] /\ file \in Mem
      /\ cdir \in [Procs -> Ptr] /\ alive \subseteq Procs
  BY TablesAre DEF FileInv, TypeOK, Table
<1>3. /\ openfp' \in [Procs -> Table] /\ pending' \in [Procs -> [Fds -> SUBSET Nodes]]
      /\ cdir' \in [Procs -> Ptr] /\ alive' \subseteq Procs
  BY <1>1, <1>2
<1>4. \A r \in Procs : \E s \in Procs : openfp'[r] = openfp[s] /\ pending'[r] = pending[s] /\ cdir'[r] = cdir[s]
  <2> TAKE r \in Procs
  <2>1. CASE r = q
    BY <1>1, <1>2, <2>1
  <2>2. CASE r # q
    BY <1>1, <1>2, <2>2
  <2> QED BY <2>1, <2>2
<1>5. PendingOK'
  <2> SUFFICES ASSUME NEW r \in Procs, NEW j \in Fds
               PROVE  AheadIn(file, openfp'[r][j], pending'[r][j])
    BY <1>1 DEF PendingOK
  <2>1. PICK s \in Procs : openfp'[r] = openfp[s] /\ pending'[r] = pending[s]
    BY <1>4
  <2>2. AheadIn(file, openfp[s][j], pending[s][j])
    BY DEF FileInv, PendingOK
  <2> QED BY <2>1, <2>2
<1>6. ASSUME mounts' = 0 PROVE LinksOK'
  <2>1. LinksOK
    BY <1>1, <1>6 DEF FileInv
  <2> QED BY <1>1, <1>4, <2>1 DEF LinksOK
<1>7. file' \in Mem /\ mounts' \in 0 .. kMaxMounts /\ fault' \in BOOLEAN /\ Good(file)'
  BY <1>1, <1>2 DEF FileInv, TypeOK
<1> QED BY <1>3, <1>5, <1>6, <1>7, InvFromParts DEF Table

\* The table of a new process.
OpenedSteps(w, b, fp) == w = [i \in Nat |-> IF i = 0 THEN b ELSE addFile(w[i - 1], fp)]

LEMMA OpenedIs ==
  ASSUME NEW b \in Table, \A fd \in Fds : b[fd].ptr = 0, NEW fp \in Ptr, NEW n \in Nat
  PROVE  LET t == (CHOOSE w : OpenedSteps(w, b, fp))[n]
         IN  t \in Table /\ \A fd \in Fds : t[fd].ptr = 0
<1> DEFINE D == {t \in Table : \A fd \in Fds : t[fd].ptr = 0}
           F == [t \in D |-> addFile(t, fp)]
           v == CHOOSE w : OpenedSteps(w, b, fp)
<1>1. b \in D
  OBVIOUS
<1>2. ASSUME NEW t \in D PROVE addFile(t, fp) \in D
  BY AddFileIs
<1>3. OpenedSteps(v, b, fp)
  <2>1. F \in [D -> D]
    <3> HIDE DEF D
    <3> QED BY <1>2
  <2>2. PICK w \in [Nat -> D] : IsLoop(w, b, F)
    <3> HIDE DEF D, F
    <3> QED BY <1>1, <2>1, LoopDefined
  <2>3. \A i \in Nat : i # 0 => i - 1 \in Nat /\ F[w[i - 1]] = addFile(w[i - 1], fp)
    <3> HIDE DEF D
    <3> QED OBVIOUS
  <2>4. OpenedSteps(w, b, fp)
    <3> HIDE DEF D, F
    <3> QED BY <2>2, <2>3 DEF IsLoop, OpenedSteps
  <2> QED BY <2>4, Zenon
<1> HIDE DEF v
<1>4. v[0] = b /\ \A i \in Nat : v[i + 1] = addFile(v[i], fp)
  <2>1. \A i \in Nat : i + 1 \in Nat /\ i + 1 # 0 /\ (i + 1) - 1 = i
    OBVIOUS
  <2> QED BY <1>3, <2>1 DEF OpenedSteps
<1>5. \A i \in Nat : v[i] \in D
  <2>1. \A i \in Nat : v[i] \in D => v[i + 1] \in D
    <3> HIDE DEF D
    <3> QED BY <1>2, <1>4
  <2> HIDE DEF D, F
  <2> QED BY <1>1, <1>4, <2>1, LoopStays
<1>6. v[n] \in D
  BY <1>5
<1> QED BY <1>6 DEF v

LEMMA ExecvInv ==
  ASSUME FileInv, NEW p \in Procs, NEW f \in Paths, NEW q \in Procs, NEW n, execv(p, f, q, n)
  PROVE  FileInv'
<1> DEFINE w == path(p, f, n)
           tty == Walk(w.h, "/", default_tty, TRUE, n)
           fp == Result(tty)
           b == [fd \in Fds |-> Closed]
           t == (CHOOSE v : OpenedSteps(v, b, fp))[STD_FILES]
<1>1. Found(w)
  BY PathIs
<1>2. IF w.st = "fault" \/ w.fp \notin Live(w.h) \/ tty.st = "fault" THEN Fault
      ELSE /\ SetTable(q, tty.h, t) /\ alive' = alive \cup {q}
           /\ cdir' = [cdir EXCEPT ![q] = NULL] /\ UNCHANGED <<mounts, fault>>
  BY DEF execv, OpenedSteps
<1> HIDE DEF w, t
<1>3. CASE w.st = "fault" \/ w.fp \notin Live(w.h) \/ tty.st = "fault"
  BY <1>2, <1>3, FaultInv
<1>4. CASE ~(w.st = "fault" \/ w.fp \notin Live(w.h) \/ tty.st = "fault")
  <2>1. /\ SetTable(q, tty.h, t) /\ alive' = alive \cup {q}
        /\ cdir' = [cdir EXCEPT ![q] = NULL] /\ UNCHANGED <<mounts, fault>>
    BY <1>2, <1>4
  <2> DEFINE C == STRING
             h == w.h
  <2>2. Good(h) /\ Reads(file, h) /\ Good(file)
    BY <1>1, FoundIs DEF Found
  <2>3. default_tty \in Seq(C) /\ "/" \in Ptr
    BY FileTreeAssumption, NodesAre, Zenon DEF Ptr
  <2> HIDE DEF C, h
  <2>4. Walked(h, "/", TRUE, C, tty)
    BY <2>2, <2>3, WalkIs DEF h
  <2> HIDE DEF tty
  <2>5. Reads(h, tty.h) /\ tty.fp \in Ptr
    BY <2>4 DEF Walked, WalkState
  <2>6. Reads(file, tty.h)
    BY <2>2, <2>5, ReadsTwice
  <2>7. Good(tty.h) /\ Grows(file, tty.h) /\ (LinksOK => LinkInv(tty.h))
    BY <2>2, <2>6, ReadsLinks DEF Reads, LinksOK
  <2>8. fp \in Ptr
    BY <2>5 DEF Result, Ptr
  <2>9. b \in Table /\ \A fd \in Fds : b[fd].ptr = 0
    BY NumbersAre DEF Table, Closed, Ptr
  <2> HIDE DEF fp, b
  <2>10. t \in Table /\ \A fd \in Fds : t[fd] = openfp[q][fd] \/ t[fd].ptr = 0
    BY <2>8, <2>9, NumbersAre, OpenedIs DEF t
  <2>11. UNCHANGED <<mounts, fault>> /\ alive' \subseteq Procs /\ cdir' \in [Procs -> Ptr]
    BY <2>1 DEF FileInv, TypeOK, Ptr
  <2>12. \A r \in Procs : cdir'[r] = cdir[r] \/ cdir'[r] = NULL
    BY <2>1 DEF FileInv, TypeOK
  <2> QED BY <2>1, <2>7, <2>10, <2>11, <2>12, SetTableInv
<1> QED BY <1>3, <1>4

LEMMA NextInv ==
  ASSUME FileInv, Next
  PROVE  FileInv'
<1>2. alive \subseteq Procs
  BY DEF FileInv, TypeOK
<1>3. CASE FileSystemStep
  <2>1. PICK n \in Outcomes :
          \/ \E k \in Made, nm \in Names : NewFile(k, nm, n)
          \/ \E p \in alive, q \in Paths :
               \/ \E newf \in NewPaths : link(p, q, newf, n)
               \/ mount(p, q, n)
               \/ \E cmd \in {"ls", "cd", "cat"} : Lookup(p, q, cmd, n)
    BY <1>3 DEF FileSystemStep
  <2>3. CASE \E k \in Made, nm \in Names : NewFile(k, nm, n)
    BY <2>3, NewFileInv
  <2>4. ASSUME NEW p \in alive, NEW q \in Paths,
               \/ \E newf \in NewPaths : link(p, q, newf, n)
               \/ mount(p, q, n)
               \/ \E cmd \in {"ls", "cd", "cat"} : Lookup(p, q, cmd, n)
        PROVE  FileInv'
    BY <1>2, <2>4, LinkPreserves, MountInv, LookupInv
  <2> QED BY <2>1, <2>3, <2>4
<1>4. CASE \E nm \in Names : mknod(nm)
  BY <1>4, MknodInv
<1>5. ASSUME NEW p \in alive, SystemCall(p) PROVE FileInv'
  <2>1. CASE \E q \in Paths, n \in Outcomes :
               \/ open(p, q, n)
               \/ chdir(p, q, n)
               \/ \E child \in Procs : execv(p, q, child, n)
    BY <1>2, <2>1, OpenInv, ChdirInv, ExecvInv
  <2>2. CASE \E fd \in 0 .. CONFIG_MAX_FILE : close(p, fd)
    BY <1>2, <2>2, CloseInv
  <2>3. CASE \E fd \in Fds, op \in {"read", "write"} : Transfer(p, fd, op)
    BY <1>2, <2>3, TransferInv
  <2>4. CASE \E fd \in Fds : getdents(p, fd)
    BY <1>2, <2>4, GetdentsInv
  <2>5. CASE \E oldfd, newfd \in 0 .. CONFIG_MAX_FILE : dup2(p, oldfd, newfd)
    BY <1>2, <2>5, Dup2Inv
  <2>6. CASE \E child \in Procs : fork(p, child) \/ forkFails(child)
    BY <1>2, <2>6, ForkInv, FaultInv DEF forkFails
  <2> QED BY <1>5, <2>1, <2>2, <2>3, <2>4, <2>5, <2>6 DEF SystemCall
<1> QED BY <1>3, <1>4, <1>5 DEF Next

-------------------------------------------------------------------------------
(* The directories that init makes. *)

LEMMA PlaceIs ==
  ASSUME NEW f \in Static \ {"/"}
  PROVE  /\ ParentOf(f) \in Static /\ PlaceOf(f) \in 1 .. Len(Layout[ParentOf(f)])
         /\ Layout[ParentOf(f)][PlaceOf(f)] = f
<1>0. Layout \in [Static -> Seq(Static)] /\ UNION {ToSet(Layout[d]) : d \in Static} = Static \ {"/"}
  BY LayoutAssumption
<1>1. \E d \in Static : f \in ToSet(Layout[d])
  BY <1>0
<1>2. ParentOf(f) \in Static /\ f \in ToSet(Layout[ParentOf(f)])
  BY <1>1, Zenon DEF ParentOf
<1> DEFINE s == Layout[ParentOf(f)]
<1>3. s \in Seq(Static) /\ DOMAIN s = 1 .. Len(s)
  BY <1>0, <1>2
<1>4. \E i \in DOMAIN s : s[i] = f
  BY <1>2 DEF ToSet
<1>5. PlaceOf(f) \in DOMAIN s /\ s[PlaceOf(f)] = f
  BY <1>4, Zenon DEF PlaceOf
<1> QED BY <1>2, <1>3, <1>5

LEMMA ChildIs ==
  ASSUME NEW d \in Static, NEW i \in 1 .. Len(Layout[d])
  PROVE  /\ Layout[d][i] \in Static \ {"/"} /\ ParentOf(Layout[d][i]) = d
         /\ PlaceOf(Layout[d][i]) = i
<1> DEFINE x == Layout[d][i]
<1>0. /\ Layout \in [Static -> Seq(Static)] /\ UNION {ToSet(Layout[e]) : e \in Static} = Static \ {"/"}
      /\ \A e, g \in Static : \A j \in DOMAIN Layout[e], k \in DOMAIN Layout[g] :
           Layout[e][j] = Layout[g][k] => e = g /\ j = k
  BY LayoutAssumption
<1>1. \A e \in Static : DOMAIN Layout[e] = 1 .. Len(Layout[e])
  BY <1>0
<1>2. x \in ToSet(Layout[d])
  BY <1>1 DEF ToSet
<1>3. x \in Static \ {"/"}
  BY <1>0, <1>2
<1> HIDE DEF x
<1>4. /\ ParentOf(x) \in Static /\ PlaceOf(x) \in 1 .. Len(Layout[ParentOf(x)])
      /\ Layout[ParentOf(x)][PlaceOf(x)] = x
  BY <1>3, PlaceIs
<1>5. ParentOf(x) = d /\ PlaceOf(x) = i
  BY <1>0, <1>1, <1>4 DEF x
<1> QED BY <1>3, <1>5 DEF x

\* What init writes into a directory.
LEMMA DirectoryIs ==
  ASSUME NEW f \in Static
  PROVE  /\ InitialDirectory(f) \in FileRec
         /\ InitialDirectory(f).kind = "directory"
         /\ InitialDirectory(f).child = IF Layout[f] = <<>> THEN NULL ELSE Layout[f][1]
         /\ InitialDirectory(f).parent = IF f = "/" THEN NULL ELSE ParentOf(f)
         /\ InitialDirectory(f).next = IF f = "/" \/ PlaceOf(f) = Len(Layout[ParentOf(f)]) THEN NULL
                                       ELSE Layout[ParentOf(f)][PlaceOf(f) + 1]
         /\ InitialDirectory(f).prec = IF f = "/" \/ PlaceOf(f) = 1 THEN NULL
                                       ELSE Layout[ParentOf(f)][PlaceOf(f) - 1]
<1> DEFINE r == InitialDirectory(f)
           l == Layout[ParentOf(f)]
           i == PlaceOf(f)
           ch == IF Layout[f] = <<>> THEN NULL ELSE Layout[f][1]
           pa == IF f = "/" THEN NULL ELSE ParentOf(f)
           nx == IF f = "/" \/ i = Len(l) THEN NULL ELSE l[i + 1]
           pr == IF f = "/" \/ i = 1 THEN NULL ELSE l[i - 1]
           dir == "directory"
<1>1. Layout \in [Static -> Seq(Static)] /\ Static \subseteq STRING
  BY LayoutAssumption
<1>2. Static \subseteq Nodes /\ dir \in Kinds
  BY NodesAre, KindsAre
<1>3. ch \in Ptr
  <2>1. Layout[f] \in Seq(Static)
    BY <1>1
  <2>2. Layout[f] # <<>> => Layout[f][1] \in Static
    BY <2>1
  <2> QED BY <2>2, <1>2 DEF Ptr
<1>4. pa \in Ptr /\ nx \in Ptr /\ pr \in Ptr
  <2>1. CASE f = "/"
    BY <2>1 DEF Ptr
  <2>2. CASE f # "/"
    <3>1. ParentOf(f) \in Static /\ i \in 1 .. Len(l)
      BY <2>2, PlaceIs
    <3>2. l \in Seq(Static)
      BY <1>1, <3>1
    <3> HIDE DEF i, l
    <3>3. i # Len(l) => l[i + 1] \in Static
      BY <3>1, <3>2
    <3>4. i # 1 => l[i - 1] \in Static
      BY <3>1, <3>2
    <3> QED BY <3>1, <3>3, <3>4, <1>2, Zenon DEF Ptr
  <2> QED BY <2>1, <2>2
<1> HIDE DEF ch, pa, nx, pr
<1>5. r = [Free EXCEPT !.kind = dir, !.name = f, !.child = ch, !.parent = pa, !.next = nx, !.prec = pr]
  BY Zenon DEF InitialDirectory, ch, pa, nx, pr
<1>6. r = [kind |-> dir, name |-> f, parent |-> pa, child |-> ch, next |-> nx,
           prec |-> pr, link |-> NULL, ino |-> 0, loaded |-> FALSE]
  BY <1>5 DEF Free
<1> HIDE DEF r, dir
<1>7. /\ r \in FileRec /\ r.kind = dir /\ r.child = ch /\ r.parent = pa /\ r.next = nx
      /\ r.prec = pr
  BY <1>1, <1>2, <1>3, <1>4, <1>6 DEF FileRec, Ptr
<1> QED BY <1>7, Zenon DEF r, dir, ch, pa, nx, pr

\* The tree that init makes.
StartFile == [f \in Nodes |-> IF f \in Static THEN InitialDirectory(f) ELSE Free]

LEMMA StartIs ==
  /\ StartFile \in Mem /\ Live(StartFile) = Static /\ \A f \in Static : StartFile[f] = InitialDirectory(f)
<1>1. Static \subseteq Nodes /\ "free" \in Kinds
  BY NodesAre, KindsAre
<1>2. Free \in FileRec /\ Free.kind = "free"
  BY <1>1 DEF Free, FileRec, Ptr
<1>3. \A f \in Static : InitialDirectory(f) \in FileRec /\ InitialDirectory(f).kind = "directory"
  BY DirectoryIs, Zenon
<1>4. \A f \in Static : StartFile[f] = InitialDirectory(f)
  BY <1>1, Zenon DEF StartFile
<1>5. \A f \in Nodes \ Static : StartFile[f] = Free
  BY Zenon DEF StartFile
<1>6. StartFile \in Mem
  BY <1>2, <1>3, Zenon DEF StartFile, Mem
<1>7. Live(StartFile) = Static
  <2>1. ASSUME NEW f \in Nodes
        PROVE  StartFile[f].kind # "free" <=> f \in Static
    BY <1>2, <1>3, <1>4, <1>5
  <2> QED BY <2>1, <1>1, Zenon DEF Live
<1> QED BY <1>4, <1>6, <1>7

LEMMA StartTree == IsTree(StartFile, Static)
<1> DEFINE h == StartFile
           root == "/"
<1>1. PICK lv \in [Static -> 0 .. Cardinality(Static)] :
        \A d \in Static : \A i \in DOMAIN Layout[d] : lv[Layout[d][i]] = lv[d] + 1
  BY LayoutAssumption
<1>2. Cardinality(Static) \in Nat /\ Layout \in [Static -> Seq(Static)]
  BY LayoutAssumption, FS_CardinalityType
<1>3. root \in Static /\ Static \subseteq Nodes
  BY LayoutAssumption, NodesAre
<1>4. h \in Mem /\ \A f \in Static : h[f] = InitialDirectory(f)
  BY StartIs
<1> DEFINE pos == [x \in Nodes |-> IF x \in Static \ {root} THEN PlaceOf(x) ELSE 0]
           level == [x \in Nodes |-> IF x \in Static THEN lv[x] ELSE 0]
<1>5. \A x \in Static \ {root} :
        /\ ParentOf(x) \in Static /\ PlaceOf(x) \in 1 .. Len(Layout[ParentOf(x)])
        /\ Layout[ParentOf(x)][PlaceOf(x)] = x
  BY PlaceIs
<1>6. \A d \in Static : \A i \in 1 .. Len(Layout[d]) :
        Layout[d][i] \in Static \ {root} /\ ParentOf(Layout[d][i]) = d /\ PlaceOf(Layout[d][i]) = i
  BY ChildIs
<1>7. \A d \in Static : Len(Layout[d]) \in Nat /\ (Layout[d] # <<>> => 1 \in 1 .. Len(Layout[d]))
  BY <1>2
<1>8. \A f \in Static :
        /\ h[f].child = IF Layout[f] = <<>> THEN NULL ELSE Layout[f][1]
        /\ h[f].parent = IF f = root THEN NULL ELSE ParentOf(f)
        /\ h[f].next = IF f = root \/ PlaceOf(f) = Len(Layout[ParentOf(f)]) THEN NULL
                       ELSE Layout[ParentOf(f)][PlaceOf(f) + 1]
        /\ h[f].prec = IF f = root \/ PlaceOf(f) = 1 THEN NULL
                       ELSE Layout[ParentOf(f)][PlaceOf(f) - 1]
  BY <1>4, DirectoryIs, Zenon
<1>9. pos \in [Nodes -> Nat]
  <2>1. \A x \in Static \ {root} : PlaceOf(x) \in Nat
    BY <1>5, <1>7
  <2> QED BY <2>1
<1>10. level \in [Nodes -> Nat]
  BY <1>1, <1>2
<1>11. /\ \A x \in Static \ {root} : pos[x] = PlaceOf(x)
       /\ \A x \in Static : level[x] = lv[x] /\ lv[x] \in Nat
  BY <1>1, <1>2, <1>3
<1> HIDE DEF pos, level, h, root
<1>12. ASSUME NEW n \in Static
       PROVE  Linked(h, Static, pos, n)
  <2>1. h[n].child # NULL => /\ h[n].child \in Static /\ h[h[n].child].parent = n
                             /\ h[h[n].child].prec = NULL
    <3>1. CASE Layout[n] = <<>>
      BY <3>1, <1>8
    <3>2. CASE Layout[n] # <<>>
      <4> DEFINE c == Layout[n][1]
      <4>1. h[n].child = c /\ 1 \in 1 .. Len(Layout[n])
        BY <3>2, <1>7, <1>8
      <4>2. c \in Static \ {root} /\ ParentOf(c) = n /\ PlaceOf(c) = 1
        BY <4>1, <1>6
      <4> HIDE DEF c
      <4> QED BY <4>1, <4>2, <1>8
    <3> QED BY <3>1, <3>2
  <2>2. CASE n = root
    <3>1. h[n].next = NULL /\ h[n].prec = NULL
      BY <2>2, <1>8
    <3> QED BY <2>1, <3>1 DEF Linked
  <2>3. CASE n # root
    <3> DEFINE d == ParentOf(n)
               i == PlaceOf(n)
               s == Layout[d]
    <3>1. d \in Static /\ i \in 1 .. Len(s) /\ s[i] = n /\ Len(s) \in Nat
      BY <2>3, <1>5, <1>7
    <3>2. /\ h[n].parent = d
          /\ h[n].next = IF i = Len(s) THEN NULL ELSE s[i + 1]
          /\ h[n].prec = IF i = 1 THEN NULL ELSE s[i - 1]
      BY <2>3, <1>8
    <3>3. \A j \in 1 .. Len(s) : s[j] \in Static \ {root} /\ ParentOf(s[j]) = d /\ PlaceOf(s[j]) = j
      BY <1>6, <3>1
    <3>4. \A x \in Static \ {root} : ParentOf(x) = d =>
            /\ h[x].parent = d
            /\ h[x].next = IF PlaceOf(x) = Len(s) THEN NULL ELSE s[PlaceOf(x) + 1]
            /\ h[x].prec = IF PlaceOf(x) = 1 THEN NULL ELSE s[PlaceOf(x) - 1]
      BY <1>8
    <3> HIDE DEF d, i, s
    <3>5. \A j \in 1 .. Len(s) :
            /\ h[s[j]].parent = d /\ pos[s[j]] = j
            /\ h[s[j]].next = IF j = Len(s) THEN NULL ELSE s[j + 1]
            /\ h[s[j]].prec = IF j = 1 THEN NULL ELSE s[j - 1]
      BY <3>3, <3>4, <1>11
    <3>6. h[n].next # NULL => /\ h[n].next \in Static /\ h[h[n].next].parent = h[n].parent
                              /\ h[h[n].next].prec = n /\ pos[n] < pos[h[n].next]
      <4> SUFFICES ASSUME i # Len(s)
                   PROVE  /\ s[i + 1] \in Static /\ h[s[i + 1]].parent = d
                          /\ h[s[i + 1]].prec = n /\ pos[n] < pos[s[i + 1]]
        BY <3>2
      <4>1. i + 1 \in 1 .. Len(s) /\ i + 1 # 1 /\ (i + 1) - 1 = i
        BY <3>1
      <4>2. pos[s[i + 1]] = i + 1 /\ pos[n] = i
        BY <4>1, <3>1, <3>5
      <4> QED BY <4>1, <4>2, <3>1, <3>3, <3>5
    <3>7. h[n].prec # NULL => h[n].prec \in Static /\ h[h[n].prec].next = n
      <4> SUFFICES ASSUME i # 1
                   PROVE  s[i - 1] \in Static /\ h[s[i - 1]].next = n
        BY <3>2
      <4>1. i - 1 \in 1 .. Len(s) /\ i - 1 # Len(s) /\ (i - 1) + 1 = i
        BY <3>1
      <4> QED BY <4>1, <3>1, <3>3, <3>5
    <3> QED BY <2>1, <3>6, <3>7 DEF Linked
  <2> QED BY <2>2, <2>3
<1>13. ASSUME NEW n \in Static
       PROVE  Under(h, Static, level, n)
  <2> SUFFICES ASSUME n # root
               PROVE  /\ h[n].parent \in Static /\ level[h[n].parent] < level[n]
                      /\ h[n].prec = NULL => h[h[n].parent].child = n
    BY DEF Under, root
  <2> DEFINE d == ParentOf(n)
             i == PlaceOf(n)
             s == Layout[d]
  <2>1. d \in Static /\ i \in 1 .. Len(s) /\ s[i] = n /\ Len(s) \in Nat
    BY <1>5, <1>7
  <2>2. s \in Seq(Static) /\ DOMAIN s = 1 .. Len(s)
    BY <1>2, <2>1
  <2>3. h[n].parent = d /\ h[n].prec = IF i = 1 THEN NULL ELSE s[i - 1]
    BY <1>8
  <2>4. level[d] < level[n]
    <3>1. lv[n] = lv[d] + 1
      BY <1>1, <2>1, <2>2
    <3> QED BY <3>1, <1>11, <2>1
  <2>5. h[n].prec = NULL => i = 1
    <3> SUFFICES ASSUME i # 1
                 PROVE  h[n].prec # NULL
      OBVIOUS
    <3>1. i - 1 \in 1 .. Len(s)
      BY <2>1
    <3>2. s[i - 1] \in Static
      BY <3>1, <2>1, <1>6
    <3>3. s[i - 1] # NULL
      BY <3>2, NodesAre
    <3> QED BY <2>3, <3>3
  <2>6. i = 1 => h[d].child = n
    BY <1>8, <2>1, <2>2
  <2> QED BY <2>1, <2>3, <2>4, <2>5, <2>6
<1>14. h[root].parent = NULL
  BY <1>3, <1>8
<1>15. Shape(h, Static, pos, level)
  BY <1>3, <1>4, <1>9, <1>10, <1>12, <1>13, <1>14 DEF Shape, root
<1> QED BY <1>15, Zenon DEF IsTree, h

LEMMA InitInv == Init => FileInv
<1> SUFFICES ASSUME Init
             PROVE  FileInv
  OBVIOUS
<1> DEFINE h == StartFile
<1>1. /\ file = h /\ mounts = 0 /\ alive = {Boot} /\ fault = FALSE
      /\ openfp = [p \in Procs |-> [fd \in Fds |-> Closed]]
      /\ cdir = [p \in Procs |-> NULL] /\ pending = [p \in Procs |-> [fd \in Fds |-> {}]]
  BY Zenon DEF Init, StartFile
<1>2. h \in Mem /\ Live(h) = Static /\ IsTree(h, Live(h))
  BY StartIs, StartTree
<1>3. \A f \in Live(h) : h[f].kind = "directory"
  BY StartIs, DirectoryIs, Zenon
<1> HIDE DEF h
<1>4. \A n \in Live(h) \ {"/"} : h[n].parent \in Live(h)
  BY <1>2, TreeIs
<1>5. Good(h)
  <2>1. \A n \in Live(h) : h[n].kind \notin OnDisk
    BY <1>3 DEF OnDisk
  <2>2. DirsIn(h)
    BY <1>3, <1>4 DEF DirsIn
  <2>3. Inos(h) /\ LoadedBefore(h, NULL) /\ OneOfName(h)
    BY <2>1, Zenon DEF Inos, LoadedBefore, OneOfName
  <2> QED BY <1>2, <2>2, <2>3 DEF Good
<1>6. LinksOK
  <2>1. LinkInv(h)
    BY <1>3, <1>4 DEF LinkInv
  <2>2. \A f \in Static : At(h, f)
    BY <1>2, <1>3 DEF At
  <2>3. \A p \in Procs : At(h, cdir[p])
    BY <1>1 DEF At
  <2> QED BY <1>1, <2>1, <2>2, <2>3 DEF LinksOK
<1>7. PendingOK
  <2>1. \A p \in Procs, fd \in Fds : pending[p][fd] = {}
    BY <1>1
  <2> QED BY <2>1 DEF PendingOK, AheadIn
<1>8. TypeOK
  <2>1. Boot \in Procs /\ kMaxMounts \in Nat /\ Modulus \in Nat /\ Modulus > 4
    BY FileTreeAssumption, NumbersAre, Zenon
  <2>2. Closed \in [fp : Ptr, ptr : 0 .. Modulus - 1]
    BY <2>1 DEF Closed, Ptr
  <2>3. openfp \in [Procs -> [Fds -> [fp : Ptr, ptr : 0 .. Modulus - 1]]]
    BY <1>1, <2>2, Zenon
  <2>4. cdir \in [Procs -> Ptr] /\ pending \in [Procs -> [Fds -> SUBSET Nodes]]
    BY <1>1 DEF Ptr
  <2>5. mounts \in 0 .. kMaxMounts /\ alive \subseteq Procs
    BY <1>1, <2>1
  <2>6. fault \in BOOLEAN
    BY <1>1, Zenon
  <2> QED BY <1>1, <1>2, <2>3, <2>4, <2>5, <2>6, Zenon DEF TypeOK, Mem, FileRec
<1> QED BY <1>1, <1>5, <1>6, <1>7, <1>8 DEF FileInv

-------------------------------------------------------------------------------
(* The theorems. *)

\* Whatever is created, loaded, linked, opened and mounted, the tree is one, the
\* directories of the device are loaded once, and what a descriptor has still to
\* return lies ahead of its offset.
THEOREM FileInvariant == Spec => []FileInv
<1>1. FileInv /\ [Next]_vars => FileInv'
  <2> SUFFICES ASSUME FileInv, [Next]_vars
               PROVE  FileInv'
    OBVIOUS
  <2>1. CASE Next
    BY <2>1, NextInv
  <2>2. CASE UNCHANGED vars
    <3>1. UNCHANGED <<file, mounts, alive, openfp, cdir, pending>> /\ fault' = fault
      BY <2>2, Zenon DEF vars
    <3>2. fault' \in BOOLEAN
      BY <3>1, Zenon DEF FileInv, TypeOK
    <3> QED BY <3>1, <3>2, SameInv
  <2> QED BY <2>1, <2>2
<1> QED BY <1>1, InitInv, PTL DEF Spec

\* Every pointer, offset and set of awaited entries stays within its type.
THEOREM FileTypeCorrect == Spec => []TypeOK
<1>1. FileInv => TypeOK
  BY Zenon DEF FileInv
<1> QED BY <1>1, FileInvariant, PTL

LEMMA InvTree == FileInv => TreeOK
<1> SUFFICES ASSUME FileInv
             PROVE  TreeOK
  OBVIOUS
<1> DEFINE L == Live(file)
<1>1. IsTree(file, L)
  BY Zenon DEF FileInv, Good
<1>2. ASSUME NEW d \in L, NEW i \in DOMAIN Kids(file, d)
      PROVE  /\ Kids(file, d)[i] \in L /\ file[Kids(file, d)[i]].parent = d
             /\ file[Kids(file, d)[i]].prec = IF i = 1 THEN NULL ELSE Kids(file, d)[i - 1]
             /\ \A j \in 1 .. i - 1 : Kids(file, d)[i] # Kids(file, d)[j]
  <2> DEFINE s == Kids(file, d)
  <2>1. Chain(file, L, d, s)
    BY <1>1, KidsAll DEF AllKids
  <2>2. PICK pos, level : Shape(file, L, pos, level)
    BY <1>1, Zenon DEF IsTree
  <2> HIDE DEF s, L
  <2>3. \A k, j \in 1 .. Len(s) : s[k] = s[j] => k = j
    BY <2>1, <2>2, ChainShort
  <2>4. s \in Seq(Nodes) /\ DOMAIN s = 1 .. Len(s) /\ Len(s) \in Nat
    BY <2>1 DEF Chain
  <2>5. i \in 1 .. Len(s)
    BY <2>4 DEF s
  <2>6. /\ s[i] \in L /\ file[s[i]].parent = d
        /\ file[s[i]].prec = IF i = 1 THEN NULL ELSE s[i - 1]
    BY <2>1, <2>5 DEF Chain
  <2>7. \A j \in 1 .. i - 1 : s[i] # s[j]
    BY <2>3, <2>4, <2>5
  <2> QED BY <2>6, <2>7 DEF s
<1>3. L = Subtree(file, "/")
  BY <1>1, AllUnderRoot
<1>4. ASSUME NEW n \in L \ {"/"}
      PROVE  n \in ToSet(Kids(file, file[n].parent))
  <2> DEFINE s == Kids(file, file[n].parent)
             i == Index(file, n)
  <2>1. file[n].parent \in L /\ i \in 1 .. Len(s) /\ s[i] = n
    BY <1>1, HasIndex
  <2>2. s \in Seq(Nodes)
    BY <1>1, <2>1, KidsAll DEF AllKids, Chain
  <2> HIDE DEF s, i
  <2>3. i \in DOMAIN s
    BY <2>1, <2>2
  <2>4. n \in ToSet(s)
    BY <2>1, <2>3, Zenon DEF ToSet
  <2> QED BY <2>4 DEF s
<1> QED BY <1>2, <1>3, <1>4, Zenon DEF TreeOK

\* The pointers of the files always make a tree: addChild, the loading of a
\* directory, and the destructor under a mount keep it, however they follow one
\* another.
THEOREM FileTreeShape == Spec => []TreeOK
  BY FileInvariant, InvTree, PTL

\* While nothing is mounted, a link leads to a file that is there and is no link:
\* call_symlink links what path finds, and path never ends at a link.
THEOREM FileLinks == Spec => []LinksResolve
<1>1. FileInv => LinksResolve
  BY Zenon DEF FileInv, LinksOK, LinkInv, LinksResolve
<1> QED BY <1>1, FileInvariant, PTL

\* getdents skips no entry that was in the directory when it was opened, unless a
\* read or a write at the start has wrapped the offset: a new child comes first and
\* moves the others away from the start, what a mount deletes is replaced by one new
\* first child, and a read or a write elsewhere moves the offset back by one.
THEOREM FileEntriesAhead == Spec => []EntriesAhead
<1>1. ASSUME FileInv
      PROVE  EntriesAhead
  <2>0. alive \subseteq Procs /\ IsTree(file, Live(file)) /\ PendingOK
    BY <1>1, Zenon DEF FileInv, TypeOK, Good
  <2>1. ASSUME NEW p \in alive, NEW fd \in Fds, openfp[p][fd].fp \in Live(file),
               NEW i \in DOMAIN Kids(file, openfp[p][fd].fp),
               Kids(file, openfp[p][fd].fp)[i] \in pending[p][fd]
        PROVE  i > openfp[p][fd].ptr \/ openfp[p][fd].ptr = Modulus - 1
    <3> DEFINE d == openfp[p][fd].fp
               s == Kids(file, d)
    <3>1. s \in Seq(Nodes)
      BY <2>0, <2>1, KidsAll DEF AllKids, Chain
    <3>2. i \in 1 .. Len(s)
      BY <3>1
    <3>3. Index(file, s[i]) = i
      BY <2>0, <2>1, <3>2, IndexIs
    <3>4. AheadIn(file, openfp[p][fd], pending[p][fd])
      BY <2>0, Zenon DEF PendingOK
    <3>5. Beyond(Index(file, s[i]), openfp[p][fd])
      BY <2>1, <3>4, Zenon DEF AheadIn
    <3> QED BY <3>3, <3>5 DEF Beyond
  <2> QED BY <2>1, Zenon DEF EntriesAhead
<1> QED BY <1>1, FileInvariant, PTL

\* A directory of the device is filled at most once, by whichever lookup comes
\* first: no two of its files have the name of one entry.
THEOREM FileLoadedOnce == Spec => []LoadedOnce
<1>1. ASSUME FileInv
      PROVE  LoadedOnce
  <2>0. IsTree(file, Live(file)) /\ OneOfName(file)
    BY <1>1, Zenon DEF FileInv, Good
  <2>1. ASSUME NEW d \in Live(file), file[d].kind = "ext2dir",
               NEW m \in ToSet(Kids(file, d)), NEW n \in ToSet(Kids(file, d)),
               {file[m].kind, file[n].kind} \subseteq {"ext2dir", "ext2file"},
               file[m].name = file[n].name
        PROVE  m = n
    <3> DEFINE s == Kids(file, d)
    <3>1. s \in Seq(Nodes)
      BY <2>0, KidsAll DEF AllKids, Chain
    <3>2. \A x \in ToSet(s) : \E i \in 1 .. Len(s) : s[i] = x
      BY <3>1 DEF ToSet
    <3>3. \A i \in 1 .. Len(s) : s[i] \in Live(file) /\ file[s[i]].parent = d
      BY <2>0, IndexIs
    <3>4. \A x \in ToSet(s) : x \in Live(file) /\ file[x].parent = d
      BY <3>2, <3>3, Zenon
    <3>5. d # NULL /\ file["/"].parent = NULL
      BY <2>0, TreeIs
    <3>6. \A x \in ToSet(s) : x \in Live(file) \ {"/"}
      BY <3>4, <3>5
    <3>7. m \in Live(file) \ {"/"} /\ n \in Live(file) \ {"/"} /\ file[m].parent = d
          /\ file[n].parent = d
      BY <3>4, <3>6
    <3>8. file[m].kind \in OnDisk /\ file[n].kind \in OnDisk
      BY <2>1 DEF OnDisk
    <3> QED BY <2>0, <2>1, <3>7, <3>8, Zenon DEF OneOfName
  <2> QED BY <2>1, Zenon DEF LoadedOnce
<1> QED BY <1>1, FileInvariant, PTL
===============================================================================
