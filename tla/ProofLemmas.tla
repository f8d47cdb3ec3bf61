----------------------------- MODULE ProofLemmas -----------------------------
(***************************************************************************)
(* Facts about numbers and sequences that the proofs of several components *)
(* need, and induction over the natural numbers for a set instead of a     *)
(* formula.                                                                *)
(***************************************************************************)
EXTENDS Integers, SequencesExt, FiniteSetsExt, WellFoundedInduction, TLAPS

-------------------------------------------------------------------------------
(* Numbers. *)

\* Quotient and remainder.
LEMMA DivMod ==
  ASSUME NEW a \in Nat, NEW n \in Nat \ {0}
  PROVE  /\ a \div n \in Nat /\ a % n \in 0 .. n - 1
         /\ a = (a \div n) * n + (a % n)
OBVIOUS

\* The larger of two numbers.
LEMMA MaxOfTwo ==
  ASSUME NEW a \in Int, NEW b \in Int
  PROVE  Max({a, b}) \in {a, b} /\ Max({a, b}) >= a /\ Max({a, b}) >= b
<1>1. \E x \in {a, b} : \A y \in {a, b} : x >= y
  OBVIOUS
<1> QED BY <1>1 DEF Max

\* The smaller of two numbers.
LEMMA MinOfTwo ==
  ASSUME NEW x \in Int, NEW y \in Int
  PROVE  Min({x, y}) \in {x, y} /\ Min({x, y}) <= x /\ Min({x, y}) <= y
<1>1. \E m \in {x, y} : \A z \in {x, y} : m <= z
  OBVIOUS
<1> QED BY <1>1 DEF Min

\* Induction: a set of numbers with 0 and with the successor of each of its members
\* has all of them.  Otherwise there would be a least number that it lacks.
LEMMA NatSetInduction ==
  ASSUME NEW T \in SUBSET Nat, 0 \in T, \A n \in T : n + 1 \in T
  PROVE  T = Nat
<1> SUFFICES ASSUME T # Nat PROVE FALSE
  OBVIOUS
<1> DEFINE B == Nat \ T
<1>1. B \subseteq Nat /\ B # {}
  OBVIOUS
<1>2. PICK x \in B : \A y \in B : ~(<<y, x>> \in OpToRel(<, Nat))
  BY <1>1, NatLessThanWellFounded, WFMin
<1>3. x \in Nat /\ x # 0
  OBVIOUS
<1>4. x - 1 \in Nat /\ x - 1 < x /\ (x - 1) + 1 = x
  BY <1>3
<1>5. <<x - 1, x>> \in OpToRel(<, Nat)
  BY <1>3, <1>4 DEF OpToRel
<1>6. x - 1 \in T
  BY <1>2, <1>4, <1>5, Zenon
<1> QED BY <1>4, <1>6

\* A set of numbers that has any has a least one.
LEMMA NatSetMin ==
  ASSUME NEW S \in SUBSET Nat, S # {}
  PROVE  \E x \in S : \A y \in S : x <= y
<1>1. PICK x \in S : \A y \in S : ~(<<y, x>> \in OpToRel(<, Nat))
  BY NatLessThanWellFounded, WFMin
<1>2. ASSUME NEW y \in S PROVE x <= y
  <2>1. ASSUME y < x PROVE <<y, x>> \in OpToRel(<, Nat)
    BY <2>1 DEF OpToRel
  <2>2. ~(y < x)
    BY <1>1, <2>1, Zenon
  <2> QED BY <2>2
<1> QED BY <1>2

-------------------------------------------------------------------------------
(* Sequences. *)

\* A function on 1 .. n is a sequence.
LEMMA FunctionIsSeq ==
  ASSUME NEW S, NEW n \in Nat, NEW s \in [1 .. n -> S]
  PROVE  s \in Seq(S) /\ Len(s) = n
OBVIOUS

\* The first n elements of a sequence.
LEMMA Prefix ==
  ASSUME NEW S, NEW s \in Seq(S), NEW n \in 0 .. Len(s)
  PROVE  /\ SubSeq(s, 1, n) \in Seq(S) /\ Len(SubSeq(s, 1, n)) = n
         /\ \A i \in 1 .. n : SubSeq(s, 1, n)[i] = s[i]
OBVIOUS

\* A sequence with one more element.
LEMMA Appended ==
  ASSUME NEW S, NEW s \in Seq(S), NEW e \in S
  PROVE  /\ Append(s, e) \in Seq(S) /\ Len(Append(s, e)) = Len(s) + 1
         /\ \A i \in 1 .. Len(s) : Append(s, e)[i] = s[i]
         /\ Append(s, e)[Len(s) + 1] = e
OBVIOUS

\* One sequence after another.
LEMMA Joined ==
  ASSUME NEW S, NEW a \in Seq(S), NEW b \in Seq(S)
  PROVE  /\ a \o b \in Seq(S) /\ Len(a \o b) = Len(a) + Len(b)
         /\ \A i \in 1 .. Len(a) : (a \o b)[i] = a[i]
         /\ \A i \in 1 .. Len(b) : (a \o b)[Len(a) + i] = b[i]
OBVIOUS

\* A sequence without its k-th element.
LEMMA Removed ==
  ASSUME NEW S, NEW s \in Seq(S), NEW k \in 1 .. Len(s)
  PROVE  /\ RemoveAt(s, k) \in Seq(S) /\ Len(RemoveAt(s, k)) = Len(s) - 1
         /\ \A i \in 1 .. Len(s) - 1 : RemoveAt(s, k)[i] = IF i < k THEN s[i] ELSE s[i + 1]
<1> DEFINE a == SubSeq(s, 1, k - 1)
           b == SubSeq(s, k + 1, Len(s))
<1>0. Len(s) \in Nat /\ k \in Nat
  OBVIOUS
<1>1. a \in Seq(S) /\ Len(a) = k - 1 /\ \A i \in 1 .. k - 1 : a[i] = s[i]
  OBVIOUS
<1>2. b \in Seq(S) /\ Len(b) = Len(s) - k /\ \A i \in 1 .. Len(s) - k : b[i] = s[k + i]
  OBVIOUS
<1>3. RemoveAt(s, k) = a \o b
  BY DEF RemoveAt
<1> HIDE DEF a, b
<1>4. /\ a \o b \in Seq(S) /\ Len(a \o b) = Len(a) + Len(b)
      /\ \A i \in 1 .. Len(a) : (a \o b)[i] = a[i]
      /\ \A i \in 1 .. Len(b) : (a \o b)[Len(a) + i] = b[i]
  <2>1. a \in Seq(S) /\ b \in Seq(S)
    BY <1>1, <1>2
  <2> QED BY <2>1, Joined
<1>5. Len(a \o b) = Len(s) - 1
  BY <1>0, <1>1, <1>2, <1>4
<1>6. ASSUME NEW i \in 1 .. Len(s) - 1, i < k
      PROVE  (a \o b)[i] = s[i]
  BY <1>0, <1>1, <1>4, <1>6
<1>7. ASSUME NEW i \in 1 .. Len(s) - 1, ~(i < k)
      PROVE  (a \o b)[i] = s[i + 1]
  <2>1. i - (k - 1) \in 1 .. Len(b) /\ i = Len(a) + (i - (k - 1)) /\ k + (i - (k - 1)) = i + 1
    BY <1>0, <1>1, <1>2, <1>7
  <2>2. (a \o b)[i] = b[i - (k - 1)]
    BY <1>4, <2>1
  <2> QED BY <1>0, <1>2, <2>1, <2>2
<1> QED BY <1>3, <1>4, <1>5, <1>6, <1>7

-------------------------------------------------------------------------------
(* Loops, as recursive functions of the number of rounds. *)

\* A loop whose rounds stay in a set has a state after each number of rounds: there
\* is one for the first n rounds, for every n, and together these make one for all.
LEMMA LoopExists ==
  ASSUME NEW D, NEW b \in D, NEW F \in [D -> D]
  PROVE  \E w \in [Nat -> D] : w[0] = b /\ \A k \in Nat : w[k + 1] = F[w[k]]
<1> DEFINE Part(f, n) == /\ f[0] = b
                         /\ \A k \in 0 .. n : f[k] \in D
                         /\ \A k \in 1 .. n : f[k] = F[f[k - 1]]
           T == {n \in Nat : \E f : Part(f, n)}
<1>1. 0 \in T
  <2> DEFINE f == [k \in 0 .. 0 |-> b]
  <2>1. Part(f, 0)
    OBVIOUS
  <2> QED BY <2>1
<1>2. ASSUME NEW n \in T PROVE n + 1 \in T
  <2>1. PICK f : Part(f, n)
    OBVIOUS
  <2> DEFINE g == [k \in 0 .. n + 1 |-> IF k <= n THEN f[k] ELSE F[f[n]]]
  <2>2. g[0] = b
    BY <2>1
  <2>3. ASSUME NEW k \in 1 .. n + 1 PROVE g[k] = F[g[k - 1]]
    <3>1. k \in 0 .. n + 1 /\ k - 1 \in 0 .. n + 1 /\ k - 1 <= n
      BY n \in Nat
    <3>2. g[k - 1] = f[k - 1]
      BY <3>1
    <3>3. CASE k <= n
      <4>1. k \in 1 .. n
        BY <3>3
      <4> QED BY <2>1, <3>1, <3>2, <3>3, <4>1
    <3>4. CASE ~(k <= n)
      <4>1. k - 1 = n
        BY <3>4, n \in Nat
      <4>2. g[k] = F[f[n]]
        BY <3>1, <3>4
      <4> QED BY <3>2, <4>1, <4>2
    <3> QED BY <3>3, <3>4
  <2>4. ASSUME NEW k \in 0 .. n + 1 PROVE g[k] \in D
    <3>1. f[n] \in D
      BY <2>1, n \in Nat
    <3>2. CASE k <= n
      BY <2>1, <3>2, n \in Nat
    <3>3. CASE ~(k <= n)
      BY <3>1, <3>3
    <3> QED BY <3>2, <3>3
  <2> HIDE DEF g
  <2>5. Part(g, n + 1)
    BY <2>2, <2>3, <2>4
  <2>6. n + 1 \in Nat
    OBVIOUS
  <2> HIDE DEF Part
  <2> QED BY <2>5, <2>6
<1>3. \A n \in Nat : \E f : Part(f, n)
  <2>1. T \in SUBSET Nat
    OBVIOUS
  <2>2. T = Nat
    <3> HIDE DEF T
    <3> QED BY <1>1, <1>2, <2>1, NatSetInduction
  <2> HIDE DEF Part
  <2> QED BY <2>2
<1>4. ASSUME NEW n \in Nat, NEW f, NEW g, Part(f, n), Part(g, n + 1) PROVE f[n] = g[n]
  <2> DEFINE U == {k \in Nat : k <= n => f[k] = g[k]}
  <2>1. 0 \in U
    BY <1>4
  <2>2. ASSUME NEW k \in U PROVE k + 1 \in U
    <3> SUFFICES ASSUME k + 1 <= n PROVE f[k + 1] = g[k + 1]
      OBVIOUS
    <3>1. k \in Nat /\ k <= n /\ k + 1 \in 1 .. n /\ k + 1 \in 1 .. n + 1 /\ (k + 1) - 1 = k
      OBVIOUS
    <3>2. f[k] = g[k]
      BY <3>1
    <3>3. f[k + 1] = F[f[k]] /\ g[k + 1] = F[g[k]]
      BY <1>4, <3>1
    <3> QED BY <3>2, <3>3
  <2>3. U \in SUBSET Nat
    OBVIOUS
  <2>4. n \in U
    <3> HIDE DEF U
    <3> QED BY <2>1, <2>2, <2>3, NatSetInduction
  <2> QED BY <2>4
<1> DEFINE P(n) == CHOOSE f : Part(f, n)
           w == [n \in Nat |-> P(n)[n]]
<1>5. \A n \in Nat : Part(P(n), n)
  <2> HIDE DEF Part
  <2> QED BY <1>3, Zenon
<1> HIDE DEF P
<1>6. w[0] = b
  BY <1>5
<1>7. w \in [Nat -> D]
  <2>1. ASSUME NEW n \in Nat PROVE P(n)[n] \in D
    <3>1. Part(P(n), n) /\ n \in 0 .. n
      <4> HIDE DEF Part
      <4> QED BY <1>5
    <3> QED BY <3>1
  <2> QED BY <2>1
<1>8. ASSUME NEW n \in Nat PROVE w[n + 1] = F[w[n]]
  <2>1. n + 1 \in Nat /\ n + 1 \in 1 .. n + 1 /\ (n + 1) - 1 = n
    OBVIOUS
  <2>2. Part(P(n), n) /\ Part(P(n + 1), n + 1)
    <3> HIDE DEF Part
    <3> QED BY <1>5, <2>1
  <2>3. P(n)[n] = P(n + 1)[n]
    <3> HIDE DEF Part
    <3> QED BY <1>4, <2>2
  <2>4. P(n + 1)[n + 1] = F[P(n + 1)[n]]
    BY <2>1, <2>2
  <2> QED BY <2>1, <2>3, <2>4
<1> HIDE DEF w
<1> QED BY <1>6, <1>7, <1>8

\* A loop, written as a recursive function.
IsLoop(w, b, F) == w = [k \in Nat |-> IF k = 0 THEN b ELSE F[w[k - 1]]]

\* There is such a function.
LEMMA LoopDefined ==
  ASSUME NEW D, NEW b \in D, NEW F \in [D -> D]
  PROVE  \E w \in [Nat -> D] : IsLoop(w, b, F)
<1>1. PICK w \in [Nat -> D] : w[0] = b /\ \A k \in Nat : w[k + 1] = F[w[k]]
  BY LoopExists
<1> DEFINE v == [k \in Nat |-> IF k = 0 THEN b ELSE F[w[k - 1]]]
<1>2. ASSUME NEW k \in Nat PROVE w[k] = v[k]
  <2>1. CASE k = 0
    BY <1>1, <2>1
  <2>2. CASE k # 0
    <3>1. k - 1 \in Nat /\ (k - 1) + 1 = k
      BY <2>2
    <3> QED BY <1>1, <2>2, <3>1
  <2> QED BY <2>1, <2>2
<1>3. w = v
  BY <1>2
<1> QED BY <1>3 DEF IsLoop

\* What a loop does not leave in a round it never leaves.
LEMMA LoopStays ==
  ASSUME NEW D, NEW b \in D, NEW w, w[0] = b, \A k \in Nat : w[k] \in D => w[k + 1] \in D
  PROVE  \A k \in Nat : w[k] \in D
<1> DEFINE T == {k \in Nat : w[k] \in D}
<1>1. T \in SUBSET Nat /\ 0 \in T /\ \A k \in T : k + 1 \in T
  OBVIOUS
<1>2. T = Nat
  <2> HIDE DEF T
  <2> QED BY <1>1, NatSetInduction
<1> QED BY <1>2

\* A loop that makes a number smaller in each round, until it is done, is done after
\* that many rounds.
LEMMA LoopEnds ==
  ASSUME NEW D, NEW w, \A k \in Nat : w[k] \in D, NEW M \in [D -> Nat], NEW Done,
         \A k \in Nat : \/ w[k] \in Done /\ w[k + 1] = w[k]
                        \/ w[k] \notin Done /\ M[w[k + 1]] < M[w[k]],
         NEW n \in Nat, M[w[0]] <= n
  PROVE  w[n] \in Done
<1> DEFINE T == {k \in Nat : w[k] \in Done \/ M[w[k]] + k <= M[w[0]]}
<1>0. \A k \in Nat : M[w[k]] \in Nat
  OBVIOUS
<1>1. 0 \in T
  BY <1>0
<1>2. ASSUME NEW k \in T PROVE k + 1 \in T
  <2>1. k \in Nat /\ k + 1 \in Nat
    OBVIOUS
  <2>2. CASE w[k] \in Done
    BY <2>1, <2>2
  <2>3. CASE w[k] \notin Done
    <3>1. M[w[k + 1]] < M[w[k]] /\ M[w[k]] + k <= M[w[0]]
      BY <2>1, <2>3
    <3>2. M[w[k + 1]] \in Nat /\ M[w[k]] \in Nat /\ M[w[0]] \in Nat
      BY <1>0, <2>1
    <3> QED BY <2>1, <3>1, <3>2
  <2> QED BY <2>2, <2>3
<1>3. T \in SUBSET Nat
  OBVIOUS
<1>4. T = Nat
  <2> HIDE DEF T
  <2> QED BY <1>1, <1>2, <1>3, NatSetInduction
<1>5. w[n] \in Done \/ M[w[n]] + n <= M[w[0]]
  BY <1>4
<1>6. ASSUME w[n] \notin Done PROVE FALSE
  <2>1. M[w[n]] \in Nat /\ M[w[n + 1]] \in Nat /\ M[w[0]] \in Nat
    BY <1>0
  <2>2. M[w[n]] = 0
    BY <1>5, <1>6, <2>1
  <2>3. M[w[n + 1]] < M[w[n]]
    BY <1>6
  <2> QED BY <2>1, <2>2, <2>3
<1> QED BY <1>6

\* A loop whose rounds depend on their number.
IsCounted(w, b, F) == w = [k \in Nat |-> IF k = 0 THEN b ELSE F[<<k, w[k - 1]>>]]

\* There is such a function: it is the second half of a loop that counts its rounds.
LEMMA CountedDefined ==
  ASSUME NEW D, NEW b \in D, NEW F \in [Nat \X D -> D]
  PROVE  \E w \in [Nat -> D] : IsCounted(w, b, F)
<1> DEFINE E == Nat \X D
           a == <<0, b>>
           G == [s \in E |-> <<s[1] + 1, F[<<s[1] + 1, s[2]>>]>>]
<1>1. a \in E /\ G \in [E -> E]
  OBVIOUS
<1>2. PICK v \in [Nat -> E] : v[0] = a /\ \A k \in Nat : v[k + 1] = G[v[k]]
  <2> HIDE DEF E, G, a
  <2>1. PICK v \in [Nat -> E] : IsLoop(v, a, G)
    BY <1>1, LoopDefined
  <2>2. \A k \in Nat : k + 1 \in Nat /\ k + 1 # 0 /\ (k + 1) - 1 = k
    OBVIOUS
  <2>3. v[0] = a /\ \A k \in Nat : v[k + 1] = G[v[k]]
    BY <2>1, <2>2 DEF IsLoop
  <2> QED BY <2>1, <2>3
<1>3. \A k \in Nat : v[k] \in E
  BY <1>2
<1>4. \A k \in Nat : /\ v[k][1] \in Nat /\ v[k][2] \in D
                      /\ v[k + 1][1] = v[k][1] + 1 /\ v[k + 1][2] = F[<<v[k][1] + 1, v[k][2]>>]
  <2> TAKE k \in Nat
  <2>1. v[k] \in E /\ v[k + 1] = G[v[k]]
    BY <1>2, <1>3
  <2>2. v[k + 1] = <<v[k][1] + 1, F[<<v[k][1] + 1, v[k][2]>>]>>
    BY <2>1
  <2> QED BY <2>1, <2>2
<1> DEFINE T == {k \in Nat : v[k][1] = k}
<1>5. T = Nat
  <2>1. 0 \in T
    BY <1>2
  <2>2. ASSUME NEW k \in T PROVE k + 1 \in T
    <3>1. k \in Nat /\ v[k][1] = k /\ k + 1 \in Nat
      OBVIOUS
    <3>2. v[k + 1][1] = v[k][1] + 1
      BY <1>4, <3>1
    <3> QED BY <3>1, <3>2
  <2>3. T \in SUBSET Nat
    OBVIOUS
  <2> HIDE DEF T
  <2> QED BY <2>1, <2>2, <2>3, NatSetInduction
<1> DEFINE w == [k \in Nat |-> v[k][2]]
           u == [k \in Nat |-> IF k = 0 THEN b ELSE F[<<k, w[k - 1]>>]]
<1>6. w \in [Nat -> D]
  BY <1>3
<1>7. ASSUME NEW k \in Nat PROVE w[k] = u[k]
  <2>1. CASE k = 0
    BY <1>2, <2>1
  <2>2. CASE k # 0
    <3>1. k - 1 \in Nat /\ (k - 1) + 1 = k
      BY <2>2
    <3>2. v[k - 1][1] = k - 1 /\ w[k - 1] = v[k - 1][2]
      BY <1>5, <3>1
    <3>3. v[k][2] = F[<<k, v[k - 1][2]>>]
      BY <1>4, <3>1, <3>2
    <3> QED BY <2>2, <3>2, <3>3
  <2> QED BY <2>1, <2>2
<1>8. w = u
  BY <1>7
<1> HIDE DEF w
<1> QED BY <1>6, <1>8 DEF IsCounted
===============================================================================
