--------------------------- MODULE StackAllocProofs ---------------------------
(***************************************************************************)
(* Proofs about module StackAlloc, for any memory of kmalloc, all limits,  *)
(* sizes and alignments, and any number of frames and checkpoints.         *)
(***************************************************************************)
EXTENDS StackAlloc, ProofLemmas, FiniteSetTheorems

-------------------------------------------------------------------------------
(* The inductive invariant.                                                *)

Frame == [piece : Pieces, size : Nat, current : Nat]
Area == [piece : Pieces, from : Nat, to : Nat]
Checkpoint == [piece : Pieces, pos : [piece : Pieces, at : Nat], held : SUBSET Area]

Typing ==
  /\ initialized \in BOOLEAN
  /\ frames \in Seq(Frame) /\ checkpoint_stack \in Seq(Checkpoint)
  /\ memory \subseteq Pieces /\ popped \subseteq Pieces /\ live \subseteq Area
  /\ initialized <=> frames # <<>>
  /\ ~initialized => checkpoint_stack = <<>>

FramesOK ==
  \A i \in 1 .. Len(frames) : Start <= frames[i].current /\ frames[i].current <= End(frames[i])

\* The memory of a sequence of frames or of checkpoints; no two are in the same piece.
PiecesOf(s) == {s[j].piece : j \in 1 .. Len(s)}
Apart(s) == \A i, j \in 1 .. Len(s) : s[i].piece = s[j].piece => i = j

\* MemoryAccounted without the numbers.
Owners ==
  /\ memory = PiecesOf(frames) \cup PiecesOf(checkpoint_stack) \cup popped
  /\ PiecesOf(frames) \cap PiecesOf(checkpoint_stack) = {}
  /\ popped \cap (PiecesOf(frames) \cup PiecesOf(checkpoint_stack)) = {}

In(a, f) == f.piece = a.piece /\ Start <= a.from /\ a.from < a.to /\ a.to <= f.current

Inside == \A a \in live : \E i \in 1 .. Len(frames) : In(a, frames[i])
Disjoint == \A a, b \in live : a # b => ~Overlap(a, b)

\* What callers had when a checkpoint was made lies below its position, if it is in
\* the same piece of memory.  Nothing is said of the frame, which may be gone: the
\* position is compared with a current frame that happens to be in that piece.
HeldBelow ==
  \A j \in 1 .. Len(checkpoint_stack) : \A a \in checkpoint_stack[j].held :
    a.piece = checkpoint_stack[j].pos.piece => a.to <= checkpoint_stack[j].pos.at

StackInv ==
  /\ Typing /\ FramesOK /\ Apart(frames) /\ Apart(checkpoint_stack) /\ Owners
  /\ Inside /\ Disjoint /\ HeldBelow

-------------------------------------------------------------------------------
(* Operators. *)

\* Rounding up to a multiple adds less than the alignment, and what is not empty
\* takes up at least one unit of it.
LEMMA AlignBounds ==
  ASSUME NEW n \in Nat, NEW al \in Nat \ {0}
  PROVE  /\ Align(n, al) \in Nat
         /\ n <= Align(n, al) /\ Align(n, al) <= n + al - 1
         /\ n > 0 => al <= Align(n, al)
<1> DEFINE q == (n + al - 1) \div al
<1>1. /\ q \in Nat
      /\ n + al - 1 = q * al + ((n + al - 1) % al)
      /\ (n + al - 1) % al \in 0 .. al - 1
  OBVIOUS
<1>2. n > 0 => q >= 1
  OBVIOUS
<1> QED BY <1>1, <1>2 DEF Align

\* alloc_aligned never passes on an alignment of zero.
LEMMA AlignmentPositive ==
  ASSUME NEW a \in Alignments
  PROVE  ValidAlignment(a) \in Nat \ {0}
BY StackAssumption DEF ValidAlignment, IsPowerOfTwo

-------------------------------------------------------------------------------
(* Sequences. *)

\* Sequences whose elements are in different pieces have as many pieces as elements.
LEMMA PieceCount ==
  ASSUME NEW S, NEW s \in Seq(S), Apart(s)
  PROVE  Cardinality(PiecesOf(s)) = Len(s)
<1> DEFINE f == [j \in 1 .. Len(s) |-> s[j].piece]
<1>1. Len(s) \in Nat
  OBVIOUS
<1>2. f \in Bijection(1 .. Len(s), PiecesOf(s))
  BY DEF Bijection, Injection, Surjection, IsInjective, Apart, PiecesOf
<1>3. ExistsBijection(1 .. Len(s), PiecesOf(s))
  BY <1>2 DEF ExistsBijection
<1> QED BY <1>1, <1>3, FS_CountingElements

\* A new frame or checkpoint, in a piece that no other is in.
LEMMA AppendedPieces ==
  ASSUME NEW S, NEW s \in Seq(S), NEW e \in S, Apart(s), e.piece \notin PiecesOf(s)
  PROVE  /\ Apart(Append(s, e))
         /\ PiecesOf(Append(s, e)) = PiecesOf(s) \cup {e.piece}
<1> DEFINE t == Append(s, e)
<1>1. /\ Len(t) = Len(s) + 1 /\ Len(s) \in Nat /\ t[Len(s) + 1] = e
      /\ \A i \in 1 .. Len(s) : t[i] = s[i]
  BY Appended
<1> HIDE DEF t
<1>2. \A i \in 1 .. Len(t) : i \in 1 .. Len(s) \/ i = Len(s) + 1
  BY <1>1
<1>3. PiecesOf(t) = PiecesOf(s) \cup {e.piece}
  BY <1>1, <1>2 DEF PiecesOf
<1>4. Apart(t)
  BY <1>1, <1>2 DEF Apart, PiecesOf
<1> QED BY <1>3, <1>4 DEF t

\* The first ones only.
LEMMA PrefixPieces ==
  ASSUME NEW S, NEW s \in Seq(S), Apart(s), NEW n \in 0 .. Len(s)
  PROVE  /\ Apart(SubSeq(s, 1, n))
         /\ PiecesOf(SubSeq(s, 1, n)) = PiecesOf(s) \ {s[j].piece : j \in n + 1 .. Len(s)}
<1> DEFINE t == SubSeq(s, 1, n)
<1>1. Len(s) \in Nat /\ Len(t) = n /\ \A i \in 1 .. n : t[i] = s[i] /\ i \in 1 .. Len(s)
  BY Prefix
<1> HIDE DEF t
<1>2. Apart(t)
  BY <1>1 DEF Apart
<1>3. \A j \in 1 .. Len(s) : j \in 1 .. n \/ j \in n + 1 .. Len(s)
  BY <1>1
<1>4. \A i \in 1 .. n, j \in n + 1 .. Len(s) : s[i].piece # s[j].piece
  BY <1>1 DEF Apart
<1>5. PiecesOf(t) = PiecesOf(s) \ {s[j].piece : j \in n + 1 .. Len(s)}
  BY <1>1, <1>3, <1>4 DEF PiecesOf
<1> QED BY <1>2, <1>5 DEF t

\* All but the k-th.
LEMMA RemovedPieces ==
  ASSUME NEW S, NEW s \in Seq(S), Apart(s), NEW k \in 1 .. Len(s)
  PROVE  /\ Apart(RemoveAt(s, k))
         /\ PiecesOf(RemoveAt(s, k)) = PiecesOf(s) \ {s[k].piece}
<1> DEFINE t == RemoveAt(s, k)
<1>1. /\ Len(s) \in Nat /\ k \in Nat /\ Len(t) = Len(s) - 1
      /\ \A i \in 1 .. Len(s) - 1 : t[i] = IF i < k THEN s[i] ELSE s[i + 1]
  BY Removed
<1> HIDE DEF t
<1>2. Apart(t)
  BY <1>1 DEF Apart
<1>3. ASSUME NEW j \in 1 .. Len(s), j # k
      PROVE  \E i \in 1 .. Len(t) : t[i] = s[j]
  <2>1. CASE j < k
    BY <1>1, <2>1
  <2>2. CASE ~(j < k)
    <3>1. j - 1 \in 1 .. Len(s) - 1 /\ ~(j - 1 < k) /\ (j - 1) + 1 = j
      BY <1>1, <1>3, <2>2
    <3> QED BY <1>1, <3>1
  <2> QED BY <2>1, <2>2
<1>4. ASSUME NEW i \in 1 .. Len(t)
      PROVE  \E j \in 1 .. Len(s) : j # k /\ t[i] = s[j]
  <2>1. i \in 1 .. Len(s) - 1
    BY <1>1
  <2>2. CASE i < k
    <3>1. i \in 1 .. Len(s) /\ i # k /\ t[i] = s[i]
      BY <1>1, <2>1, <2>2
    <3> QED BY <3>1
  <2>3. CASE ~(i < k)
    <3>1. i + 1 \in 1 .. Len(s) /\ i + 1 # k /\ t[i] = s[i + 1]
      BY <1>1, <2>1, <2>3
    <3> QED BY <3>1
  <2> QED BY <2>2, <2>3
<1>5. \A j \in 1 .. Len(s) : j # k => s[j].piece # s[k].piece
  BY DEF Apart
<1>6. PiecesOf(t) \subseteq PiecesOf(s) \ {s[k].piece}
  BY <1>4, <1>5 DEF PiecesOf
<1>7. PiecesOf(s) \ {s[k].piece} \subseteq PiecesOf(t)
  BY <1>3 DEF PiecesOf
<1> QED BY <1>2, <1>6, <1>7 DEF t

\* The pointer of the current frame is moved.
LEMMA CurrentMoved ==
  ASSUME Typing, initialized, NEW c \in Nat,
         frames' = [frames EXCEPT ![Len(frames)].current = c]
  PROVE  /\ frames' \in Seq(Frame) /\ Len(frames') = Len(frames) /\ Len(frames) \in Nat \ {0}
         /\ \A i \in 1 .. Len(frames) : /\ frames'[i].piece = frames[i].piece
                                        /\ frames'[i].size = frames[i].size
         /\ \A i \in 1 .. Len(frames) - 1 : frames'[i] = frames[i]
         /\ frames'[Len(frames)].current = c
<1>1. frames \in Seq(Frame) /\ frames # <<>>
  BY DEF Typing
<1>2. Len(frames) \in Nat \ {0} /\ DOMAIN frames = 1 .. Len(frames)
  BY <1>1
<1>3. \A i \in 1 .. Len(frames) : frames[i] \in Frame
  BY <1>1
<1>4. DOMAIN frames' = 1 .. Len(frames)
  BY <1>2
<1>5. \A i \in 1 .. Len(frames) - 1 : frames'[i] = frames[i]
  BY <1>2
<1>6. frames'[Len(frames)] = [frames[Len(frames)] EXCEPT !.current = c]
  BY <1>2
<1>7. \A i \in 1 .. Len(frames) : /\ frames'[i] \in Frame
                                  /\ frames'[i].piece = frames[i].piece
                                  /\ frames'[i].size = frames[i].size
  BY <1>2, <1>3, <1>5, <1>6 DEF Frame
<1>8. frames' \in Seq(Frame) /\ Len(frames') = Len(frames)
  <2>1. frames' \in [1 .. Len(frames) -> Frame]
    BY <1>2, <1>4, <1>7
  <2> DEFINE n == Len(frames)
             t == frames'
  <2>2. n \in Nat /\ t \in [1 .. n -> Frame]
    BY <1>2, <2>1
  <2> HIDE DEF n, t
  <2>3. t \in Seq(Frame) /\ Len(t) = n
    BY ONLY <2>2, FunctionIsSeq
  <2> QED BY ONLY <2>3 DEF n, t
<1>9. frames'[Len(frames)].current = c
  <2> DEFINE f == frames[Len(frames)]
             g == frames'[Len(frames)]
  <2>1. f \in Frame /\ g = [f EXCEPT !.current = c]
    BY <1>2, <1>3, <1>6
  <2> HIDE DEF f, g
  <2>2. g.current = c
    BY ONLY <2>1 DEF Frame
  <2> QED BY <2>2 DEF g
<1> QED BY ONLY <1>2, <1>5, <1>7, <1>8, <1>9

\* The current frame is the last, and it is the only one in its piece.
LEMMA CurrentIsLast ==
  ASSUME StackInv, initialized
  PROVE  /\ Len(frames) \in Nat \ {0} /\ CurrentFrame = frames[Len(frames)]
         /\ CurrentFrame \in Frame
         /\ Start <= CurrentFrame.current /\ CurrentFrame.current <= End(CurrentFrame)
         /\ \A a \in live : a.piece = CurrentFrame.piece => In(a, CurrentFrame)
         /\ \A a \in live : a.piece # CurrentFrame.piece =>
              \E i \in 1 .. Len(frames) - 1 : In(a, frames[i])
         /\ \A i \in 1 .. Len(frames) - 1 : frames[i].piece # CurrentFrame.piece
<1>1. frames \in Seq(Frame) /\ frames # <<>> /\ Apart(frames) /\ Inside /\ FramesOK
  BY DEF StackInv, Typing
<1>2. Len(frames) \in Nat \ {0} /\ CurrentFrame = frames[Len(frames)] /\ CurrentFrame \in Frame
  BY <1>1 DEF CurrentFrame
<1>3. Len(frames) \in 1 .. Len(frames)
  BY <1>2
<1>4. \A i \in 1 .. Len(frames) - 1 : frames[i].piece # CurrentFrame.piece
  BY <1>1, <1>2, <1>3 DEF Apart
<1>5. Start <= CurrentFrame.current /\ CurrentFrame.current <= End(CurrentFrame)
  BY <1>1, <1>2, <1>3 DEF FramesOK
<1>6. ASSUME NEW a \in live
      PROVE  /\ a.piece = CurrentFrame.piece => In(a, CurrentFrame)
             /\ a.piece # CurrentFrame.piece => \E i \in 1 .. Len(frames) - 1 : In(a, frames[i])
  <2>1. PICK i \in 1 .. Len(frames) : In(a, frames[i])
    BY <1>1 DEF Inside
  <2>2. i \in 1 .. Len(frames) - 1 \/ i = Len(frames)
    BY <1>2
  <2> QED BY <1>2, <1>4, <2>1, <2>2 DEF In
<1> QED BY <1>2, <1>4, <1>5, <1>6

\* The current frame is left with c as its pointer, and callers have what lies below
\* it and in the other frames.
LEMMA MoveStep ==
  ASSUME StackInv, initialized, NEW c \in Nat, Start <= c, c <= End(CurrentFrame),
         frames' = [frames EXCEPT ![Len(frames)].current = c],
         \A a \in live' : \/ In(a, [CurrentFrame EXCEPT !.current = c])
                          \/ a \in live /\ a.piece # CurrentFrame.piece
  PROVE  /\ frames' \in Seq(Frame) /\ frames' # <<>>
         /\ FramesOK' /\ Apart(frames') /\ PiecesOf(frames') = PiecesOf(frames)
         /\ Inside'
<1>1. Typing /\ FramesOK /\ Apart(frames)
  BY DEF StackInv
<1>2. /\ frames' \in Seq(Frame) /\ Len(frames') = Len(frames) /\ Len(frames) \in Nat \ {0}
      /\ \A i \in 1 .. Len(frames) : /\ frames'[i].piece = frames[i].piece
                                     /\ frames'[i].size = frames[i].size
      /\ \A i \in 1 .. Len(frames) - 1 : frames'[i] = frames[i]
      /\ frames'[Len(frames)].current = c
  BY <1>1, CurrentMoved
<1>3. /\ CurrentFrame = frames[Len(frames)] /\ CurrentFrame \in Frame
      /\ \A a \in live : a.piece # CurrentFrame.piece =>
           \E i \in 1 .. Len(frames) - 1 : In(a, frames[i])
  BY CurrentIsLast
<1>4. \A i \in 1 .. Len(frames) : i \in 1 .. Len(frames) - 1 \/ i = Len(frames)
  BY <1>2
<1>5. frames' # <<>>
  BY ONLY <1>2
<1>6. FramesOK'
  BY ONLY <1>1, <1>2, <1>3, <1>4, Start <= c, c <= End(CurrentFrame) DEF FramesOK, End
<1>7. Apart(frames') /\ PiecesOf(frames') = PiecesOf(frames)
  BY ONLY <1>1, <1>2 DEF Apart, PiecesOf
<1>8. Inside'
  <2> SUFFICES ASSUME NEW a \in live'
               PROVE  \E i \in 1 .. Len(frames') : In(a, frames'[i])
    BY DEF Inside, In
  <2>1. CASE In(a, [CurrentFrame EXCEPT !.current = c])
    <3>1. In(a, frames'[Len(frames)])
      BY ONLY <1>2, <1>3, <2>1 DEF In, Frame
    <3> QED BY ONLY <1>2, <3>1
  <2>2. CASE a \in live /\ a.piece # CurrentFrame.piece
    BY ONLY <1>2, <1>3, <2>2 
  <2> QED BY <2>1, <2>2
<1> QED BY ONLY <1>2, <1>5, <1>6, <1>7, <1>8

\* A frame is added in a piece that is not in use.
LEMMA LinkStep ==
  ASSUME StackInv, NEW f \in Frame, f.piece \notin memory,
         Start <= f.current, f.current <= End(f), frames' = Append(frames, f),
         \A a \in live' : In(a, f) \/ a \in live
  PROVE  /\ frames' \in Seq(Frame) /\ frames' # <<>>
         /\ FramesOK' /\ Apart(frames') /\ PiecesOf(frames') = PiecesOf(frames) \cup {f.piece}
         /\ Inside'
<1>1. frames \in Seq(Frame) /\ FramesOK /\ Apart(frames) /\ Inside /\ f.piece \notin PiecesOf(frames)
  BY DEF StackInv, Typing, Owners
<1>2. /\ frames' \in Seq(Frame) /\ Len(frames') = Len(frames) + 1 /\ Len(frames) \in Nat
      /\ \A i \in 1 .. Len(frames) : frames'[i] = frames[i]
      /\ frames'[Len(frames) + 1] = f
  BY <1>1, Appended
<1>3. Apart(frames') /\ PiecesOf(frames') = PiecesOf(frames) \cup {f.piece}
  BY <1>1, AppendedPieces
<1>4. \A i \in 1 .. Len(frames') : i \in 1 .. Len(frames) \/ i = Len(frames) + 1
  BY ONLY <1>2
<1>5. frames' # <<>>
  BY ONLY <1>2
<1>6. FramesOK'
  BY ONLY <1>1, <1>2, <1>4, Start <= f.current, f.current <= End(f) DEF FramesOK, End
<1>7. Inside'
  <2> SUFFICES ASSUME NEW a \in live'
               PROVE  \E i \in 1 .. Len(frames') : In(a, frames'[i])
    BY DEF Inside, In
  <2>1. CASE In(a, f)
    BY ONLY <1>2, <2>1
  <2>2. CASE a \in live
    <3>1. PICK i \in 1 .. Len(frames) : In(a, frames[i])
      BY <1>1, <2>2 DEF Inside
    <3> QED BY ONLY <1>2, <3>1
  <2> QED BY <2>1, <2>2
<1> QED BY ONLY <1>2, <1>3, <1>5, <1>6, <1>7

\* Frames are dropped at the end, in which callers have nothing.
LEMMA UnlinkStep ==
  ASSUME StackInv, NEW kept \in 1 .. Len(frames), frames' = SubSeq(frames, 1, kept), live' = live,
         \A i \in kept + 1 .. Len(frames) : Unused(i)
  PROVE  /\ frames' \in Seq(Frame) /\ frames' # <<>>
         /\ FramesOK' /\ Apart(frames')
         /\ PiecesOf(frames') = PiecesOf(frames) \ {frames[i].piece : i \in kept + 1 .. Len(frames)}
         /\ Inside'
<1>1. frames \in Seq(Frame) /\ FramesOK /\ Apart(frames) /\ Inside /\ live \subseteq Area
  BY DEF StackInv, Typing
<1>2. /\ frames' \in Seq(Frame) /\ Len(frames') = kept /\ Len(frames) \in Nat /\ kept \in Nat \ {0}
      /\ \A i \in 1 .. kept : frames'[i] = frames[i] /\ i \in 1 .. Len(frames)
  BY <1>1, Prefix
<1>3. /\ Apart(frames')
      /\ PiecesOf(frames') = PiecesOf(frames) \ {frames[i].piece : i \in kept + 1 .. Len(frames)}
  BY <1>1, PrefixPieces
<1>4. frames' # <<>>
  BY ONLY <1>2
<1>5. FramesOK'
  BY ONLY <1>1, <1>2 DEF FramesOK, End
<1>6. Inside'
  <2> SUFFICES ASSUME NEW a \in live
               PROVE  \E i \in 1 .. Len(frames') : In(a, frames'[i])
    BY DEF Inside, In
  <2>1. PICK i \in 1 .. Len(frames) : In(a, frames[i])
    BY <1>1 DEF Inside
  <2>2. CASE i \in 1 .. kept
    BY ONLY <1>2, <2>1, <2>2
  <2>3. CASE i \in kept + 1 .. Len(frames)
    <3>1. frames[i].current = Start /\ a.from \in Nat /\ a.to \in Nat
      BY <1>1, <2>3 DEF Unused, Area
    <3> QED BY <2>1, <3>1, StackAssumption DEF In
  <2> QED BY <1>2, <2>2, <2>3
<1> QED BY ONLY <1>2, <1>3, <1>4, <1>5, <1>6

-------------------------------------------------------------------------------
(* The capacity of the frames. *)

\* The sums that FrameBytes computes: of the first n frames, for every n.
SumSteps(w, fs, S) == w = [n \in S |-> IF n = 0 THEN 0 ELSE w[n - 1] + fs[n].size]
Sums(fs) == CHOOSE w : SumSteps(w, fs, Nat)

\* The recursive definition of the sums has a solution: one for each finite number of
\* frames, which together make one for all.
LEMMA SumsDefined ==
  ASSUME NEW fs
  PROVE  /\ Sums(fs)[0] = 0
         /\ \A k \in Nat : Sums(fs)[k + 1] = Sums(fs)[k] + fs[k + 1].size
<1> DEFINE Plus(x, k) == x + fs[k].size
           Part(f, n) == f[0] = 0 /\ \A k \in 1 .. n : f[k] = Plus(f[k - 1], k)
           T == {n \in Nat : \E f : Part(f, n)}
<1>1. 0 \in T
  <2> DEFINE f == [k \in 0 .. 0 |-> 0]
  <2>1. Part(f, 0)
    OBVIOUS
  <2> QED BY <2>1
<1>2. ASSUME NEW n \in T PROVE n + 1 \in T
  <2>1. PICK f : Part(f, n)
    OBVIOUS
  <2> DEFINE g == [k \in 0 .. n + 1 |-> IF k <= n THEN f[k] ELSE Plus(f[n], n + 1)]
  <2> HIDE DEF Plus
  <2>2. g[0] = 0
    BY <2>1
  <2>3. ASSUME NEW k \in 1 .. n + 1 PROVE g[k] = Plus(g[k - 1], k)
    <3>1. k \in 0 .. n + 1 /\ k - 1 \in 0 .. n + 1 /\ k - 1 <= n
      BY n \in Nat
    <3>2. g[k - 1] = f[k - 1]
      BY <3>1
    <3>3. CASE k <= n
      <4>1. k \in 1 .. n
        BY <3>3
      <4> QED BY <2>1, <3>1, <3>2, <3>3, <4>1
    <3>4. CASE ~(k <= n)
      <4>1. k - 1 = n /\ k = n + 1
        BY <3>4, n \in Nat
      <4>2. g[k] = Plus(f[n], n + 1)
        BY <3>1, <3>4
      <4> QED BY <3>2, <4>1, <4>2
    <3> QED BY <3>3, <3>4
  <2> HIDE DEF g
  <2>4. Part(g, n + 1)
    BY <2>2, <2>3
  <2>5. n + 1 \in Nat
    OBVIOUS
  <2> HIDE DEF Part
  <2> QED BY <2>4, <2>5
<1>3. \A n \in Nat : \E f : Part(f, n)
  <2>1. T \in SUBSET Nat
    OBVIOUS
  <2>2. T = Nat
    <3> HIDE DEF T
    <3> QED BY <1>1, <1>2, <2>1, NatSetInduction
  <2> HIDE DEF Part
  <2> QED BY <2>2
<1>4. ASSUME NEW n \in Nat, NEW f, NEW g, Part(f, n), Part(g, n + 1) PROVE f[n] = g[n]
  <2> DEFINE U == {k \in Nat : k <= n => f[k] = g[k]}
  <2> HIDE DEF Plus
  <2>1. 0 \in U
    BY <1>4
  <2>2. ASSUME NEW k \in U PROVE k + 1 \in U
    <3> SUFFICES ASSUME k + 1 <= n PROVE f[k + 1] = g[k + 1]
      OBVIOUS
    <3>1. k \in Nat /\ k <= n /\ k + 1 \in 1 .. n /\ k + 1 \in 1 .. n + 1 /\ (k + 1) - 1 = k
      OBVIOUS
    <3>2. f[k] = g[k]
      BY <3>1
    <3>3. f[k + 1] = Plus(f[k], k + 1) /\ g[k + 1] = Plus(g[k], k + 1)
      BY <1>4, <3>1
    <3> QED BY <3>2, <3>3
  <2>3. U \in SUBSET Nat
    OBVIOUS
  <2>4. n \in U
    <3> HIDE DEF U
    <3> QED BY <2>1, <2>2, <2>3, NatSetInduction
  <2> QED BY <2>4
<1> DEFINE F(n) == CHOOSE f : Part(f, n)
           w == [n \in Nat |-> F(n)[n]]
<1>5. \A n \in Nat : Part(F(n), n)
  <2> HIDE DEF Part
  <2> QED BY <1>3, Zenon
<1> HIDE DEF F, Plus
<1>6. w[0] = 0
  BY <1>5
<1>7. ASSUME NEW n \in Nat PROVE w[n + 1] = Plus(w[n], n + 1)
  <2>1. n + 1 \in Nat /\ n + 1 \in 1 .. n + 1 /\ (n + 1) - 1 = n
    OBVIOUS
  <2>2. Part(F(n), n) /\ Part(F(n + 1), n + 1)
    <3> HIDE DEF Part
    <3> QED BY <1>5, <2>1
  <2>3. F(n)[n] = F(n + 1)[n]
    <3> HIDE DEF Part
    <3> QED BY <1>4, <2>2
  <2>4. F(n + 1)[n + 1] = Plus(F(n + 1)[n], n + 1)
    BY <2>1, <2>2
  <2> QED BY <2>1, <2>3, <2>4
<1>8. SumSteps(w, fs, Nat)
  <2> DEFINE v == [k \in Nat |-> IF k = 0 THEN 0 ELSE Plus(w[k - 1], k)]
  <2>1. ASSUME NEW k \in Nat PROVE w[k] = v[k]
    <3>1. CASE k = 0
      BY <1>6, <3>1
    <3>2. CASE k # 0
      <4>1. k - 1 \in Nat /\ (k - 1) + 1 = k
        BY <3>2
      <4>2. w[k] = Plus(w[k - 1], k)
        BY <1>7, <4>1
      <4> HIDE DEF w
      <4> QED BY <3>2, <4>2
    <3> QED BY <3>1, <3>2
  <2>2. w = v
    BY <2>1
  <2> QED BY <2>2 DEF SumSteps, Plus
<1> HIDE DEF w
<1>9. SumSteps(Sums(fs), fs, Nat)
  BY <1>8, Zenon DEF Sums
<1>10. Sums(fs)[0] = 0
  BY <1>9 DEF SumSteps
<1>11. ASSUME NEW k \in Nat PROVE Sums(fs)[k + 1] = Sums(fs)[k] + fs[k + 1].size
  <2>1. k + 1 \in Nat /\ k + 1 # 0 /\ (k + 1) - 1 = k
    OBVIOUS
  <2> QED BY <1>9, <2>1 DEF SumSteps
<1> QED BY <1>10, <1>11

\* FrameBytes is the last of the sums.
LEMMA FrameBytesSum ==
  ASSUME NEW fs
  PROVE  FrameBytes(fs) = Sums(fs)[Len(fs)]
BY Zenon DEF FrameBytes, Sums, SumSteps

\* The sums are numbers, and none is below zero.
LEMMA SumsType ==
  ASSUME NEW fs \in Seq(Frame)
  PROVE  \A n \in 0 .. Len(fs) : Sums(fs)[n] \in Nat
<1> DEFINE T == {n \in Nat : n <= Len(fs) => Sums(fs)[n] \in Nat}
<1>0. Len(fs) \in Nat
  OBVIOUS
<1>1. 0 \in T
  BY SumsDefined
<1>2. ASSUME NEW n \in T PROVE n + 1 \in T
  <2> SUFFICES ASSUME n + 1 <= Len(fs) PROVE Sums(fs)[n + 1] \in Nat
    OBVIOUS
  <2>1. n \in Nat /\ n <= Len(fs) /\ n + 1 \in 1 .. Len(fs)
    BY <1>0
  <2>2. Sums(fs)[n] \in Nat /\ fs[n + 1].size \in Nat
    <3>1. fs[n + 1] \in Frame
      BY ONLY <2>1, fs \in Seq(Frame)
    <3>2. fs[n + 1].size \in Nat
      BY ONLY <3>1 DEF Frame
    <3> QED BY <2>1, <3>2
  <2>3. Sums(fs)[n + 1] = Sums(fs)[n] + fs[n + 1].size
    BY <2>1, SumsDefined
  <2> QED BY ONLY <2>2, <2>3
<1>3. T \in SUBSET Nat
  OBVIOUS
<1>4. T = Nat
  <2> HIDE DEF T
  <2> QED BY <1>1, <1>2, <1>3, NatSetInduction
<1> QED BY <1>0, <1>4

\* From the k-th frame on, one sequence sums up as another does from its first: the
\* frames are of the same sizes.  With k = 0, both begin alike.
LEMMA SumsShifted ==
  ASSUME NEW fs \in Seq(Frame), NEW gs \in Seq(Frame), NEW k \in Nat,
         NEW m \in Nat, m <= Len(gs), k + m <= Len(fs),
         \A i \in 1 .. m : fs[k + i].size = gs[i].size
  PROVE  Sums(fs)[k + m] = Sums(fs)[k] + Sums(gs)[m]
<1> DEFINE T == {n \in Nat : n <= m => Sums(fs)[k + n] = Sums(fs)[k] + Sums(gs)[n]}
<1>0. Len(fs) \in Nat /\ Len(gs) \in Nat
  OBVIOUS
<1>1. 0 \in T
  <2>1. k + 0 = k /\ k \in 0 .. Len(fs)
    BY <1>0
  <2>2. Sums(fs)[k] \in Nat /\ Sums(gs)[0] = 0
    BY <2>1, SumsType, SumsDefined
  <2> QED BY <2>1, <2>2
<1>2. ASSUME NEW n \in T PROVE n + 1 \in T
  <2> SUFFICES ASSUME n + 1 <= m PROVE Sums(fs)[k + (n + 1)] = Sums(fs)[k] + Sums(gs)[n + 1]
    OBVIOUS
  <2>1. /\ n \in Nat /\ n <= m /\ n + 1 \in 1 .. m /\ n \in 0 .. Len(gs) /\ n + 1 \in 1 .. Len(gs)
        /\ k + n \in Nat /\ k + (n + 1) = (k + n) + 1 /\ k \in 0 .. Len(fs)
    BY <1>0
  <2>2. Sums(fs)[k + n] = Sums(fs)[k] + Sums(gs)[n]
    BY <2>1
  <2>3. Sums(fs)[(k + n) + 1] = Sums(fs)[k + n] + fs[(k + n) + 1].size
    BY <2>1, SumsDefined
  <2>4. Sums(gs)[n + 1] = Sums(gs)[n] + gs[n + 1].size
    BY <2>1, SumsDefined
  <2>5. fs[(k + n) + 1].size = gs[n + 1].size
    BY <2>1
  <2>6. gs[n + 1].size \in Nat
    <3>1. gs[n + 1] \in Frame
      BY ONLY <2>1, gs \in Seq(Frame)
    <3> QED BY ONLY <3>1 DEF Frame
  <2>7. Sums(fs)[k] \in Nat /\ Sums(gs)[n] \in Nat
    BY <2>1, SumsType
  <2>8. Sums(fs)[(k + n) + 1] = Sums(fs)[k] + Sums(gs)[n + 1]
    BY ONLY <2>2, <2>3, <2>4, <2>5, <2>6, <2>7
  <2> QED BY ONLY <2>1, <2>8
<1>3. T \in SUBSET Nat
  OBVIOUS
<1>4. T = Nat
  <2> HIDE DEF T
  <2> QED BY <1>1, <1>2, <1>3, NatSetInduction
<1> QED BY <1>4

\* Frames of the same sizes have the same capacity.
LEMMA BytesOfSameSizes ==
  ASSUME NEW fs \in Seq(Frame), NEW gs \in Seq(Frame), Len(gs) = Len(fs),
         \A i \in 1 .. Len(fs) : gs[i].size = fs[i].size
  PROVE  FrameBytes(gs) = FrameBytes(fs)
<1> DEFINE m == Len(fs)
<1>1. m \in Nat /\ m <= Len(fs) /\ 0 + m = m /\ 0 + m <= Len(gs) /\ m \in 0 .. Len(fs)
  OBVIOUS
<1>2. \A i \in 1 .. m : gs[0 + i].size = fs[i].size
  OBVIOUS
<1> HIDE DEF m
<1>3. Sums(gs)[0 + m] = Sums(gs)[0] + Sums(fs)[m]
  BY <1>1, <1>2, SumsShifted
<1>4. Sums(gs)[0] = 0 /\ Sums(fs)[m] \in Nat
  BY <1>1, SumsDefined, SumsType
<1>5. Sums(gs)[m] = Sums(fs)[m]
  BY <1>1, <1>3, <1>4
<1> QED BY <1>5, FrameBytesSum DEF m

\* The first k frames and the others together have the capacity of all.
LEMMA BytesSplit ==
  ASSUME NEW fs \in Seq(Frame), NEW k \in 0 .. Len(fs)
  PROVE  /\ FrameBytes(SubSeq(fs, 1, k)) \in Nat
         /\ FrameBytes(SubSeq(fs, k + 1, Len(fs))) \in Nat
         /\ FrameBytes(fs) = FrameBytes(SubSeq(fs, 1, k)) + FrameBytes(SubSeq(fs, k + 1, Len(fs)))
<1> DEFINE a == SubSeq(fs, 1, k)
           b == SubSeq(fs, k + 1, Len(fs))
           m == Len(fs) - k
<1>1. k \in Nat /\ m \in Nat /\ k + m = Len(fs) /\ k + m <= Len(fs) /\ k <= Len(fs)
  OBVIOUS
<1>2. a \in Seq(Frame) /\ Len(a) = k /\ \A i \in 1 .. k : a[i] = fs[i]
  BY Prefix
<1>3. b \in Seq(Frame) /\ Len(b) = m /\ \A i \in 1 .. m : b[i] = fs[k + i]
  OBVIOUS
<1> HIDE DEF a, b, m
<1>4. /\ 0 + k <= Len(fs) /\ k <= Len(a) /\ m <= Len(b)
      /\ \A i \in 1 .. k : fs[0 + i].size = a[i].size
      /\ \A i \in 1 .. m : fs[k + i].size = b[i].size
  BY <1>1, <1>2, <1>3
<1>5. Sums(fs)[0 + k] = Sums(fs)[0] + Sums(a)[k]
  BY <1>1, <1>2, <1>4, SumsShifted
<1>6. Sums(fs)[k + m] = Sums(fs)[k] + Sums(b)[m]
  BY <1>1, <1>3, <1>4, SumsShifted
<1>7. Sums(fs)[0] = 0 /\ 0 + k = k
  BY <1>1, SumsDefined
<1>8. Sums(a)[k] \in Nat /\ Sums(b)[m] \in Nat
  <2>1. k \in 0 .. Len(a) /\ m \in 0 .. Len(b)
    BY <1>1, <1>2, <1>3
  <2> QED BY <1>2, <1>3, <2>1, SumsType
<1>9. Sums(fs)[Len(fs)] = Sums(a)[k] + Sums(b)[m]
  BY ONLY <1>1, <1>5, <1>6, <1>7, <1>8
<1>10. FrameBytes(a) = Sums(a)[k] /\ FrameBytes(b) = Sums(b)[m] /\ FrameBytes(fs) = Sums(fs)[Len(fs)]
  BY <1>2, <1>3, FrameBytesSum
<1>11. FrameBytes(a) \in Nat /\ FrameBytes(b) \in Nat /\ FrameBytes(fs) = FrameBytes(a) + FrameBytes(b)
  BY ONLY <1>8, <1>9, <1>10
<1> QED BY ONLY <1>11 DEF a, b

\* One more frame adds its size.
LEMMA BytesAppended ==
  ASSUME NEW fs \in Seq(Frame), NEW f \in Frame
  PROVE  /\ FrameBytes(fs) \in Nat
         /\ FrameBytes(Append(fs, f)) = FrameBytes(fs) + f.size
<1> DEFINE g == Append(fs, f)
           m == Len(fs)
<1>1. /\ g \in Seq(Frame) /\ Len(g) = m + 1 /\ g[m + 1] = f
      /\ \A i \in 1 .. m : g[i] = fs[i]
  BY Appended
<1>2. m \in Nat /\ m <= Len(fs) /\ m \in 0 .. Len(fs) /\ 0 + m = m
  OBVIOUS
<1>3. FrameBytes(fs) = Sums(fs)[m] /\ FrameBytes(g) = Sums(g)[m + 1]
  BY <1>1, FrameBytesSum
<1> HIDE DEF g, m
<1>4. 0 + m <= Len(g) /\ \A i \in 1 .. m : g[0 + i].size = fs[i].size
  BY <1>1, <1>2
<1>5. Sums(g)[0 + m] = Sums(g)[0] + Sums(fs)[m]
  BY <1>1, <1>2, <1>4, SumsShifted
<1>6. Sums(g)[0] = 0 /\ Sums(g)[m + 1] = Sums(g)[m] + g[m + 1].size /\ Sums(fs)[m] \in Nat
  BY <1>2, SumsDefined, SumsType
<1>7. FrameBytes(fs) \in Nat /\ FrameBytes(g) = FrameBytes(fs) + f.size
  BY ONLY <1>1, <1>2, <1>3, <1>5, <1>6
<1> QED BY ONLY <1>7 DEF g

-------------------------------------------------------------------------------
(* The invariant holds at first, and every operation keeps it. *)

\* Before init there is neither a frame nor a checkpoint.
LEMMA StackInvInit == Init => StackInv
<1> SUFFICES ASSUME Init PROVE StackInv
  OBVIOUS
<1>1. Typing
  <2>1. frames = <<>> /\ checkpoint_stack = <<>> /\ memory = {} /\ popped = {} /\ live = {}
    BY DEF Init
  <2>2. frames \in Seq(Frame) /\ checkpoint_stack \in Seq(Checkpoint)
    BY <2>1
  <2>3. initialized \in BOOLEAN /\ ~initialized
    BY DEF Init
  <2> QED BY <2>1, <2>2, <2>3, Zenon DEF Typing
<1>2. Len(frames) = 0 /\ Len(checkpoint_stack) = 0
  BY DEF Init
<1>3. FramesOK /\ Apart(frames) /\ Apart(checkpoint_stack) /\ HeldBelow
  BY <1>2 DEF FramesOK, Apart, HeldBelow
<1>4. PiecesOf(frames) = {} /\ PiecesOf(checkpoint_stack) = {}
  BY <1>2 DEF PiecesOf
<1>5. Owners /\ Inside /\ Disjoint
  BY <1>4 DEF Init, Owners, Inside, Disjoint
<1> QED BY <1>1, <1>3, <1>5 DEF StackInv

\* What Framed and Checkpointed stand for.
LEMMA PiecesInUse ==
  ASSUME Typing
  PROVE  /\ Framed = PiecesOf(frames)
         /\ Checkpointed(1) = PiecesOf(checkpoint_stack)
<1>1. DOMAIN frames = 1 .. Len(frames)
  BY DEF Typing
<1> QED BY <1>1 DEF Framed, Checkpointed, PiecesOf

\* init makes the first frame.
LEMMA InitStep ==
  ASSUME StackInv, NEW size \in Sizes, NEW m \in Pieces \ memory, init(size, m)
  PROVE  StackInv'
<1> DEFINE sz == Max({MinSize, Min({MaxSize, size})})
           f == NewFrame(m, sz)
<1>0. Typing /\ frames = <<>> /\ checkpoint_stack = <<>> /\ live \subseteq {}
  <2>1. Len(frames) = 0
    BY DEF StackInv, Typing, init
  <2> QED BY <2>1 DEF StackInv, Typing, init, Inside
<1>1. sz \in Nat
  <2>1. Min({MaxSize, size}) \in Nat /\ MinSize \in Nat
    <3>1. MaxSize \in Int /\ size \in Int /\ MaxSize \in Nat /\ size \in Nat /\ MinSize \in Nat
      BY StackAssumption
    <3> QED BY <3>1, MinOfTwo
  <2>2. Min({MaxSize, size}) \in Int /\ MinSize \in Int
    BY <2>1
  <2> QED BY <2>1, <2>2, MaxOfTwo
<1>2. frames' = <<f>> /\ live' = live /\ checkpoint_stack' = <<>> /\ initialized'
      /\ memory' = memory \cup {m} /\ popped' = popped
  BY DEF init
<1> HIDE DEF sz
<1>3. f \in Frame /\ f.piece = m /\ f.current = Start /\ Start <= End(f)
  BY <1>1, StackAssumption DEF NewFrame, Frame, End
<1>4. Start <= f.current /\ f.current <= End(f) /\ f.piece \notin memory
  BY <1>3, StackAssumption
<1> HIDE DEF f
<1>5. frames' = Append(frames, f)
  BY <1>0, <1>2
<1>6. /\ frames' \in Seq(Frame) /\ frames' # <<>>
      /\ FramesOK' /\ Apart(frames') /\ PiecesOf(frames') = PiecesOf(frames) \cup {f.piece}
      /\ Inside'
  BY <1>2, <1>3, <1>4, <1>5, LinkStep
<1>7. Len(checkpoint_stack') = 0
  BY <1>2
<1>8. Apart(checkpoint_stack') /\ HeldBelow'
  BY <1>7 DEF Apart, HeldBelow
<1>9. Disjoint'
  BY <1>0, <1>2 DEF Disjoint
<1>10. Owners'
  BY <1>0, <1>2, <1>3, <1>6 DEF StackInv, Owners
<1>11. Typing'
  BY <1>0, <1>2, <1>6 DEF Typing
<1> QED BY <1>6, <1>8, <1>9, <1>10, <1>11 DEF StackInv

\* destroy frees the frames and the checkpoints on the stack.
LEMMA DestroyStep ==
  ASSUME StackInv, destroy
  PROVE  StackInv'
<1>0. Typing /\ Owners
  BY DEF StackInv
<1>1. /\ frames' = <<>> /\ checkpoint_stack' = <<>> /\ live' = {} /\ initialized' = FALSE
      /\ popped' = popped
      /\ memory' = memory \ (PiecesOf(checkpoint_stack) \cup PiecesOf(frames))
  BY <1>0, PiecesInUse DEF destroy
<1>2. Len(frames') = 0 /\ Len(checkpoint_stack') = 0
  BY <1>1
<1>3. FramesOK' /\ Apart(frames') /\ Apart(checkpoint_stack') /\ HeldBelow' /\ Inside' /\ Disjoint'
  BY <1>1, <1>2 DEF FramesOK, Apart, HeldBelow, Inside, Disjoint
<1>4. PiecesOf(frames') = {} /\ PiecesOf(checkpoint_stack') = {}
  BY <1>2 DEF PiecesOf
<1>5. Owners'
  BY <1>0, <1>1, <1>4 DEF Owners
<1>6. Typing'
  <2>1. frames' \in Seq(Frame) /\ checkpoint_stack' \in Seq(Checkpoint)
    BY <1>1
  <2>2. memory' \subseteq Pieces /\ popped' \subseteq Pieces /\ live' \subseteq Area
    BY <1>0, <1>1 DEF Typing
  <2> QED BY <1>1, <2>1, <2>2, Zenon DEF Typing
<1> QED BY <1>3, <1>5, <1>6 DEF StackInv

\* The conjuncts that say nothing of frames and allocations, when the checkpoints stay.
LEMMA SameCheckpoints ==
  ASSUME StackInv, checkpoint_stack' = checkpoint_stack
  PROVE  Apart(checkpoint_stack') /\ HeldBelow' /\ PiecesOf(checkpoint_stack') = PiecesOf(checkpoint_stack)
BY DEF StackInv, HeldBelow

\* The size of a frame that grow makes.
LEMMA GrownSizeType ==
  ASSUME StackInv, initialized, NEW n \in Nat
  PROVE  GrownSize(n) \in Nat /\ GrownSize(n) >= n /\ GrownSize(n) >= 2 * CurrentFrame.size
<1> DEFINE d == CurrentFrame.size * 2
<1>1. d \in Nat /\ d = 2 * CurrentFrame.size
  BY CurrentIsLast DEF Frame
<1> HIDE DEF d
<1>2. d \in Int /\ n \in Int
  BY <1>1
<1>3. Max({n, d}) \in {n, d} /\ Max({n, d}) >= n /\ Max({n, d}) >= d
  BY <1>2, MaxOfTwo
<1> QED BY <1>1, <1>3 DEF GrownSize, d

\* grow adds an empty frame.
LEMMA GrowStep ==
  ASSUME StackInv, NEW size \in Sizes, NEW m \in Pieces \ memory, grow(size, m)
  PROVE  StackInv'
<1> DEFINE f == NewFrame(m, GrownSize(size))
<1>0. Typing /\ Owners /\ Disjoint /\ initialized
  BY DEF StackInv, grow
<1>1. GrownSize(size) \in Nat
  BY <1>0, GrownSizeType, StackAssumption
<1>2. /\ frames' = Append(frames, f) /\ live' = live /\ checkpoint_stack' = checkpoint_stack
      /\ initialized' = initialized /\ memory' = memory \cup {m} /\ popped' = popped
  BY DEF grow, Grown, link_frame
<1>3. f \in Frame /\ f.piece = m /\ Start <= f.current /\ f.current <= End(f)
  BY <1>1, StackAssumption DEF NewFrame, Frame, End
<1> HIDE DEF f
<1>4. /\ frames' \in Seq(Frame) /\ frames' # <<>>
      /\ FramesOK' /\ Apart(frames') /\ PiecesOf(frames') = PiecesOf(frames) \cup {f.piece}
      /\ Inside'
  BY <1>2, <1>3, LinkStep
<1>5. Apart(checkpoint_stack') /\ HeldBelow' /\ PiecesOf(checkpoint_stack') = PiecesOf(checkpoint_stack)
  BY <1>2, SameCheckpoints
<1>6. Disjoint'
  BY <1>0, <1>2 DEF Disjoint
<1>7. Owners'
  BY ONLY <1>0, <1>2, <1>3, <1>4, <1>5, m \in Pieces \ memory DEF Owners
<1>8. Typing'
  BY ONLY <1>0, <1>2, <1>4, m \in Pieces \ memory DEF Typing
<1> QED BY <1>4, <1>5, <1>6, <1>7, <1>8 DEF StackInv

\* shrink_to_fit drops the empty frames at the end.
LEMMA ShrinkStep ==
  ASSUME StackInv, shrink_to_fit
  PROVE  StackInv'
<1>0. Typing /\ Owners /\ Disjoint /\ Apart(frames) /\ initialized
  BY DEF StackInv, shrink_to_fit
<1>1. PICK kept \in 1 .. Len(frames) - 1 :
        /\ \A i \in kept + 1 .. Len(frames) : Unused(i)
        /\ frames' = SubSeq(frames, 1, kept)
        /\ memory' = memory \ {frames[i].piece : i \in kept + 1 .. Len(frames)}
  BY DEF shrink_to_fit, unlink_frames
<1>2. /\ live' = live /\ checkpoint_stack' = checkpoint_stack /\ initialized' = initialized
      /\ popped' = popped
  BY DEF shrink_to_fit
<1>3. kept \in 1 .. Len(frames) /\ Len(frames) \in Nat
  BY <1>0 DEF Typing
<1>4. /\ frames' \in Seq(Frame) /\ frames' # <<>>
      /\ FramesOK' /\ Apart(frames')
      /\ PiecesOf(frames') = PiecesOf(frames) \ {frames[i].piece : i \in kept + 1 .. Len(frames)}
      /\ Inside'
  BY <1>1, <1>2, <1>3, UnlinkStep
<1>5. Apart(checkpoint_stack') /\ HeldBelow' /\ PiecesOf(checkpoint_stack') = PiecesOf(checkpoint_stack)
  BY <1>2, SameCheckpoints
<1>6. Disjoint'
  BY <1>0, <1>2 DEF Disjoint
<1>7. {frames[i].piece : i \in kept + 1 .. Len(frames)} \subseteq PiecesOf(frames)
  BY <1>3 DEF PiecesOf
<1>8. Owners'
  BY ONLY <1>0, <1>1, <1>2, <1>4, <1>5, <1>7 DEF Owners
<1>9. Typing'
  <2>1. memory' \subseteq Pieces
    BY <1>0, <1>1 DEF Typing
  <2> QED BY ONLY <1>0, <1>2, <1>4, <2>1 DEF Typing
<1> QED BY <1>4, <1>5, <1>6, <1>8, <1>9 DEF StackInv

\* The area that alloc finds in a frame lies above everything that is in use there.
LEMMA AllocationAbove ==
  ASSUME NEW f \in Frame, NEW size \in Nat \ {0}, NEW al \in Nat \ {0}, Start <= f.current
  PROVE  LET a == Allocation(f, size, al)
         IN  /\ a \in Area /\ a.piece = f.piece
             /\ Start <= a.from /\ f.current <= a.from /\ a.from < a.to
             /\ In(a, [f EXCEPT !.current = a.to])
             /\ Fits(f, size, al) => a.to <= End(f)
<1>1. /\ Align(f.current, al) \in Nat /\ f.current <= Align(f.current, al)
      /\ Align(size, al) \in Nat /\ size <= Align(size, al)
      /\ f.current \in Nat
  BY AlignBounds DEF Frame
<1> QED BY <1>1, StackAssumption DEF Allocation, Area, In, Frame, Fits

\* An area above all the others in its frame overlaps none.
LEMMA DisjointAbove ==
  ASSUME Disjoint, live \subseteq Area, NEW n \in Area, live' = live \cup {n},
         \A a \in live : a.piece = n.piece => a.to <= n.from
  PROVE  Disjoint'
<1> SUFFICES ASSUME NEW a \in live', NEW b \in live', a # b
             PROVE  ~Overlap(a, b)
  BY DEF Disjoint, Overlap
<1>1. CASE a \in live /\ b \in live
  BY <1>1 DEF Disjoint
<1>2. CASE a = n /\ b \in live
  BY <1>2 DEF Overlap, Area
<1>3. CASE a \in live /\ b = n
  BY <1>3 DEF Overlap, Area
<1> QED BY <1>1, <1>2, <1>3

\* alloc in the current frame.
LEMMA AllocFitsStep ==
  ASSUME StackInv, NEW size \in Sizes, NEW al \in Nat \ {0}, AllocFits(size, al)
  PROVE  StackInv'
<1> DEFINE n == Allocation(CurrentFrame, size, al)
<1>0. Typing /\ Owners /\ Disjoint /\ initialized /\ size \in Nat \ {0} /\ Fits(CurrentFrame, size, al)
  BY StackAssumption DEF StackInv, AllocFits
<1>1. /\ Len(frames) \in Nat \ {0} /\ CurrentFrame = frames[Len(frames)] /\ CurrentFrame \in Frame
      /\ Start <= CurrentFrame.current
      /\ \A a \in live : a.piece = CurrentFrame.piece => In(a, CurrentFrame)
  BY <1>0, CurrentIsLast
<1>2. /\ n \in Area /\ n.piece = CurrentFrame.piece
      /\ Start <= n.from /\ CurrentFrame.current <= n.from /\ n.from < n.to
      /\ In(n, [CurrentFrame EXCEPT !.current = n.to]) /\ n.to <= End(CurrentFrame)
  BY <1>0, <1>1, AllocationAbove
<1>3. /\ frames' = [frames EXCEPT ![Len(frames)] = [CurrentFrame EXCEPT !.current = n.to]]
      /\ live' = live \cup {n} /\ checkpoint_stack' = checkpoint_stack
      /\ initialized' = initialized /\ memory' = memory /\ popped' = popped
  BY DEF AllocFits, Advanced
<1> HIDE DEF n
<1>4. frames' = [frames EXCEPT ![Len(frames)].current = n.to]
  BY <1>1, <1>3
<1>5. n.to \in Nat /\ n.from \in Nat /\ CurrentFrame.current \in Nat /\ Start \in Nat /\ Start <= n.to
  BY <1>1, <1>2, StackAssumption DEF Area, Frame
<1>6. \A a \in live' : \/ In(a, [CurrentFrame EXCEPT !.current = n.to])
                       \/ a \in live /\ a.piece # CurrentFrame.piece
  <2> SUFFICES ASSUME NEW a \in live, a.piece = CurrentFrame.piece
               PROVE  In(a, [CurrentFrame EXCEPT !.current = n.to])
    BY <1>2, <1>3
  <2>1. In(a, CurrentFrame) /\ a.to \in Nat
    BY <1>0, <1>1 DEF Typing, Area
  <2> QED BY ONLY <1>1, <1>2, <1>5, <2>1 DEF In, Frame
<1>7. /\ frames' \in Seq(Frame) /\ frames' # <<>>
      /\ FramesOK' /\ Apart(frames') /\ PiecesOf(frames') = PiecesOf(frames)
      /\ Inside'
  BY <1>0, <1>2, <1>4, <1>5, <1>6, MoveStep
<1>8. Apart(checkpoint_stack') /\ HeldBelow' /\ PiecesOf(checkpoint_stack') = PiecesOf(checkpoint_stack)
  BY <1>3, SameCheckpoints
<1>9. Disjoint'
  <2>1. \A a \in live : a.piece = n.piece => a.to <= n.from
    <3> SUFFICES ASSUME NEW a \in live, a.piece = n.piece PROVE a.to <= n.from
      OBVIOUS
    <3>1. a.to \in Nat /\ a.to <= CurrentFrame.current
      BY <1>0, <1>1, <1>2 DEF Typing, Area, In
    <3> QED BY ONLY <1>2, <1>5, <3>1
  <2> QED BY <1>0, <1>2, <1>3, <2>1, DisjointAbove DEF Typing
<1>10. Owners'
  BY ONLY <1>0, <1>3, <1>7, <1>8 DEF Owners
<1>11. Typing'
  BY ONLY <1>0, <1>2, <1>3, <1>7 DEF Typing
<1> QED BY <1>7, <1>8, <1>9, <1>10, <1>11 DEF StackInv

\* alloc in a frame that grow has just made.
LEMMA AllocGrowsStep ==
  ASSUME StackInv, NEW size \in Sizes, NEW al \in Nat \ {0}, NEW m \in Pieces \ memory,
         AllocGrows(size, al, m)
  PROVE  StackInv'
<1> DEFINE e == NewFrame(m, GrownSize(GrowFor(size, al)))
           n == Allocation(e, size, al)
           f == IF Fits(e, size, al) THEN [e EXCEPT !.current = n.to] ELSE e
<1>0. Typing /\ Owners /\ Disjoint /\ Inside /\ initialized /\ size \in Nat \ {0}
  BY StackAssumption DEF StackInv, AllocGrows
<1>1. GrownSize(GrowFor(size, al)) \in Nat
  <2>1. Align(size, al) \in Nat
    BY <1>0, AlignBounds
  <2>2. GrowFor(size, al) \in Nat
    BY <2>1 DEF GrowFor
  <2> QED BY <1>0, <2>2, GrownSizeType
<1>2. /\ frames' = Append(frames, f)
      /\ live' = IF Fits(e, size, al) THEN live \cup {n} ELSE live
      /\ checkpoint_stack' = checkpoint_stack
      /\ initialized' = initialized /\ memory' = memory \cup {m} /\ popped' = popped
  BY DEF AllocGrows, Grown, link_frame, Advanced
<1>3. e \in Frame /\ e.piece = m /\ e.current = Start /\ Start <= End(e) /\ Start <= Start
  BY <1>1, StackAssumption DEF NewFrame, Frame, End
<1> HIDE DEF e
<1>4. /\ n \in Area /\ n.piece = m /\ Start <= n.from /\ n.from < n.to
      /\ In(n, [e EXCEPT !.current = n.to])
      /\ Fits(e, size, al) => n.to <= End(e)
  BY <1>0, <1>3, AllocationAbove
<1> HIDE DEF n
<1>5. n.to \in Nat /\ n.from \in Nat /\ Start \in Nat
  BY <1>4, StackAssumption DEF Area
<1>6. f \in Frame /\ f.piece = m /\ Start <= f.current /\ f.current <= End(f)
  BY <1>3, <1>4, <1>5 DEF Frame, End
<1>7. \A a \in live' : In(a, f) \/ a \in live
  BY <1>2, <1>4
<1>8. /\ frames' \in Seq(Frame) /\ frames' # <<>>
      /\ FramesOK' /\ Apart(frames') /\ PiecesOf(frames') = PiecesOf(frames) \cup {m}
      /\ Inside'
  <2> HIDE DEF f
  <2> QED BY <1>2, <1>6, <1>7, LinkStep
<1>9. Apart(checkpoint_stack') /\ HeldBelow' /\ PiecesOf(checkpoint_stack') = PiecesOf(checkpoint_stack)
  BY <1>2, SameCheckpoints
<1>10. Disjoint'
  <2>1. \A a \in live : a.piece # m
    <3> SUFFICES ASSUME NEW a \in live PROVE a.piece # m
      OBVIOUS
    <3>1. PICK i \in 1 .. Len(frames) : In(a, frames[i])
      BY <1>0 DEF Inside
    <3>2. a.piece \in PiecesOf(frames)
      BY <3>1 DEF In, PiecesOf
    <3> QED BY <1>0, <3>2 DEF Owners
  <2>2. CASE Fits(e, size, al)
    BY <1>0, <1>2, <1>4, <2>1, <2>2, DisjointAbove DEF Typing
  <2>3. CASE ~Fits(e, size, al)
    BY <1>0, <1>2, <2>3 DEF Disjoint
  <2> QED BY <2>2, <2>3
<1>11. Owners'
  BY ONLY <1>0, <1>2, <1>8, <1>9, m \in Pieces \ memory DEF Owners
<1>12. Typing'
  <2>1. live' \subseteq Area
    BY <1>0, <1>2, <1>4 DEF Typing
  <2> QED BY ONLY <1>0, <1>2, <1>8, <2>1, m \in Pieces \ memory DEF Typing
<1> QED BY <1>8, <1>9, <1>10, <1>11, <1>12 DEF StackInv

\* reset empties the current frame.
LEMMA ResetStep ==
  ASSUME StackInv, reset
  PROVE  StackInv'
<1>0. Typing /\ Owners /\ Disjoint /\ initialized
  BY DEF StackInv, reset
<1>1. /\ frames' = [frames EXCEPT ![Len(frames)].current = Start]
      /\ live' = {a \in live : a.piece # CurrentFrame.piece}
      /\ checkpoint_stack' = <<>> /\ initialized' = initialized /\ popped' = popped
      /\ memory' = memory \ PiecesOf(checkpoint_stack)
  BY <1>0, PiecesInUse DEF reset
<1>2. Start \in Nat /\ Start <= Start /\ Start <= End(CurrentFrame)
  BY <1>0, CurrentIsLast, StackAssumption DEF Frame, End
<1>3. /\ frames' \in Seq(Frame) /\ frames' # <<>>
      /\ FramesOK' /\ Apart(frames') /\ PiecesOf(frames') = PiecesOf(frames)
      /\ Inside'
  BY <1>0, <1>1, <1>2, MoveStep
<1>4. Len(checkpoint_stack') = 0
  BY <1>1
<1>5. Apart(checkpoint_stack') /\ HeldBelow' /\ PiecesOf(checkpoint_stack') = {}
  BY <1>4 DEF Apart, HeldBelow, PiecesOf
<1>6. Disjoint'
  BY <1>0, <1>1 DEF Disjoint
<1>7. Owners'
  BY ONLY <1>0, <1>1, <1>3, <1>5 DEF Owners
<1>8. Typing'
  <2>1. live' \subseteq Area /\ memory' \subseteq Pieces
    BY <1>0, <1>1 DEF Typing
  <2>2. checkpoint_stack' \in Seq(Checkpoint)
    BY <1>1
  <2> QED BY ONLY <1>0, <1>1, <1>3, <2>1, <2>2, Zenon DEF Typing
<1> QED BY <1>3, <1>5, <1>6, <1>7, <1>8 DEF StackInv

-------------------------------------------------------------------------------
(* Checkpoints. *)

\* create_checkpoint notes the position in the current frame.
LEMMA CreateStep ==
  ASSUME StackInv, NEW m \in Pieces \ memory, create_checkpoint(m)
  PROVE  StackInv'
<1> DEFINE cp == [piece |-> m,
                  pos |-> [piece |-> CurrentFrame.piece, at |-> CurrentFrame.current],
                  held |-> live]
<1>0. /\ Typing /\ FramesOK /\ Apart(frames) /\ Apart(checkpoint_stack) /\ Owners
      /\ Inside /\ Disjoint /\ HeldBelow /\ initialized
  BY DEF StackInv, create_checkpoint
<1>1. /\ checkpoint_stack' = Append(checkpoint_stack, cp) /\ memory' = memory \cup {m}
      /\ frames' = frames /\ live' = live /\ popped' = popped /\ initialized' = initialized
  BY DEF create_checkpoint
<1>2. CurrentFrame \in Frame /\ \A a \in live : a.piece = CurrentFrame.piece => In(a, CurrentFrame)
  BY <1>0, CurrentIsLast
<1>3. cp \in Checkpoint /\ cp.piece = m /\ \A a \in cp.held : a.piece = cp.pos.piece => a.to <= cp.pos.at
  BY <1>0, <1>2 DEF Checkpoint, Typing, Frame, In
<1> HIDE DEF cp
<1>4. m \notin PiecesOf(checkpoint_stack) /\ m \notin PiecesOf(frames) /\ m \notin popped
  BY <1>0 DEF Owners
<1>5. /\ checkpoint_stack' \in Seq(Checkpoint) /\ Len(checkpoint_stack') = Len(checkpoint_stack) + 1
      /\ Len(checkpoint_stack) \in Nat
      /\ \A j \in 1 .. Len(checkpoint_stack) : checkpoint_stack'[j] = checkpoint_stack[j]
      /\ checkpoint_stack'[Len(checkpoint_stack) + 1] = cp
  BY <1>0, <1>1, <1>3, Appended DEF Typing
<1>6. /\ Apart(checkpoint_stack')
      /\ PiecesOf(checkpoint_stack') = PiecesOf(checkpoint_stack) \cup {m}
  BY <1>0, <1>1, <1>3, <1>4, AppendedPieces DEF Typing
<1>7. HeldBelow'
  <2> SUFFICES ASSUME NEW j \in 1 .. Len(checkpoint_stack'), NEW a \in checkpoint_stack'[j].held,
                      a.piece = checkpoint_stack'[j].pos.piece
               PROVE  a.to <= checkpoint_stack'[j].pos.at
    BY DEF HeldBelow
  <2>1. j \in 1 .. Len(checkpoint_stack) \/ j = Len(checkpoint_stack) + 1
    BY ONLY <1>5, j \in 1 .. Len(checkpoint_stack')
  <2>2. CASE j \in 1 .. Len(checkpoint_stack)
    BY <1>0, <1>5, <2>2 DEF HeldBelow
  <2>3. CASE j = Len(checkpoint_stack) + 1
    BY <1>3, <1>5, <2>3
  <2> QED BY <2>1, <2>2, <2>3
<1>8. FramesOK' /\ Apart(frames') /\ Inside' /\ Disjoint'
  BY <1>0, <1>1 DEF FramesOK, Inside, Disjoint
<1>9. Owners'
  BY ONLY <1>0, <1>1, <1>4, <1>6 DEF Owners
<1>10. Typing'
  BY ONLY <1>0, <1>1, <1>5, m \in Pieces \ memory DEF Typing
<1> QED BY <1>6, <1>7, <1>8, <1>9, <1>10 DEF StackInv

\* Whatever frame is in the piece that the position of a checkpoint names, the callers
\* keep only what lies below that position.
LEMMA FreeToStep ==
  ASSUME StackInv, initialized, NEW i \in 1 .. Len(checkpoint_stack), FreeTo(checkpoint_stack[i])
  PROVE  /\ frames' \in Seq(Frame) /\ frames' # <<>>
         /\ FramesOK' /\ Apart(frames') /\ PiecesOf(frames') = PiecesOf(frames)
         /\ Inside' /\ Disjoint' /\ live' \subseteq Area
<1> DEFINE cp == checkpoint_stack[i]
<1>0. /\ Typing /\ FramesOK /\ Apart(frames) /\ Inside /\ Disjoint /\ HeldBelow
  BY DEF StackInv
<1>1. cp \in Checkpoint
  BY <1>0 DEF Typing
<1>2. live' = live \cap cp.held
  BY DEF FreeTo
<1>3. Disjoint' /\ live' \subseteq Area
  BY <1>0, <1>2 DEF Disjoint, Typing
<1>4. CASE is_valid_ptr(cp.pos)
  <2>1. frames' = [frames EXCEPT ![Len(frames)].current = cp.pos.at]
    BY <1>4 DEF FreeTo
  <2>2. /\ CurrentFrame \in Frame /\ CurrentFrame.current <= End(CurrentFrame)
        /\ \A a \in live : a.piece = CurrentFrame.piece => In(a, CurrentFrame)
    BY CurrentIsLast
  <2>3. /\ cp.pos.at \in Nat /\ Start <= cp.pos.at /\ cp.pos.at <= CurrentFrame.current
        /\ cp.pos.piece = CurrentFrame.piece
    BY <1>1, <1>4 DEF is_valid_ptr, Checkpoint
  <2>4. cp.pos.at <= End(CurrentFrame)
    BY <2>2, <2>3, StackAssumption DEF Frame, End
  <2>5. \A a \in live' : \/ In(a, [CurrentFrame EXCEPT !.current = cp.pos.at])
                         \/ a \in live /\ a.piece # CurrentFrame.piece
    <3> SUFFICES ASSUME NEW a \in live', a.piece = CurrentFrame.piece
                 PROVE  In(a, [CurrentFrame EXCEPT !.current = cp.pos.at])
      BY <1>2
    <3>1. a.to <= cp.pos.at
      BY <1>0, <1>2, <2>3 DEF HeldBelow
    <3>2. In(a, CurrentFrame)
      BY <1>2, <2>2
    <3> QED BY ONLY <2>2, <2>3, <3>1, <3>2 DEF In, Frame
  <2>6. /\ frames' \in Seq(Frame) /\ frames' # <<>>
        /\ FramesOK' /\ Apart(frames') /\ PiecesOf(frames') = PiecesOf(frames)
        /\ Inside'
    <3> HIDE DEF cp
    <3> QED BY <2>1, <2>3, <2>4, <2>5, MoveStep
  <2> QED BY <1>3, <2>6
<1>5. CASE ~is_valid_ptr(cp.pos)
  <2>1. frames' = frames
    BY <1>5 DEF FreeTo
  <2>2. frames' \in Seq(Frame) /\ frames' # <<>> /\ FramesOK' /\ Apart(frames') /\ PiecesOf(frames') = PiecesOf(frames)
    BY <1>0, <2>1 DEF Typing, FramesOK
  <2>3. Inside'
    BY <1>0, <1>2, <2>1 DEF Inside
  <2> QED BY <1>3, <2>2, <2>3
<1> QED BY <1>4, <1>5

\* free_to_checkpoint moves the pointer back, or does nothing in another frame.
LEMMA FreeToCheckpointStep ==
  ASSUME StackInv, NEW i \in 1 .. Len(checkpoint_stack), free_to_checkpoint(i)
  PROVE  StackInv'
<1>0. Typing /\ Owners /\ initialized
  BY DEF StackInv, free_to_checkpoint
<1>1. /\ checkpoint_stack' = checkpoint_stack /\ initialized' = initialized
      /\ memory' = memory /\ popped' = popped /\ FreeTo(checkpoint_stack[i])
  BY DEF free_to_checkpoint
<1>2. /\ frames' \in Seq(Frame) /\ frames' # <<>>
      /\ FramesOK' /\ Apart(frames') /\ PiecesOf(frames') = PiecesOf(frames)
      /\ Inside' /\ Disjoint' /\ live' \subseteq Area
  BY <1>0, <1>1, FreeToStep
<1>3. Apart(checkpoint_stack') /\ HeldBelow' /\ PiecesOf(checkpoint_stack') = PiecesOf(checkpoint_stack)
  BY <1>1, SameCheckpoints
<1>4. Owners'
  BY ONLY <1>0, <1>1, <1>2, <1>3 DEF Owners
<1>5. Typing'
  BY ONLY <1>0, <1>1, <1>2 DEF Typing
<1> QED BY <1>2, <1>3, <1>4, <1>5 DEF StackInv

\* restore_checkpoint also takes the newer checkpoints off the stack.
LEMMA RestoreStep ==
  ASSUME StackInv, NEW i \in 1 .. Len(checkpoint_stack), restore_checkpoint(i)
  PROVE  StackInv'
<1> DEFINE cs == checkpoint_stack
           newer == {cs[j].piece : j \in i + 1 .. Len(cs)}
<1>0. Typing /\ Owners /\ HeldBelow /\ Apart(cs) /\ initialized
  BY DEF StackInv, restore_checkpoint
<1>1. /\ cs' = SubSeq(cs, 1, i - 1) /\ initialized' = initialized
      /\ memory' = memory \ newer /\ popped' = popped \cup {cs[i].piece} /\ FreeTo(cs[i])
  BY DEF restore_checkpoint, Checkpointed
<1>2. /\ frames' \in Seq(Frame) /\ frames' # <<>>
      /\ FramesOK' /\ Apart(frames') /\ PiecesOf(frames') = PiecesOf(frames)
      /\ Inside' /\ Disjoint' /\ live' \subseteq Area
  BY <1>0, <1>1, FreeToStep
<1>3. cs \in Seq(Checkpoint) /\ Len(cs) \in Nat /\ i - 1 \in 0 .. Len(cs) /\ i \in Nat
  BY <1>0 DEF Typing
<1>4. /\ cs' \in Seq(Checkpoint) /\ Len(cs') = i - 1
      /\ \A j \in 1 .. i - 1 : cs'[j] = cs[j]
  BY <1>1, <1>3, Prefix
<1>5. Apart(cs') /\ PiecesOf(cs') = PiecesOf(cs) \ {cs[j].piece : j \in (i - 1) + 1 .. Len(cs)}
  BY <1>0, <1>1, <1>3, PrefixPieces
<1>6. \A j \in 1 .. i - 1 : j \in 1 .. Len(cs)
  BY <1>3
<1>7. HeldBelow'
  BY ONLY <1>0, <1>4, <1>6 DEF HeldBelow
<1>8. {cs[j].piece : j \in (i - 1) + 1 .. Len(cs)} = newer \cup {cs[i].piece}
  <2>1. \A j : j \in (i - 1) + 1 .. Len(cs) <=> (j \in i + 1 .. Len(cs) \/ j = i)
    BY <1>3
  <2> QED BY <2>1
<1>9. newer \subseteq PiecesOf(cs) /\ cs[i].piece \in PiecesOf(cs) /\ cs[i].piece \notin newer
  <2>1. \A j \in i + 1 .. Len(cs) : j \in 1 .. Len(cs) /\ j # i
    BY <1>3
  <2> QED BY <1>0, <2>1 DEF PiecesOf, Apart
<1> HIDE DEF newer
<1>10. Owners'
  BY ONLY <1>0, <1>1, <1>2, <1>5, <1>8, <1>9 DEF Owners
<1>11. Typing'
  <2>1. memory' \subseteq Pieces
    BY <1>0, <1>1 DEF Typing
  <2>2. popped' \subseteq Pieces
    <3>1. cs[i] \in Checkpoint
      BY <1>3
    <3> QED BY <1>0, <1>1, <3>1 DEF Typing, Checkpoint
  <2> QED BY ONLY <1>0, <1>1, <1>2, <1>4, <2>1, <2>2 DEF Typing
<1> QED BY <1>2, <1>5, <1>7, <1>10, <1>11 DEF StackInv

\* destroy_checkpoint takes one out of the middle of the stack.
LEMMA DestroyCheckpointStep ==
  ASSUME StackInv, NEW i \in 1 .. Len(checkpoint_stack), destroy_checkpoint(i)
  PROVE  StackInv'
<1> DEFINE cs == checkpoint_stack
<1>0. /\ Typing /\ FramesOK /\ Apart(frames) /\ Apart(cs) /\ Owners
      /\ Inside /\ Disjoint /\ HeldBelow /\ initialized
  BY DEF StackInv, destroy_checkpoint
<1>1. /\ cs' = RemoveAt(cs, i) /\ memory' = memory \ {cs[i].piece}
      /\ frames' = frames /\ live' = live /\ popped' = popped /\ initialized' = initialized
  BY DEF destroy_checkpoint
<1>2. cs \in Seq(Checkpoint) /\ Len(cs) \in Nat /\ i \in Nat
  BY <1>0 DEF Typing
<1>3. /\ cs' \in Seq(Checkpoint) /\ Len(cs') = Len(cs) - 1
      /\ \A j \in 1 .. Len(cs) - 1 : cs'[j] = IF j < i THEN cs[j] ELSE cs[j + 1]
  BY <1>1, <1>2, Removed
<1>4. Apart(cs') /\ PiecesOf(cs') = PiecesOf(cs) \ {cs[i].piece}
  BY <1>0, <1>1, <1>2, RemovedPieces
<1>5. \A j \in 1 .. Len(cs') : \E k \in 1 .. Len(cs) : cs'[j] = cs[k]
  BY ONLY <1>2, <1>3
<1>6. HeldBelow'
  BY ONLY <1>0, <1>5 DEF HeldBelow
<1>7. FramesOK' /\ Apart(frames') /\ Inside' /\ Disjoint'
  BY <1>0, <1>1 DEF FramesOK, Inside, Disjoint
<1>8. cs[i].piece \in PiecesOf(cs)
  BY DEF PiecesOf
<1>9. Owners'
  BY ONLY <1>0, <1>1, <1>4, <1>8 DEF Owners
<1>10. Typing'
  <2>1. memory' \subseteq Pieces
    BY <1>0, <1>1 DEF Typing
  <2> QED BY ONLY <1>0, <1>1, <1>3, <2>1 DEF Typing
<1> QED BY <1>4, <1>6, <1>7, <1>9, <1>10 DEF StackInv

-------------------------------------------------------------------------------
(* The theorems. *)

\* Every step keeps the invariant.
LEMMA StackInvNext ==
  ASSUME StackInv, [Next]_vars
  PROVE  StackInv'
<1>1. CASE UNCHANGED vars
  <2>1. /\ initialized' = initialized /\ frames' = frames /\ checkpoint_stack' = checkpoint_stack
        /\ memory' = memory /\ popped' = popped /\ live' = live
    BY <1>1 DEF vars
  <2>2. Typing'
    BY <2>1 DEF StackInv, Typing
  <2>3. FramesOK' /\ Apart(frames') /\ Apart(checkpoint_stack') /\ Owners'
    BY <2>1 DEF StackInv, FramesOK, Owners
  <2>4. Inside' /\ Disjoint' /\ HeldBelow'
    BY <2>1 DEF StackInv, Inside, Disjoint, HeldBelow
  <2> QED BY <2>2, <2>3, <2>4 DEF StackInv
<1>2. CASE destroy \/ reset \/ shrink_to_fit
  BY <1>2, DestroyStep, ResetStep, ShrinkStep
<1>3. ASSUME NEW size \in Sizes, NEW a \in Alignments, AllocFits(size, ValidAlignment(a))
      PROVE  StackInv'
  BY <1>3, AlignmentPositive, AllocFitsStep
<1>4. ASSUME NEW m \in Pieces \ memory, create_checkpoint(m)
      PROVE  StackInv'
  BY <1>4, CreateStep
<1>5. ASSUME NEW m \in Pieces \ memory, NEW size \in Sizes, init(size, m) \/ grow(size, m)
      PROVE  StackInv'
  BY <1>5, InitStep, GrowStep
<1>6. ASSUME NEW m \in Pieces \ memory, NEW size \in Sizes, NEW a \in Alignments,
             AllocGrows(size, ValidAlignment(a), m)
      PROVE  StackInv'
  BY <1>6, AlignmentPositive, AllocGrowsStep
<1>7. ASSUME NEW i \in DOMAIN checkpoint_stack,
             free_to_checkpoint(i) \/ restore_checkpoint(i) \/ destroy_checkpoint(i)
      PROVE  StackInv'
  <2>1. i \in 1 .. Len(checkpoint_stack)
    BY DEF StackInv, Typing
  <2> QED BY <1>7, <2>1, FreeToCheckpointStep, RestoreStep, DestroyCheckpointStep
<1> QED BY <1>1, <1>2, <1>3, <1>4, <1>5, <1>6, <1>7 DEF Next

\* The invariant holds in every state of every behaviour.
THEOREM StackInvariant == Spec => []StackInv
<1>1. Init => StackInv
  BY StackInvInit
<1>2. StackInv /\ [Next]_vars => StackInv'
  BY StackInvNext
<1> QED BY <1>1, <1>2, PTL DEF Spec

\* No two allocations that callers may use overlap, and each lies in the used part of
\* a frame: alloc, free_to_checkpoint, restore_checkpoint, reset and shrink_to_fit may
\* come in any order, and kmalloc may give a new frame the memory of one that is gone.
THEOREM StackExclusive == Spec => []Exclusive
<1>1. StackInv => Exclusive
  <2> SUFFICES ASSUME StackInv PROVE Exclusive
    OBVIOUS
  <2>1. DOMAIN frames = 1 .. Len(frames)
    BY DEF StackInv, Typing
  <2> QED BY <2>1 DEF StackInv, Exclusive, Inside, In, Disjoint, FramesOK
<1> QED BY <1>1, StackInvariant, PTL

\* All memory that kmalloc has given out is a frame, a checkpoint on the stack or one
\* that restore_checkpoint has left behind, and never two of these at once.
THEOREM StackMemoryAccounted == Spec => []MemoryAccounted
<1>1. StackInv => MemoryAccounted
  <2> SUFFICES ASSUME StackInv PROVE MemoryAccounted
    OBVIOUS
  <2>1. Typing /\ Owners /\ Apart(frames) /\ Apart(checkpoint_stack)
    BY DEF StackInv
  <2>2. Framed = PiecesOf(frames) /\ Checkpointed(1) = PiecesOf(checkpoint_stack)
    BY <2>1, PiecesInUse
  <2>3. /\ Cardinality(PiecesOf(frames)) = Len(frames)
        /\ Cardinality(PiecesOf(checkpoint_stack)) = Len(checkpoint_stack)
    BY <2>1, PieceCount DEF Typing
  <2> QED BY <2>1, <2>2, <2>3 DEF MemoryAccounted, Owners
<1> QED BY <1>1, StackInvariant, PTL

\* The frame that alloc adds has room for the request that made it grow, whatever the
\* size, the alignment and the offset of the first address: the padding is less than
\* the alignment, which is no more than the aligned size.
THEOREM StackGrowthServes == Spec => []GrowthServes
<1>1. StackInv => GrowthServes
  <2> SUFFICES ASSUME StackInv, initialized, NEW size \in Sizes \ {0}, NEW a \in Alignments,
                      NEW m \in Pieces
               PROVE  Fits(NewFrame(m, GrownSize(GrowFor(size, ValidAlignment(a)))),
                           size, ValidAlignment(a))
    BY DEF GrowthServes
  <2> DEFINE al == ValidAlignment(a)
  <2>1. al \in Nat \ {0} /\ size \in Nat /\ size > 0 /\ Start \in Nat
    BY AlignmentPositive, StackAssumption
  <2> HIDE DEF al
  <2>2. /\ Align(size, al) \in Nat /\ al <= Align(size, al)
        /\ Align(Start, al) \in Nat /\ Align(Start, al) <= Start + al - 1
    BY <2>1, AlignBounds
  <2>3. GrowFor(size, al) \in Nat /\ GrowFor(size, al) = 2 * Align(size, al)
    BY <2>2 DEF GrowFor
  <2>4. GrownSize(GrowFor(size, al)) \in Nat /\ GrownSize(GrowFor(size, al)) >= GrowFor(size, al)
    BY <2>3, GrownSizeType
  <2>5. Align(Start, al) + Align(size, al) <= Start + GrownSize(GrowFor(size, al))
    BY ONLY <2>1, <2>2, <2>3, <2>4
  <2> QED BY <2>5 DEF Fits, NewFrame, End, al
<1> QED BY <1>1, StackInvariant, PTL

-------------------------------------------------------------------------------
(* The capacity: total_capacity and frame_count are kept apart from the    *)
(* frames they count, and every operation keeps them in step.              *)

\* Frames of the same sizes, and the counters as they were.
LEMMA CapacitySame ==
  ASSUME StackInv, CapacitySound, frames' \in Seq(Frame), Len(frames') = Len(frames),
         \A i \in 1 .. Len(frames) : frames'[i].size = frames[i].size,
         total_capacity' = total_capacity, frame_count' = frame_count
  PROVE  CapacitySound'
<1>1. frames \in Seq(Frame)
  BY DEF StackInv, Typing
<1>2. FrameBytes(frames') = FrameBytes(frames)
  BY <1>1, BytesOfSameSizes
<1>3. /\ total_capacity = FrameBytes(frames) /\ total_capacity <= MaxSize
      /\ frame_count = Len(frames)
      /\ \A i \in 1 .. Len(frames) - 1 : frames[i + 1].size >= 2 * frames[i].size
  BY DEF CapacitySound
<1>4. \A i \in 1 .. Len(frames') - 1 : frames'[i + 1].size >= 2 * frames'[i].size
  <2> SUFFICES ASSUME NEW i \in 1 .. Len(frames') - 1
               PROVE  frames'[i + 1].size >= 2 * frames'[i].size
    OBVIOUS
  <2>1. i \in 1 .. Len(frames) - 1 /\ i \in 1 .. Len(frames) /\ i + 1 \in 1 .. Len(frames)
    BY <1>1
  <2>2. frames'[i + 1].size = frames[i + 1].size /\ frames'[i].size = frames[i].size
    BY <2>1
  <2> QED BY ONLY <1>3, <2>1, <2>2
<1>5. total_capacity' = FrameBytes(frames') /\ total_capacity' <= MaxSize /\ frame_count' = Len(frames')
  BY <1>2, <1>3
<1> QED BY ONLY <1>4, <1>5 DEF CapacitySound

\* The pointer of the current frame is moved.
LEMMA CapacityMoved ==
  ASSUME StackInv, CapacitySound, initialized, NEW c \in Nat,
         frames' = [frames EXCEPT ![Len(frames)].current = c],
         total_capacity' = total_capacity, frame_count' = frame_count
  PROVE  CapacitySound'
<1>1. Typing
  BY DEF StackInv
<1>2. /\ frames' \in Seq(Frame) /\ Len(frames') = Len(frames)
      /\ \A i \in 1 .. Len(frames) : frames'[i].size = frames[i].size
  BY <1>1, CurrentMoved
<1> QED BY <1>2, CapacitySame

\* The frame that grow adds: at least twice the size of the last, within the limit.
LEMMA CapacityLinked ==
  ASSUME StackInv, CapacitySound, initialized, NEW n \in Nat, MayGrow(n),
         NEW f \in Frame, f.size = GrownSize(n), frames' = Append(frames, f),
         total_capacity' = total_capacity + GrownSize(n), frame_count' = frame_count + 1
  PROVE  CapacitySound'
<1>1. frames \in Seq(Frame)
  BY DEF StackInv, Typing
<1>2. /\ Len(frames') = Len(frames) + 1
      /\ \A i \in 1 .. Len(frames) : frames'[i] = frames[i]
      /\ frames'[Len(frames) + 1] = f
  BY <1>1, Appended
<1>3. /\ Len(frames) \in Nat \ {0} /\ CurrentFrame = frames[Len(frames)]
  BY CurrentIsLast
<1>4. GrownSize(n) \in Nat /\ GrownSize(n) >= 2 * CurrentFrame.size
  BY GrownSizeType
<1>5. FrameBytes(frames) \in Nat /\ FrameBytes(frames') = FrameBytes(frames) + f.size
  BY <1>1, BytesAppended
<1>6. /\ total_capacity = FrameBytes(frames) /\ frame_count = Len(frames)
      /\ \A i \in 1 .. Len(frames) - 1 : frames[i + 1].size >= 2 * frames[i].size
  BY DEF CapacitySound
<1>7. total_capacity' = FrameBytes(frames') /\ total_capacity' <= MaxSize
  BY <1>5, <1>6 DEF MayGrow
<1>8. frame_count' = Len(frames')
  BY <1>2, <1>6
<1>9. \A i \in 1 .. Len(frames') - 1 : frames'[i + 1].size >= 2 * frames'[i].size
  <2> SUFFICES ASSUME NEW i \in 1 .. Len(frames') - 1
               PROVE  frames'[i + 1].size >= 2 * frames'[i].size
    OBVIOUS
  <2>1. i \in 1 .. Len(frames)
    BY ONLY <1>2, <1>3, i \in 1 .. Len(frames') - 1
  <2>2. CASE i = Len(frames)
    <3>1. frames'[i + 1].size = GrownSize(n) /\ frames'[i].size = CurrentFrame.size
      BY ONLY <1>2, <1>3, <2>1, <2>2, f.size = GrownSize(n)
    <3> QED BY ONLY <1>4, <3>1
  <2>3. CASE i # Len(frames)
    <3>1. i \in 1 .. Len(frames) - 1 /\ i + 1 \in 1 .. Len(frames)
      BY ONLY <1>3, <2>1, <2>3
    <3>2. frames'[i + 1] = frames[i + 1] /\ frames'[i] = frames[i]
      BY ONLY <1>2, <2>1, <3>1
    <3> QED BY ONLY <1>6, <3>1, <3>2
  <2> QED BY <2>2, <2>3
<1> QED BY ONLY <1>7, <1>8, <1>9 DEF CapacitySound

\* No frames, and no capacity.
LEMMA NoBytes == FrameBytes(<<>>) = 0
<1>1. Len(<<>>) = 0
  OBVIOUS
<1> QED BY <1>1, FrameBytesSum, SumsDefined

\* init: one frame, no larger than the limit.
LEMMA CapacityInit ==
  ASSUME StackInv, NEW size \in Sizes, NEW m \in Pieces, init(size, m)
  PROVE  CapacitySound'
<1> DEFINE sz == Max({MinSize, Min({MaxSize, size})})
           f == NewFrame(m, sz)
<1>1. sz \in Nat /\ sz <= MaxSize
  <2>1. MaxSize \in Int /\ size \in Int /\ MinSize \in Int /\ MaxSize \in Nat /\ size \in Nat
        /\ MinSize \in Nat /\ MinSize <= MaxSize
    BY StackAssumption
  <2> DEFINE l == Min({MaxSize, size})
  <2>2. l \in {MaxSize, size} /\ l <= MaxSize
    BY <2>1, MinOfTwo
  <2> HIDE DEF l
  <2>3. l \in Nat /\ l \in Int
    BY <2>1, <2>2
  <2>4. Max({MinSize, l}) \in {MinSize, l}
    BY <2>1, <2>3, MaxOfTwo
  <2>5. Max({MinSize, l}) \in Nat /\ Max({MinSize, l}) <= MaxSize
    BY <2>1, <2>2, <2>3, <2>4
  <2> QED BY <2>5 DEF l
<1>2. frames' = <<f>> /\ total_capacity' = sz /\ frame_count' = 1
  BY DEF init
<1> HIDE DEF sz
<1>3. f \in Frame /\ f.size = sz
  BY <1>1, StackAssumption DEF NewFrame, Frame
<1> HIDE DEF f
<1>4. <<>> \in Seq(Frame) /\ frames' = Append(<<>>, f) /\ Len(frames') = 1
  BY <1>2
<1>5. FrameBytes(Append(<<>>, f)) = FrameBytes(<<>>) + f.size
  BY <1>3, <1>4, BytesAppended
<1>6. FrameBytes(frames') = sz
  BY <1>1, <1>3, <1>4, <1>5, NoBytes
<1>7. \A i \in 1 .. Len(frames') - 1 : FALSE
  BY <1>4
<1> QED BY <1>1, <1>2, <1>4, <1>6, <1>7 DEF CapacitySound

\* shrink_to_fit gives back the capacity of just the frames that it drops.
LEMMA CapacityShrunk ==
  ASSUME StackInv, CapacitySound, shrink_to_fit
  PROVE  CapacitySound'
<1>1. frames \in Seq(Frame) /\ Len(frames) \in Nat
  BY DEF StackInv, Typing
<1>2. PICK kept \in 1 .. Len(frames) - 1 :
        /\ frames' = SubSeq(frames, 1, kept)
        /\ frame_count' = frame_count - (Len(frames) - kept)
        /\ total_capacity' = total_capacity - FrameBytes(SubSeq(frames, kept + 1, Len(frames)))
  BY DEF shrink_to_fit, unlink_frames
<1> DEFINE b == FrameBytes(SubSeq(frames, kept + 1, Len(frames)))
<1>3. kept \in 0 .. Len(frames) /\ kept \in Nat
  BY <1>1
<1>4. /\ FrameBytes(frames') \in Nat /\ b \in Nat
      /\ FrameBytes(frames) = FrameBytes(frames') + b
  <2>1. /\ FrameBytes(SubSeq(frames, 1, kept)) \in Nat /\ b \in Nat
        /\ FrameBytes(frames) = FrameBytes(SubSeq(frames, 1, kept)) + b
    BY <1>1, <1>3, BytesSplit
  <2> HIDE DEF b
  <2> QED BY ONLY <1>2, <2>1
<1>5. total_capacity' = total_capacity - b
  BY <1>2
<1>6. /\ Len(frames') = kept
      /\ \A i \in 1 .. kept : frames'[i] = frames[i]
  BY <1>1, <1>2, <1>3, Prefix
<1>7. /\ total_capacity = FrameBytes(frames) /\ total_capacity <= MaxSize /\ frame_count = Len(frames)
      /\ \A i \in 1 .. Len(frames) - 1 : frames[i + 1].size >= 2 * frames[i].size
  BY DEF CapacitySound
<1> HIDE DEF b
<1>8. total_capacity' = FrameBytes(frames') /\ total_capacity' <= MaxSize
  BY ONLY <1>4, <1>5, <1>7, StackAssumption
<1>9. frame_count' = frame_count - (Len(frames) - kept)
  BY <1>2
<1>10. frame_count' = Len(frames')
  BY ONLY <1>1, <1>3, <1>6, <1>7, <1>9
<1>11. \A i \in 1 .. Len(frames') - 1 : frames'[i + 1].size >= 2 * frames'[i].size
  <2> SUFFICES ASSUME NEW i \in 1 .. Len(frames') - 1
               PROVE  frames'[i + 1].size >= 2 * frames'[i].size
    OBVIOUS
  <2>1. i \in 1 .. kept /\ i + 1 \in 1 .. kept /\ i \in 1 .. Len(frames) - 1
    BY ONLY <1>1, <1>3, <1>6, i \in 1 .. Len(frames') - 1
  <2>2. frames'[i + 1] = frames[i + 1] /\ frames'[i] = frames[i]
    BY ONLY <1>6, <2>1
  <2> QED BY ONLY <1>7, <2>1, <2>2
<1> QED BY ONLY <1>8, <1>10, <1>11 DEF CapacitySound

\* grow and both forms of alloc.
LEMMA CapacityGrows ==
  ASSUME StackInv, CapacitySound, NEW size \in Sizes, NEW al \in Nat \ {0}, NEW m \in Pieces,
         grow(size, m) \/ AllocGrows(size, al, m)
  PROVE  CapacitySound'
<1>0. initialized /\ size \in Nat /\ Start \in Nat
  BY StackAssumption DEF grow, AllocGrows
<1>1. CASE grow(size, m)
  <2> DEFINE f == NewFrame(m, GrownSize(size))
  <2>1. GrownSize(size) \in Nat
    BY <1>0, GrownSizeType
  <2>2. f \in Frame /\ f.size = GrownSize(size)
    BY <1>0, <2>1 DEF NewFrame, Frame
  <2>3. /\ MayGrow(size) /\ frames' = Append(frames, f)
        /\ total_capacity' = total_capacity + GrownSize(size) /\ frame_count' = frame_count + 1
    BY <1>1 DEF grow, Grown, link_frame
  <2> HIDE DEF f
  <2> QED BY <1>0, <2>2, <2>3, CapacityLinked
<1>2. CASE AllocGrows(size, al, m)
  <2> DEFINE n == GrowFor(size, al)
             e == NewFrame(m, GrownSize(n))
             f == IF Fits(e, size, al) THEN Advanced(e, size, al) ELSE e
  <2>1. n \in Nat
    <3>1. Align(size, al) \in Nat
      BY <1>0, AlignBounds
    <3> QED BY <3>1 DEF GrowFor
  <2>2. /\ MayGrow(n) /\ frames' = Append(frames, f) /\ size > 0
        /\ total_capacity' = total_capacity + GrownSize(n) /\ frame_count' = frame_count + 1
    BY <1>2 DEF AllocGrows, Grown, link_frame
  <2> HIDE DEF n
  <2>3. GrownSize(n) \in Nat
    BY <1>0, <2>1, GrownSizeType
  <2>4. e \in Frame /\ e.size = GrownSize(n) /\ Start <= e.current
    BY <1>0, <2>3 DEF NewFrame, Frame
  <2> HIDE DEF e
  <2>5. Allocation(e, size, al).to \in Nat
    <3>1. size \in Nat \ {0}
      BY ONLY <1>0, <2>2
    <3>2. Allocation(e, size, al) \in Area
      BY <2>4, <3>1, AllocationAbove
    <3> QED BY ONLY <3>2 DEF Area
  <2>6. f \in Frame /\ f.size = GrownSize(n)
    BY <2>4, <2>5 DEF Advanced, Frame
  <2> HIDE DEF f
  <2> QED BY <1>0, <2>1, <2>2, <2>6, CapacityLinked
<1> QED BY <1>1, <1>2

\* alloc in the current frame.
LEMMA CapacityAllocFits ==
  ASSUME StackInv, CapacitySound, NEW size \in Sizes, NEW al \in Nat \ {0}, AllocFits(size, al)
  PROVE  CapacitySound'
<1> DEFINE c == Allocation(CurrentFrame, size, al).to
<1>0. initialized /\ size \in Nat \ {0}
  BY StackAssumption DEF AllocFits
<1>1. /\ Len(frames) \in Nat \ {0} /\ CurrentFrame = frames[Len(frames)] /\ CurrentFrame \in Frame
      /\ Start <= CurrentFrame.current
  BY <1>0, CurrentIsLast
<1>2. c \in Nat
  <2>1. Allocation(CurrentFrame, size, al) \in Area
    BY <1>0, <1>1, AllocationAbove
  <2> QED BY ONLY <2>1 DEF Area
<1>3. /\ frames' = [frames EXCEPT ![Len(frames)] = [CurrentFrame EXCEPT !.current = c]]
      /\ total_capacity' = total_capacity /\ frame_count' = frame_count
  BY DEF AllocFits, Advanced
<1> HIDE DEF c
<1>4. frames' = [frames EXCEPT ![Len(frames)].current = c]
  BY <1>1, <1>3
<1> QED BY <1>0, <1>2, <1>3, <1>4, CapacityMoved

\* free_to_checkpoint and restore_checkpoint move the pointer back or do nothing.
LEMMA CapacityFreeTo ==
  ASSUME StackInv, CapacitySound, initialized, NEW i \in 1 .. Len(checkpoint_stack),
         FreeTo(checkpoint_stack[i]),
         total_capacity' = total_capacity, frame_count' = frame_count
  PROVE  CapacitySound'
<1> DEFINE cp == checkpoint_stack[i]
<1>1. cp \in Checkpoint
  BY DEF StackInv, Typing
<1>2. cp.pos.at \in Nat
  BY ONLY <1>1 DEF Checkpoint
<1>3. CASE is_valid_ptr(cp.pos)
  <2>1. frames' = [frames EXCEPT ![Len(frames)].current = cp.pos.at]
    BY <1>3 DEF FreeTo
  <2> HIDE DEF cp
  <2> QED BY <1>2, <2>1, CapacityMoved
<1>4. CASE ~is_valid_ptr(cp.pos)
  <2>1. frames' = frames
    BY <1>4 DEF FreeTo
  <2> QED BY <2>1 DEF CapacitySound
<1> QED BY <1>3, <1>4

\* Every operation keeps the counters right.
LEMMA CapacityNext ==
  ASSUME StackInv, CapacitySound, [Next]_vars
  PROVE  CapacitySound'
<1>1. CASE frames' = frames /\ total_capacity' = total_capacity /\ frame_count' = frame_count
  BY <1>1 DEF CapacitySound
<1>2. CASE UNCHANGED vars
  BY <1>1, <1>2 DEF vars
<1>3. CASE destroy
  <2>1. frames' = <<>> /\ total_capacity' = 0 /\ frame_count' = 0
    BY <1>3 DEF destroy
  <2>2. Len(frames') = 0 /\ FrameBytes(frames') = 0
    BY <2>1, NoBytes
  <2>3. \A i \in 1 .. Len(frames') - 1 : FALSE
    BY <2>2
  <2> QED BY <2>1, <2>2, <2>3, StackAssumption DEF CapacitySound
<1>4. CASE reset
  <2>1. /\ initialized /\ frames' = [frames EXCEPT ![Len(frames)].current = Start]
        /\ total_capacity' = total_capacity /\ frame_count' = frame_count
    BY <1>4 DEF reset
  <2>2. Start \in Nat
    BY StackAssumption
  <2> QED BY <2>1, <2>2, CapacityMoved
<1>5. CASE shrink_to_fit
  BY <1>5, CapacityShrunk
<1>6. ASSUME NEW size \in Sizes, NEW a \in Alignments, AllocFits(size, ValidAlignment(a))
      PROVE  CapacitySound'
  BY <1>6, AlignmentPositive, CapacityAllocFits
<1>7. ASSUME NEW m \in Pieces \ memory, create_checkpoint(m)
      PROVE  CapacitySound'
  BY <1>1, <1>7 DEF create_checkpoint
<1>8. ASSUME NEW m \in Pieces \ memory, NEW size \in Sizes, init(size, m)
      PROVE  CapacitySound'
  BY <1>8, CapacityInit
<1>9. ASSUME NEW m \in Pieces \ memory, NEW size \in Sizes, grow(size, m)
      PROVE  CapacitySound'
  <2>1. 1 \in Nat \ {0}
    OBVIOUS
  <2> QED BY <1>9, <2>1, CapacityGrows
<1>10. ASSUME NEW m \in Pieces \ memory, NEW size \in Sizes, NEW a \in Alignments,
              AllocGrows(size, ValidAlignment(a), m)
       PROVE  CapacitySound'
  BY <1>10, AlignmentPositive, CapacityGrows
<1>11. ASSUME NEW i \in DOMAIN checkpoint_stack, free_to_checkpoint(i) \/ restore_checkpoint(i)
       PROVE  CapacitySound'
  <2>1. i \in 1 .. Len(checkpoint_stack)
    BY DEF StackInv, Typing
  <2>2. /\ initialized /\ FreeTo(checkpoint_stack[i])
        /\ total_capacity' = total_capacity /\ frame_count' = frame_count
    BY <1>11 DEF free_to_checkpoint, restore_checkpoint
  <2> QED BY <2>1, <2>2, CapacityFreeTo
<1>12. ASSUME NEW i \in DOMAIN checkpoint_stack, destroy_checkpoint(i)
       PROVE  CapacitySound'
  BY <1>1, <1>12 DEF destroy_checkpoint
<1> QED BY <1>2, <1>3, <1>4, <1>5, <1>6, <1>7, <1>8, <1>9, <1>10, <1>11, <1>12 DEF Next

\* total_capacity, which grow compares with MAX_STACK_SIZE, is the sum of the sizes of
\* the frames, however often grow, alloc and shrink_to_fit have changed them one by
\* one; it never passes the limit, and each frame is at least twice the one before it.
THEOREM StackCapacity == Spec => []CapacitySound
<1>1. Init => CapacitySound
  <2> SUFFICES ASSUME Init PROVE CapacitySound
    OBVIOUS
  <2>1. frames = <<>> /\ total_capacity = 0 /\ frame_count = 0
    BY DEF Init
  <2>2. Len(frames) = 0 /\ FrameBytes(frames) = 0
    BY <2>1, NoBytes
  <2>3. \A i \in 1 .. Len(frames) - 1 : FALSE
    BY <2>2
  <2> QED BY <2>1, <2>2, <2>3, StackAssumption DEF CapacitySound
<1>2. StackInv /\ CapacitySound /\ [Next]_vars => CapacitySound'
  BY CapacityNext
<1> QED BY <1>1, <1>2, StackInvariant, PTL DEF Spec
===============================================================================
