------------------------------ MODULE StackAlloc ------------------------------
(***************************************************************************)
(* The stack allocator of kmOS (runtime/stack.cc): frames from which       *)
(* memory is given out by moving a pointer, and checkpoints to which that  *)
(* pointer can be moved back.  A request that does not fit into the        *)
(* current frame makes a larger one, which becomes the current frame for   *)
(* good unless shrink_to_fit drops it.  Frames and checkpoints are         *)
(* themselves memory of kmalloc.                                           *)
(*                                                                         *)
(* A position is a piece of kmalloc memory and an offset into it.  kmalloc *)
(* gives out any piece that is not in use, so also one that was freed      *)
(* before.  A call that changes nothing (not initialized, size 0, no       *)
(* memory, the limit) is a stuttering step.  The statistics and the canary *)
(* are left out, and so are sizes so large that an address overflows.      *)
(* Callers use a checkpoint until it is restored or destroyed, or until    *)
(* reset, destroy or an older checkpoint takes it away.  The allocator of  *)
(* a thread (ThreadLocalStackAllocator) is another one of these.           *)
(***************************************************************************)
EXTENDS Integers, SequencesExt, FiniteSetsExt

CONSTANTS Pieces,     \* what kmalloc can give out
          Start,      \* sizeof(struct stack_frame): the offset of start in a frame
          MinSize,    \* MIN_STACK_SIZE
          MaxSize,    \* MAX_STACK_SIZE
          Alignment,  \* STACK_ALIGNMENT
          Sizes,      \* the sizes that callers ask for
          Alignments  \* the alignments that they ask for

ASSUME StackAssumption ==
  /\ Start \in Nat \ {0} /\ MinSize \in Nat \ {0} /\ MaxSize \in Nat /\ MinSize <= MaxSize
  /\ Alignment \in Nat \ {0} /\ Sizes \subseteq Nat /\ Alignments \subseteq Nat

VARIABLES initialized,
          frames,            \* from frame_list to current_frame, the last
          checkpoint_stack,  \* the newest last
          total_capacity,
          frame_count,
          memory,            \* the pieces that kmalloc has given out
          popped,            \* history: those of the checkpoints that were restored
          live               \* history: the allocations that callers may use

vars == <<initialized, frames, checkpoint_stack, total_capacity, frame_count, memory, popped, live>>

-------------------------------------------------------------------------------
(* Helpers. *)

CurrentFrame == frames[Len(frames)]
End(f) == Start + f.size

\* align_pointer and align_size, for a power of two.
Align(n, alignment) == ((n + alignment - 1) \div alignment) * alignment

\* alloc_aligned: zero, and what is not a power of two, becomes STACK_ALIGNMENT.
IsPowerOfTwo(n) == n # 0 /\ \E i \in 0 .. n : n = 2 ^ i
ValidAlignment(alignment) == IF IsPowerOfTwo(alignment) THEN alignment ELSE Alignment

\* allocate_frame in the piece m.
NewFrame(m, size) == [piece |-> m, size |-> size, current |-> Start]

Fits(f, size, alignment) == Align(f.current, alignment) + Align(size, alignment) <= End(f)

\* Mutant: a position in any frame will do.
ValidSomewhere(pos) == \E i \in DOMAIN frames : frames[i].piece = pos.piece

\* Only a position that is in use in the current frame is valid.
is_valid_ptr(pos) ==
  /\ pos.piece = CurrentFrame.piece
  /\ Start <= pos.at /\ pos.at <= CurrentFrame.current

Checkpointed(from) == {checkpoint_stack[j].piece : j \in from .. Len(checkpoint_stack)}
Framed == {frames[j].piece : j \in DOMAIN frames}

-------------------------------------------------------------------------------
(* Frames. *)

Init ==
  /\ initialized = FALSE
  /\ frames = <<>> /\ checkpoint_stack = <<>>
  /\ total_capacity = 0 /\ frame_count = 0
  /\ memory = {} /\ popped = {} /\ live = {}

\* init with initial_size between the limits.
init(initial_size, m) ==
  LET size == Max({MinSize, Min({MaxSize, initial_size})})
  IN  /\ ~initialized
      /\ initialized' = TRUE
      /\ frames' = <<NewFrame(m, size)>>
      /\ checkpoint_stack' = <<>>
      /\ total_capacity' = size /\ frame_count' = 1
      /\ memory' = memory \cup {m}
      /\ UNCHANGED <<popped, live>>

\* The checkpoints on the stack and all the frames are freed.
destroy ==
  /\ initialized
  /\ initialized' = FALSE
  /\ frames' = <<>> /\ checkpoint_stack' = <<>>
  /\ total_capacity' = 0 /\ frame_count' = 0
  /\ memory' = memory \ (Checkpointed(1) \cup Framed)
  /\ live' = {}
  /\ UNCHANGED popped

\* Mutant: the limit is checked against the old capacity.
GrowPast(additional_size) == total_capacity < MaxSize

\* The size of the frame that grow adds, and whether the limit admits it.
GrownSize(additional_size) == Max({additional_size, CurrentFrame.size * 2})
MayGrow(additional_size) == total_capacity + GrownSize(additional_size) <= MaxSize

link_frame(f) == Append(frames, f)

\* unlink_frame for the frames behind the first kept ones.
unlink_frames(kept) == SubSeq(frames, 1, kept)

\* The capacity of a sequence of frames.
FrameBytes(fs) ==
  LET sum[n \in Nat] == IF n = 0 THEN 0 ELSE sum[n - 1] + fs[n].size
  IN  sum[Len(fs)]

\* What grow does to everything but the frames, which alloc changes further.
Grown(additional_size, m) ==
  /\ MayGrow(additional_size)
  /\ total_capacity' = total_capacity + GrownSize(additional_size)
  /\ frame_count' = frame_count + 1
  /\ memory' = memory \cup {m}

grow(additional_size, m) ==
  /\ initialized
  /\ Grown(additional_size, m)
  /\ frames' = link_frame(NewFrame(m, GrownSize(additional_size)))
  /\ UNCHANGED <<initialized, checkpoint_stack, popped, live>>

\* get_used_bytes() == 0, for the i-th frame.
Unused(i) == frames[i].current = Start

\* shrink_to_fit drops the current frame while it is empty and not the only one: of
\* the frames it keeps, the last is in use or the first of all.
shrink_to_fit ==
  /\ initialized /\ frame_count > 1
  /\ \E kept \in 1 .. Len(frames) - 1 :
       /\ \A i \in kept + 1 .. Len(frames) : Unused(i)
       /\ kept = 1 \/ ~Unused(kept)
       /\ frames' = unlink_frames(kept)
       /\ frame_count' = frame_count - (Len(frames) - kept)
       /\ total_capacity' = total_capacity - FrameBytes(SubSeq(frames, kept + 1, Len(frames)))
       /\ memory' = memory \ {frames[i].piece : i \in kept + 1 .. Len(frames)}
  /\ UNCHANGED <<initialized, checkpoint_stack, popped, live>>

-------------------------------------------------------------------------------
(* Allocations. *)

Allocation(f, size, alignment) ==
  [piece |-> f.piece, from |-> Align(f.current, alignment),
   to |-> Align(f.current, alignment) + Align(size, alignment)]

Advanced(f, size, alignment) == [f EXCEPT !.current = Allocation(f, size, alignment).to]

\* alloc where the current frame has the room.
AllocFits(size, alignment) ==
  /\ initialized /\ size > 0
  /\ Fits(CurrentFrame, size, alignment)
  /\ frames' = [frames EXCEPT ![Len(frames)] = Advanced(CurrentFrame, size, alignment)]
  /\ live' = live \cup {Allocation(CurrentFrame, size, alignment)}
  /\ UNCHANGED <<initialized, checkpoint_stack, total_capacity, frame_count, memory, popped>>

\* Mutant: no allowance for the alignment of the first address.
ExactSize(size, alignment) == Align(size, alignment)

\* What alloc asks grow for.
GrowFor(size, alignment) == Align(size, alignment) * 2

\* alloc where it has not: the request is tried once more in the frame that grow
\* makes; if it does not fit there, the frame stays.
AllocGrows(size, alignment, m) ==
  LET f == NewFrame(m, GrownSize(GrowFor(size, alignment)))
      fits == Fits(f, size, alignment)
  IN  /\ initialized /\ size > 0
      /\ ~Fits(CurrentFrame, size, alignment)
      /\ Grown(GrowFor(size, alignment), m)
      /\ frames' = link_frame(IF fits THEN Advanced(f, size, alignment) ELSE f)
      /\ live' = IF fits THEN live \cup {Allocation(f, size, alignment)} ELSE live
      /\ UNCHANGED <<initialized, checkpoint_stack, popped>>

\* reset empties the current frame and frees the checkpoints on the stack.  What is
\* in the other frames stays where it is, and callers may go on using it.
reset ==
  /\ initialized
  /\ frames' = [frames EXCEPT ![Len(frames)].current = Start]
  /\ memory' = memory \ Checkpointed(1)
  /\ checkpoint_stack' = <<>>
  /\ live' = {a \in live : a.piece # CurrentFrame.piece}
  /\ UNCHANGED <<initialized, total_capacity, frame_count, popped>>

-------------------------------------------------------------------------------
(* Checkpoints. *)

\* held is history: the allocations that callers had when it was made.
create_checkpoint(m) ==
  /\ initialized
  /\ checkpoint_stack' = Append(checkpoint_stack,
       [piece |-> m, pos |-> [piece |-> CurrentFrame.piece, at |-> CurrentFrame.current],
        held |-> live])
  /\ memory' = memory \cup {m}
  /\ UNCHANGED <<initialized, frames, total_capacity, frame_count, popped, live>>

\* What free_to_checkpoint does: nothing, when the position is in another frame than
\* the current one.  For the caller, what was allocated since is gone either way.
FreeTo(cp) ==
  /\ frames' = IF is_valid_ptr(cp.pos)
               THEN [frames EXCEPT ![Len(frames)].current = cp.pos.at]
               ELSE frames
  /\ live' = live \cap cp.held

free_to_checkpoint(i) ==
  /\ initialized
  /\ FreeTo(checkpoint_stack[i])
  /\ UNCHANGED <<initialized, checkpoint_stack, total_capacity, frame_count, memory, popped>>

\* The newer checkpoints are freed; this one leaves the stack but is not freed, and
\* destroy_checkpoint will not find it there.  The destructor of ScopedStackAllocator
\* calls the one and then the other.
restore_checkpoint(i) ==
  /\ initialized
  /\ FreeTo(checkpoint_stack[i])
  /\ memory' = memory \ Checkpointed(i + 1)
  /\ checkpoint_stack' = SubSeq(checkpoint_stack, 1, i - 1)
  /\ popped' = popped \cup {checkpoint_stack[i].piece}
  /\ UNCHANGED <<initialized, total_capacity, frame_count>>

\* Mutant: a checkpoint that is not the newest is freed and stays on the stack.
DestroyNewest(i) ==
  /\ initialized
  /\ checkpoint_stack' = IF i = Len(checkpoint_stack) THEN RemoveAt(checkpoint_stack, i)
                         ELSE checkpoint_stack
  /\ memory' = memory \ {checkpoint_stack[i].piece}
  /\ UNCHANGED <<initialized, frames, total_capacity, frame_count, popped, live>>

\* destroy_checkpoint takes it out of the middle of the stack and frees it.
destroy_checkpoint(i) ==
  /\ initialized
  /\ checkpoint_stack' = RemoveAt(checkpoint_stack, i)
  /\ memory' = memory \ {checkpoint_stack[i].piece}
  /\ UNCHANGED <<initialized, frames, total_capacity, frame_count, popped, live>>

-------------------------------------------------------------------------------
Next ==
  \/ destroy \/ reset \/ shrink_to_fit
  \/ \E size \in Sizes, a \in Alignments : AllocFits(size, ValidAlignment(a))
  \/ \E m \in Pieces \ memory :
       \/ create_checkpoint(m)
       \/ \E size \in Sizes :
            \/ init(size, m) \/ grow(size, m)
            \/ \E a \in Alignments : AllocGrows(size, ValidAlignment(a), m)
  \/ \E i \in DOMAIN checkpoint_stack :
       free_to_checkpoint(i) \/ restore_checkpoint(i) \/ destroy_checkpoint(i)

Spec == Init /\ [][Next]_vars

-------------------------------------------------------------------------------
(* Properties. *)

Overlap(a, b) == a.piece = b.piece /\ a.from < b.to /\ b.from < a.to

\* What callers may use is theirs alone: no two allocations overlap, and each lies
\* in a frame, between its start and its current, which is not past its end.  So it
\* stays when checkpoints are restored in another frame than the one they were made
\* in, when the frame they were made in was dropped and its memory is a frame again,
\* and when they are used out of order.
Exclusive ==
  /\ \A a, b \in live : a # b => ~Overlap(a, b)
  /\ \A a \in live : \E i \in DOMAIN frames :
       /\ frames[i].piece = a.piece
       /\ Start <= a.from /\ a.from < a.to /\ a.to <= frames[i].current
  /\ \A i \in DOMAIN frames : Start <= frames[i].current /\ frames[i].current <= End(frames[i])

\* Every piece of memory is one frame or one checkpoint on the stack, or a checkpoint
\* that was restored: no other is lost, and none that is freed is still in use.
MemoryAccounted ==
  /\ memory = Framed \cup Checkpointed(1) \cup popped
  /\ Framed \cap Checkpointed(1) = {} /\ popped \cap (Framed \cup Checkpointed(1)) = {}
  /\ Cardinality(Framed) = Len(frames)
  /\ Cardinality(Checkpointed(1)) = Len(checkpoint_stack)

\* The capacity that grow checks is that of the frames, within the limit; each frame
\* is at least twice as large as the one before it.
CapacitySound ==
  /\ total_capacity = FrameBytes(frames)
  /\ total_capacity <= MaxSize /\ frame_count = Len(frames)
  /\ \A i \in 1 .. Len(frames) - 1 : frames[i + 1].size >= 2 * frames[i].size

\* alloc never makes a frame in vain: whatever the current frame, the one that grow
\* makes for a request has room for it, although its first address need not be
\* aligned.  So the second test of alloc never fails.
GrowthServes ==
  initialized =>
    \A size \in Sizes \ {0}, a \in Alignments, m \in Pieces :
      Fits(NewFrame(m, GrownSize(GrowFor(size, ValidAlignment(a)))), size, ValidAlignment(a))
===============================================================================
