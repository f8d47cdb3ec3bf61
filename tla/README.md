# kmOS: TLA+ models, checks and proofs

kmOS is a 32-bit x86 teaching kernel: a preemptive round-robin scheduler, a
keyboard-driven shell, a family of memory allocators, paging with
copy-on-write, and a file tree.  This directory holds TLA+ models of its core,
the TLC runs that check them on small instances and TLAPS proofs of what can be
proved for all instances.  Paths below are relative to `src/kernel/` of the
repository; `PROJECT.json` maps every definition to the lines it models.

## 1. Inventory

| Component | State | Operations | Works with |
|---|---|---|---|
| Process list, scheduler (`arch/x86/architecture.cc`, `core/process.cc`) | ring `plist`/`firstProc`/`pnext`, `pcurrent`, states, saved registers, tick counter | `addProcess`, `fork`, `execv`/`create`, `exit`, `wait`, `destroy_all_zombie`, timer interrupt, `schedule` | interrupt entry, page directories, system calls |
| Interrupt entry (`x86.cc`, `x86int.asm`, `isr_kbd.asm`) | IDT, interrupt flag | save and restore registers, dispatch | scheduler, keyboard |
| Keyboard (`arch/x86/keyboard.cc`) | ring buffer with head, tail, count; modifier keys | handler, `read_line` | shell, timer (ends `hlt`) |
| Buddy allocator (`runtime/buddy.cc`) | free lists by order, headers inside the memory | `alloc`, `alloc_order`, `free`, `free_order` | everything that allocates pages |
| Slab allocator (`runtime/slab.cc`) | caches, three lists of slabs each, chains of free objects, counters | `cache_alloc`, `cache_free`, `kmem_cache_free`, `cache_reap`, `cache_destroy` | buddy, copy-on-write, unified allocator |
| SLOB (`runtime/slob.cc`) | pages, one list of free blocks each | `alloc` (best fit, split), `free` (merge) | buddy |
| SLUB (`runtime/slub.cc`) | caches with partial and full pages, an array and a list of objects per CPU | `alloc`, `free`, create, use and destroy a cache | buddy |
| Stack allocator (`runtime/stack.cc`) | frames with a top, stack of checkpoints | `alloc`, `reset`, `grow`, `shrink_to_fit`, make, restore and destroy a checkpoint | `kmalloc` |
| Unified allocator (`runtime/unified_alloc.cc`, `arch/x86/alloc.cc`) | mode, policy mask, debug table | `kmalloc`, `kfree`, `krealloc`, pages, switch of mode and policy | all the allocators |
| Virtual memory (`arch/x86/vmm.cc`) | frame bitmap, directories, page tables | `map_page`, `unmap_page`, page faults, create and destroy a directory | fork, copy-on-write, swap |
| Copy-on-write (`arch/x86/cow.cc`) | list of shared frames with reference counts | fork of a range, write fault | vmm, slab |
| Swap, page replacement (`swap.cc`, `page_replacement.cc`) | devices, bitmaps, LRU list; page list with LRU, FIFO and clock | swap in and out, reclaim, choice of a victim | vmm |
| File tree, descriptors (`core/filesystem.cc`, `file.cc`, `api_posix.cc`) | `parent`/`child`/`next`/`prec` pointers, links, mounts, open-file tables | path lookup, link, open, close, dup2, fork of the table | processes, drivers |
| Block devices, ATA, EXT2 | device table, controller registers | registration, polled sector transfer, read-only parsing | file tree |
| Shell, console, environment, users, sockets, runtime library | command buffer, device files | printing, parsing | |

**What is hard.**  The kernel has one processor and real preemption: the timer
interrupts any thread between two instructions, and only `cli`/`sti` protect
the process list.  `wait` runs with interrupts enabled and deletes processes
while it does.  The keyboard handler and `read_line` share a counter without
any protection at all.  The allocators hide their headers in the memory they
give out and find neighbours by address arithmetic.  Fork shares frames that
several directories later free one by one.  There is no persistence and no
network, so there is no crash recovery and no message loss to model.  The
"hazards" of `PROJECT.json` list the places, line by line, with the properties
that watch them.

**What makes each component correct.**
Scheduler: the ring is always a ring of exactly the live processes; the
registers of a thread are saved for that thread; nobody starves.  Keyboard:
characters come out once and in order, and available input is read.
Allocators: memory is never given out twice, never lost, and refused only when
there is none; lists, headers and counters agree.  Copy-on-write: sharing is
invisible to processes.  File tree: the pointers are a tree, a path keeps its meaning, and
a listing skips nothing.  Disk: writes keep to their range, reads deliver it, and
no late answer spoils a later request.

## 2. Modules

| Module | Models | Extended or checked by |
|---|---|---|
| `RoundRobin` | what the process list promises: a queue and a current process | refined by `Scheduler` |
| `Scheduler` | process list, life cycle, timer interrupt, context switch, boot | `MCScheduler`, `SchedulerProofs` |
| `Keyboard` | interrupt handler, ring buffer, `read_line` | `MCDrivers`, `MCKeyboard`, `DriverProofs` |
| `Buddy` | the buddy allocator on its own headers | `MCAllocators`, `MCBuddy`, `BuddyProofs` |
| `Slab` | the slab allocator over a supply of slabs | `MCAllocators`, `SlabProofs` |
| `PageSupply` | what the other allocators see of the buddy allocator: a supply of blocks | `Slob`, `Slub` |
| `Slob` | the SLOB allocator | `UnifiedAlloc` |
| `Slub` | the SLUB allocator | `UnifiedAlloc` |
| `UnifiedAlloc` | `kmalloc` and `kfree` over `Slob`, `Slub`, slab, stack and buddy | `MCUnifiedAlloc` |
| `StackAlloc` | the stack allocator over `kmalloc` | `MCStackAlloc`, `StackAllocProofs` |
| `CopyOnWrite` | frames, directories, fork, write faults | `MCCopyOnWrite`, `CopyOnWriteProofs` |
| `FileTree` | file tree, lookup, links, mounts, descriptor tables | `MCFileTree`, `FileTreeProofs` |
| `Disk` | byte ranges over sectors, the polled ATA transfer | `MCDrivers`, `DriverProofs` |
| `ProofLemmas` | facts about numbers, sequences, induction and loops | the proof modules |

Definitions keep the names of the source.  Definitions whose comment begins
with *Mutant* are deliberate errors, each a plausible bug of the definition
after it; no specification uses them.  Substituting one must make a named
property fail, which shows that the property depends on that piece of code.

### Scheduler

The state is that of `Architecture` and of the `Process` objects: `plist`,
`firstProc`, `pnext`, `pcurrent`, `idle_process`, `ticks_since_switch`, and per
process `state`, `pparent`, the saved registers `ctx`.  `cpu` is the processor:
whose code it executes and on whose stack.  `pc` and `call` hold where each
thread is in a kernel call and its locals.  `life` follows an object from
construction to deletion.

A step of a thread is the code between two points where a timer interrupt can
be taken; the code between `cli` and `sti` is one step, except in
`destroy_all_zombie`, whose deletions take several.  The handler is
`TimerInterrupt` (save, count the tick, decide) followed by one `schedule` step
per turn of the search loop.  Process states keep their numbers from
`process.h`: `ZOMBIE` and `RUNNING` are both 1, and much of what the model
shows follows from that.  `exit` is undone by the next switch, and `wait` can
only find its own caller, which it deletes while it is running.

`createProc` clears the registers of a new process and nothing sets them before
it is queued: only the idle process gets an entry and a stack.  So the address and
the stack of a forked or executed process are the null pointer, and once the
timer has switched to it the processor executes no thread of the model until the
next switch.  The threads that make calls are therefore that of `kmain` and what
becomes of it after its `Process` is gone.

A thread whose own `Process` has been deleted still has the processor until the
next tick, and is then saved into its successor.  `OrphanCalls` says whether it
goes on to make calls; the run uses `TRUE`, and no theorem depends on it.
`~Process` ends in `~File`, which stores a null pointer through the null parent of
the file.  Page 0 is mapped, so the store succeeds: it hits the gate of an interrupt
vector that is not used.  In `FileTree`, which is about the tree and
not about the processor, the same store ends the behaviour as a `fault`.

### Keyboard

The handler is one step, since interrupts are masked in it.  `read_line` is cut
where the `-O2` build reads or writes shared memory: load and test
`buffer_count`, load the character, store `count - 1` from the register, store
the tail.  A keystroke between that load and that store is overwritten in
`buffer_count`: `lost` counts these.  Nothing bounds them but the number of
keystrokes.

That the decrement uses the register that the test has loaded, and that the test
loads it anew after each `hlt`, is what the build does, not a guarantee of C++ for
a plain `int` that an interrupt handler changes.  The `asm volatile("hlt")` of
`read_line` is a basic `asm` without operands, which GCC takes to clobber memory: GCC 12,
the compiler of the repository's build (`.github/workflows/ci.yml`), reloads
`buffer_count` after each `hlt` with the `-O2` of `config.make`.  There is no such
barrier between the test and the decrement, and it reuses the loaded register there.

The slot that `add_to_buffer` keeps free absorbs one lost increment
(`OneLossAbsorbed`).  A second one, whenever it comes, lets the handler write over
characters that have not been read (run `keyboard_order`).  The character
that is not counted stays in the buffer until another one arrives.  So the guarantee of the
driver is: in order and once, as long as at most one increment has been lost
since boot.

Initial state, steps and specification are called `KeyboardInit`, `KeyboardNext`
and `KeyboardSpec`, and the type invariant `KeyboardTypeOK`, so that one module can
check and prove things about this driver and that of the disk.

### Buddy

One record holds the zone with its lists and the headers; a header exists at
every unit of memory and goes stale when its block is merged away.  `Write` lets
the owner of a block overwrite everything behind the block's own header with
data that looks like the header of a free block, and `FreeAgain` frees a block
twice, so that the properties depend on `find_buddy` and `free` never believing a
stale header.  The loops of `init`, `split_block` and `coalesce_block` are functions
of the number of rounds: `Carve`, `Halve` and `Coalesce` are one round each, a round
after the last changes nothing, and the loop is as many rounds as it can ever
need.

A caller gets the memory behind the header, but `get_order` has not made room for
it: who asks for as many bytes as a block has, as slab does for its slabs, and uses
them all, writes 20 bytes into the header of the next block.  `Overrun` is that
store.  It is a step of `OverrunSpec`, and not of `Spec`, which is about callers
that keep out of the last 20 bytes: with it no header can be believed, and every
property falls in two more steps.  Run `buddy_overrun` shows the first thing that
goes wrong.  So `BuddyIsBlock` is about addresses only: where `find_buddy`
looks, a block begins.

### Slab

Caches differ in how many objects fit into a slab.  The slab size never exceeds
4096, so `size-4096` has one object per slab and `size-8192` none; the run has
a cache of each kind.  Slabs are a pool; the buddy allocator may refuse one at
any time.  Objects can be returned to the cache they came from, as
copy-on-write does, or to `kmem_cache_free`, which looks at a magic number
inside the object (which its owner may have overwritten) and tries only the
first size cache.  Objects it ignores are `lost`.  Names that `Buddy` has too carry
a `Slab` in front (`SlabSpec`, `SlabTypeOK`, `SlabListsOK`), so that one module can check both.

### PageSupply, Slob, Slub and UnifiedAlloc

The heap is one record `heap` that all the allocators share, because they share
the blocks of the buddy allocator: `Slob` and `Slub` are operators from a heap
to a heap, and `UnifiedAlloc` has the actions, one per entry point of the
kernel.  A pointer is a block and an offset, so that a pointer can be given to
an allocator it did not come from; that is what happens in the code, and what
`HeapExclusive` is about.  `live` is a history variable: the pointers that
callers own.

`UnifiedAllocator::free` does not know where a pointer came from.  Without
debug tracking it asks SLOB only: the branches behind it test `!ptr`, which is
false.  In the DESKTOP mode that the kernel boots in, `kfree` therefore gives
nothing back.  With tracking it goes by the table, which names the allocator
that was tried first, also when the buddy allocator stood in for it; which
keeps entries from before tracking was switched off; and which a switch of the
mode drops.  `HeapExclusive` says that memory is then lost but never in two
hands: each allocator ignores what it does not recognise.  The mutant
`FreeEverywhere` shows how little is needed to lose that.

`found` and `intact` say what `free` finds in an object, in memory that belongs
to its owner: the magic number and, for slab objects, the first size cache.
`drain_cpu_cache` of SLUB hands every object to `cache_free`, which puts it back
into the array it came from: `slub_cache_destroy` does not return once any size
cache has an object there.  The model sets `hung` and stops.  A size cache that
`init` could not create sends its requests to the buddy allocator; the run has
memory for the one it has.  Requests of size 0, which return at once, are left out.

Abstracted: contents (and with them that `krealloc` copies only what the debug
table knows the size of), the statistics, the order of a block, the counter that
triggers `defragment`.  `kcalloc` divides by its first argument, which callers
are taken to keep positive.  That a block of the buddy allocator is smaller than
its order by a header, so that SLOB and SLUB pages reach into the next one, is
the hazard at `buddy.cc:54`: modelled in `Buddy` and not here.

### StackAlloc

`frames` is the list from `frame_list` to `current_frame`, always the last;
`checkpoint_stack` has the newest checkpoint last.  `memory` is what `kmalloc`
has given out for both; a piece that was freed can come back as anything.
History variables: `live`, what callers may still use; in each checkpoint
`held`, what they had when it was made; `popped`, the checkpoints that were
restored.  After `restore` or `free_to_checkpoint` callers keep what they held
before the checkpoint, after `reset` what is not in the current frame.

`restore_checkpoint` takes a checkpoint off the stack and does not free it, and
`destroy_checkpoint` then does not find it: `MemoryAccounted` shows that this is
the only memory that is lost.  Every `ScopedStackAllocator` loses one.  A
checkpoint made in an earlier frame frees nothing; the memory is used again only
after `reset`.  Callers are taken not to use a checkpoint after the allocator
has dropped it (in the code that leaves `checkpoint_stack` dangling), not to pass
an alignment that is no power of two to `alloc` itself, and not to ask for sizes
that overflow an address.

### CopyOnWrite

`mm` holds the frame bitmap, the directories and the reference counts, `data`
the contents of frames, and `view` is a history variable: what the process last
wrote to a page, or inherited.  `fork` is `create_page_directory` and
`cow_copy_page_range`; `forkFails` is the same with `kmalloc` failing at some
page, for the page table or for the `cow_page`, and the cleanup that follows.
`handle_cow_fault` is the fault handler; the MMU is external.  The module models
the memory manager as its interface is written.  In this version of the kernel
paging is never switched on and `map_pages` has no caller, so no user page is
mapped yet.

`DeleteProcess` destroys the directory of a process that has one of its own, as
forked ones do.  Those of `execv` and the idle process are made with the directory
that is in use (`info->pd = current_directory`), and `~Process` destroys that too:
in `DeleteSharer` the kernel is lost, since it works on with memory that is free.

Running out of frames ends in `Crash`: `alloc_frame` calls
`check_memory_pressure`, which calls `get_memory_stats`, which calls
`check_memory_pressure`.

### FileTree

`file` is the memory of all `File` objects with their pointers, one record to a
block; `openfp` and `cdir` are the tables and the current directories of the
processes.  A path is the sequence of its components; `Walk` is the loop that
`path` and `path_parent` share, with `scan` (which loads a directory of a
mounted device the first time a lookup passes) inside it.  The device may fail
at the inode of a directory (a later lookup tries again), at the inode of any
entry (which is left out for good) or at a block (which ends the loading).  Names
are as `checkName`, which replaces some characters, leaves them: two entries of a
directory whose names it makes equal are outside `DeviceAssumption`.  Memory is reused: a block that
a mount freed may become another file while old pointers still lead to it.

Where the code follows a null or a freed pointer the model sets `fault` and
stops: `open` of a path that does not exist, two slashes in a row, `..` above
the root, a mount on the root, a fork that fails (the destructor of a file
without a parent), a link attached under a path that leads through a plain
file, a scan that finds no memory for an entry (`new` is not checked), and any use of
what a mount deleted.  The name of a new link is read from
freed or unwritten memory and therefore arbitrary.  `pending` is a history
variable: what `getdents` still owes the caller.  Reads and writes add what they
return to the offset, errors too.  A directory returns -1, so that a read of one at the start
wraps its offset to the largest number and nothing more can be listed through
that descriptor; `EntriesAhead` names this as the one way to miss an entry.

Calls are one step each.  The gate for system calls leaves interrupts enabled,
so that two calls could overlap; but the vector holds the address 0, and the
only caller today is the shell.

### Disk

`req` is the one request in progress, `piece` the sector it has come to and
`xfer` the transfer of that sector; `temp` is `temp_block`.  The two copies of
the loops in `BlockDevice::read` and `write` (with `temp_block` on the stack or
on the heap) are the same on sectors of 512 bytes.  `pc` says which poll loop
the driver is in; a loop may give up at any time, while `drive` (external) is
still busy.  The drive is taken to show busy as soon as it has a command, since
the driver does not wait before it polls, and to ignore commands while busy.
`allowed` is a history variable: the value of the last successful write to a
byte, and those of the writes that began after it and failed.

## 3. Runs

| Run | Instance | Result |
|---|---|---|
| `scheduler` | 4 processes | 12,447 states; `RingOK`, `RunningIsCurrent`, `NoForeignContext`, `EveryoneRuns`, and the refinement `RoundRobinSpec` hold |
| `drivers` | keyboard: 3 slots, lines of 4, 5 keystrokes; disk: 2 sectors of 2 bytes, 5 ranges | 1,176,926 states; `CountAccounts`, `OneLossAbsorbed`, `AvailableIsRead`, `Durable`, `ReadOK`, `RequestEnds` hold |
| `allocators` | buddy: 6 units, orders 0 to 2; slab: 3 caches, 3 slabs | 311,998 states; `ListsOK`, `Tiling`, `BuddyIsBlock`, `NoFalseFailure`, `SlabListsOK`, `Classified`, `Conserved`, `GrowsOnlyWhenFull` hold |
| `copy_on_write` | 2 directories, 2 pages, 8 frames | 352,627 states; `ForkSnapshot`, `FaultKeepsContent` hold |
| `file_tree` | 3 files beside the tree of the boot, 2 processes, 1 descriptor each, 1 mount | 14,536 states; `TreeOK`, `LinksResolve`, `EntriesAhead`, `LoadedOnce`, `PathStable` hold |
| `kernel_heap` | 7 blocks, pages of 2 SLUB objects or 6 SLOB units, 3 pointers, 1 lost | 81,896 states; `HeapExclusive`, `SlobSound`, `SlubSound` hold |
| `stack_allocator` | 5 pieces, up to 3 frames, 3 allocations and checkpoints | 140,538 states; `Exclusive`, `MemoryAccounted`, `CapacitySound`, `GrowthServes` hold |
| `own_thread` | as `scheduler` | **violated**: a forked process is switched to at address 0 and on the stack of another |
| `interrupts_need_idt` | as `scheduler` | **violated**: `addProcess` executes `sti` before the interrupt table exists |
| `keyboard_order` | 3 slots, lines of 4, 6 keystrokes | **violated**: after two lost increments the reader gets a new character in place of an old one |
| `buddy_overrun` | 6 units, orders 0 to 2 | **violated**: a caller that uses all it asked for falsifies the header of the next block |
| `fork_isolation` | 3 directories, 1 page, 8 frames | **violated**: a process sees a store of another one made after the fork |

Every passing run but `kernel_heap` and `stack_allocator` also checks its
module's type invariant; in those two the shape of the state is part of the properties.

Two runs have two components each.  These share no state and call neither each
other nor anything in common, so the order of their steps does not matter: `MCDrivers`
and `MCAllocators` choose in the initial state which of the two takes steps, and
the other stays in its initial state.  The liveness properties of `drivers` are
those of the component that was chosen.

**The five disagreements.**  (1) The README of kmOS lists context switching as
implemented.  `createProc` leaves the entry of every new process at 0, and
`load_process_context` writes the next stack pointer into slots of
the frame that `popad` and a same-privilege `iret` do not load: the second tick
after a fork puts the processor at address 0, still on the stack of `kmain`.  (2) `kmain`
announces that it enables interrupts after `init_idt`, but `addProcess` has
enabled them long before.  (3) The README lists interrupt handling.  Two
keystrokes that fall into the window of `buffer_count--` break the order of the
input: the ring holds three characters while the count says one, the handler stores a
fourth over the oldest, and the reader gets it first.  (4) `free` of the buddy allocator
reports an invalid block or a double free; after the neighbour has used all of
its memory it would report that of a block that is in use and freed once.
(5) The README lists copy-on-write fork.  When a process writes to a shared
page, `break_cow` removes its mapping with `unmap_page`, which marks the shared frame
as free while the child still maps it.  The next page of any process gets the
frame, and the child reads what is stored there.  The constraint `TwoSharers` of
the run keeps to frames with at most two sharers, so that this is the only cause.
(Without it a second cause shows: a second fork finds the pages read-only already
and counts no new reference, `cow.cc:121`.)

**Why the bounds are enough.**
*Scheduler*: `kernel_main`, idle and two more give rings of length 0 to 4, with
processes of both `fork` and `execv`, and a thread of `kmain` that outlives its
`Process` and exits and waits in the name of its successors until the ring is empty.
As no forked process runs, what `wait` takes off the list is always its head; removal
from the middle and the tail is covered by the proofs.  `MaxAttempts` (100 in the code) is
above the ring's length, as it is in the code for up to 99 processes.
*Keyboard*: three slots fill and wrap, five keystrokes go once around, and up to
three increments are lost; all modifier, editing and printing paths occur but
caps lock, which acts as shift does.
*Buddy*: six units are not a power of two, so the zone starts with a block of
order 2 and one of order 1 whose buddy lies outside; order 2 splits and merges
through two levels.
*Slab*: three slabs are the fewest with a removal from the middle; three
objects give slabs that are neither full, nor empty, nor about to be.
*CopyOnWrite*: two pages in tables of their own let a fork fail after the first;
eight frames suffice for a full fork and are few enough to run out.
`MaxRefs = 2` makes the limit of the reference count occur.  The run uses
`SYMMETRY` on page contents, which are only copied and compared, and a `VIEW`
that drops the history variable, which neither property nor action reads.

*FileTree*: three files are a mount and two entries of its directory, or a list
with a middle.  Of the directories that `init` makes only `/`, `dev` and `mnt`
are kept, since no path of the run leads to the others.  The constraint `Few`
keeps apart what does not interact: one link at a time, a second process
or an offset above 2 while there is at most one new file, no current directory
beside an open file or three new ones.  `MaxOffset = 1` lets a transfer begin at
the start, where it wraps, and after one entry, where it does not.  Offsets are
counted modulo 256 instead of 2^32, enough for the largest error code.  The `VIEW`
makes all faults one state.

*Disk*: with two bytes to a sector a range starts inside one, ends inside one,
fills one, or leaves the drive; `<<1, 3>>` is a partial and then a full sector.
Requests are not bounded.

*Kernel heap*: seven blocks are the first SLOB page, the SLUB cache, the first
stack frame and four more, so that memory runs out in the middle of every
operation that needs two.  A SLOB page of six units holds two or three blocks
with a rest that is too small to split.  Two SLUB pages of two objects fill the
array of the CPU (two) and its list.  Sizes 1 and 3 are on the two sides of
`SmallLimit` and of the largest SLUB object.  The constraint `Bounded` limits
how many allocators are used together: two, or three with the debug table, and a
second SLUB page only without the others.  One pointer may be lost to a free
that went nowhere.

*Stack allocator*: frames of 1, 2 and 4 bytes that start at an odd address;
requests of one byte with alignment 1 or, for 3, which is no power of two, 2.
Five pieces of memory are three frames and two checkpoints.  `Bounded` limits
allocations and checkpoints together to three.  `SYMMETRY` is on the pieces,
which are only compared.

`CHECK_DEADLOCK FALSE` appears only in the copy-on-write, file-tree and
kernel-heap runs, where a lost kernel, or a call that does not return, stops.

**Fairness.**  *Scheduler*: `SF(TimerInterrupt)`, because the interrupt
controller keeps a tick pending while interrupts are disabled and delivers it
when they are enabled again; `WF(schedule)` and `WF` of each thread's kernel
steps, because a handler or a call once begun runs on when it has the processor.
No fairness is assumed for making system calls.  *Keyboard*: `WF` of the reader
(its thread is scheduled) and of the timer that ends `hlt`; none for
keystrokes.  *Disk*: `WF` of the driver, whose loops are bounded; none for the
drive.

## 4. Proofs

`tlapm` checks every step of the seven proof modules and of `ProofLemmas`.

| Module | Theorem | Statement |
|---|---|---|
| `SchedulerProofs` | `SchedulerTypeCorrect` | `Spec => []TypeOK` |
| | `SchedulerRunningIsCurrent` | `Spec => []RunningIsCurrent` |
| | `SchedulerRing` | `Spec => []RingOK` |
| | `SchedulerNoForeignContext` | `Spec => []NoForeignContext` |
| | `SchedulerRefinesRoundRobin` | `Spec => RoundRobinSpec` |
| `DriverProofs` | `KeyboardTypeCorrect` | `KeyboardSpec => []KeyboardTypeOK` |
| | `KeyboardCountAccounts` | `KeyboardSpec => []CountAccounts` |
| | `KeyboardOneLossAbsorbed` | `KeyboardSpec => []OneLossAbsorbed` |
| | `DiskTypeCorrect`, `DiskDurable`, `DiskReads` | `Spec => []TypeOK`, `[]Durable`, `[]ReadOK` |
| `CopyOnWriteProofs` | `CowTypeCorrect` | `Spec => []TypeOK` |
| | `FaultsKeepContent`, `ForksSnapshot` | `Spec => FaultKeepsContent`, `Spec => ForkSnapshot` (action properties) |
| `StackAllocProofs` | `StackExclusive`, `StackMemoryAccounted` | `Spec => []Exclusive`, `[]MemoryAccounted` |
| | `StackCapacity`, `StackGrowthServes` | `Spec => []CapacitySound`, `[]GrowthServes` |
| `SlabProofs` | `SlabLists`, `SlabClassified`, `SlabConserved` | `SlabSpec => []SlabListsOK`, `[]Classified`, `[]Conserved` |
| | `SlabTypeCorrect` | `SlabSpec => []SlabTypeOK` |
| | `SlabGrowsOnlyWhenFull` | `SlabSpec => GrowsOnlyWhenFull` (action property) |
| `BuddyProofs` | `BuddyTypeCorrect`, `BuddyLists` | `Spec => []TypeOK`, `[]ListsOK` |
| | `BuddyTiling`, `BuddyStartsAreBlocks` | `Spec => []Tiling`, `[]BuddyIsBlock` |
| | `BuddyFailuresHonest` | `Spec => []NoFalseFailure` |
| `FileTreeProofs` | `FileTypeCorrect`, `FileTreeShape` | `Spec => []TypeOK`, `[]TreeOK` |
| | `FileLinks`, `FileEntriesAhead` | `Spec => []LinksResolve`, `[]EntriesAhead` |
| | `FileLoadedOnce` | `Spec => []LoadedOnce` |

They hold for every value of the constants that satisfies the named assumption
of the module, and assume nothing else: `SchedulerAssumption` (finitely many
processes, the null pointer is none of them), `KeyboardAssumption` (the buffer
has two slots or more), `DiskAssumption` (sectors and drive are not empty, a
request is no longer than what is to be written), `CopyOnWriteAssumption` and
`StackAssumption` (limits are positive numbers), `SlabAssumption` (finitely many
slabs and caches; a cache may have no room for an object in a slab),
`BuddyAssumption` (the zone has a unit, the null pointer is no address; neither
size nor alignment of the zone is restricted).  `FileTree` has three:
`LayoutAssumption` (the directories of `init` are a tree and `/` and `dev` are among
them), `DeviceAssumption` (the device has a root directory, its entries lead to
inodes it has, and no directory has two entries of one name, as EXT2 demands;
what the directories contain, also each other, is free) and `FileTreeAssumption`
(finitely many files, no relative path begins with a slash, reads and writes begin
below the largest offset).

**How the proofs go.**  Each has an inductive invariant, one lemma for each action
or helper, and a temporal step at the end.  TLC checked what an invariant adds to
the properties on the instance of the component's run before it was proved.

*Scheduler.*  `TypeOK` is not inductive: actions follow pointers, and the result
has its type only if the pointer is not null.  `ControlInv` says where pointers
cannot be null (the handler searches only with a current process; a thread
about to add a child has one; a scan has a cursor).  `SchedInv` is `TypeOK`,
`ControlInv` and `RunningIsCurrent`.

*The ring.*  `RingOK` speaks of the processes that the walk along `pnext` meets,
so the invariant names them instead: `RingInv` says that some sequence `q` lists
the queued processes without repetition, each pointing to the next and the last,
`firstProc`, to the first.  `RingWalk` shows once, by induction on the length
of the walk, that the walk is `q`.  Linking and unlinking are then operations on
`q`.  Which process may be linked, and that nobody else is linking it, comes
from `ThreadInv`: `AddInv` (a child that `fork` is about to add is private to that
thread), `ScanInv` (the scan of `destroy_all_zombie` runs with interrupts off),
`ChainInv` (what waits to be deleted is off the list, and on one thread's chain
only), `BootInv`, `ReadyInv`, `IsrInv` and `CpuInv` (who executes, and whose context is
saved where).  The refinement needs more than the invariant: every action
satisfies `QueueStep(q)`, that is, `q` stays, grows at its tail, loses one
element, or hands over to the successor; and each of these is a step of
`RoundRobin` on the queue that begins at `pcurrent`.

*Keyboard.*  `ReaderInv` relates the register of the reader to the count: between
load and store the handler only increases `buffer_count`, so the register lies
in `1 .. buffer_count` and neither goes below zero.  `KeyboardInv` adds `KeyboardTypeOK` and
`CountAccounts`.  `OneLossAbsorbed` is inductive relative to `KeyboardInv`, since `lost`
never decreases: `RingAppend` and `RingTake` say what storing at the head and taking
at the tail do to the window of slots between them.  The room for the head is
where `lost <= 1` is needed.

*Disk.*  `DiskInv` adds to the three properties what is true in the middle of a
transfer.  `ControlInv`: the drive works on the sector of the current piece.
`ReadInv`: the bytes read so far, and the sector in the drive's buffer, are those
of the disk.  `StoreInv`: whatever the drive may still store, also for a request
that the driver has given up, is allowed where it would go.  `WriteInv`: the
sectors before the current one are written, and `temp_block` still has the
neighbours of a partial sector.  The arithmetic that cuts a range into sectors
is in lemmas of its own, for sectors of any size.

*Copy-on-write.*  `MemoryInv` is `TypeOK` and `Mapped`: a page that is present has a
frame and a page table.  `fork` goes through the pages with a recursive function;
`ForkSnapshot` is proved from what the function has done after `k` pages, by
induction on `k`: the parent's pages so far are shared and cannot be written, the
later ones are untouched.  `FaultKeepsContent` follows from the cases of the
handler.  `Isolation` is false of the code (section 3), and neither theorem
needs it.

*Stack allocator.*  `Exclusive` is not inductive: whether two allocations overlap
depends on where the frame's pointer goes back to when a checkpoint is restored.
`StackInv` adds that frames and checkpoints have different pieces of memory
(`Apart`, `Owners`), that what is allocated lies inside its frame and below its
pointer (`Inside`, `Disjoint`), and that what a checkpoint holds in its own frame
lies below the position it has saved (`HeldBelow`).  `CapacitySound` is proved
with it from lemmas on the recursive sum of the sizes of frames.

*Slab allocator.*  The properties speak of the slabs that a walk from the head of
a list meets.  `SlabInv` says instead that there are functions `own`, `on` and
`pos` from slabs to caches, lists and numbers such that the pointers respect
them: `next` stays in the list and increases `pos`, `prev` goes back, and only
the head has no predecessor.  `ChainIsList` shows that with such functions the
walk meets exactly the slabs of the list, and that it ends: a slab that it missed
would have a predecessor that it missed, with a smaller `pos`.  The invariant is
stated of a state given by its parts, so that it can be followed through the
pieces of an operation: `MoveGood` (`move_slab`), `CreateGood` (`slab_create`),
`TakeGood` and `PutGood` (an object leaves or comes back), `DestroyGood`, `ReapGood`.
`Listing`, which list is right for how many free objects, is broken between the
pieces and restored at the end of each operation.

*Buddy allocator.*  None of the five invariants is inductive, and they need each
other: a merge is right only if the header found by `find_buddy` is true, headers
are true only where blocks tile the memory, and the tiling survives a merge only
if the buddy was free and could be taken out of its list.  `BuddyInv` says that
there are two sets of addresses, the free blocks `Fr` and those of callers `Hs`,
with all of this at once (`Sound`): `Listed`, the lists are doubly linked and
hold `Fr`, with a function `pos` that witnesses that they end; `Tiled`, the blocks
are aligned to their size and tile the zone; `Marked`, the headers of blocks are true
and `allocated` is set at the blocks of callers and nowhere else, also not in the
stale headers; `Apart`, no two free buddies could be merged.  Inside a call one
block is on no list and with no caller: `Sound` has it as a third set `X`, and every helper has a
lemma that moves blocks between the three sets (`AddSound`, `TakeSound`, `HalveSound`,
`MergeSound`, `GiveSound`, `ReturnSound`, `WriteSound`).  The arithmetic is in two
places: `BuddyPairs` and `PairInside` (a block and its buddy are the halves of an
aligned block of the next order, and a larger block that has a unit of them has
all of both), and `BuddyStarts`, the reason why `find_buddy`
is safe: in an aligned tiling the buddy of a block, if it lies in the zone, is the
start of a block.  `NoFalseFailure` follows by descent (`NoFreeRun`): of the free blocks in an aligned
run of free units take one of least order; its buddy lies in the run too, so it
is free and of the same order, and the two would have been merged.

*File tree.*  `FileInv` is `TypeOK`, `Good(file)`, `LinksOK` while nothing is
mounted, and `PendingOK`.  `Good` begins with `IsTree`: there are two functions `pos`
and `level` such that `next` leads to a sibling with a greater `pos` and `prec` back,
only the first child has no `prec`, and a parent has a smaller `level` than its
children.  From that `KidsAll` and `KidsHave` show that the walk along `next` ends and
meets each child once, `AllUnderRoot` that every file is under the root.  Two
changes are ever made to the tree, and each has its lemmas: a new file becomes
the first child (`PlantTree`, `PlantKids`), and a mount cuts a subtree out and
plants a directory in its place (`CutTree`, `CutKids`, `MountIs`).  The rest of `Good` is
what makes loading safe: `LoadedBefore` (a directory with files of the device in it
has been loaded), `OneOfName`, and `DirsIn` (a directory of `init` lies only in such
directories).  The last is for a mount inside a device: the directory that is
mounted on must then be an entry of the device, so that the one around it was
loaded before, and the new directory takes over a name that was its own.  A lookup only adds files of the device (`Reads`), by induction over the
components (`WalkIs`) and over the entries of each directory (`LoadIs`).  `LinksOK` adds to
`LinksResolve` that no parent, no current directory and no directory of `init` is a
link: otherwise `..` or a relative path could end at a link, and a link to it
would be a chain.  `PendingOK` is `EntriesAhead` with the index of a file among its
siblings in place of the listing: a plant increases the index of the siblings by
one (`PlantGrows`), and a cut and a plant together lower none (`Keeps`), which is why
`getdents` never lets the offset of an open directory overtake an entry.  A transfer
lowers the offset by one (`PreviousOffset`) or, from 0, makes it the exception.

*Loops.*  Where a loop is a function of the number of rounds, `LoopDefined` of
`ProofLemmas` shows once that the recursion has a solution, `LoopStays` that what a
round preserves holds after any number of them, and `LoopEnds` that a measure
which every round lowers reaches zero.  The measures are the rest of the zone
for `init`, the distance to the wanted order for `split_block`, and that to
`MaxOrder` for `coalesce_block`.  `CountedDefined` does the same for a loop whose round
depends on its number, as over the components of a path or the entries of a
directory.

*Induction.*  The induction theorems of the library take an operator as
parameter, which the provers cannot instantiate.  `ProofLemmas` derives induction
for a set of numbers from the well-foundedness of `<`, and all inductions use
that, on a set that is written out.

**Only model-checked.**  Liveness (`EveryoneRuns`, `AvailableIsRead`,
`RequestEnds`): the prover has no rule for fairness.  `PathStable` of `FileTree`, which
compares a whole lookup before and after a step.  `UnifiedAlloc` with `Slob` and `Slub`
(`HeapExclusive`, `SlobSound`, `SlubSound`): they merge, refill and populate with the folds of
the community modules, whose operator parameter the provers cannot instantiate,
and `SlobSound` and `SlubSound` speak of sums over sets besides.

## 5. Not modelled, and the plan

Left to model, in this order:

1. The block arithmetic of EXT2 files, over `Disk`.
2. `SlabOverBuddy`, the composition in which it is the slabs that overrun.

Not modelled because nothing reaches it: swapping (`swap_file_write_page` always
fails, `swapon`, `swapoff` and `init_swap_manager` have no caller, and
`alloc_frame` recurses without end before it would reclaim a page) and
`PageReplacementManager` (`add_page` has no caller, so its lists stay empty).  Of
`SwapManager` only the LRU list that a page fault updates is alive, and nothing
reads it.  `StaticStackAllocator` and the statistics of the allocators have no
users either.

Next proofs, with the folds written as recursive functions as in `Buddy`:
`SlobSound`, whose pages are tiled like the zone of `Buddy`; `SlubSound`, whose lists
are simpler than those of `Slab`.

Left out for good: console and serial output, shell commands that only print,
string and number helpers, `sbrk`, `ioctl` and `mmap`, and code without callers
(`destroy_process`, `cow_free_page_range`, the `cow_mapping` list, `vm_area`,
`pivot_root`).
