------------------------------- MODULE Scheduler -------------------------------
(***************************************************************************)
(* Process list, process life cycle and preemption of kmOS                 *)
(* (arch/x86/architecture.cc, core/process.cc, core/main.cc).              *)
(*                                                                         *)
(* One processor executes one thread at a time: cpu.eip names the process  *)
(* whose code it is.  A thread in the kernel is preempted between any two  *)
(* of its steps while interrupts are enabled; the code between cli and sti *)
(* is one step, or several steps during which intr is FALSE.  The list is  *)
(* the code's ring of pnext pointers with its head plist and tail          *)
(* firstProc.  Process states keep the numbers of process.h, in which      *)
(* ZOMBIE and RUNNING are the same number.                                 *)
(*                                                                         *)
(* fork and execv leave the saved registers of a new process zero, so that *)
(* a switch to it resumes at address 0: cpu.eip is then NULL.  What the    *)
(* processor makes of the bytes there (the interrupt table, IDTBASE is 0)  *)
(* is not kernel code and not modelled: it is taken to change nothing here *)
(* and to go on until the timer takes the processor back.                  *)
(***************************************************************************)
EXTENDS Integers, Sequences, FiniteSets

CONSTANTS Procs,        \* the Process objects; an object is never reused
          KernelMain,   \* the one that runs kmain and then the shell
          Idle,         \* the one made by ensure_idle_process
          NULL,         \* the null pointer
          MaxAttempts,  \* max_attempts of Process::schedule (100 in the code)
          PitHz,        \* frequency given to configure_scheduler (100 in the code)
          OrphanCalls   \* whether a thread still makes calls after wait has freed
                        \* its process and the page directory it runs on

ASSUME SchedulerAssumption ==
  /\ KernelMain \in Procs /\ Idle \in Procs /\ KernelMain # Idle
  /\ IsFiniteSet(Procs) /\ NULL \notin Procs
  /\ MaxAttempts \in Nat \ {0}
  /\ PitHz \in Nat
  /\ OrphanCalls \in BOOLEAN

\* process.h and api/dev/proc.h
CHILD    == 0
ZOMBIE   == 1
RUNNING  == 1
SLEEPING == 2
READY    == 4

\* configure_scheduler: a quantum of 20 ms, at least one tick.
TicksPerQuantum ==
  LET hz == IF PitHz = 0 THEN 100 ELSE PitHz
      t  == (hz * 20) \div 1000
  IN  IF t = 0 THEN 1 ELSE t

VARIABLES
  plist, firstProc,    \* head and tail of the ring of processes
  pcurrent,            \* the process the kernel believes to be running
  idle_process,
  ticks_since_switch,
  pnext, state, pparent,  \* fields of each Process
  ctx,                 \* info.regs: what is saved for each process
  life,                \* unborn, private, queued, pending (deletion), freed
  intr,                \* the interrupt flag
  idt,                 \* lidt has been executed
  cpu,                 \* whose code runs, and on whose stack
  isr,                 \* the timer interrupt handler: off, or searching
  pc, call             \* of each thread: where it is, and its local variables

ringVars == <<plist, firstProc, pnext>>
vars == <<plist, firstProc, pcurrent, idle_process, ticks_since_switch, pnext,
          state, pparent, ctx, life, intr, idt, cpu, isr, pc, call>>

Ptr == Procs \cup {NULL}
Context == [eip : Ptr, esp : Ptr]
Labels == {"boot_add", "ensure_idle", "boot_irq", "run", "fork_add", "exec_add",
           "sig_parent", "wait_spin", "reap", "del", "sysret"}
Lives == {"unborn", "private", "queued", "pending", "freed"}

TypeOK ==
  /\ plist \in Ptr /\ firstProc \in Ptr /\ pcurrent \in Ptr /\ idle_process \in Ptr
  /\ ticks_since_switch \in 0 .. TicksPerQuantum - 1
  /\ pnext \in [Procs -> Ptr]
  /\ state \in [Procs -> {CHILD, RUNNING, SLEEPING, READY}]
  /\ pparent \in [Procs -> Ptr]
  /\ ctx \in [Procs -> Context]
  /\ life \in [Procs -> Lives]
  /\ intr \in BOOLEAN /\ idt \in BOOLEAN
  /\ cpu \in Context
  /\ isr \in [on : BOOLEAN, n : Ptr, attempts : Nat]
  /\ pc \in [Procs -> Labels]
  /\ call \in [Procs -> [this : Ptr, child : Ptr, cursor : Ptr, pending : Ptr]]

IsrOff == [on |-> FALSE, n |-> NULL, attempts |-> 0]
NoCall == [this |-> NULL, child |-> NULL, cursor |-> NULL, pending |-> NULL]

\* After arch.init() and the constructor of kernel_main: kmain calls addProcess.
Init ==
  /\ plist = NULL /\ firstProc = NULL /\ pcurrent = NULL /\ idle_process = NULL
  /\ ticks_since_switch = 0
  /\ pnext = [p \in Procs |-> NULL]
  /\ state = [p \in Procs |-> SLEEPING]
  /\ pparent = [p \in Procs |-> NULL]
  /\ ctx = [p \in Procs |-> [eip |-> NULL, esp |-> NULL]]
  /\ life = [p \in Procs |-> IF p = KernelMain THEN "private" ELSE "unborn"]
  /\ intr = FALSE /\ idt = FALSE
  /\ cpu = [eip |-> KernelMain, esp |-> KernelMain]
  /\ isr = IsrOff
  /\ pc = [p \in Procs |-> IF p = KernelMain THEN "boot_add" ELSE "run"]
  /\ call = [p \in Procs |-> NoCall]

-------------------------------------------------------------------------------
(* The ring. *)

\* The process reached from plist after k pnext pointers.
Walk[k \in Nat] == IF k = 0 THEN plist
                   ELSE IF Walk[k - 1] = NULL THEN NULL ELSE pnext[Walk[k - 1]]

RingSet == {p \in Procs : \E k \in 0 .. Cardinality(Procs) : Walk[k] = p}

find_previous(p) ==
  IF \E q \in RingSet : pnext[q] = p THEN CHOOSE q \in RingSet : pnext[q] = p ELSE NULL

\* Mutant: p is linked behind the current process instead of behind the tail.
EnqueueBehindCurrent(p, make_current) ==
  /\ plist' = IF plist = NULL THEN p ELSE plist
  /\ firstProc' = IF plist = NULL \/ pcurrent = firstProc THEN p ELSE firstProc
  /\ pnext' = IF plist = NULL THEN [pnext EXCEPT ![p] = p]
              ELSE [pnext EXCEPT ![p] = pnext[pcurrent], ![pcurrent] = p]
  /\ state' = [state EXCEPT ![p] = IF pcurrent = NULL THEN RUNNING ELSE READY]
  /\ pcurrent' = IF pcurrent = NULL THEN p ELSE pcurrent
  /\ ticks_since_switch' = IF pcurrent = NULL THEN 0 ELSE ticks_since_switch

\* Link p behind the tail and decide whether it becomes current.
enqueue_process(p, make_current) ==
  /\ plist' = IF plist = NULL THEN p ELSE plist
  /\ firstProc' = p
  /\ pnext' = IF plist = NULL THEN [pnext EXCEPT ![p] = p]
              ELSE [pnext EXCEPT ![p] = plist, ![firstProc] = p]
  /\ IF make_current \/ pcurrent = NULL
     THEN /\ state' = [q \in Procs |->
                         IF q = p THEN RUNNING
                         ELSE IF q = pcurrent /\ state[q] = RUNNING THEN READY
                         ELSE state[q]]
          /\ pcurrent' = p
          /\ ticks_since_switch' = 0
     ELSE /\ state' = [state EXCEPT ![p] = READY]
          /\ UNCHANGED <<pcurrent, ticks_since_switch>>

\* Mutant: the head pointer is left alone when the first process is unlinked.
RemoveKeepHead(p, chain) ==
  LET next == pnext[p]
      prev == find_previous(p)
  IN  /\ plist' = IF next = p THEN NULL ELSE plist
      /\ firstProc' = IF next = p THEN NULL ELSE IF firstProc = p THEN prev ELSE firstProc
      /\ pcurrent' = IF pcurrent = p THEN (IF next = p THEN NULL ELSE next) ELSE pcurrent
      /\ pnext' = IF prev = NULL THEN [pnext EXCEPT ![p] = chain]
                  ELSE [pnext EXCEPT ![prev] = next, ![p] = chain]

\* Unlink p; its pnext field is then reused as the link of the pending chain.
remove_process(p, chain) ==
  LET next == pnext[p]
      prev == find_previous(p)
  IN  IF p = plist /\ next = p
      THEN /\ plist' = NULL /\ firstProc' = NULL
           /\ pcurrent' = IF pcurrent = p THEN NULL ELSE pcurrent
           /\ pnext' = [pnext EXCEPT ![p] = chain]
      ELSE IF prev = NULL
      THEN /\ pnext' = [pnext EXCEPT ![p] = chain]
           /\ UNCHANGED <<plist, firstProc, pcurrent>>
      ELSE /\ plist' = IF plist = p THEN next ELSE plist
           /\ firstProc' = IF firstProc = p THEN prev ELSE firstProc
           /\ pcurrent' = IF pcurrent = p THEN next ELSE pcurrent
           /\ pnext' = [pnext EXCEPT ![prev] = next, ![p] = chain]

-------------------------------------------------------------------------------
(* Boot and process creation. *)

At(t, label) == ~isr.on /\ cpu.eip = t /\ pc[t] = label
Goto(t, label) == pc' = [pc EXCEPT ![t] = label]
Return(t) == call' = [call EXCEPT ![t] = NoCall]

\* The cli ... sti part of addProcess, and its test of idle_process.
addProcess(t, p, after) ==
  /\ enqueue_process(p, plist = NULL)
  /\ life' = [life EXCEPT ![p] = "queued"]
  /\ intr' = TRUE
  /\ Goto(t, IF idle_process = NULL THEN "ensure_idle" ELSE after)

\* kmain adds kernel_main.
BootAdd(t) ==
  /\ At(t, "boot_add")
  /\ addProcess(t, KernelMain, "boot_irq")
  /\ UNCHANGED <<idle_process, pparent, ctx, idt, cpu, isr, call>>

\* idle_process is set first; without memory for its stack it is never linked.
ensure_idle_process(t) ==
  /\ At(t, "ensure_idle")
  /\ idle_process' = Idle
  /\ Goto(t, "boot_irq")
  /\ \/ /\ enqueue_process(Idle, FALSE)
        /\ life' = [life EXCEPT ![Idle] = "queued"]
        /\ ctx' = [ctx EXCEPT ![Idle] = [eip |-> Idle, esp |-> Idle]]
        /\ intr' = TRUE
     \/ /\ life' = [life EXCEPT ![Idle] = "private"]
        /\ UNCHANGED <<ringVars, pcurrent, state, ticks_since_switch, ctx, intr>>
  /\ UNCHANGED <<pparent, idt, cpu, isr, call>>

\* init_idt, init_pic, pit.init, configure_scheduler and the sti of kmain.
InitInterrupts(t) ==
  /\ At(t, "boot_irq")
  /\ idt' = TRUE /\ intr' = TRUE
  /\ Goto(t, "run")
  /\ UNCHANGED <<ringVars, pcurrent, idle_process, ticks_since_switch, state, pparent,
                 ctx, life, cpu, isr, call>>

\* A system call is made by the running thread on behalf of pcurrent.
Calls(t) ==
  /\ At(t, "run") /\ t # Idle /\ pcurrent # NULL
  /\ life[t] = "freed" => OrphanCalls

\* Constructor of Process: info.signal is not initialised; createProc zeroes
\* the registers, and nobody sets them: there is neither an entry nor a stack.
NewProcess(c, father, st) ==
  /\ life[c] = "unborn" /\ c # Idle
  /\ life' = [life EXCEPT ![c] = "private"]
  /\ pparent' = [pparent EXCEPT ![c] = father]
  /\ state' = [state EXCEPT ![c] = st]
  /\ ctx' = [ctx EXCEPT ![c] = [eip |-> NULL, esp |-> NULL]]

\* Process::fork up to addProcess; the child is not yet reachable.
fork(t, c) ==
  /\ Calls(t)
  /\ NewProcess(c, pcurrent, CHILD)
  /\ call' = [call EXCEPT ![t] = [NoCall EXCEPT !.this = pcurrent, !.child = c]]
  /\ Goto(t, "fork_add")
  /\ UNCHANGED <<ringVars, pcurrent, idle_process, ticks_since_switch, intr, idt, cpu, isr>>

\* Process::fork when the page directory or its copy cannot be made.
forkFails(t, c) ==
  /\ Calls(t)
  /\ life[c] = "unborn" /\ c # Idle
  /\ life' = [life EXCEPT ![c] = "freed"]
  /\ UNCHANGED <<ringVars, pcurrent, idle_process, ticks_since_switch, state, pparent,
                 ctx, intr, idt, cpu, isr, pc, call>>

forkAdd(t) ==
  /\ At(t, "fork_add")
  /\ addProcess(t, call[t].child, "sig_parent")
  /\ UNCHANGED <<idle_process, pparent, ctx, idt, cpu, isr, call>>

\* execv: a new process without a father, then Process::create.
execv(t, c) ==
  /\ Calls(t)
  /\ NewProcess(c, NULL, READY)
  /\ call' = [call EXCEPT ![t] = [NoCall EXCEPT !.this = c, !.child = c]]
  /\ Goto(t, "exec_add")
  /\ UNCHANGED <<ringVars, pcurrent, idle_process, ticks_since_switch, intr, idt, cpu, isr>>

create(t) ==
  /\ At(t, "exec_add")
  /\ addProcess(t, call[t].child, "run")
  /\ Return(t)
  /\ UNCHANGED <<idle_process, pparent, ctx, idt, cpu, isr>>

\* The last step of fork and of exit: SIGCHLD to the father of the caller.  The
\* bit is not modelled, since no step depends on it (see WaitScan).
SignalParent(t) ==
  /\ At(t, "sig_parent")
  /\ Goto(t, "run") /\ Return(t)
  /\ UNCHANGED <<ringVars, pcurrent, idle_process, ticks_since_switch, state, pparent,
                 ctx, life, intr, idt, cpu, isr>>

-------------------------------------------------------------------------------
(* Process::exit and Process::wait. *)

\* exit only marks the process; the caller goes on until it is preempted.
exit(t) ==
  /\ Calls(t)
  /\ state' = [state EXCEPT ![pcurrent] = ZOMBIE]
  /\ call' = [call EXCEPT ![t].this = pcurrent]
  /\ Goto(t, "sig_parent")
  /\ UNCHANGED <<ringVars, pcurrent, idle_process, ticks_since_switch, pparent, ctx, life, intr, idt, cpu, isr>>

wait(t) ==
  /\ Calls(t)
  /\ intr' = TRUE
  /\ call' = [call EXCEPT ![t].this = pcurrent]
  /\ Goto(t, "wait_spin")
  /\ UNCHANGED <<ringVars, pcurrent, idle_process, ticks_since_switch, state, pparent,
                 ctx, life, idt, cpu, isr>>

\* The spin on SIGCHLD ends and destroy_all_zombie starts its scan with cli.  The
\* spin is the only reader of the signal word, which the constructor leaves
\* uninitialised, and the loop has no side effect, so that the -O2 build drops
\* it: the step is possible whatever signals were sent.
WaitScan(t) ==
  /\ At(t, "wait_spin")
  /\ call' = [call EXCEPT ![t].cursor = plist, ![t].pending = NULL]
  /\ intr' = (plist = NULL)
  /\ Goto(t, IF plist = NULL THEN "del" ELSE "reap")
  /\ UNCHANGED <<ringVars, pcurrent, idle_process, ticks_since_switch, state, pparent,
                 ctx, life, idt, cpu, isr>>

\* Which processes the scan of destroy_all_zombie takes off the list.
Reapable(p) == p # idle_process /\ state[p] = ZOMBIE

\* One turn of the loop of destroy_all_zombie; plist' is the head it then tests.
ScanZombie(t) ==
  LET c    == call[t].cursor
      next == pnext[c]
      reap == Reapable(c)
  IN  /\ At(t, "reap")
      /\ IF reap
         THEN /\ remove_process(c, call[t].pending)
              /\ life' = [life EXCEPT ![c] = "pending"]
         ELSE UNCHANGED <<ringVars, pcurrent, life>>
      /\ LET done == plist' = NULL \/ next = NULL \/ next = plist'
         IN  /\ intr' = done
             /\ Goto(t, IF done THEN "del" ELSE "reap")
      /\ call' = [call EXCEPT ![t].cursor = next,
                              ![t].pending = IF reap THEN c ELSE call[t].pending]
      /\ UNCHANGED <<idle_process, ticks_since_switch, state, pparent, ctx, idt,
                     cpu, isr>>

\* delete victim: ~Process hands the children on the list to its own father.  The
\* ~File after it stores a null through the null parent of the file: page 0 is
\* mapped, and address 40 there is the gate of vector 5, which nothing raises.
change_process_father(p, father) ==
  pparent' = [q \in Procs |-> IF q \in RingSet /\ pparent[q] = p THEN father ELSE pparent[q]]

DeleteVictim(t) ==
  LET victim == call[t].pending
  IN  /\ At(t, "del") /\ victim # NULL
      /\ call' = [call EXCEPT ![t].pending = pnext[victim]]
      /\ pnext' = [pnext EXCEPT ![victim] = NULL]
      /\ change_process_father(victim, pparent[victim])
      /\ life' = [life EXCEPT ![victim] = "freed"]
      /\ intr' = TRUE
      /\ UNCHANGED <<plist, firstProc, pcurrent, idle_process, ticks_since_switch, state,
                     ctx, idt, cpu, isr, pc>>

\* wait returns with interrupts disabled.
WaitReturn(t) ==
  /\ At(t, "del") /\ call[t].pending = NULL
  /\ intr' = FALSE
  /\ Goto(t, "sysret")
  /\ UNCHANGED <<ringVars, pcurrent, idle_process, ticks_since_switch, state, pparent,
                 ctx, life, idt, cpu, isr, call>>

\* The iret of the system call restores the interrupt flag of the caller.
SyscallReturn(t) ==
  /\ At(t, "sysret")
  /\ intr' = TRUE
  /\ Goto(t, "run") /\ Return(t)
  /\ UNCHANGED <<ringVars, pcurrent, idle_process, ticks_since_switch, state, pparent,
                 ctx, life, idt, cpu, isr>>

-------------------------------------------------------------------------------
(* The timer interrupt. *)

\* RESTORE_REGS after load_process_context: popad skips the slot of esp, and an
\* iret to the same privilege level does not load a stack pointer either.
RestoreRegs(saved) == [eip |-> saved.eip, esp |-> cpu.esp]

\* Mutant: the registers are saved for the process that is to run next.
SaveForNext(p) == ctx' = [ctx EXCEPT ![IF pnext[p] = NULL THEN p ELSE pnext[p]] = cpu]

save_process_context(p) == ctx' = [ctx EXCEPT ![p] = cpu]

NeedSwitch(ticks) == state[pcurrent] # RUNNING \/ ticks >= TicksPerQuantum

\* Mutant: the counter is not reset when the quantum is over.
NextTicksNoReset(ticks) == ticks

NextTicks(ticks) == IF NeedSwitch(ticks) THEN 0 ELSE ticks

\* Mutant: the search starts behind the tail of the list every time.
SearchFromTail == firstProc

\* The process at which Process::schedule starts to follow pnext.
SearchFrom == pcurrent

\* handle_timer_interrupt up to its call of schedule.
TimerInterrupt ==
  LET ticks == ticks_since_switch + 1
  IN  /\ idt /\ intr /\ ~isr.on /\ pcurrent # NULL
      /\ save_process_context(pcurrent)
      /\ ticks_since_switch' = NextTicks(ticks)
      /\ isr' = IF NeedSwitch(ticks) /\ pnext[pcurrent] # NULL
                THEN [on |-> TRUE, n |-> SearchFrom, attempts |-> 0] ELSE isr
      /\ intr' = ~isr'.on
      /\ UNCHANGED <<ringVars, pcurrent, idle_process, state, pparent, life, idt,
                     cpu, pc, call>>

\* handle_timer_interrupt returns early while no process is current.
TimerIgnored == idt /\ intr /\ ~isr.on /\ pcurrent = NULL /\ UNCHANGED vars

Skipped(p) == state[p] = ZOMBIE \/ state[p] = SLEEPING

\* Mutant: the process that gives up the processor stays RUNNING.
SwitchWithoutDemotion(n) ==
  /\ state' = [state EXCEPT ![n] = RUNNING]
  /\ pcurrent' = n
  /\ cpu' = RestoreRegs(ctx[n])
  /\ isr' = IsrOff
  /\ intr' = TRUE

\* schedule returns n: mark both processes, and resume the context of n.
SwitchTo(n) ==
  /\ state' = IF n = pcurrent THEN state
              ELSE [q \in Procs |-> IF q = n THEN RUNNING
                                    ELSE IF q = pcurrent /\ state[q] = RUNNING THEN READY
                                    ELSE state[q]]
  /\ pcurrent' = n
  /\ cpu' = RestoreRegs(ctx[n])
  /\ isr' = IsrOff
  /\ intr' = TRUE

\* One turn of the loop of Process::schedule.
schedule ==
  LET n == IF pnext[isr.n] # NULL THEN pnext[isr.n] ELSE plist
      attempts == isr.attempts + 1
  IN  /\ isr.on
      /\ \/ /\ attempts > MaxAttempts \/ n = NULL
            /\ SwitchTo(pcurrent)
         \/ /\ attempts <= MaxAttempts /\ n # NULL /\ Skipped(n)
            /\ isr' = [isr EXCEPT !.n = n, !.attempts = attempts]
            /\ UNCHANGED <<state, pcurrent, cpu, intr>>
         \/ /\ attempts <= MaxAttempts /\ n # NULL /\ ~Skipped(n)
            /\ SwitchTo(n)
      /\ UNCHANGED <<ringVars, idle_process, ticks_since_switch, pparent, ctx, life,
                     idt, pc, call>>

-------------------------------------------------------------------------------
ThreadStep(t) ==
  \/ BootAdd(t) \/ ensure_idle_process(t) \/ InitInterrupts(t)
  \/ forkAdd(t) \/ create(t) \/ SignalParent(t)
  \/ WaitScan(t) \/ ScanZombie(t) \/ DeleteVictim(t) \/ WaitReturn(t) \/ SyscallReturn(t)

SystemCall(t) ==
  \/ exit(t) \/ wait(t)
  \/ \E c \in Procs : fork(t, c) \/ forkFails(t, c) \/ execv(t, c)

Next ==
  \/ TimerInterrupt \/ TimerIgnored \/ schedule
  \/ \E t \in Procs : ThreadStep(t) \/ SystemCall(t)

\* Once the interrupt controller has a tick pending it is delivered the next
\* time interrupts are enabled; the handler and a call once begun go on.
Fairness ==
  /\ SF_vars(TimerInterrupt) /\ WF_vars(schedule)
  /\ \A t \in Procs : WF_vars(ThreadStep(t))

Spec == Init /\ [][Next]_vars
FairSpec == Spec /\ Fairness

-------------------------------------------------------------------------------
(* Properties. *)

Dead(t) == t \in Procs /\ life[t] \in {"pending", "freed"}

\* The pointers always form one closed ring that holds exactly the processes
\* that were added and not yet taken off, firstProc is its tail, and pcurrent
\* is on it: enqueue_process, remove_process and the scan of destroy_all_zombie
\* edit four pointers each and may be interrupted before and after.
RingOK ==
  /\ RingSet = {p \in Procs : life[p] = "queued"}
  /\ plist # NULL => /\ firstProc \in RingSet /\ pnext[firstProc] = plist
                     /\ pcurrent \in RingSet
  /\ plist = NULL => firstProc = NULL /\ pcurrent = NULL

\* No process on the list other than pcurrent is in state RUNNING.  As ZOMBIE
\* is the same number, this also says that a process that has called exit is
\* never found by the scan of another process: it is READY again by then.
RunningIsCurrent ==
  \A p \in Procs : life[p] = "queued" /\ state[p] = RUNNING => p = pcurrent

\* No thread ever runs, or is saved, in the name of another process, whatever
\* order timer interrupts and calls come in: the running code is that of pcurrent,
\* and what is saved for a process is its own thread, or the null registers it was
\* made with.  The exception is the thread of a process that wait has destroyed:
\* pcurrent moves on under it, and its registers are saved into the successor.
NoForeignContext ==
  /\ pcurrent # NULL /\ ~Dead(cpu.eip) => cpu.eip \in {pcurrent, NULL}
  /\ \A p \in RingSet \ {pcurrent} : ctx[p].eip \in {p, NULL} \/ Dead(ctx[p].eip)

\* A process on the list gets the processor or leaves the list: handing over at
\* the end of each quantum to pnext starves nobody.
EveryoneRuns ==
  \A p \in Procs : (life[p] = "queued") ~> (pcurrent = p \/ life[p] # "queued")

\* The ring of pointers behaves as the queue of module RoundRobin.
RingSeq == [i \in 1 .. Cardinality(RingSet) |-> Walk[i - 1]]
RR == INSTANCE RoundRobin WITH queue <- RingSeq, current <- pcurrent
RoundRobinSpec == RR!RRSpec

\* README.md says "Context switching: x86 task switching implemented": a process
\* made by fork or execv that is current executes its own code on its own stack.
OnOwnThread ==
  ~isr.on /\ pcurrent \in Procs \ {KernelMain, Idle} /\ ~Dead(cpu.eip) =>
    cpu = [eip |-> pcurrent, esp |-> pcurrent]

\* kmain reports "Enabling interrupts" after init_idt: until the interrupt table
\* is loaded, interrupts are disabled.
InterruptsNeedIdt == intr => idt

===============================================================================
