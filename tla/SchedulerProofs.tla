---------------------------- MODULE SchedulerProofs ----------------------------
(***************************************************************************)
(* Proofs about module Scheduler, for any number of processes, any timer   *)
(* frequency and any order of timer interrupts and calls: types and the    *)
(* states of processes first, then the ring of pointers, the threads and   *)
(* saved contexts, and the refinement of the queue of module RoundRobin.   *)
(***************************************************************************)
EXTENDS Scheduler, ProofLemmas, FiniteSetTheorems

\* The pointers an action follows are not null where it follows them.
ControlInv ==
  /\ isr.on => pcurrent # NULL /\ isr.n # NULL
  /\ \A t \in Procs : pc[t] \in {"fork_add", "exec_add"} => call[t].child # NULL
  /\ \A t \in Procs : pc[t] = "reap" => call[t].cursor # NULL

SchedInv == TypeOK /\ ControlInv /\ RunningIsCurrent

Locals == [this : Ptr, child : Ptr, cursor : Ptr, pending : Ptr]

\* A quantum has at least one tick.
LEMMA QuantumPositive == TicksPerQuantum \in Nat /\ TicksPerQuantum >= 1
BY SchedulerAssumption DEF TicksPerQuantum

\* The boot starts with the invariant.
LEMMA SchedInvInit == Init => SchedInv
<1> SUFFICES ASSUME Init PROVE SchedInv
  OBVIOUS
<1>1. TypeOK
  <2>1. call \in [Procs -> Locals] /\ ctx \in [Procs -> Context] /\ cpu \in Context
    BY SchedulerAssumption DEF Init, Locals, NoCall, Ptr, Context
  <2>2. isr \in [on : BOOLEAN, n : Ptr, attempts : Nat]
    BY DEF Init, IsrOff, Ptr
  <2>3. ticks_since_switch \in 0 .. TicksPerQuantum - 1
    BY QuantumPositive DEF Init
  <2>4. /\ pc \in [Procs -> Labels] /\ life \in [Procs -> Lives]
        /\ state \in [Procs -> {CHILD, RUNNING, SLEEPING, READY}]
    BY DEF Init, Labels, Lives, CHILD, RUNNING, SLEEPING, READY
  <2> QED BY <2>1, <2>2, <2>3, <2>4 DEF Init, TypeOK, Locals, Ptr
<1>2. ControlInv
  BY DEF Init, ControlInv, IsrOff
<1>3. RunningIsCurrent
  BY DEF Init, RunningIsCurrent, SLEEPING, RUNNING
<1> QED BY <1>1, <1>2, <1>3 DEF SchedInv

\* enqueue_process leaves no process but the new current one RUNNING.
LEMMA EnqueueStep ==
  ASSUME TypeOK, RunningIsCurrent, NEW p \in Procs, NEW mk \in BOOLEAN,
         enqueue_process(p, mk), life' = [life EXCEPT ![p] = "queued"]
  PROVE  /\ plist' \in Ptr /\ firstProc' \in Ptr /\ pcurrent' \in Ptr
         /\ pnext' \in [Procs -> Ptr]
         /\ ticks_since_switch' \in 0 .. TicksPerQuantum - 1
         /\ state' \in [Procs -> {CHILD, RUNNING, SLEEPING, READY}]
         /\ life' \in [Procs -> Lives]
         /\ RunningIsCurrent'
<1>1. plist' \in Ptr /\ firstProc' \in Ptr /\ pnext' \in [Procs -> Ptr]
  BY DEF TypeOK, enqueue_process, Ptr
<1>2. life' \in [Procs -> Lives]
  BY DEF TypeOK, Lives
<1>3. CASE mk \/ pcurrent = NULL
  <2>1. /\ state' = [q \in Procs |->
                       IF q = p THEN RUNNING
                       ELSE IF q = pcurrent /\ state[q] = RUNNING THEN READY
                       ELSE state[q]]
        /\ pcurrent' = p /\ ticks_since_switch' = 0
    BY <1>3 DEF enqueue_process
  <2>2. state' \in [Procs -> {CHILD, RUNNING, SLEEPING, READY}]
    BY <2>1 DEF TypeOK
  <2>3. RunningIsCurrent'
    BY <2>1 DEF RunningIsCurrent, TypeOK, RUNNING, READY
  <2> QED BY <1>1, <1>2, <2>1, <2>2, <2>3, QuantumPositive DEF Ptr
<1>4. CASE ~(mk \/ pcurrent = NULL)
  <2>1. state' = [state EXCEPT ![p] = READY] /\ UNCHANGED <<pcurrent, ticks_since_switch>>
    BY <1>4 DEF enqueue_process
  <2>2. state' \in [Procs -> {CHILD, RUNNING, SLEEPING, READY}]
    BY <2>1 DEF TypeOK
  <2>3. RunningIsCurrent'
    BY <2>1 DEF RunningIsCurrent, TypeOK, RUNNING, READY
  <2> QED BY <1>1, <1>2, <2>1, <2>2, <2>3 DEF TypeOK
<1> QED BY <1>3, <1>4

\* remove_process keeps the pointers typed, and the processor changes hands only
\* when the process that is taken off had it.
LEMMA RemoveStep ==
  ASSUME TypeOK, NEW p \in Procs, NEW chain \in Ptr, remove_process(p, chain)
  PROVE  /\ plist' \in Ptr /\ firstProc' \in Ptr /\ pcurrent' \in Ptr
         /\ pnext' \in [Procs -> Ptr]
         /\ pcurrent # p => pcurrent' = pcurrent
<1>1. find_previous(p) \in Ptr
  BY DEF find_previous, RingSet, Ptr
<1>2. pnext[p] \in Ptr
  BY DEF TypeOK
<1> QED BY <1>1, <1>2 DEF remove_process, TypeOK, Ptr

\* The steps that finish the boot, and those of fork, execv and exit.
LEMMA CreateStep ==
  ASSUME SchedInv, NEW t \in Procs,
         \/ BootAdd(t) \/ ensure_idle_process(t) \/ InitInterrupts(t)
         \/ forkAdd(t) \/ create(t) \/ SignalParent(t)
         \/ \E c \in Procs : fork(t, c) \/ forkFails(t, c) \/ execv(t, c)
  PROVE  SchedInv'
<1>0. TypeOK /\ ControlInv /\ RunningIsCurrent
  BY DEF SchedInv
<1>1. ASSUME NEW p \in Procs, NEW after \in {"boot_irq", "sig_parent", "run"},
             addProcess(t, p, after), UNCHANGED <<idle_process, pparent, ctx, idt, cpu, isr>>,
             call' \in [Procs -> Locals], \A q \in Procs \ {t} : call'[q] = call[q], ~isr.on
      PROVE  SchedInv'
  <2>1. /\ plist' \in Ptr /\ firstProc' \in Ptr /\ pcurrent' \in Ptr
        /\ pnext' \in [Procs -> Ptr]
        /\ ticks_since_switch' \in 0 .. TicksPerQuantum - 1
        /\ state' \in [Procs -> {CHILD, RUNNING, SLEEPING, READY}]
        /\ life' \in [Procs -> Lives]
        /\ RunningIsCurrent'
    BY <1>0, <1>1, EnqueueStep DEF addProcess
  <2>2. /\ pc' \in [Procs -> Labels]
        /\ \A q \in Procs \ {t} : pc'[q] = pc[q]
        /\ pc'[t] \notin {"fork_add", "exec_add", "reap"}
    BY <1>0, <1>1 DEF addProcess, Goto, TypeOK, Labels
  <2>3. TypeOK'
    BY <1>0, <1>1, <2>1, <2>2 DEF TypeOK, Locals, addProcess
  <2>4. ControlInv'
    BY <1>0, <1>1, <2>2 DEF ControlInv
  <2> QED BY <2>1, <2>3, <2>4 DEF SchedInv
<1>2. CASE BootAdd(t)
  <2>1. /\ addProcess(t, KernelMain, "boot_irq") /\ ~isr.on
        /\ UNCHANGED <<idle_process, pparent, ctx, idt, cpu, isr, call>>
    BY <1>2 DEF BootAdd, At
  <2>2. call' \in [Procs -> Locals]
    BY <1>0, <2>1 DEF TypeOK, Locals
  <2> QED BY <1>1, <2>1, <2>2, SchedulerAssumption
<1>3. CASE forkAdd(t)
  <2>1. /\ addProcess(t, call[t].child, "sig_parent") /\ ~isr.on /\ pc[t] = "fork_add"
        /\ UNCHANGED <<idle_process, pparent, ctx, idt, cpu, isr, call>>
    BY <1>3 DEF forkAdd, At
  <2>2. call[t].child \in Procs
    BY <1>0, <2>1 DEF TypeOK, ControlInv, Ptr
  <2>3. call' \in [Procs -> Locals]
    BY <1>0, <2>1 DEF TypeOK, Locals
  <2> QED BY <1>1, <2>1, <2>2, <2>3
<1>4. CASE create(t)
  <2>1. /\ addProcess(t, call[t].child, "run") /\ ~isr.on /\ pc[t] = "exec_add"
        /\ UNCHANGED <<idle_process, pparent, ctx, idt, cpu, isr>>
        /\ call' = [call EXCEPT ![t] = NoCall]
    BY <1>4 DEF create, At, Return
  <2>2. call[t].child \in Procs
    BY <1>0, <2>1 DEF TypeOK, ControlInv, Ptr
  <2>3. call' \in [Procs -> Locals] /\ \A q \in Procs \ {t} : call'[q] = call[q]
    BY <1>0, <2>1 DEF TypeOK, Locals, NoCall, Ptr
  <2> QED BY <1>1, <2>1, <2>2, <2>3
<1>5. CASE ensure_idle_process(t)
  <2>1. /\ idle_process' = Idle /\ ~isr.on /\ pc' = [pc EXCEPT ![t] = "boot_irq"]
        /\ UNCHANGED <<pparent, idt, cpu, isr, call>>
    BY <1>5 DEF ensure_idle_process, At, Goto
  <2>2. idle_process' \in Ptr /\ pc' \in [Procs -> Labels]
    BY <1>0, <2>1, SchedulerAssumption DEF TypeOK, Ptr, Labels
  <2>3. ControlInv'
    BY <1>0, <2>1 DEF ControlInv, TypeOK
  <2>4. CASE /\ enqueue_process(Idle, FALSE) /\ life' = [life EXCEPT ![Idle] = "queued"]
             /\ ctx' = [ctx EXCEPT ![Idle] = [eip |-> Idle, esp |-> Idle]] /\ intr' = TRUE
    <3>1. /\ plist' \in Ptr /\ firstProc' \in Ptr /\ pcurrent' \in Ptr
          /\ pnext' \in [Procs -> Ptr]
          /\ ticks_since_switch' \in 0 .. TicksPerQuantum - 1
          /\ state' \in [Procs -> {CHILD, RUNNING, SLEEPING, READY}]
          /\ life' \in [Procs -> Lives]
          /\ RunningIsCurrent'
      BY <1>0, <2>4, EnqueueStep, SchedulerAssumption
    <3>2. ctx' \in [Procs -> Context]
      BY <1>0, <2>4, SchedulerAssumption DEF TypeOK, Context, Ptr
    <3>3. TypeOK'
      BY <1>0, <2>1, <2>2, <2>4, <3>1, <3>2 DEF TypeOK
    <3> QED BY <2>3, <3>1, <3>3 DEF SchedInv
  <2>5. CASE /\ life' = [life EXCEPT ![Idle] = "private"]
             /\ UNCHANGED <<ringVars, pcurrent, state, ticks_since_switch, ctx, intr>>
    <3>1. TypeOK'
      BY <1>0, <2>1, <2>2, <2>5 DEF TypeOK, Lives, ringVars
    <3>2. RunningIsCurrent'
      BY <1>0, <2>5, SchedulerAssumption DEF TypeOK, RunningIsCurrent
    <3> QED BY <2>3, <3>1, <3>2 DEF SchedInv
  <2> QED BY <1>5, <2>4, <2>5 DEF ensure_idle_process
<1>6. CASE InitInterrupts(t)
  <2>1. TypeOK'
    BY <1>0, <1>6 DEF InitInterrupts, Goto, TypeOK, Labels, ringVars
  <2>2. ControlInv' /\ RunningIsCurrent'
    BY <1>0, <1>6 DEF InitInterrupts, Goto, TypeOK, ControlInv, RunningIsCurrent, ringVars
  <2> QED BY <2>1, <2>2 DEF SchedInv
<1>7. CASE SignalParent(t)
  <2>1. call' \in [Procs -> Locals] /\ \A q \in Procs \ {t} : call'[q] = call[q]
    BY <1>0, <1>7 DEF SignalParent, Return, TypeOK, Locals, NoCall, Ptr
  <2>2. TypeOK'
    BY <1>0, <1>7, <2>1 DEF SignalParent, Goto, TypeOK, Labels, ringVars, Locals
  <2>3. ControlInv' /\ RunningIsCurrent'
    BY <1>0, <1>7, <2>1 DEF SignalParent, Goto, TypeOK, ControlInv, RunningIsCurrent, ringVars
  <2> QED BY <2>2, <2>3 DEF SchedInv
<1>8. ASSUME NEW c \in Procs, NEW father \in Ptr, NEW st \in {CHILD, READY},
             NewProcess(c, father, st), At(t, "run"),
             NEW this \in Ptr, NEW label \in {"fork_add", "exec_add"},
             call' = [call EXCEPT ![t] = [NoCall EXCEPT !.this = this, !.child = c]], Goto(t, label),
             UNCHANGED <<ringVars, pcurrent, idle_process, ticks_since_switch, intr, idt, cpu, isr>>
      PROVE  SchedInv'
  <2>1. /\ life' = [life EXCEPT ![c] = "private"] /\ pparent' = [pparent EXCEPT ![c] = father]
        /\ state' = [state EXCEPT ![c] = st]
        /\ ctx' = [ctx EXCEPT ![c] = [eip |-> NULL, esp |-> NULL]]
        /\ pc' = [pc EXCEPT ![t] = label] /\ ~isr.on
    BY <1>8 DEF NewProcess, Goto, At
  <2>2. ctx' \in [Procs -> Context]
    BY <1>0, <2>1 DEF TypeOK, Context, Ptr
  <2>3. call' \in [Procs -> Locals] /\ call'[t].child # NULL
        /\ \A q \in Procs \ {t} : call'[q] = call[q]
    <3>1. /\ [NoCall EXCEPT !.this = this, !.child = c] \in Locals
          /\ [NoCall EXCEPT !.this = this, !.child = c].child = c
      BY <1>8 DEF NoCall, Locals, Ptr
    <3>2. call \in [Procs -> Locals]
      BY <1>0 DEF TypeOK, Locals
    <3> QED BY <1>8, <3>1, <3>2, SchedulerAssumption
  <2>4. TypeOK'
    BY <1>0, <1>8, <2>1, <2>2, <2>3 DEF TypeOK, Lives, Labels, Locals, ringVars
  <2>5. ControlInv'
    BY <1>0, <1>8, <2>1, <2>3 DEF TypeOK, ControlInv
  <2>6. RunningIsCurrent'
    BY <1>0, <1>8, <2>1 DEF TypeOK, RunningIsCurrent
  <2> QED BY <2>4, <2>5, <2>6 DEF SchedInv
<1>9. ASSUME NEW c \in Procs, fork(t, c) \/ forkFails(t, c) \/ execv(t, c)
      PROVE  SchedInv'
  <2>1. pcurrent \in Ptr /\ c \in Ptr /\ NULL \in Ptr
    BY <1>0 DEF TypeOK, Ptr
  <2>2. CASE fork(t, c)
    BY <1>8, <2>1, <2>2 DEF fork, Calls
  <2>3. CASE execv(t, c)
    BY <1>8, <2>1, <2>3 DEF execv, Calls
  <2>4. CASE forkFails(t, c)
    <3>1. TypeOK'
      BY <1>0, <2>4 DEF forkFails, TypeOK, Lives, ringVars
    <3>2. ControlInv' /\ RunningIsCurrent'
      BY <1>0, <2>4 DEF forkFails, TypeOK, ControlInv, RunningIsCurrent, ringVars
    <3> QED BY <3>1, <3>2 DEF SchedInv
  <2> QED BY <1>9, <2>2, <2>3, <2>4
<1> QED BY <1>2, <1>3, <1>4, <1>5, <1>6, <1>7, <1>9

\* The steps of exit and wait: a process leaves the list, then its object goes.
LEMMA WaitStep ==
  ASSUME SchedInv, NEW t \in Procs,
         \/ exit(t) \/ wait(t) \/ WaitScan(t) \/ ScanZombie(t) \/ DeleteVictim(t)
         \/ WaitReturn(t) \/ SyscallReturn(t)
  PROVE  SchedInv'
<1>0. TypeOK /\ ControlInv /\ RunningIsCurrent
  BY DEF SchedInv
<1>1. CASE exit(t)
  <2>1. /\ state' = [state EXCEPT ![pcurrent] = ZOMBIE]
        /\ call' = [call EXCEPT ![t].this = pcurrent] /\ pc' = [pc EXCEPT ![t] = "sig_parent"]
        /\ UNCHANGED <<plist, firstProc, pnext, pcurrent, idle_process, ticks_since_switch,
                       pparent, ctx, life, intr, idt, cpu, isr>>
    BY <1>1 DEF exit, Goto, ringVars
  <2>2. call' \in [Procs -> Locals]
    BY <1>0, <2>1 DEF TypeOK, Locals
  <2>3. TypeOK'
    BY <1>0, <2>1, <2>2 DEF TypeOK, Locals, Labels, ZOMBIE, RUNNING
  <2>4. ControlInv'
    BY <1>0, <2>1 DEF TypeOK, ControlInv
  <2>5. RunningIsCurrent'
    BY <1>0, <2>1 DEF TypeOK, RunningIsCurrent
  <2> QED BY <2>3, <2>4, <2>5 DEF SchedInv
<1>2. CASE wait(t)
  <2>1. /\ intr' = TRUE /\ call' = [call EXCEPT ![t].this = pcurrent]
        /\ pc' = [pc EXCEPT ![t] = "wait_spin"]
        /\ UNCHANGED <<plist, firstProc, pnext, pcurrent, idle_process, ticks_since_switch,
                       state, pparent, ctx, life, idt, cpu, isr>>
    BY <1>2 DEF wait, Goto, ringVars
  <2>2. call' \in [Procs -> Locals]
    BY <1>0, <2>1 DEF TypeOK, Locals
  <2>3. TypeOK'
    BY <1>0, <2>1, <2>2 DEF TypeOK, Locals, Labels
  <2>4. ControlInv' /\ RunningIsCurrent'
    BY <1>0, <2>1 DEF TypeOK, ControlInv, RunningIsCurrent
  <2> QED BY <2>3, <2>4 DEF SchedInv
<1>3. CASE WaitScan(t)
  <2>1. /\ intr' = (plist = NULL)
        /\ call' = [call EXCEPT ![t].cursor = plist, ![t].pending = NULL]
        /\ pc' = [pc EXCEPT ![t] = IF plist = NULL THEN "del" ELSE "reap"]
        /\ UNCHANGED <<plist, firstProc, pnext, pcurrent, idle_process, ticks_since_switch,
                       state, pparent, ctx, life, idt, cpu, isr>>
    BY <1>3 DEF WaitScan, Goto, ringVars
  <2>2. call' \in [Procs -> Locals] /\ call'[t].cursor = plist
        /\ \A q \in Procs \ {t} : call'[q] = call[q]
    <3>1. call \in [Procs -> Locals] /\ plist \in Ptr /\ NULL \in Ptr
      BY <1>0 DEF TypeOK, Locals, Ptr
    <3>2. call'[t] = [call[t] EXCEPT !.cursor = plist, !.pending = NULL]
      BY <2>1, <3>1
    <3>3. call'[t] \in Locals /\ call'[t].cursor = plist
      BY <3>1, <3>2 DEF Locals
    <3> QED BY <2>1, <3>1, <3>3
  <2>3. TypeOK'
    BY <1>0, <2>1, <2>2 DEF TypeOK, Locals, Labels
  <2>4. ControlInv' /\ RunningIsCurrent'
    BY <1>0, <2>1, <2>2 DEF TypeOK, ControlInv, RunningIsCurrent
  <2> QED BY <2>3, <2>4 DEF SchedInv
<1>4. CASE ScanZombie(t)
  <2> DEFINE c == call[t].cursor
             pend == IF Reapable(c) THEN c ELSE call[t].pending
             done == plist' = NULL \/ pnext[c] = NULL \/ pnext[c] = plist'
  <2>1. /\ At(t, "reap")
        /\ IF Reapable(c)
           THEN remove_process(c, call[t].pending) /\ life' = [life EXCEPT ![c] = "pending"]
           ELSE UNCHANGED <<ringVars, pcurrent, life>>
        /\ intr' = done /\ pc' = [pc EXCEPT ![t] = IF done THEN "del" ELSE "reap"]
        /\ call' = [call EXCEPT ![t].cursor = pnext[c],
                                ![t].pending = pend]
        /\ UNCHANGED <<idle_process, ticks_since_switch, state, pparent, ctx, idt, cpu, isr>>
    BY <1>4 DEF ScanZombie, Goto
  <2>2. c \in Procs /\ pnext[c] \in Ptr /\ call[t].pending \in Ptr /\ ~isr.on
    BY <1>0, <2>1 DEF TypeOK, ControlInv, At, Ptr
  <2>3. call' \in [Procs -> Locals] /\ call'[t].cursor = pnext[c]
        /\ \A q \in Procs \ {t} : call'[q] = call[q]
    <3>1. call \in [Procs -> Locals]
      BY <1>0 DEF TypeOK, Locals
    <3>2. pend \in Ptr
      BY <2>2 DEF Ptr
    <3> HIDE DEF c, pend
    <3>3. call'[t] = [call[t] EXCEPT !.cursor = pnext[c], !.pending = pend]
      BY <2>1, <3>1
    <3>4. call'[t] \in Locals /\ call'[t].cursor = pnext[c]
      BY <2>2, <3>1, <3>2, <3>3 DEF Locals
    <3> QED BY <2>1, <3>1, <3>4
  <2> HIDE DEF c
  <2>4. /\ plist' \in Ptr /\ firstProc' \in Ptr /\ pcurrent' \in Ptr
        /\ pnext' \in [Procs -> Ptr] /\ life' \in [Procs -> Lives]
        /\ RunningIsCurrent'
    <3>1. CASE Reapable(c)
      <4>1. remove_process(c, call[t].pending) /\ life' = [life EXCEPT ![c] = "pending"]
        BY <2>1, <3>1
      <4>2. /\ plist' \in Ptr /\ firstProc' \in Ptr /\ pcurrent' \in Ptr
            /\ pnext' \in [Procs -> Ptr] /\ (pcurrent # c => pcurrent' = pcurrent)
        BY <1>0, <2>2, <4>1, RemoveStep
      <4>3. life' \in [Procs -> Lives]
        BY <1>0, <4>1 DEF TypeOK, Lives
      <4>4. RunningIsCurrent'
        BY <1>0, <2>1, <2>2, <4>1, <4>2 DEF TypeOK, RunningIsCurrent
      <4> QED BY <4>2, <4>3, <4>4
    <3>2. CASE ~Reapable(c)
      BY <1>0, <2>1, <3>2 DEF TypeOK, RunningIsCurrent, ringVars
    <3> QED BY <3>1, <3>2
  <2>5. pc' \in [Procs -> Labels] /\ (pc'[t] = "reap" => pnext[c] # NULL)
        /\ pc'[t] \notin {"fork_add", "exec_add"}
        /\ \A q \in Procs \ {t} : pc'[q] = pc[q]
    BY <1>0, <2>1 DEF TypeOK, Labels
  <2>6. intr' \in BOOLEAN
    BY <2>1
  <2>7. TypeOK'
    BY <1>0, <2>1, <2>3, <2>4, <2>5, <2>6 DEF TypeOK, Locals
  <2>8. ControlInv'
    BY <1>0, <2>1, <2>2, <2>3, <2>5 DEF ControlInv
  <2> QED BY <2>4, <2>7, <2>8 DEF SchedInv
<1>5. CASE DeleteVictim(t)
  <2> DEFINE victim == call[t].pending
  <2>1. /\ victim # NULL /\ call' = [call EXCEPT ![t].pending = pnext[victim]]
        /\ pnext' = [pnext EXCEPT ![victim] = NULL]
        /\ change_process_father(victim, pparent[victim])
        /\ life' = [life EXCEPT ![victim] = "freed"] /\ intr' = TRUE
        /\ UNCHANGED <<plist, firstProc, pcurrent, idle_process, ticks_since_switch, state,
                       ctx, idt, cpu, isr, pc>>
    BY <1>5 DEF DeleteVictim
  <2>2. victim \in Procs /\ pnext[victim] \in Ptr /\ pparent[victim] \in Ptr
    BY <1>0, <2>1 DEF TypeOK, Ptr
  <2>3. call' \in [Procs -> Locals]
        /\ \A q \in Procs : call'[q].child = call[q].child /\ call'[q].cursor = call[q].cursor
    <3>1. call \in [Procs -> Locals]
      BY <1>0 DEF TypeOK, Locals
    <3>2. /\ call'[t] = [call[t] EXCEPT !.pending = pnext[victim]]
          /\ \A q \in Procs \ {t} : call'[q] = call[q]
      BY <2>1, <3>1
    <3>3. call'[t] \in Locals /\ call'[t].child = call[t].child
          /\ call'[t].cursor = call[t].cursor
      BY <2>2, <3>1, <3>2 DEF Locals
    <3>4. call' \in [Procs -> Locals]
      BY <2>1, <3>1, <3>3
    <3> QED BY <3>2, <3>3, <3>4
  <2>4. pparent' \in [Procs -> Ptr]
    BY <1>0, <2>1, <2>2 DEF change_process_father, TypeOK
  <2> HIDE DEF victim
  <2>5. TypeOK'
    BY <1>0, <2>1, <2>2, <2>3, <2>4 DEF TypeOK, Locals, Lives, Ptr
  <2>6. ControlInv' /\ RunningIsCurrent'
    BY <1>0, <2>1, <2>2, <2>3 DEF TypeOK, ControlInv, RunningIsCurrent
  <2> QED BY <2>5, <2>6 DEF SchedInv
<1>6. CASE WaitReturn(t)
  <2>1. TypeOK'
    BY <1>0, <1>6 DEF WaitReturn, Goto, TypeOK, Labels, ringVars
  <2>2. ControlInv' /\ RunningIsCurrent'
    BY <1>0, <1>6 DEF WaitReturn, Goto, TypeOK, ControlInv, RunningIsCurrent, ringVars
  <2> QED BY <2>1, <2>2 DEF SchedInv
<1>7. CASE SyscallReturn(t)
  <2>1. call' \in [Procs -> Locals] /\ \A q \in Procs \ {t} : call'[q] = call[q]
    BY <1>0, <1>7 DEF SyscallReturn, Return, TypeOK, Locals, NoCall, Ptr
  <2>2. TypeOK'
    BY <1>0, <1>7, <2>1 DEF SyscallReturn, Goto, TypeOK, Labels, ringVars, Locals
  <2>3. ControlInv' /\ RunningIsCurrent'
    BY <1>0, <1>7, <2>1 DEF SyscallReturn, Goto, TypeOK, ControlInv, RunningIsCurrent, ringVars
  <2> QED BY <2>2, <2>3 DEF SchedInv
<1> QED BY <1>1, <1>2, <1>3, <1>4, <1>5, <1>6, <1>7

\* The timer interrupt and the search of Process::schedule.
LEMMA TimerStep ==
  ASSUME SchedInv, TimerInterrupt \/ TimerIgnored \/ schedule
  PROVE  SchedInv'
<1>0. TypeOK /\ ControlInv /\ RunningIsCurrent
  BY DEF SchedInv
<1>1. CASE TimerInterrupt
  <2> DEFINE ticks == ticks_since_switch + 1
  <2>1. /\ pcurrent # NULL /\ ctx' = [ctx EXCEPT ![pcurrent] = cpu]
        /\ ticks_since_switch' = NextTicks(ticks)
        /\ isr' = IF NeedSwitch(ticks) /\ pnext[pcurrent] # NULL
                  THEN [on |-> TRUE, n |-> pcurrent, attempts |-> 0] ELSE isr
        /\ intr' = ~isr'.on
        /\ UNCHANGED <<plist, firstProc, pnext, pcurrent, idle_process, state, pparent, life,
                       idt, cpu, pc, call>>
    BY <1>1 DEF TimerInterrupt, save_process_context, SearchFrom, ringVars
  <2>2. ticks_since_switch' \in 0 .. TicksPerQuantum - 1
    BY <1>0, <2>1, QuantumPositive DEF TypeOK, NextTicks, NeedSwitch
  <2>3. /\ isr' \in [on : BOOLEAN, n : Ptr, attempts : Nat]
        /\ isr'.on => pcurrent # NULL /\ isr'.n # NULL
    <3>1. CASE isr' = isr
      BY <1>0, <3>1 DEF TypeOK, ControlInv
    <3>2. CASE isr' = [on |-> TRUE, n |-> pcurrent, attempts |-> 0]
      BY <1>0, <2>1, <3>2 DEF TypeOK
    <3> QED BY <2>1, <3>1, <3>2
  <2>4. ctx' \in [Procs -> Context]
    BY <1>0, <2>1 DEF TypeOK
  <2>5. intr' \in BOOLEAN
    BY <2>1, <2>3
  <2>6. TypeOK'
    BY <1>0, <2>1, <2>2, <2>3, <2>4, <2>5 DEF TypeOK
  <2>7. ControlInv' /\ RunningIsCurrent'
    BY <1>0, <2>1, <2>3 DEF ControlInv, RunningIsCurrent
  <2> QED BY <2>6, <2>7 DEF SchedInv
<1>2. CASE TimerIgnored
  BY <1>0, <1>2 DEF TimerIgnored, vars, SchedInv, TypeOK, ControlInv, RunningIsCurrent
<1>3. CASE schedule
  <2> DEFINE n == IF pnext[isr.n] # NULL THEN pnext[isr.n] ELSE plist
  <2>1. isr.on /\ pcurrent \in Procs /\ n \in Ptr
    BY <1>0, <1>3 DEF schedule, TypeOK, ControlInv, Ptr
  <2>2. UNCHANGED <<plist, firstProc, pnext, idle_process, ticks_since_switch, pparent, ctx,
                    life, idt, pc, call>>
    BY <1>3 DEF schedule, ringVars
  <2>3. ASSUME NEW m \in Procs, SwitchTo(m)
        PROVE  SchedInv'
    <3>1. cpu' \in Context /\ pcurrent' = m /\ isr' = IsrOff /\ intr' = TRUE
      BY <1>0, <2>3 DEF SwitchTo, RestoreRegs, TypeOK, Context
    <3>2. isr' \in [on : BOOLEAN, n : Ptr, attempts : Nat] /\ ~isr'.on
      BY <3>1 DEF IsrOff, Ptr
    <3>3. state' \in [Procs -> {CHILD, RUNNING, SLEEPING, READY}]
      BY <1>0, <2>3 DEF SwitchTo, TypeOK
    <3>4. TypeOK'
      BY <1>0, <2>2, <2>3, <3>1, <3>2, <3>3 DEF TypeOK, Ptr
    <3>5. RunningIsCurrent'
      <4>1. CASE m = pcurrent
        BY <1>0, <2>2, <2>3, <3>1, <4>1 DEF SwitchTo, RunningIsCurrent
      <4>2. CASE m # pcurrent
        BY <1>0, <2>2, <2>3, <3>1, <4>2 DEF SwitchTo, RunningIsCurrent, TypeOK, READY, RUNNING
      <4> QED BY <4>1, <4>2
    <3>6. ControlInv'
      BY <1>0, <2>2, <3>2 DEF ControlInv
    <3> QED BY <3>4, <3>5, <3>6 DEF SchedInv
  <2>4. CASE SwitchTo(pcurrent)
    BY <2>1, <2>3, <2>4
  <2>5. CASE n # NULL /\ SwitchTo(n)
    <3>1. n \in Procs
      BY <2>1, <2>5 DEF Ptr
    <3> HIDE DEF n
    <3> QED BY <2>3, <2>5, <3>1
  <2>6. CASE /\ n # NULL /\ isr' = [isr EXCEPT !.n = n, !.attempts = isr.attempts + 1]
             /\ UNCHANGED <<state, pcurrent, cpu, intr>>
    <3> HIDE DEF n
    <3>1. isr' \in [on : BOOLEAN, n : Ptr, attempts : Nat] /\ isr'.n = n
      <4>1. isr \in [on : BOOLEAN, n : Ptr, attempts : Nat]
        BY <1>0 DEF TypeOK
      <4>2. isr.attempts + 1 \in Nat
        BY <4>1
      <4>3. isr' = [on |-> isr.on, n |-> n, attempts |-> isr.attempts + 1]
        BY <2>6, <4>1
      <4> QED BY <2>1, <4>1, <4>2, <4>3
    <3>2. TypeOK'
      BY <1>0, <2>2, <2>6, <3>1 DEF TypeOK
    <3>3. ControlInv' /\ RunningIsCurrent'
      BY <1>0, <2>1, <2>2, <2>6, <3>1 DEF ControlInv, RunningIsCurrent, Ptr
    <3> QED BY <3>2, <3>3 DEF SchedInv
  <2> QED BY <1>3, <2>4, <2>5, <2>6 DEF schedule
<1> QED BY <1>1, <1>2, <1>3

\* It holds in every state.
LEMMA SchedInvAlways == Spec => []SchedInv
<1>1. Init => SchedInv
  BY SchedInvInit
<1>2. SchedInv /\ [Next]_vars => SchedInv'
  <2> SUFFICES ASSUME SchedInv, [Next]_vars PROVE SchedInv'
    OBVIOUS
  <2>1. CASE TimerInterrupt \/ TimerIgnored \/ schedule
    BY <2>1, TimerStep
  <2>2. ASSUME NEW t \in Procs, ThreadStep(t) \/ SystemCall(t)
        PROVE  SchedInv'
    BY <2>2, CreateStep, WaitStep DEF ThreadStep, SystemCall
  <2>3. CASE UNCHANGED vars
    BY <2>3 DEF vars, SchedInv, TypeOK, ControlInv, RunningIsCurrent
  <2> QED BY <2>1, <2>2, <2>3 DEF Next
<1> QED BY <1>1, <1>2, PTL DEF Spec

\* Every pointer the process list, the scheduler and the calls keep is null or a
\* process, none is followed while it is null, and ticks_since_switch never
\* passes the end of a quantum.
THEOREM SchedulerTypeCorrect == Spec => []TypeOK
<1>1. SchedInv => TypeOK
  BY DEF SchedInv
<1> QED BY <1>1, SchedInvAlways, PTL

\* Of the processes on the list only pcurrent is ever in the state RUNNING, and
\* so, as ZOMBIE is the same number, destroy_all_zombie removes no process but
\* pcurrent, in whatever order fork, exit, wait and the timer interleave.
THEOREM SchedulerRunningIsCurrent == Spec => []RunningIsCurrent
<1>1. SchedInv => RunningIsCurrent
  BY DEF SchedInv
<1> QED BY <1>1, SchedInvAlways, PTL

-------------------------------------------------------------------------------
(* Walking along a chain of pointers nx from h. *)

WalkSteps(w, h, nx, S) ==
  w = [k \in S |-> IF k = 0 THEN h ELSE IF w[k - 1] = NULL THEN NULL ELSE nx[w[k - 1]]]
WalkOf(h, nx) == CHOOSE w : WalkSteps(w, h, nx, Nat)
RingSetOf(h, nx) == {p \in Procs : \E k \in 0 .. Cardinality(Procs) : WalkOf(h, nx)[k] = p}

\* The recursive definition of Walk has a solution: one for each finite number of
\* steps, which together make one for all.
LEMMA WalkDefined ==
  ASSUME NEW h, NEW nx
  PROVE  /\ WalkOf(h, nx)[0] = h
         /\ \A k \in Nat : WalkOf(h, nx)[k + 1] =
              IF WalkOf(h, nx)[k] = NULL THEN NULL ELSE nx[WalkOf(h, nx)[k]]
<1> DEFINE Next1(x) == IF x = NULL THEN NULL ELSE nx[x]
           Part(f, n) == /\ f[0] = h
                         /\ \A k \in 1 .. n : f[k] = Next1(f[k - 1])
           T == {n \in Nat : \E f : Part(f, n)}
<1>1. 0 \in T
  <2> DEFINE f == [k \in 0 .. 0 |-> h]
  <2>1. Part(f, 0)
    OBVIOUS
  <2> QED BY <2>1
<1>2. ASSUME NEW n \in T PROVE n + 1 \in T
  <2>1. PICK f : Part(f, n)
    OBVIOUS
  <2> DEFINE g == [k \in 0 .. n + 1 |-> IF k <= n THEN f[k] ELSE Next1(f[n])]
  <2> HIDE DEF Next1
  <2>2. g[0] = h
    BY <2>1
  <2>3. ASSUME NEW k \in 1 .. n + 1 PROVE g[k] = Next1(g[k - 1])
    <3>1. k \in 0 .. n + 1 /\ k - 1 \in 0 .. n + 1 /\ k - 1 <= n
      BY n \in Nat
    <3>2. g[k - 1] = f[k - 1]
      BY <3>1
    <3>3. CASE k <= n
      <4>1. k \in 1 .. n
        BY <3>3
      <4> QED BY <2>1, <3>1, <3>2, <3>3, <4>1
    <3>4. CASE ~(k <= n)
      <4>1. k - 1 = n
        BY <3>4, n \in Nat
      <4>2. g[k] = Next1(f[n])
        BY <3>1, <3>4
      <4> QED BY <3>2, <4>1, <4>2
    <3> QED BY <3>3, <3>4
  <2> HIDE DEF g
  <2>4. Part(g, n + 1)
    BY <2>2, <2>3
  <2>5. n + 1 \in Nat
    OBVIOUS
  <2> HIDE DEF Part
  <2> QED BY <2>4, <2>5
<1>3. \A n \in Nat : \E f : Part(f, n)
  <2>1. T \in SUBSET Nat
    OBVIOUS
  <2>2. T = Nat
    <3> HIDE DEF T
    <3> QED BY <1>1, <1>2, <2>1, NatSetInduction
  <2> HIDE DEF Part
  <2> QED BY <2>2
<1>4. ASSUME NEW n \in Nat, NEW f, NEW g, Part(f, n), Part(g, n + 1) PROVE f[n] = g[n]
  <2> DEFINE U == {k \in Nat : k <= n => f[k] = g[k]}
  <2> HIDE DEF Next1
  <2>1. 0 \in U
    BY <1>4
  <2>2. ASSUME NEW k \in U PROVE k + 1 \in U
    <3> SUFFICES ASSUME k + 1 <= n PROVE f[k + 1] = g[k + 1]
      OBVIOUS
    <3>1. k \in Nat /\ k <= n /\ k + 1 \in 1 .. n /\ k + 1 \in 1 .. n + 1 /\ (k + 1) - 1 = k
      OBVIOUS
    <3>2. f[k] = g[k]
      BY <3>1
    <3>3. f[k + 1] = Next1(f[k]) /\ g[k + 1] = Next1(g[k])
      BY <1>4, <3>1
    <3> QED BY <3>2, <3>3
  <2>3. U \in SUBSET Nat
    OBVIOUS
  <2>4. n \in U
    <3> HIDE DEF U
    <3> QED BY <2>1, <2>2, <2>3, NatSetInduction
  <2> QED BY <2>4
<1> DEFINE F(n) == CHOOSE f : Part(f, n)
           w == [n \in Nat |-> F(n)[n]]
<1>5. \A n \in Nat : Part(F(n), n)
  <2> HIDE DEF Part
  <2> QED BY <1>3, Zenon
<1> HIDE DEF F, Next1
<1>6. w[0] = h
  BY <1>5
<1>7. ASSUME NEW n \in Nat PROVE w[n + 1] = Next1(w[n])
  <2>1. n + 1 \in Nat /\ n + 1 \in 1 .. n + 1 /\ (n + 1) - 1 = n
    OBVIOUS
  <2>2. Part(F(n), n) /\ Part(F(n + 1), n + 1)
    <3> HIDE DEF Part
    <3> QED BY <1>5, <2>1
  <2>3. F(n)[n] = F(n + 1)[n]
    <3> HIDE DEF Part
    <3> QED BY <1>4, <2>2
  <2>4. F(n + 1)[n + 1] = Next1(F(n + 1)[n])
    BY <2>1, <2>2
  <2> QED BY <2>1, <2>3, <2>4
<1>8. WalkSteps(w, h, nx, Nat)
  <2> DEFINE v == [k \in Nat |-> IF k = 0 THEN h ELSE Next1(w[k - 1])]
  <2>1. ASSUME NEW k \in Nat PROVE w[k] = v[k]
    <3>1. CASE k = 0
      BY <1>6, <3>1
    <3>2. CASE k # 0
      <4>1. k - 1 \in Nat /\ (k - 1) + 1 = k
        BY <3>2
      <4>2. w[k] = Next1(w[k - 1])
        BY <1>7, <4>1
      <4> HIDE DEF w
      <4> QED BY <3>2, <4>2
    <3> QED BY <3>1, <3>2
  <2>2. w = v
    BY <2>1
  <2> QED BY <2>2 DEF WalkSteps, Next1
<1> HIDE DEF w
<1>9. WalkSteps(WalkOf(h, nx), h, nx, Nat)
  BY <1>8, Zenon DEF WalkOf
<1> DEFINE W == WalkOf(h, nx)
<1> HIDE DEF W
<1>10. W[0] = h /\ \A k \in Nat : k + 1 \in Nat /\ k + 1 # 0 /\ (k + 1) - 1 = k
  BY <1>9 DEF WalkSteps, W
<1>11. \A k \in Nat : W[k + 1] = IF W[k] = NULL THEN NULL ELSE nx[W[k]]
  BY <1>9, <1>10 DEF WalkSteps, W
<1> QED BY <1>10, <1>11 DEF W

-------------------------------------------------------------------------------
(* A ring as a sequence. *)

After(q, i) == IF i = Len(q) THEN 1 ELSE i + 1

\* The processes of q are different, and the pointers nx lead from each to the next
\* and from the last to the first.
Linked(q, nx) ==
  /\ q \in Seq(Procs)
  /\ \A i, j \in 1 .. Len(q) : q[i] = q[j] => i = j
  /\ \A i \in 1 .. Len(q) : nx[q[i]] = q[After(q, i)]

\* The i-th step of the walk from h leads to the i-th process of q.
WalksAlong(q, h, nx) == \A i \in 1 .. Len(q) : WalkOf(h, nx)[i - 1] = q[i]

\* From the head the walk meets the processes of the sequence, in its order, and no others.
LEMMA RingWalk ==
  ASSUME NEW q, NEW nx, Linked(q, nx), NEW h, h = IF Len(q) = 0 THEN NULL ELSE q[1]
  PROVE  /\ RingSetOf(h, nx) = {q[i] : i \in 1 .. Len(q)}
         /\ Cardinality({q[i] : i \in 1 .. Len(q)}) = Len(q)
         /\ WalksAlong(q, h, nx)
<1> DEFINE W == WalkOf(h, nx)
           R == {q[i] : i \in 1 .. Len(q)}
<1>0. /\ q \in Seq(Procs) /\ Len(q) \in Nat /\ \A i \in 1 .. Len(q) : q[i] \in Procs
      /\ NULL \notin Procs /\ IsFiniteSet(Procs) /\ Cardinality(Procs) \in Nat
  BY SchedulerAssumption, FS_CardinalityType DEF Linked
<1>1. W[0] = h /\ \A k \in Nat : W[k + 1] = IF W[k] = NULL THEN NULL ELSE nx[W[k]]
  BY WalkDefined
<1> HIDE DEF W
<1>2. IsFiniteSet(R) /\ Cardinality(R) = Len(q) /\ Len(q) <= Cardinality(Procs)
  <2> DEFINE b == [i \in 1 .. Len(q) |-> q[i]]
  <2>1. b \in Bijection(1 .. Len(q), R)
    BY <1>0 DEF Bijection, Injection, Surjection, Linked, IsInjective
  <2>2. ExistsBijection(1 .. Len(q), R)
    BY <2>1 DEF ExistsBijection
  <2>3. Cardinality(R) = Len(q)
    <3> HIDE DEF R
    <3> QED BY <1>0, <2>2, FS_CountingElements
  <2>4. R \in SUBSET Procs
    BY <1>0
  <2>5. IsFiniteSet(R) /\ Cardinality(R) <= Cardinality(Procs)
    <3> HIDE DEF R
    <3> QED BY <1>0, <2>4, FS_Subset
  <2> QED BY <2>3, <2>5
<1>3. CASE Len(q) = 0
  <2> DEFINE T == {k \in Nat : W[k] = NULL}
  <2>1. 0 \in T
    BY <1>1, <1>3
  <2>2. ASSUME NEW k \in T PROVE k + 1 \in T
    BY <1>1
  <2>3. T \in SUBSET Nat
    OBVIOUS
  <2>4. T = Nat
    <3> HIDE DEF T
    <3> QED BY <2>1, <2>2, <2>3, NatSetInduction
  <2>5. \A k \in 0 .. Cardinality(Procs) : W[k] = NULL
    BY <1>0, <2>4
  <2>6. RingSetOf(h, nx) = {}
    BY <1>0, <2>5 DEF RingSetOf, W
  <2>7. 1 .. Len(q) = {}
    BY <1>3
  <2> QED BY <1>2, <2>6, <2>7 DEF WalksAlong
<1>4. CASE Len(q) # 0
  <2> DEFINE T == {k \in Nat : W[k] \in R /\ (k < Len(q) => W[k] = q[k + 1])}
  <2>1. 0 \in T
    <3>1. 1 \in 1 .. Len(q) /\ 0 + 1 = 1 /\ 0 \in Nat /\ h = q[1]
      BY <1>0, <1>4
    <3> QED BY <1>1, <3>1
  <2>2. ASSUME NEW k \in T PROVE k + 1 \in T
    <3>1. k \in Nat /\ W[k] \in R /\ (k < Len(q) => W[k] = q[k + 1]) /\ k + 1 \in Nat
      OBVIOUS
    <3>2. PICK i \in 1 .. Len(q) : W[k] = q[i] /\ (k < Len(q) => i = k + 1)
      <4>1. CASE k < Len(q)
        <5>1. k + 1 \in 1 .. Len(q)
          BY <1>0, <3>1, <4>1
        <5> QED BY <3>1, <4>1, <5>1
      <4>2. CASE ~(k < Len(q))
        BY <3>1, <4>2
      <4> QED BY <4>1, <4>2
    <3>3. W[k + 1] = q[After(q, i)]
      <4>1. q[i] # NULL /\ nx[q[i]] = q[After(q, i)]
        BY <1>0 DEF Linked
      <4> QED BY <1>1, <3>1, <3>2, <4>1
    <3>4. After(q, i) \in 1 .. Len(q)
      BY <1>0 DEF After
    <3>5. k + 1 < Len(q) => After(q, i) = (k + 1) + 1
      BY <1>0, <3>1, <3>2 DEF After
    <3> QED BY <3>1, <3>3, <3>4, <3>5
  <2>3. T \in SUBSET Nat
    OBVIOUS
  <2>4. T = Nat
    <3> HIDE DEF T
    <3> QED BY <2>1, <2>2, <2>3, NatSetInduction
  <2>5. \A k \in Nat : W[k] \in R /\ (k < Len(q) => W[k] = q[k + 1])
    BY <2>4
  <2>6. \A i \in 1 .. Len(q) : i - 1 \in Nat /\ i - 1 < Len(q) /\ (i - 1) + 1 = i
                             /\ i - 1 \in 0 .. Cardinality(Procs)
    <3>1. Len(q) \in Nat /\ Cardinality(Procs) \in Nat /\ Len(q) <= Cardinality(Procs)
      BY <1>0, <1>2
    <3> QED BY ONLY <3>1
  <2>7. \A i \in 1 .. Len(q) : W[i - 1] = q[i]
    BY <2>5, <2>6
  <2>8. RingSetOf(h, nx) = R
    <3>1. \A k \in 0 .. Cardinality(Procs) : W[k] \in R
      BY <1>0, <2>5
    <3>2. R \subseteq Procs
      BY <1>0
    <3> QED BY <2>6, <2>7, <3>1, <3>2 DEF RingSetOf, W
  <2> QED BY <1>2, <2>7, <2>8 DEF W, WalksAlong
<1> QED BY <1>3, <1>4

\* Where the pointers nx and ny agree on the ring, it is a ring of both.
LEMMA LinkedSame ==
  ASSUME NEW q, NEW nx, NEW ny, Linked(q, nx), \A i \in 1 .. Len(q) : ny[q[i]] = nx[q[i]]
  PROVE  Linked(q, ny)
BY DEF Linked

\* enqueue_process: p is linked behind the tail.
LEMMA LinkedAppend ==
  ASSUME NEW q, NEW nx \in [Procs -> Ptr], Linked(q, nx),
         NEW p \in Procs, \A i \in 1 .. Len(q) : q[i] # p,
         NEW ny, ny = IF Len(q) = 0 THEN [nx EXCEPT ![p] = p]
                      ELSE [nx EXCEPT ![p] = q[1], ![q[Len(q)]] = p]
  PROVE  /\ Linked(Append(q, p), ny) /\ Len(Append(q, p)) = Len(q) + 1
         /\ \A i \in 1 .. Len(q) : Append(q, p)[i] = q[i]
         /\ Append(q, p)[Len(q) + 1] = p
<1> DEFINE s == Append(q, p)
<1>0. q \in Seq(Procs) /\ Len(q) \in Nat /\ \A i \in 1 .. Len(q) : q[i] \in Procs
  BY DEF Linked
<1>1. /\ s \in Seq(Procs) /\ Len(s) = Len(q) + 1
      /\ \A i \in 1 .. Len(q) : s[i] = q[i]
      /\ s[Len(q) + 1] = p
  BY <1>0, Appended
<1> HIDE DEF s
<1>2. \A i \in 1 .. Len(s) : i \in 1 .. Len(q) \/ i = Len(q) + 1
  BY <1>0, <1>1
<1>3. \A i, j \in 1 .. Len(s) : s[i] = s[j] => i = j
  BY <1>1, <1>2 DEF Linked
<1>4. ASSUME NEW i \in 1 .. Len(s) PROVE ny[s[i]] = s[After(s, i)]
  <2>1. CASE Len(q) = 0
    <3>1. i = 1 /\ s[1] = p /\ After(s, i) = 1
      BY <1>0, <1>1, <2>1 DEF After
    <3> QED BY <2>1, <3>1
  <2>2. CASE Len(q) # 0
    <3>0. /\ 1 \in 1 .. Len(q) /\ Len(q) \in 1 .. Len(q)
          /\ ny = [nx EXCEPT ![p] = q[1], ![q[Len(q)]] = p] /\ q[Len(q)] # p
      BY <1>0, <2>2
    <3>1. CASE i = Len(q) + 1
      <4>1. After(s, i) = 1 /\ s[i] = p
        BY <1>0, <1>1, <3>1 DEF After
      <4>2. ny[p] = q[1]
        BY <1>0, <3>0
      <4> QED BY <1>1, <3>0, <4>1, <4>2
    <3>2. CASE i = Len(q)
      <4>1. After(s, i) = Len(q) + 1 /\ s[i] = q[Len(q)]
        BY <1>0, <1>1, <3>0, <3>2 DEF After
      <4>2. ny[q[Len(q)]] = p
        BY <1>0, <3>0
      <4> QED BY <1>1, <4>1, <4>2
    <3>3. CASE i # Len(q) + 1 /\ i # Len(q)
      <4>1. /\ i \in 1 .. Len(q) /\ After(s, i) = i + 1 /\ After(q, i) = i + 1
            /\ i + 1 \in 1 .. Len(q)
        BY <1>0, <1>1, <1>2, <3>3 DEF After
      <4>2. s[i] = q[i] /\ s[i + 1] = q[i + 1] /\ nx[q[i]] = q[i + 1]
        BY <1>1, <4>1 DEF Linked
      <4>3. q[i] # p /\ q[i] # q[Len(q)] /\ q[i] \in Procs
        BY <1>0, <3>0, <3>3, <4>1 DEF Linked
      <4> QED BY <3>0, <4>1, <4>2, <4>3
    <3> QED BY <3>1, <3>2, <3>3
  <2> QED BY <2>1, <2>2
<1>5. Linked(s, ny)
  BY <1>1, <1>3, <1>4 DEF Linked
<1> QED BY <1>1, <1>5 DEF s

\* remove_process: the k-th process is unlinked from a ring of at least two.
LEMMA LinkedRemove ==
  ASSUME NEW q, NEW nx \in [Procs -> Ptr], Linked(q, nx), Len(q) > 1,
         NEW k \in 1 .. Len(q), NEW j \in 1 .. Len(q), nx[q[j]] = q[k],
         NEW chain \in Ptr, NEW ny, ny = [nx EXCEPT ![q[j]] = nx[q[k]], ![q[k]] = chain]
  PROVE  /\ Linked(RemoveAt(q, k), ny) /\ Len(RemoveAt(q, k)) = Len(q) - 1
         /\ \A i \in 1 .. Len(q) - 1 : RemoveAt(q, k)[i] = IF i < k THEN q[i] ELSE q[i + 1]
<1> DEFINE s == RemoveAt(q, k)
           At1(i) == IF i < k THEN i ELSE i + 1
           m == Len(q) - 1
<1>0. q \in Seq(Procs) /\ Len(q) \in Nat /\ \A i \in 1 .. Len(q) : q[i] \in Procs
  BY DEF Linked
<1>1. /\ s \in Seq(Procs) /\ Len(s) = Len(q) - 1
      /\ \A i \in 1 .. Len(q) - 1 : s[i] = IF i < k THEN q[i] ELSE q[i + 1]
  BY <1>0, Removed
<1> HIDE DEF s
<1>2. \A i \in 1 .. m : s[i] = q[At1(i)] /\ At1(i) \in 1 .. Len(q) /\ At1(i) # k
  BY <1>0, <1>1
<1>3. \A i, l \in 1 .. m : At1(i) = At1(l) => i = l
  OBVIOUS
<1>4. \A i \in 1 .. m : /\ After(s, i) \in 1 .. m
                       /\ At1(After(s, i)) = IF After(q, At1(i)) = k THEN After(q, k) ELSE After(q, At1(i))
  BY <1>0, <1>1 DEF After
<1>5. After(q, j) = k /\ After(q, j) \in 1 .. Len(q) /\ j # k
  <2>1. After(q, j) \in 1 .. Len(q)
    BY <1>0 DEF After
  <2>2. q[After(q, j)] = q[k]
    BY DEF Linked
  <2>3. After(q, j) = k
    BY <2>1, <2>2 DEF Linked
  <2> QED BY <1>0, <2>1, <2>3 DEF After
<1>6. \A i \in 1 .. Len(q) : After(q, i) = k => i = j
  BY <1>0, <1>5 DEF After
<1> HIDE DEF At1, m
<1>7. \A i, l \in 1 .. m : s[i] = s[l] => i = l
  BY <1>2, <1>3 DEF Linked
<1>8. ASSUME NEW i \in 1 .. m PROVE ny[s[i]] = s[After(s, i)]
  <2>1. s[After(s, i)] = q[At1(After(s, i))] /\ s[i] = q[At1(i)] /\ q[At1(i)] # q[k]
        /\ q[At1(i)] \in Procs /\ q[k] \in Procs /\ q[j] \in Procs /\ q[j] # q[k]
    BY <1>0, <1>2, <1>4, <1>5 DEF Linked
  <2>2. nx[q[At1(i)]] = q[After(q, At1(i))] /\ nx[q[k]] = q[After(q, k)]
    BY <1>2 DEF Linked
  <2>3. CASE After(q, At1(i)) = k
    <3>1. At1(i) = j
      BY <1>2, <1>6, <2>3
    <3>2. ny[q[j]] = nx[q[k]]
      BY <2>1
    <3> QED BY <1>4, <2>1, <2>2, <2>3, <3>1, <3>2
  <2>4. CASE After(q, At1(i)) # k
    <3>1. At1(i) # j
      BY <1>5, <2>4
    <3>2. q[At1(i)] # q[j]
      BY <1>2, <3>1 DEF Linked
    <3>3. ny[q[At1(i)]] = nx[q[At1(i)]]
      BY <2>1, <3>2
    <3> QED BY <1>4, <2>1, <2>2, <2>4, <3>3
  <2> QED BY <2>3, <2>4
<1>9. Linked(s, ny)
  BY <1>1, <1>7, <1>8 DEF Linked, m
<1> QED BY <1>1, <1>9 DEF s

-------------------------------------------------------------------------------
(* The inductive invariant. *)

OnRing(q, p) == \E i \in 1 .. Len(q) : q[i] = p

\* The list is the ring q: plist is its head, firstProc its tail, pcurrent is on it,
\* and it has exactly the processes that were added and not yet taken off.
IsRing(q) ==
  /\ Linked(q, pnext)
  /\ Len(q) = 0 => plist = NULL /\ firstProc = NULL /\ pcurrent = NULL
  /\ Len(q) > 0 => plist = q[1] /\ firstProc = q[Len(q)] /\ OnRing(q, pcurrent)
  /\ \A p \in Procs : life[p] = "queued" <=> OnRing(q, p)

RingInv == \E q : IsRing(q)

\* Process states on the list: exit leaves its caller RUNNING, which is ZOMBIE.
ReadyInv == \A p \in Procs : life[p] = "queued" => state[p] \in {READY, RUNNING}

\* Until the interrupt table is loaded only kernel_main runs, and it has no more
\* than to add itself and the idle process.
BootInv ==
  /\ ~idt => /\ cpu.eip = KernelMain /\ ~isr.on
             /\ pc[KernelMain] \in {"boot_add", "ensure_idle", "boot_irq"}
             /\ \A t \in Procs : t # KernelMain => pc[t] = "run"
  /\ idt => \A t \in Procs : pc[t] \notin {"boot_add", "ensure_idle", "boot_irq"}
  /\ pc[KernelMain] = "boot_add" => life[KernelMain] = "private"
  /\ idle_process = NULL <=> pc[KernelMain] \in {"boot_add", "ensure_idle"}
  /\ idle_process = NULL => life[Idle] = "unborn"
  /\ life[KernelMain] # "unborn"

Adding(t) == pc[t] \in {"fork_add", "exec_add"}

\* A process that a thread is about to add is known to that thread only.
AddInv ==
  /\ \A t \in Procs : Adding(t) =>
       /\ life[call[t].child] = "private" /\ call[t].child \notin {Idle, KernelMain}
       /\ ctx[call[t].child].eip = NULL
  /\ \A s, t \in Procs : Adding(s) /\ Adding(t) /\ call[s].child = call[t].child => s = t

\* The scan of destroy_all_zombie is not interrupted, and its cursor is on the list.
ScanInv ==
  \A t \in Procs : pc[t] = "reap" =>
    ~intr /\ ~isr.on /\ cpu.eip = t /\ life[call[t].cursor] = "queued"

Pending(p) == p \in Procs /\ life[p] = "pending"

\* The chains of processes that wait for their deletion, one for each thread, have
\* no process in common with each other or with the list.
ChainInv ==
  /\ \A t \in Procs : call[t].pending # NULL => Pending(call[t].pending)
  /\ \A p \in Procs : Pending(p) => pnext[p] = NULL \/ Pending(pnext[p])
  /\ \A s, t \in Procs : call[s].pending = call[t].pending /\ call[t].pending # NULL => s = t
  /\ \A p, r \in Procs : Pending(p) /\ Pending(r) /\ pnext[p] = pnext[r] /\ pnext[p] # NULL => p = r
  /\ \A t, p \in Procs : Pending(p) /\ call[t].pending # NULL => pnext[p] # call[t].pending

\* The saved thread of p is its own, none, or that of a process that wait has destroyed.
Owns(p) == ctx[p].eip \in {p, NULL} \/ Dead(ctx[p].eip)

\* Nothing else happens during the search of schedule, which never leaves pcurrent.
IsrInv == isr.on => ~intr /\ isr.n = pcurrent /\ pcurrent # NULL /\ Owns(pcurrent)

CpuInv ==
  /\ cpu.eip \in Procs =>
       life[cpu.eip] = "queued" \/ Dead(cpu.eip) \/ pc[KernelMain] = "boot_add"
  /\ pcurrent # NULL /\ ~Dead(cpu.eip) => cpu.eip \in {pcurrent, NULL}
  /\ \A p \in Procs : life[p] = "queued" /\ p # pcurrent => Owns(p)

ThreadInv == ReadyInv /\ BootInv /\ AddInv /\ ScanInv /\ ChainInv /\ IsrInv /\ CpuInv

\* What a step does to the ring: nothing, a switch to the next process, a process
\* that joins at the tail, or one that leaves.
QueueStep(q) ==
  \/ IsRing(q)' /\ pcurrent' = pcurrent
  \/ IsRing(q)' /\ pcurrent # NULL /\ pcurrent' = pnext[pcurrent]
  \/ \E p \in Procs : /\ life[p] # "queued" /\ IsRing(Append(q, p))'
                      /\ pcurrent' = IF pcurrent = NULL THEN p ELSE pcurrent
  \/ \E i \in 1 .. Len(q) :
       /\ IsRing(RemoveAt(q, i))'
       /\ pcurrent' = IF pcurrent # q[i] THEN pcurrent
                      ELSE IF Len(q) = 1 THEN NULL ELSE pnext[q[i]]

-------------------------------------------------------------------------------
(* What the operations do to the ring. *)

\* What is on the ring is a process, and pcurrent is null only when it is empty.
LEMMA RingFacts ==
  ASSUME NEW q, IsRing(q)
  PROVE  /\ q \in Seq(Procs) /\ Len(q) \in Nat /\ \A i \in 1 .. Len(q) : q[i] \in Procs
         /\ \A i \in 1 .. Len(q) : After(q, i) \in 1 .. Len(q) /\ pnext[q[i]] = q[After(q, i)]
         /\ \A p \in Procs : life[p] = "queued" =>
              /\ pnext[p] \in Procs /\ life[pnext[p]] = "queued"
              /\ pcurrent # NULL /\ plist # NULL
         /\ pcurrent = NULL <=> Len(q) = 0
         /\ plist = NULL <=> Len(q) = 0
         /\ pcurrent # NULL => pcurrent \in Procs /\ life[pcurrent] = "queued"
<1>1. q \in Seq(Procs) /\ Len(q) \in Nat /\ \A i \in 1 .. Len(q) : q[i] \in Procs
  BY DEF IsRing, Linked
<1>2. \A i \in 1 .. Len(q) : After(q, i) \in 1 .. Len(q) /\ pnext[q[i]] = q[After(q, i)]
  BY <1>1 DEF IsRing, Linked, After
<1>3. CASE Len(q) = 0
  BY <1>1, <1>2, <1>3 DEF IsRing, OnRing
<1>4. CASE Len(q) # 0
  <2>1. Len(q) > 0 /\ 1 \in 1 .. Len(q)
    BY <1>1, <1>4
  <2>2. plist \in Procs /\ OnRing(q, pcurrent)
    BY <1>1, <2>1 DEF IsRing
  <2>3. pcurrent \in Procs /\ life[pcurrent] = "queued"
    BY <1>1, <2>2 DEF IsRing, OnRing
  <2>4. ASSUME NEW p \in Procs, life[p] = "queued"
        PROVE  pnext[p] \in Procs /\ life[pnext[p]] = "queued"
    <3>1. PICK i \in 1 .. Len(q) : q[i] = p
      BY <2>4 DEF IsRing, OnRing
    <3>2. pnext[p] \in Procs /\ OnRing(q, pnext[p])
      BY <1>1, <1>2, <3>1 DEF OnRing
    <3> QED BY <3>2 DEF IsRing
  <2> QED BY <1>1, <1>2, <1>4, <2>2, <2>3, <2>4, SchedulerAssumption
<1> QED BY <1>3, <1>4

\* A step that leaves the pointers of the ring alone, and may hand over to the next.
LEMMA RingSame ==
  ASSUME NEW q, IsRing(q), plist' = plist, firstProc' = firstProc,
         \A p \in Procs : life[p] = "queued" => pnext'[p] = pnext[p],
         \A p \in Procs : life'[p] = "queued" <=> life[p] = "queued",
         pcurrent' = pcurrent \/ (pcurrent # NULL /\ pcurrent' = pnext[pcurrent])
  PROVE  IsRing(q)'
<1>0. /\ q \in Seq(Procs) /\ Len(q) \in Nat /\ \A i \in 1 .. Len(q) : q[i] \in Procs
      /\ \A p \in Procs : life[p] = "queued" =>
           pnext[p] \in Procs /\ life[pnext[p]] = "queued" /\ pcurrent # NULL
      /\ pcurrent = NULL <=> Len(q) = 0
      /\ pcurrent # NULL => pcurrent \in Procs /\ life[pcurrent] = "queued"
  BY RingFacts
<1>1. \A i \in 1 .. Len(q) : life[q[i]] = "queued"
  BY <1>0 DEF IsRing, OnRing
<1>2. Linked(q, pnext')
  <2>1. Linked(q, pnext) /\ \A i \in 1 .. Len(q) : pnext'[q[i]] = pnext[q[i]]
    BY <1>0, <1>1 DEF IsRing
  <2> QED BY <2>1, LinkedSame
<1>3. Len(q) = 0 => plist' = NULL /\ firstProc' = NULL /\ pcurrent' = NULL
  BY <1>0 DEF IsRing
<1>4. Len(q) > 0 => OnRing(q, pcurrent')
  <2> SUFFICES ASSUME Len(q) > 0 PROVE OnRing(q, pcurrent')
    OBVIOUS
  <2>1. pcurrent' \in Procs /\ life[pcurrent'] = "queued"
    BY <1>0
  <2> QED BY <2>1 DEF IsRing
<1>5. \A p \in Procs : life'[p] = "queued" <=> OnRing(q, p)
  BY DEF IsRing
<1>6. Len(q) > 0 => plist' = q[1] /\ firstProc' = q[Len(q)]
  BY DEF IsRing
<1> QED BY <1>2, <1>3, <1>4, <1>5, <1>6 DEF IsRing

\* enqueue_process: p joins the ring at its tail.
LEMMA RingEnqueue ==
  ASSUME TypeOK, NEW q, IsRing(q), NEW p \in Procs, life[p] # "queued",
         NEW mk \in BOOLEAN, mk => plist = NULL,
         enqueue_process(p, mk), life' = [life EXCEPT ![p] = "queued"]
  PROVE  /\ IsRing(Append(q, p))'
         /\ pcurrent' = IF pcurrent = NULL THEN p ELSE pcurrent
         /\ \A r \in Procs : r # p /\ life[r] # "queued" => pnext'[r] = pnext[r]
<1> DEFINE s == Append(q, p)
<1>0. /\ q \in Seq(Procs) /\ Len(q) \in Nat /\ \A i \in 1 .. Len(q) : q[i] \in Procs
      /\ (pcurrent = NULL <=> Len(q) = 0) /\ (plist = NULL <=> Len(q) = 0)
  BY RingFacts
<1>1. /\ plist' = IF plist = NULL THEN p ELSE plist
      /\ firstProc' = p
      /\ pnext' = IF plist = NULL THEN [pnext EXCEPT ![p] = p]
                  ELSE [pnext EXCEPT ![p] = plist, ![firstProc] = p]
      /\ pcurrent' = IF pcurrent = NULL THEN p ELSE pcurrent
  BY <1>0 DEF enqueue_process
<1>2. \A i \in 1 .. Len(q) : q[i] # p /\ life[q[i]] = "queued"
  BY <1>0 DEF IsRing, OnRing
<1>3. pnext' = IF Len(q) = 0 THEN [pnext EXCEPT ![p] = p]
               ELSE [pnext EXCEPT ![p] = q[1], ![q[Len(q)]] = p]
  <2>1. CASE Len(q) = 0
    BY <1>0, <1>1, <2>1
  <2>2. CASE Len(q) # 0
    <3>1. plist # NULL /\ plist = q[1] /\ firstProc = q[Len(q)]
      BY <1>0, <2>2 DEF IsRing
    <3> QED BY ONLY <1>1, <2>2, <3>1
  <2> QED BY <2>1, <2>2
<1>4. /\ Linked(s, pnext') /\ Len(s) = Len(q) + 1
      /\ \A i \in 1 .. Len(q) : s[i] = q[i]
      /\ s[Len(q) + 1] = p
  <2>1. Linked(q, pnext) /\ pnext \in [Procs -> Ptr]
    BY DEF IsRing, TypeOK
  <2>2. \A i \in 1 .. Len(q) : q[i] # p
    BY <1>2
  <2> QED BY ONLY p \in Procs, <1>3, <2>1, <2>2, LinkedAppend
<1> HIDE DEF s
<1>5. \A r : OnRing(s, r) <=> r = p \/ OnRing(q, r)
  BY <1>0, <1>4 DEF OnRing
<1>6. \A r \in Procs : life'[r] = "queued" <=> OnRing(s, r)
  BY <1>5 DEF IsRing, TypeOK
<1>7. Len(s) > 0 /\ Len(s) # 0 /\ plist' = s[1] /\ firstProc' = s[Len(s)]
  BY <1>0, <1>1, <1>4 DEF IsRing
<1>8. OnRing(s, pcurrent')
  BY <1>0, <1>1, <1>5 DEF IsRing
<1>9. IsRing(s)'
  BY <1>4, <1>6, <1>7, <1>8 DEF IsRing
<1>10. \A r \in Procs : r # p /\ life[r] # "queued" => pnext'[r] = pnext[r]
  <2>1. Len(q) # 0 => q[Len(q)] \in Procs /\ life[q[Len(q)]] = "queued"
    BY <1>0, <1>2
  <2> QED BY <1>3, <2>1 DEF TypeOK
<1> QED BY <1>1, <1>9, <1>10 DEF s

\* remove_process: c leaves the ring, and its pointer becomes the link of the chain.
LEMMA RingRemove ==
  ASSUME TypeOK, NEW q, IsRing(q), NEW c \in Procs, life[c] = "queued", NEW chain \in Ptr,
         remove_process(c, chain), life' = [life EXCEPT ![c] = "pending"]
  PROVE  /\ \E i \in 1 .. Len(q) :
              /\ IsRing(RemoveAt(q, i))' /\ q[i] = c
              /\ pcurrent' = IF pcurrent # q[i] THEN pcurrent
                             ELSE IF Len(q) = 1 THEN NULL ELSE pnext[q[i]]
         /\ pnext'[c] = chain
         /\ \A r \in Procs : r # c /\ life[r] # "queued" => pnext'[r] = pnext[r]
         /\ plist' # NULL => pnext[c] # c
<1>0. /\ q \in Seq(Procs) /\ Len(q) \in Nat /\ \A i \in 1 .. Len(q) : q[i] \in Procs
      /\ \A i \in 1 .. Len(q) : After(q, i) \in 1 .. Len(q) /\ pnext[q[i]] = q[After(q, i)]
  BY RingFacts
<1>1. PICK k \in 1 .. Len(q) : q[k] = c
  BY DEF IsRing, OnRing
<1>2. /\ Linked(q, pnext) /\ pnext \in [Procs -> Ptr] /\ life \in [Procs -> Lives]
      /\ Len(q) > 0 /\ plist = q[1] /\ firstProc = q[Len(q)] /\ OnRing(q, pcurrent)
  BY <1>0 DEF IsRing, TypeOK
<1>3. \A r : OnRing(RemoveAt(q, k), r) <=> r # c /\ OnRing(q, r)
  <2> DEFINE s == RemoveAt(q, k)
  <2>1. /\ Len(s) = Len(q) - 1
        /\ \A i \in 1 .. Len(q) - 1 : s[i] = IF i < k THEN q[i] ELSE q[i + 1]
    BY <1>0, Removed
  <2> HIDE DEF s
  <2>2. ASSUME NEW r, OnRing(s, r) PROVE r # c /\ OnRing(q, r)
    <3>1. PICK i \in 1 .. Len(q) - 1 : r = IF i < k THEN q[i] ELSE q[i + 1]
      BY <2>1, <2>2 DEF OnRing
    <3>2. i \in 1 .. Len(q) /\ i + 1 \in 1 .. Len(q) /\ (i < k => i # k) /\ (~(i < k) => i + 1 # k)
      BY <1>0
    <3> QED BY <1>1, <1>2, <3>1, <3>2 DEF Linked, OnRing
  <2>3. ASSUME NEW r, r # c, OnRing(q, r) PROVE OnRing(s, r)
    <3>1. PICK i \in 1 .. Len(q) : r = q[i]
      BY <2>3 DEF OnRing
    <3>2. i # k
      BY <1>1, <2>3, <3>1
    <3>3. CASE i < k
      <4>1. i \in 1 .. Len(q) - 1
        BY <1>0, <3>3
      <4> QED BY <2>1, <3>1, <3>3, <4>1 DEF OnRing
    <3>4. CASE i > k
      <4>1. i - 1 \in 1 .. Len(q) - 1 /\ ~(i - 1 < k) /\ (i - 1) + 1 = i
        BY <1>0, <3>4
      <4> QED BY <2>1, <3>1, <4>1 DEF OnRing
    <3> QED BY <1>0, <3>2, <3>3, <3>4
  <2> QED BY <2>2, <2>3 DEF s
<1>4. \A r \in Procs : life'[r] = "queued" <=> OnRing(RemoveAt(q, k), r)
  BY <1>2, <1>3 DEF IsRing
<1>5. CASE Len(q) = 1
  <2>1. k = 1 /\ After(q, 1) = 1 /\ c = plist /\ pnext[c] = c /\ pcurrent = c
    BY <1>0, <1>1, <1>2, <1>5 DEF After, OnRing
  <2>2. /\ plist' = NULL /\ firstProc' = NULL /\ pcurrent' = NULL
        /\ pnext' = [pnext EXCEPT ![c] = chain]
    BY <2>1 DEF remove_process
  <2>3. RemoveAt(q, k) \in Seq(Procs) /\ Len(RemoveAt(q, k)) = 0
    <3>1. Len(RemoveAt(q, k)) = Len(q) - 1 /\ RemoveAt(q, k) \in Seq(Procs)
      BY ONLY <1>0, k \in 1 .. Len(q), Removed
    <3> QED BY ONLY <1>5, <3>1
  <2>4. Linked(RemoveAt(q, k), pnext')
    BY <2>3 DEF Linked
  <2>5. IsRing(RemoveAt(q, k))'
    BY <1>4, <2>2, <2>3, <2>4 DEF IsRing
  <2> QED BY <1>1, <1>2, <1>5, <2>1, <2>2, <2>5
<1>6. CASE Len(q) # 1
  <2>0. Len(q) > 1
    <3>1. Len(q) \in Nat /\ Len(q) > 0 /\ Len(q) # 1
      BY <1>0, <1>2, <1>6
    <3> QED BY ONLY <3>1
  <2> DEFINE prev == find_previous(c)
  <2>1. RingSet = {q[i] : i \in 1 .. Len(q)}
    <3>1. RingSetOf(plist, pnext) = {q[i] : i \in 1 .. Len(q)}
      <4>1. Linked(q, pnext) /\ plist = IF Len(q) = 0 THEN NULL ELSE q[1]
        BY <1>0, <1>2
      <4> QED BY ONLY <4>1, RingWalk
    <3>2. RingSet = RingSetOf(plist, pnext)
      BY DEF RingSet, RingSetOf, Walk, WalkOf, WalkSteps
    <3> QED BY <3>1, <3>2
  <2>2. \E j \in 1 .. Len(q) : pnext[q[j]] = c
    <3> DEFINE j == IF k = 1 THEN Len(q) ELSE k - 1
    <3>1. j \in 1 .. Len(q) /\ After(q, j) = k
      BY <1>0 DEF After
    <3> HIDE DEF j
    <3> QED BY <1>0, <1>1, <3>1
  <2>3. prev \in RingSet /\ pnext[prev] = c
    <3>1. \E r \in RingSet : pnext[r] = c
      BY <2>1, <2>2
    <3> QED BY <3>1 DEF find_previous
  <2> HIDE DEF prev
  <2>4. PICK j \in 1 .. Len(q) : q[j] = prev
    BY <2>1, <2>3
  <2>5. After(q, j) = k /\ j # k
    <3>1. q[After(q, j)] = q[k] /\ After(q, j) \in 1 .. Len(q)
      BY <1>0, <1>1, <2>3, <2>4
    <3>2. After(q, j) = k
      BY <1>2, <3>1 DEF Linked
    <3> QED BY <1>0, <2>0, <3>2 DEF After
  <2>6. pnext[c] # c /\ prev # NULL /\ prev \in Procs /\ prev # c
    <3>1. pnext[c] = q[After(q, k)] /\ After(q, k) # k /\ After(q, k) \in 1 .. Len(q)
      BY <1>0, <1>1, <2>0 DEF After
    <3>2. pnext[c] # c
      BY <1>1, <1>2, <3>1 DEF Linked
    <3>3. prev \in Procs /\ prev # c
      BY <1>0, <2>3, <2>4, <3>2
    <3> QED BY <3>2, <3>3, SchedulerAssumption
  <2>7. /\ plist' = IF plist = c THEN pnext[c] ELSE plist
        /\ firstProc' = IF firstProc = c THEN prev ELSE firstProc
        /\ pcurrent' = IF pcurrent = c THEN pnext[c] ELSE pcurrent
        /\ pnext' = [pnext EXCEPT ![prev] = pnext[c], ![c] = chain]
    BY <2>6 DEF remove_process, prev
  <2> DEFINE s == RemoveAt(q, k)
  <2>8. /\ Linked(s, pnext') /\ Len(s) = Len(q) - 1
        /\ \A i \in 1 .. Len(q) - 1 : s[i] = IF i < k THEN q[i] ELSE q[i + 1]
    <3>1. /\ Len(q) > 1 /\ pnext[q[j]] = q[k]
          /\ pnext' = [pnext EXCEPT ![q[j]] = pnext[q[k]], ![q[k]] = chain]
      BY <1>1, <2>0, <2>3, <2>4, <2>7
    <3> QED BY ONLY <1>2, <3>1, k \in 1 .. Len(q), j \in 1 .. Len(q), chain \in Ptr, LinkedRemove
  <2>9. \A r : OnRing(s, r) <=> r # c /\ OnRing(q, r)
    BY <1>3
  <2>10. \A r \in Procs : life'[r] = "queued" <=> OnRing(s, r)
    BY <1>4
  <2> HIDE DEF s
  <2>11. Len(s) > 0 /\ Len(s) # 0 /\ 1 \in 1 .. Len(s) /\ Len(s) \in 1 .. Len(s)
    BY <1>0, <2>0, <2>8
  <2>12. plist' = s[1]
    <3>1. CASE k = 1
      <4>1. plist = c /\ After(q, 1) = 2 /\ s[1] = q[2] /\ 1 \in 1 .. Len(q)
        BY <1>0, <1>1, <1>2, <1>6, <2>8, <3>1 DEF After
      <4> QED BY <1>0, <1>1, <2>7, <3>1, <4>1
    <3>2. CASE k # 1
      <4>1. 1 \in 1 .. Len(q) /\ 1 < k /\ s[1] = q[1]
        BY <1>0, <2>8, <2>11, <3>2
      <4>2. plist # c
        BY <1>1, <1>2, <3>2, <4>1 DEF Linked
      <4> QED BY <1>2, <2>7, <4>1, <4>2
    <3> QED BY <3>1, <3>2
  <2>13. firstProc' = s[Len(s)]
    <3>1. CASE k = Len(q)
      <4>1. firstProc = c /\ j = Len(q) - 1 /\ s[Len(s)] = q[Len(q) - 1]
        BY <1>0, <1>1, <1>2, <1>6, <2>5, <2>8, <2>11, <3>1 DEF After
      <4> QED BY <2>4, <2>7, <4>1
    <3>2. CASE k # Len(q)
      <4>1. Len(q) \in 1 .. Len(q) /\ s[Len(s)] = q[Len(q)]
        <5>1. Len(q) \in Nat /\ Len(s) = Len(q) - 1 /\ ~(Len(s) < k) /\ Len(s) + 1 = Len(q)
          BY <1>0, <2>8, <3>2
        <5>2. Len(q) - 1 \in 1 .. Len(q) - 1
          BY <1>0, <2>0
        <5> QED BY <1>0, <2>0, <2>8, <5>1, <5>2
      <4>2. firstProc # c
        BY <1>1, <1>2, <3>2, <4>1 DEF Linked
      <4> QED BY <1>2, <2>7, <4>1, <4>2
    <3> QED BY <3>1, <3>2
  <2>14. OnRing(s, pcurrent')
    <3>1. OnRing(q, pnext[c])
      BY <1>0, <1>1 DEF OnRing
    <3> QED BY <1>2, <2>6, <2>7, <2>9, <3>1
  <2>15. IsRing(s)'
    BY <2>8, <2>10, <2>11, <2>12, <2>13, <2>14 DEF IsRing
  <2>16. \A r \in Procs : r # c /\ life[r] # "queued" => pnext'[r] = pnext[r]
    <3>1. life[prev] = "queued"
      BY <2>4, <2>6 DEF IsRing, OnRing
    <3> QED BY <1>2, <2>7, <3>1
  <2> QED BY <1>1, <1>2, <1>6, <2>6, <2>7, <2>15, <2>16 DEF s
<1> QED BY <1>5, <1>6

-------------------------------------------------------------------------------
(* The steps. *)

\* A step that leaves the list alone.
LEMMA ListSame ==
  ASSUME NEW q, IsRing(q), UNCHANGED <<plist, firstProc, pnext, pcurrent>>,
         \A p \in Procs : life'[p] = "queued" <=> life[p] = "queued"
  PROVE  QueueStep(q)
<1>1. IsRing(q)'
  BY RingSame
<1> QED BY <1>1 DEF QueueStep

\* Only kernel_main is running before the interrupt table is loaded.
LEMMA AfterBoot ==
  ASSUME BootInv, NEW t \in Procs, cpu.eip = t, pc[t] \notin {"boot_add", "ensure_idle", "boot_irq"}
  PROVE  idt /\ idle_process # NULL /\ pc[KernelMain] \notin {"boot_add", "ensure_idle", "boot_irq"}
BY SchedulerAssumption DEF BootInv

\* The steps of calls that change no more than the control, the locals of the thread
\* and the state of pcurrent.
LEMMA LocalStep ==
  ASSUME SchedInv, ThreadInv, NEW q, IsRing(q), NEW t \in Procs, ~isr.on, cpu.eip = t,
         pc[t] \notin {"boot_add", "ensure_idle", "boot_irq"},
         NEW label \in {"run", "sig_parent", "wait_spin", "del", "reap", "sysret"},
         pc' = [pc EXCEPT ![t] = label],
         NEW local \in Locals, call' = [call EXCEPT ![t] = local],
         local.pending \in {NULL, call[t].pending},
         label = "reap" => ~intr' /\ life[local.cursor] = "queued",
         ReadyInv',
         UNCHANGED <<plist, firstProc, pnext, pcurrent, idle_process, ctx, life, idt, cpu, isr>>
  PROVE  ThreadInv' /\ QueueStep(q)
<1>0. /\ ReadyInv /\ BootInv /\ AddInv /\ ScanInv /\ ChainInv /\ IsrInv /\ CpuInv
      /\ pc \in [Procs -> Labels] /\ call \in [Procs -> Locals]
  BY DEF ThreadInv, SchedInv, TypeOK, Locals
<1>1. idt /\ idle_process # NULL /\ pc[KernelMain] \notin {"boot_add", "ensure_idle", "boot_irq"}
  BY <1>0, AfterBoot
<1>2. pc'[t] = label /\ call'[t] = local
      /\ \A s \in Procs : s # t => pc'[s] = pc[s] /\ call'[s] = call[s]
  BY <1>0
<1>3. BootInv'
  BY <1>0, <1>1, <1>2, SchedulerAssumption DEF BootInv
<1>4. AddInv'
  BY <1>0, <1>2 DEF AddInv, Adding
<1>5. ScanInv'
  BY <1>0, <1>2 DEF ScanInv
<1>6. ChainInv'
  BY <1>0, <1>2 DEF ChainInv, Pending
<1>7. IsrInv' /\ CpuInv'
  BY <1>0, <1>1 DEF IsrInv, CpuInv, Owns, Dead
<1>8. QueueStep(q)
  BY ListSame
<1> QED BY <1>3, <1>4, <1>5, <1>6, <1>7, <1>8 DEF ThreadInv

\* fork and execv make a process that no other thread knows.
LEMMA NewStep ==
  ASSUME SchedInv, ThreadInv, NEW q, IsRing(q), NEW t \in Procs, At(t, "run"),
         NEW c \in Procs, NEW father, NEW st, NewProcess(c, father, st),
         NEW label \in {"fork_add", "exec_add"}, Goto(t, label),
         NEW local \in Locals, call' = [call EXCEPT ![t] = local],
         local.pending = NULL, local.child = c,
         UNCHANGED <<plist, firstProc, pnext, pcurrent, idle_process, idt, cpu, isr, intr>>
  PROVE  ThreadInv' /\ QueueStep(q)
<1>0. /\ ReadyInv /\ BootInv /\ AddInv /\ ScanInv /\ ChainInv /\ IsrInv /\ CpuInv
      /\ pc \in [Procs -> Labels] /\ call \in [Procs -> Locals] /\ life \in [Procs -> Lives]
      /\ ctx \in [Procs -> Context] /\ state \in [Procs -> {CHILD, RUNNING, SLEEPING, READY}]
  BY DEF ThreadInv, SchedInv, TypeOK, Locals
<1>1. /\ idt /\ idle_process # NULL /\ pc[KernelMain] \notin {"boot_add", "ensure_idle", "boot_irq"}
      /\ ~isr.on /\ cpu.eip = t /\ pc[t] = "run"
  BY <1>0, AfterBoot DEF At
<1>2. /\ pc'[t] = label /\ call'[t] = local
      /\ \A s \in Procs : s # t => pc'[s] = pc[s] /\ call'[s] = call[s]
  BY <1>0 DEF Goto
<1>3. /\ life[c] = "unborn" /\ c # Idle /\ c # KernelMain
      /\ life'[c] = "private" /\ ctx'[c].eip = NULL
      /\ \A p \in Procs : p # c => life'[p] = life[p] /\ ctx'[p] = ctx[p] /\ state'[p] = state[p]
  BY <1>0 DEF NewProcess, BootInv
<1>4. ReadyInv'
  BY <1>0, <1>3 DEF ReadyInv
<1>5. BootInv'
  BY <1>0, <1>1, <1>2, <1>3, SchedulerAssumption DEF BootInv
<1>6. AddInv'
  <2>1. \A s \in Procs : Adding(s) => call[s].child # c /\ call[s].child \in Procs
    BY <1>0, <1>3 DEF AddInv, Adding, SchedInv, ControlInv, Locals, Ptr
  <2>2. \A s \in Procs : Adding(s)' /\ s # t =>
          /\ Adding(s) /\ call'[s].child = call[s].child /\ call[s].child # c
          /\ life'[call[s].child] = life[call[s].child] /\ ctx'[call[s].child] = ctx[call[s].child]
    BY <1>2, <1>3, <2>1 DEF Adding
  <2> QED BY <1>0, <1>2, <1>3, <2>2 DEF AddInv
<1>7. ScanInv'
  BY <1>0, <1>1, <1>2 DEF ScanInv
<1>8. ChainInv'
  <2>1. \A p : Pending(p)' <=> Pending(p)
    BY <1>3 DEF Pending
  <2> QED BY <1>0, <1>2, <2>1 DEF ChainInv
<1>9. IsrInv'
  BY <1>1 DEF IsrInv
<1>10. CpuInv'
  <2>1. \A p : Dead(p)' <=> Dead(p)
    BY <1>3 DEF Dead
  <2>2. life[t] = "queued" \/ Dead(t)
    BY <1>0, <1>1 DEF CpuInv
  <2>3. t # c
    BY <1>3, <2>2 DEF Dead
  <2>4. \A p \in Procs : life'[p] = "queued" => p # c /\ life[p] = "queued"
    BY <1>3
  <2> QED BY <1>0, <1>1, <1>3, <2>1, <2>2, <2>3, <2>4 DEF CpuInv, Owns
<1>11. QueueStep(q)
  BY <1>3, ListSame
<1> QED BY <1>4, <1>5, <1>6, <1>7, <1>8, <1>9, <1>10, <1>11 DEF ThreadInv

\* A call to fork without memory.
LEMMA ForkFailsStep ==
  ASSUME SchedInv, ThreadInv, NEW q, IsRing(q), NEW t \in Procs, NEW c \in Procs, forkFails(t, c)
  PROVE  ThreadInv' /\ QueueStep(q)
<1>0. /\ ReadyInv /\ BootInv /\ AddInv /\ ScanInv /\ ChainInv /\ IsrInv /\ CpuInv
      /\ life \in [Procs -> Lives] /\ call \in [Procs -> Locals]
  BY DEF ThreadInv, SchedInv, TypeOK, Locals
<1>1. /\ ~isr.on /\ cpu.eip = t /\ pc[t] = "run" /\ life[c] = "unborn" /\ c # Idle
      /\ life' = [life EXCEPT ![c] = "freed"]
      /\ UNCHANGED <<plist, firstProc, pnext, pcurrent, idle_process, ticks_since_switch, state,
                     pparent, ctx, intr, idt, cpu, isr, pc, call>>
  BY DEF forkFails, Calls, At, ringVars
<1>2. idt /\ idle_process # NULL /\ c # KernelMain
  BY <1>0, <1>1, AfterBoot DEF BootInv
<1>3. \A p \in Procs : p # c => life'[p] = life[p]
  BY <1>0, <1>1
<1>4. life'[c] = "freed"
  BY <1>0, <1>1
<1>5. ReadyInv' /\ BootInv' /\ ScanInv' /\ IsrInv'
  BY <1>0, <1>1, <1>2, <1>3, <1>4, SchedulerAssumption DEF ReadyInv, BootInv, ScanInv, IsrInv
<1>6. AddInv'
  <2>1. \A s \in Procs : Adding(s) => call[s].child # c /\ call[s].child \in Procs
    BY <1>0, <1>1 DEF AddInv, Adding, SchedInv, ControlInv, Locals, Ptr
  <2> QED BY <1>0, <1>1, <1>3, <2>1 DEF AddInv, Adding
<1>7. ChainInv'
  <2>1. \A p : Pending(p)' <=> Pending(p)
    BY <1>1, <1>3, <1>4 DEF Pending
  <2> QED BY <1>0, <1>1, <2>1 DEF ChainInv
<1>8. CpuInv'
  <2>1. \A p : Dead(p) => Dead(p)'
    BY <1>1, <1>3 DEF Dead
  <2>2. t # c
    BY <1>0, <1>1, <1>2 DEF CpuInv, Dead, BootInv
  <2>3. \A p \in Procs : life'[p] = "queued" => life[p] = "queued"
    BY <1>3, <1>4
  <2> QED BY <1>0, <1>1, <1>3, <2>1, <2>2, <2>3 DEF CpuInv, Owns
<1>9. QueueStep(q)
  BY <1>1, <1>3, <1>4, ListSame
<1> QED BY <1>5, <1>6, <1>7, <1>8, <1>9 DEF ThreadInv

\* A process that only the running thread knows is added to the list.
LEMMA AddStep ==
  ASSUME SchedInv, ThreadInv, NEW q, IsRing(q), NEW t \in Procs, ~isr.on, cpu.eip = t,
         pc[t] # "reap",
         NEW p \in Procs, life[p] \in {"unborn", "private"},
         \A s \in Procs : Adding(s) /\ s # t => call[s].child # p,
         NEW mk \in BOOLEAN, mk => plist = NULL,
         enqueue_process(p, mk), life' = [life EXCEPT ![p] = "queued"],
         NEW label \in Labels, pc' = [pc EXCEPT ![t] = label],
         label \notin {"fork_add", "exec_add", "reap", "boot_add"},
         call' = call \/ call' = [call EXCEPT ![t] = NoCall],
         p = t \/ ctx'[p].eip = p \/ ctx'[p].eip = NULL, \A r \in Procs : r # p => ctx'[r] = ctx[r],
         p = t => pcurrent = NULL,
         pc[KernelMain] = "boot_add" => p = t,
         UNCHANGED <<cpu, isr>>, BootInv'
  PROVE  ThreadInv' /\ QueueStep(q)
<1>0. /\ ReadyInv /\ BootInv /\ AddInv /\ ScanInv /\ ChainInv /\ IsrInv /\ CpuInv
      /\ pc \in [Procs -> Labels] /\ call \in [Procs -> Locals] /\ life \in [Procs -> Lives]
      /\ ctx \in [Procs -> Context] /\ state \in [Procs -> {CHILD, RUNNING, SLEEPING, READY}]
      /\ TypeOK /\ ControlInv
  BY DEF ThreadInv, SchedInv, TypeOK, Locals
<1>1. /\ IsRing(Append(q, p))'
      /\ pcurrent' = IF pcurrent = NULL THEN p ELSE pcurrent
      /\ \A r \in Procs : r # p /\ life[r] # "queued" => pnext'[r] = pnext[r]
  <2>1. TypeOK /\ life[p] # "queued"
    BY <1>0
  <2> QED BY ONLY <2>1, IsRing(q), p \in Procs, mk \in BOOLEAN, mk => plist = NULL,
                  enqueue_process(p, mk), life' = [life EXCEPT ![p] = "queued"], RingEnqueue
<1>2. /\ pc'[t] = label /\ call'[t].pending \in {NULL, call[t].pending}
      /\ \A s \in Procs : s # t => pc'[s] = pc[s] /\ call'[s] = call[s]
  <2>1. NoCall.pending = NULL
    BY DEF NoCall
  <2> QED BY <1>0, <2>1
<1>3. life'[p] = "queued" /\ \A r \in Procs : r # p => life'[r] = life[r]
  BY <1>0
<1>4. ReadyInv'
  <2>1. state'[p] \in {READY, RUNNING}
    BY <1>0 DEF enqueue_process
  <2>2. \A r \in Procs : r # p /\ state[r] \in {READY, RUNNING} => state'[r] \in {READY, RUNNING}
    BY <1>0 DEF enqueue_process
  <2> QED BY <1>0, <1>3, <2>1, <2>2 DEF ReadyInv
<1>5. AddInv'
  <2>1. \A s \in Procs : Adding(s)' =>
          /\ s # t /\ Adding(s) /\ call'[s] = call[s]
          /\ call[s].child # p /\ call[s].child \in Procs
    BY <1>0, <1>2 DEF Adding, ControlInv, Locals, Ptr
  <2> QED BY <1>0, <1>3, <2>1 DEF AddInv
<1>6. ScanInv'
  BY <1>0, <1>2 DEF ScanInv
<1>7. ChainInv'
  <2>1. \A r : Pending(r)' <=> Pending(r)
    BY <1>3 DEF Pending
  <2>2. \A r \in Procs : Pending(r) => pnext'[r] = pnext[r]
    BY <1>1 DEF Pending
  <2>3. \A s \in Procs : call'[s].pending # NULL => call'[s].pending = call[s].pending
    BY <1>2
  <2> QED BY <1>0, <2>1, <2>2, <2>3 DEF ChainInv
<1>8. IsrInv'
  BY DEF IsrInv
<1>9. CpuInv'
  <2>1. \A r : Dead(r) => Dead(r)'
    BY <1>3 DEF Dead
  <2>2. ASSUME pcurrent = NULL PROVE p = t \/ Dead(t)
    <3>1. \A r \in Procs : life[r] # "queued"
      BY <2>2, RingFacts
    <3> QED BY <1>0, <3>1 DEF CpuInv
  <2>3. pcurrent # NULL /\ ~Dead(t) => t = pcurrent
    BY <1>0, SchedulerAssumption DEF CpuInv
  <2>4. t \in Procs /\ (p = t \/ life[t] = "queued" \/ Dead(t))
    BY <1>0 DEF CpuInv
  <2>5. life'[t] = "queued" \/ Dead(t)'
    BY <1>3, <2>1, <2>4
  <2>6. ~Dead(t)' => t = pcurrent'
    BY <1>1, <2>1, <2>2, <2>3
  <2>7. ASSUME NEW r \in Procs, life'[r] = "queued", r # pcurrent' PROVE Owns(r)'
    <3>1. CASE r = p
      BY <1>1, <2>7, <3>1 DEF Owns
    <3>2. CASE r # p
      <4>1. life[r] = "queued" /\ pcurrent # NULL
        BY <1>3, <2>7, <3>2, RingFacts
      <4>2. Owns(r)
        BY <1>0, <1>1, <2>7, <4>1 DEF CpuInv
      <4> QED BY <2>1, <3>2, <4>2 DEF Owns
    <3> QED BY <3>1, <3>2
  <2> QED BY <2>4, <2>5, <2>6, <2>7 DEF CpuInv
<1>10. QueueStep(q)
  <2>1. life[p] # "queued"
    OBVIOUS
  <2> QED BY <1>1, <2>1 DEF QueueStep
<1> QED BY <1>4, <1>5, <1>6, <1>7, <1>8, <1>9, <1>10 DEF ThreadInv

\* kmain adds kernel_main, then the idle process, and loads the interrupt table.
LEMMA BootStep ==
  ASSUME SchedInv, ThreadInv, NEW q, IsRing(q), NEW t \in Procs,
         BootAdd(t) \/ ensure_idle_process(t) \/ InitInterrupts(t)
  PROVE  ThreadInv' /\ QueueStep(q)
<1>0. /\ ReadyInv /\ BootInv /\ AddInv /\ ScanInv /\ ChainInv /\ IsrInv /\ CpuInv
      /\ pc \in [Procs -> Labels] /\ call \in [Procs -> Locals] /\ life \in [Procs -> Lives]
      /\ ctx \in [Procs -> Context] /\ TypeOK /\ KernelMain \in Procs /\ Idle \in Procs
      /\ KernelMain # Idle /\ NULL \notin Procs
  BY SchedulerAssumption DEF ThreadInv, SchedInv, TypeOK, Locals
<1>1. /\ ~isr.on /\ cpu.eip = t /\ pc[t] \in {"boot_add", "ensure_idle", "boot_irq"}
      /\ ~idt /\ t = KernelMain /\ \A s \in Procs : s # t => pc[s] = "run"
  BY <1>0 DEF BootAdd, ensure_idle_process, InitInterrupts, At, BootInv
<1>2. \A s \in Procs : ~Adding(s) /\ pc[s] # "reap"
  BY <1>1 DEF Adding
<1>3. CASE BootAdd(t)
  <2>1. /\ pc[t] = "boot_add" /\ enqueue_process(KernelMain, plist = NULL)
        /\ life' = [life EXCEPT ![KernelMain] = "queued"]
        /\ pc' = [pc EXCEPT ![t] = IF idle_process = NULL THEN "ensure_idle" ELSE "boot_irq"]
        /\ UNCHANGED <<idle_process, pparent, ctx, idt, cpu, isr, call>>
    BY <1>3 DEF BootAdd, At, addProcess, Goto
  <2>2. idle_process = NULL /\ life[Idle] = "unborn" /\ life[KernelMain] = "private"
    BY <1>0, <1>1, <2>1 DEF BootInv
  <2>3. pc' = [pc EXCEPT ![t] = "ensure_idle"]
    BY <2>1, <2>2
  <2>4. BootInv'
    BY <1>0, <1>1, <2>1, <2>2, <2>3 DEF BootInv
  <2>5. pcurrent = NULL
    <3>1. pcurrent # NULL => pcurrent \in Procs /\ life[pcurrent] = "queued"
      BY RingFacts
    <3>2. pcurrent # NULL => cpu.eip = pcurrent
      BY <1>0, <1>1, <2>2 DEF CpuInv, Dead
    <3> QED BY <1>1, <2>2, <3>1, <3>2
  <2>6. (plist = NULL) \in BOOLEAN
    OBVIOUS
  <2>7. "ensure_idle" \in Labels
    BY DEF Labels
  <2>8. \A r \in Procs : ctx'[r] = ctx[r]
    BY <2>1
  <2> QED BY <1>1, <1>2, <2>1, <2>2, <2>3, <2>4, <2>5, <2>6, <2>7, <2>8, AddStep
<1>4. CASE ensure_idle_process(t)
  <2>1. /\ pc[t] = "ensure_idle" /\ idle_process' = Idle /\ pc' = [pc EXCEPT ![t] = "boot_irq"]
        /\ UNCHANGED <<pparent, idt, cpu, isr, call>>
    BY <1>4 DEF ensure_idle_process, At, Goto
  <2>2. idle_process = NULL /\ life[Idle] = "unborn"
    BY <1>0, <1>1, <2>1 DEF BootInv
  <2>3. CASE /\ enqueue_process(Idle, FALSE) /\ life' = [life EXCEPT ![Idle] = "queued"]
             /\ ctx' = [ctx EXCEPT ![Idle] = [eip |-> Idle, esp |-> Idle]]
    <3>1. BootInv'
      BY <1>0, <1>1, <2>1, <2>2, <2>3 DEF BootInv
    <3>2. ctx'[Idle].eip = Idle /\ \A r \in Procs : r # Idle => ctx'[r] = ctx[r]
      BY <1>0, <2>3
    <3>3. "boot_irq" \in Labels /\ FALSE \in BOOLEAN /\ Idle # t /\ pc[KernelMain] # "boot_add"
      BY <1>0, <1>1, <2>1 DEF Labels
    <3> QED BY <1>0, <1>1, <1>2, <2>1, <2>2, <2>3, <3>1, <3>2, <3>3, AddStep
  <2>4. CASE /\ life' = [life EXCEPT ![Idle] = "private"]
             /\ UNCHANGED <<ringVars, pcurrent, state, ticks_since_switch, ctx, intr>>
    <3>1. /\ life'[Idle] = "private" /\ \A r \in Procs : r # Idle => life'[r] = life[r]
          /\ UNCHANGED <<plist, firstProc, pnext, pcurrent, state, ctx>>
      BY <1>0, <2>4 DEF ringVars
    <3>2. \A s \in Procs : pc'[s] # "reap" /\ pc'[s] \notin {"fork_add", "exec_add"}
      BY <1>0, <1>2, <2>1 DEF Adding
    <3>3. BootInv'
      BY <1>0, <1>1, <2>1, <2>2, <3>1 DEF BootInv
    <3>4. ReadyInv' /\ ScanInv' /\ AddInv' /\ IsrInv'
      BY <1>0, <1>1, <2>1, <3>1, <3>2 DEF ReadyInv, ScanInv, AddInv, Adding, IsrInv
    <3>5. ChainInv'
      <4>1. \A r : Pending(r)' <=> Pending(r)
        BY <2>2, <3>1 DEF Pending
      <4> QED BY <1>0, <2>1, <3>1, <4>1 DEF ChainInv
    <3>6. CpuInv'
      <4>1. \A r : Dead(r)' <=> Dead(r)
        BY <2>2, <3>1 DEF Dead
      <4>2. \A r \in Procs : life'[r] = "queued" <=> life[r] = "queued"
        BY <2>2, <3>1
      <4>3. pc[KernelMain] # "boot_add"
        BY <1>1, <2>1
      <4> QED BY <1>0, <1>1, <2>1, <3>1, <4>1, <4>2, <4>3 DEF CpuInv, Owns
    <3>7. QueueStep(q)
      BY <2>2, <3>1, ListSame
    <3> QED BY <3>3, <3>4, <3>5, <3>6, <3>7 DEF ThreadInv
  <2> QED BY <1>4, <2>3, <2>4 DEF ensure_idle_process
<1>5. CASE InitInterrupts(t)
  <2>1. /\ pc[t] = "boot_irq" /\ idt' = TRUE /\ pc' = [pc EXCEPT ![t] = "run"]
        /\ UNCHANGED <<plist, firstProc, pnext, pcurrent, idle_process, state, ctx, life, cpu,
                       isr, call>>
    BY <1>5 DEF InitInterrupts, At, Goto, ringVars
  <2>2. \A s \in Procs : pc'[s] = "run"
    BY <1>0, <1>1, <2>1
  <2>3. BootInv'
    BY <1>0, <1>1, <2>1, <2>2 DEF BootInv
  <2>4. ReadyInv' /\ ScanInv' /\ AddInv' /\ IsrInv' /\ ChainInv'
    BY <1>0, <1>1, <2>1, <2>2
       DEF ReadyInv, ScanInv, AddInv, Adding, IsrInv, ChainInv, Pending
  <2>5. CpuInv'
    BY <1>0, <1>1, <2>1 DEF CpuInv, Owns, Dead
  <2>6. QueueStep(q)
    BY <2>1, ListSame
  <2> QED BY <2>3, <2>4, <2>5, <2>6 DEF ThreadInv
<1> QED BY <1>3, <1>4, <1>5

\* The steps of fork, execv and exit.
LEMMA CallStep ==
  ASSUME SchedInv, ThreadInv, NEW q, IsRing(q), NEW t \in Procs,
         \/ forkAdd(t) \/ create(t) \/ SignalParent(t) \/ exit(t)
         \/ \E c \in Procs : fork(t, c) \/ forkFails(t, c) \/ execv(t, c)
  PROVE  ThreadInv' /\ QueueStep(q)
<1>0. /\ ReadyInv /\ BootInv /\ AddInv
      /\ pc \in [Procs -> Labels] /\ call \in [Procs -> Locals] /\ life \in [Procs -> Lives]
      /\ ctx \in [Procs -> Context] /\ state \in [Procs -> {CHILD, RUNNING, SLEEPING, READY}]
      /\ TypeOK /\ ControlInv /\ NoCall \in Locals /\ NoCall.pending = NULL
  BY DEF ThreadInv, SchedInv, TypeOK, Locals, NoCall, Ptr
<1>1. ASSUME NEW after \in {"sig_parent", "run"}, addProcess(t, call[t].child, after),
             ~isr.on, cpu.eip = t, Adding(t),
             UNCHANGED <<idle_process, ctx, idt, cpu, isr>>,
             call' = call \/ call' = [call EXCEPT ![t] = NoCall]
      PROVE  ThreadInv' /\ QueueStep(q)
  <2> DEFINE p == call[t].child
  <2>1. /\ p \in Procs /\ life[p] = "private" /\ ctx[p].eip = NULL /\ p \notin {Idle, KernelMain}
        /\ \A s \in Procs : Adding(s) /\ s # t => call[s].child # p
    BY <1>0, <1>1 DEF AddInv, ControlInv, Adding, Locals, Ptr
  <2>2. idt /\ idle_process # NULL /\ pc[KernelMain] \notin {"boot_add", "ensure_idle", "boot_irq"}
    BY <1>0, <1>1, AfterBoot DEF Adding
  <2> HIDE DEF p
  <2>3. /\ enqueue_process(p, plist = NULL) /\ life' = [life EXCEPT ![p] = "queued"]
        /\ pc' = [pc EXCEPT ![t] = after]
    BY <1>1, <2>2 DEF addProcess, Goto, p
  <2>4. BootInv'
    BY <1>0, <1>1, <2>1, <2>2, <2>3, SchedulerAssumption DEF BootInv
  <2>5. (plist = NULL) \in BOOLEAN /\ pc[t] # "reap" /\ ctx'[p].eip = NULL
        /\ (\A r \in Procs : ctx'[r] = ctx[r]) /\ after \in Labels
        /\ after \notin {"fork_add", "exec_add", "reap", "boot_add"}
    BY <1>1, <2>1 DEF Adding, Labels
  <2>6. p = t => pcurrent = NULL
    <3>1. CpuInv
      BY DEF ThreadInv
    <3>2. life[t] = "queued" \/ Dead(t)
      BY <1>1, <2>2, <3>1 DEF CpuInv
    <3> QED BY <2>1, <3>2 DEF Dead
  <2>7. life[p] \in {"unborn", "private"}
    BY <2>1
  <2> QED BY <1>1, <2>1, <2>2, <2>3, <2>4, <2>5, <2>6, <2>7, AddStep
<1>2. CASE forkAdd(t)
  BY <1>1, <1>2 DEF forkAdd, At, Adding
<1>3. CASE create(t)
  BY <1>1, <1>3 DEF create, At, Adding, Return
<1>4. CASE SignalParent(t)
  <2>1. /\ ~isr.on /\ cpu.eip = t /\ pc[t] = "sig_parent" /\ pc' = [pc EXCEPT ![t] = "run"]
        /\ call' = [call EXCEPT ![t] = NoCall]
        /\ UNCHANGED <<plist, firstProc, pnext, pcurrent, idle_process, ctx, life, idt, cpu, isr, state>>
    BY <1>4 DEF SignalParent, At, Goto, Return, ringVars
  <2>2. ReadyInv'
    BY <1>0, <2>1 DEF ReadyInv
  <2> QED BY <1>0, <2>1, <2>2, LocalStep
<1>5. CASE exit(t)
  <2> DEFINE local == [call[t] EXCEPT !.this = pcurrent]
  <2>1. /\ ~isr.on /\ cpu.eip = t /\ pc[t] = "run" /\ pc' = [pc EXCEPT ![t] = "sig_parent"]
        /\ state' = [state EXCEPT ![pcurrent] = ZOMBIE]
        /\ call' = [call EXCEPT ![t] = local]
        /\ UNCHANGED <<plist, firstProc, pnext, pcurrent, idle_process, ctx, life, idt, cpu, isr>>
    BY <1>5 DEF exit, Calls, At, Goto, ringVars
  <2>2. ReadyInv'
    BY <1>0, <2>1 DEF ReadyInv, ZOMBIE, RUNNING, READY
  <2>3. local \in Locals /\ local.pending = call[t].pending
    BY <1>0 DEF Locals, TypeOK
  <2> HIDE DEF local
  <2> QED BY <2>1, <2>2, <2>3, LocalStep
<1>6. ASSUME NEW c \in Procs, fork(t, c) \/ forkFails(t, c) \/ execv(t, c)
      PROVE  ThreadInv' /\ QueueStep(q)
  <2>1. \A this \in Ptr : /\ [NoCall EXCEPT !.this = this, !.child = c] \in Locals
                          /\ [NoCall EXCEPT !.this = this, !.child = c].child = c
                          /\ [NoCall EXCEPT !.this = this, !.child = c].pending = NULL
    BY DEF NoCall, Locals, Ptr
  <2>2. pcurrent \in Ptr /\ c \in Ptr
    BY <1>0 DEF TypeOK, Ptr
  <2>3. CASE fork(t, c)
    <3> DEFINE local == [NoCall EXCEPT !.this = pcurrent, !.child = c]
    <3>1. local \in Locals /\ local.child = c /\ local.pending = NULL
      BY <2>1, <2>2
    <3>2. /\ At(t, "run") /\ NewProcess(c, pcurrent, CHILD) /\ Goto(t, "fork_add")
          /\ call' = [call EXCEPT ![t] = local]
          /\ UNCHANGED <<plist, firstProc, pnext, pcurrent, idle_process, idt, cpu, isr, intr>>
      BY <2>3 DEF fork, Calls, ringVars
    <3> HIDE DEF local
    <3> QED BY <3>1, <3>2, NewStep
  <2>4. CASE execv(t, c)
    <3> DEFINE local == [NoCall EXCEPT !.this = c, !.child = c]
    <3>1. local \in Locals /\ local.child = c /\ local.pending = NULL
      BY <2>1, <2>2
    <3>2. /\ At(t, "run") /\ NewProcess(c, NULL, READY) /\ Goto(t, "exec_add")
          /\ call' = [call EXCEPT ![t] = local]
          /\ UNCHANGED <<plist, firstProc, pnext, pcurrent, idle_process, idt, cpu, isr, intr>>
      BY <2>4 DEF execv, Calls, ringVars
    <3> HIDE DEF local
    <3> QED BY <3>1, <3>2, NewStep
  <2>5. CASE forkFails(t, c)
    BY <2>5, ForkFailsStep
  <2> QED BY <1>6, <2>3, <2>4, <2>5
<1> QED BY <1>2, <1>3, <1>4, <1>5, <1>6

\* One turn of the scan of destroy_all_zombie.  Only pcurrent is found, so that the
\* thread that scans is the one of the process it takes off, or already dead.
LEMMA ScanStep ==
  ASSUME SchedInv, ThreadInv, NEW q, IsRing(q), NEW t \in Procs, ScanZombie(t)
  PROVE  ThreadInv' /\ QueueStep(q)
<1> DEFINE c == call[t].cursor
<1>0. /\ ReadyInv /\ BootInv /\ AddInv /\ ScanInv /\ ChainInv /\ IsrInv /\ CpuInv
      /\ pc \in [Procs -> Labels] /\ call \in [Procs -> Locals] /\ life \in [Procs -> Lives]
      /\ TypeOK /\ ControlInv /\ RunningIsCurrent
  BY DEF ThreadInv, SchedInv, TypeOK, Locals
<1>1. /\ ~isr.on /\ cpu.eip = t /\ pc[t] = "reap"
      /\ c \in Procs /\ life[c] = "queued" /\ call[t].pending \in Ptr
      /\ idt /\ idle_process # NULL /\ pc[KernelMain] \notin {"boot_add", "ensure_idle", "boot_irq"}
  <2>1. ~isr.on /\ cpu.eip = t /\ pc[t] = "reap"
    BY DEF ScanZombie, At
  <2>2. c \in Procs /\ life[c] = "queued" /\ call[t].pending \in Ptr
    BY <1>0, <2>1 DEF ScanInv, ControlInv, Locals, Ptr
  <2> QED BY <1>0, <2>1, <2>2, AfterBoot
<1>2. UNCHANGED <<idle_process, ticks_since_switch, state, pparent, ctx, idt, cpu, isr>>
  BY DEF ScanZombie
<1> DEFINE done == plist' = NULL \/ pnext[c] = NULL \/ pnext[c] = plist'
           local == [call[t] EXCEPT !.cursor = pnext[c],
                                    !.pending = IF Reapable(c) THEN c ELSE call[t].pending]
<1>3. /\ intr' = done
      /\ pc' = [pc EXCEPT ![t] = IF done THEN "del" ELSE "reap"]
      /\ call' = [call EXCEPT ![t] = local]
  BY DEF ScanZombie, Goto
<1>4. local.cursor = pnext[c] /\ local.pending = IF Reapable(c) THEN c ELSE call[t].pending
  BY <1>0 DEF Locals
<1> HIDE DEF local
<1>5. /\ pc'[t] \in {"del", "reap"} /\ (pc'[t] = "reap" => ~done /\ ~intr')
      /\ call'[t] = local
      /\ \A s \in Procs : s # t => pc'[s] = pc[s] /\ call'[s] = call[s] /\ pc[s] # "reap"
  BY <1>0, <1>1, <1>3 DEF ScanInv
<1>6. pnext[c] \in Procs /\ life[pnext[c]] = "queued" /\ pcurrent # NULL
  BY <1>1, RingFacts
<1> HIDE DEF c, done
<1>7. BootInv'
  <2>1. life[KernelMain] # "unborn" /\ (life'[KernelMain] = life[KernelMain] \/ life'[KernelMain] = "pending")
    BY <1>0, <1>1, SchedulerAssumption DEF BootInv, ScanZombie, c
  <2>2. \A s \in Procs : pc'[s] \notin {"boot_add", "ensure_idle", "boot_irq"}
    BY <1>0, <1>1, <1>5 DEF BootInv
  <2> QED BY <1>1, <1>2, <2>1, <2>2, SchedulerAssumption DEF BootInv
<1>8. IsrInv'
  BY <1>1, <1>2 DEF IsrInv
<1>9. CASE ~Reapable(c)
  <2>1. UNCHANGED <<plist, firstProc, pnext, pcurrent, life>>
    BY <1>9 DEF ScanZombie, ringVars, c
  <2>2. local.pending = call[t].pending
    BY <1>4, <1>9
  <2>3. ReadyInv'
    BY <1>0, <1>2, <2>1 DEF ReadyInv
  <2>4. AddInv'
    BY <1>0, <1>2, <1>5, <2>1 DEF AddInv, Adding
  <2>5. ScanInv'
    BY <1>1, <1>2, <1>4, <1>5, <1>6, <2>1 DEF ScanInv
  <2>6. ChainInv'
    BY <1>0, <1>5, <2>1, <2>2 DEF ChainInv, Pending
  <2>7. CpuInv'
    BY <1>0, <1>1, <1>2, <2>1 DEF CpuInv, Owns, Dead
  <2>8. QueueStep(q)
    BY <2>1, ListSame
  <2> QED BY <1>7, <1>8, <2>3, <2>4, <2>5, <2>6, <2>7, <2>8 DEF ThreadInv
<1>10. CASE Reapable(c)
  <2>1. remove_process(c, call[t].pending) /\ life' = [life EXCEPT ![c] = "pending"]
    BY <1>10 DEF ScanZombie, c
  <2>2. /\ \E i \in 1 .. Len(q) :
             /\ IsRing(RemoveAt(q, i))' /\ q[i] = c
             /\ pcurrent' = IF pcurrent # q[i] THEN pcurrent
                            ELSE IF Len(q) = 1 THEN NULL ELSE pnext[q[i]]
        /\ pnext'[c] = call[t].pending
        /\ \A r \in Procs : r # c /\ life[r] # "queued" => pnext'[r] = pnext[r]
        /\ plist' # NULL => pnext[c] # c
    BY <1>0, <1>1, <2>1, RingRemove
  <2>3. life'[c] = "pending" /\ \A r \in Procs : r # c => life'[r] = life[r]
    BY <1>0, <1>1, <2>1
  <2>4. c = pcurrent
    BY <1>0, <1>1, <1>10 DEF RunningIsCurrent, Reapable, ZOMBIE, RUNNING
  <2>5. ReadyInv'
    BY <1>0, <1>2, <2>3 DEF ReadyInv
  <2>6. AddInv'
    <3>1. \A s \in Procs : Adding(s)' =>
            /\ s # t /\ Adding(s) /\ call'[s] = call[s]
            /\ call[s].child # c /\ call[s].child \in Procs
      BY <1>0, <1>1, <1>5 DEF Adding, AddInv, ControlInv, Locals, Ptr
    <3> QED BY <1>0, <1>2, <2>3, <3>1 DEF AddInv
  <2>7. ScanInv'
    <3>1. pc'[t] = "reap" => pnext[c] # c
      BY <1>5, <2>2 DEF done
    <3> QED BY <1>1, <1>2, <1>4, <1>5, <1>6, <2>3, <3>1 DEF ScanInv
  <2>8. ChainInv'
    <3>1. \A r : Pending(r)' <=> Pending(r) \/ r = c
      BY <1>1, <2>3 DEF Pending
    <3>2. \A r \in Procs : Pending(r) => r # c /\ pnext'[r] = pnext[r]
      BY <1>1, <2>2 DEF Pending
    <3>3. call'[t].pending = c /\ ~Pending(c)
      BY <1>1, <1>4, <1>5, <1>10 DEF Pending
    <3>4. \A s \in Procs : s # t => call'[s] = call[s]
      BY <1>5
    <3>5. \A s \in Procs : (call[s].pending # NULL => Pending(call[s].pending))'
      <4>1. \A s \in Procs : call'[s].pending # NULL => Pending(call'[s].pending) \/ call'[s].pending = c
        BY <1>0, <3>3, <3>4 DEF ChainInv
      <4> QED BY <3>1, <4>1 DEF Pending
    <3>6. \A r \in Procs : (Pending(r) => pnext[r] = NULL \/ Pending(pnext[r]))'
      <4>1. \A r \in Procs : Pending(r)' => pnext'[r] = NULL \/ Pending(pnext'[r])
        BY <1>0, <2>2, <3>1, <3>2 DEF ChainInv
      <4> QED BY <3>1, <4>1 DEF Pending
    <3>7. \A s, u \in Procs : call'[s].pending = call'[u].pending /\ call'[u].pending # NULL => s = u
      BY <1>0, <3>3, <3>4 DEF ChainInv
    <3>8. \A p, r \in Procs : Pending(p)' /\ Pending(r)' /\ pnext'[p] = pnext'[r] /\ pnext'[p] # NULL
                              => p = r
      BY <1>0, <2>2, <3>1, <3>2 DEF ChainInv
    <3>9. ASSUME NEW u \in Procs, NEW p \in Procs, Pending(p)', call'[u].pending # NULL
          PROVE  pnext'[p] # call'[u].pending
      <4>1. CASE p = c
        <5>1. CASE u = t
          BY <1>0, <1>1, <2>2, <3>3, <4>1, <5>1, SchedulerAssumption DEF ChainInv
        <5>2. CASE u # t
          BY <1>0, <2>2, <3>4, <3>9, <4>1, <5>2 DEF ChainInv
        <5> QED BY <5>1, <5>2
      <4>2. CASE p # c
        <5>1. Pending(p) /\ pnext'[p] = pnext[p]
          BY <3>1, <3>2, <3>9, <4>2
        <5>2. CASE u = t
          BY <1>0, <1>1, <3>3, <5>1, <5>2, SchedulerAssumption DEF ChainInv
        <5>3. CASE u # t
          BY <1>0, <3>4, <3>9, <5>1, <5>3 DEF ChainInv
        <5> QED BY <5>2, <5>3
      <4> QED BY <4>1, <4>2
    <3> QED BY <3>5, <3>6, <3>7, <3>8, <3>9 DEF ChainInv
  <2>9. CpuInv'
    <3>1. \A r : Dead(r) => Dead(r)'
      BY <2>3 DEF Dead
    <3>2. Dead(t)'
      BY <1>0, <1>1, <1>6, <2>3, <2>4, <3>1, SchedulerAssumption DEF CpuInv, Dead
    <3>3. \A r \in Procs : life'[r] = "queued" => life[r] = "queued" /\ r # pcurrent
      BY <2>3, <2>4
    <3> QED BY <1>0, <1>1, <1>2, <3>1, <3>2, <3>3 DEF CpuInv, Owns
  <2>10. QueueStep(q)
    BY <2>2 DEF QueueStep
  <2> QED BY <1>7, <1>8, <2>5, <2>6, <2>7, <2>8, <2>9, <2>10 DEF ThreadInv
<1> QED BY <1>9, <1>10

\* The deletion of the head of the chain of a thread.
LEMMA DeleteStep ==
  ASSUME SchedInv, ThreadInv, NEW q, IsRing(q), NEW t \in Procs, DeleteVictim(t)
  PROVE  ThreadInv' /\ QueueStep(q)
<1> DEFINE v == call[t].pending
           local == [call[t] EXCEPT !.pending = pnext[v]]
<1>0. /\ ReadyInv /\ BootInv /\ AddInv /\ ScanInv /\ ChainInv /\ IsrInv /\ CpuInv
      /\ pc \in [Procs -> Labels] /\ call \in [Procs -> Locals] /\ life \in [Procs -> Lives]
      /\ pnext \in [Procs -> Ptr] /\ ControlInv
  BY DEF ThreadInv, SchedInv, TypeOK, Locals
<1>1. /\ ~isr.on /\ cpu.eip = t /\ pc[t] = "del" /\ v # NULL
      /\ call' = [call EXCEPT ![t] = local] /\ pnext' = [pnext EXCEPT ![v] = NULL]
      /\ life' = [life EXCEPT ![v] = "freed"]
      /\ UNCHANGED <<plist, firstProc, pcurrent, idle_process, ticks_since_switch, state,
                     ctx, idt, cpu, isr, pc>>
  BY DEF DeleteVictim, At
<1>2. /\ local.pending = pnext[v] /\ local.child = call[t].child /\ local.cursor = call[t].cursor
  BY <1>0 DEF Locals
<1> HIDE DEF local
<1>3. v \in Procs /\ life[v] = "pending" /\ Pending(v) /\ pnext[v] \in Ptr
  BY <1>0, <1>1 DEF ChainInv, Pending
<1>4. call'[t] = local /\ \A s \in Procs : s # t => call'[s] = call[s]
  BY <1>0, <1>1
<1>5. /\ life'[v] = "freed" /\ pnext'[v] = NULL
      /\ \A r \in Procs : r # v => life'[r] = life[r] /\ pnext'[r] = pnext[r]
  BY <1>0, <1>1, <1>3
<1>6. ReadyInv' /\ IsrInv'
  BY <1>0, <1>1, <1>3, <1>5 DEF ReadyInv, IsrInv
<1>7. BootInv'
  <2>1. idt /\ idle_process # NULL
    BY <1>0, <1>1, AfterBoot
  <2> QED BY <1>0, <1>1, <1>3, <1>5, <2>1, SchedulerAssumption DEF BootInv
<1>8. AddInv'
  <2>1. \A s \in Procs : Adding(s) =>
          /\ call'[s].child = call[s].child /\ call[s].child # v /\ call[s].child \in Procs
    BY <1>0, <1>2, <1>3, <1>4 DEF Adding, AddInv, ControlInv, Locals, Ptr
  <2> QED BY <1>0, <1>1, <1>5, <2>1 DEF AddInv, Adding
<1>9. ScanInv'
  <2>1. \A s \in Procs : pc[s] # "reap"
    BY <1>0, <1>1 DEF ScanInv
  <2> QED BY <1>1, <2>1 DEF ScanInv
<1>10. ChainInv'
  <2>1. \A r : Pending(r)' <=> Pending(r) /\ r # v
    BY <1>3, <1>5 DEF Pending
  <2>2. call'[t].pending = pnext[v] /\ pnext[v] # v
    BY <1>0, <1>1, <1>2, <1>3, <1>4 DEF ChainInv
  <2>3. \A s \in Procs : (call[s].pending # NULL => Pending(call[s].pending))'
    <3>1. \A s \in Procs : s # t => call[s].pending # v
      BY <1>0, <1>1 DEF ChainInv
    <3>2. \A s \in Procs : call'[s].pending # NULL => Pending(call'[s].pending) /\ call'[s].pending # v
      BY <1>0, <1>3, <1>4, <2>2, <3>1 DEF ChainInv
    <3> QED BY <2>1, <3>2 DEF Pending
  <2>4. \A r \in Procs : (Pending(r) => pnext[r] = NULL \/ Pending(pnext[r]))'
    <3>1. \A r \in Procs : Pending(r)' => pnext'[r] = NULL \/ (Pending(pnext'[r]) /\ pnext'[r] # v)
      BY <1>0, <1>1, <1>5, <2>1 DEF ChainInv
    <3> QED BY <2>1, <3>1 DEF Pending
  <2>5. \A s, u \in Procs : call'[s].pending = call'[u].pending /\ call'[u].pending # NULL => s = u
    BY <1>0, <1>3, <1>4, <2>2 DEF ChainInv
  <2>6. \A p, r \in Procs : Pending(p)' /\ Pending(r)' /\ pnext'[p] = pnext'[r] /\ pnext'[p] # NULL
                            => p = r
    BY <1>0, <1>5, <2>1 DEF ChainInv
  <2>7. \A u, p \in Procs : Pending(p)' /\ call'[u].pending # NULL => pnext'[p] # call'[u].pending
    BY <1>0, <1>3, <1>4, <1>5, <2>1, <2>2 DEF ChainInv
  <2> QED BY <2>3, <2>4, <2>5, <2>6, <2>7 DEF ChainInv
<1>11. CpuInv'
  <2>1. \A r : Dead(r)' <=> Dead(r)
    BY <1>3, <1>5 DEF Dead
  <2>2. \A r \in Procs : life'[r] = "queued" <=> life[r] = "queued"
    BY <1>3, <1>5
  <2> QED BY <1>0, <1>1, <2>1, <2>2 DEF CpuInv, Owns
<1>12. QueueStep(q)
  <2>1. \A r \in Procs : life[r] = "queued" => r # v
    BY <1>3
  <2>2. IsRing(q)'
    BY <1>1, <1>3, <1>5, <2>1, RingSame
  <2> QED BY <1>1, <2>2 DEF QueueStep
<1> QED BY <1>6, <1>7, <1>8, <1>9, <1>10, <1>11, <1>12 DEF ThreadInv

\* The steps of wait.
LEMMA WaitCallStep ==
  ASSUME SchedInv, ThreadInv, NEW q, IsRing(q), NEW t \in Procs,
         \/ wait(t) \/ WaitScan(t) \/ ScanZombie(t) \/ DeleteVictim(t)
         \/ WaitReturn(t) \/ SyscallReturn(t)
  PROVE  ThreadInv' /\ QueueStep(q)
<1>0. /\ ReadyInv /\ pc \in [Procs -> Labels] /\ call \in [Procs -> Locals]
      /\ TypeOK /\ NoCall \in Locals /\ NoCall.pending = NULL
  BY DEF ThreadInv, SchedInv, TypeOK, Locals, NoCall, Ptr
<1>1. CASE wait(t)
  <2> DEFINE local == [call[t] EXCEPT !.this = pcurrent]
  <2>1. /\ ~isr.on /\ cpu.eip = t /\ pc[t] = "run" /\ pc' = [pc EXCEPT ![t] = "wait_spin"]
        /\ call' = [call EXCEPT ![t] = local] /\ state' = state
        /\ UNCHANGED <<plist, firstProc, pnext, pcurrent, idle_process, ctx, life, idt, cpu, isr>>
    BY <1>1 DEF wait, Calls, At, Goto, ringVars
  <2>2. local \in Locals /\ local.pending = call[t].pending
    BY <1>0 DEF Locals, TypeOK
  <2>3. ReadyInv'
    BY <1>0, <2>1 DEF ReadyInv
  <2> HIDE DEF local
  <2> QED BY <2>1, <2>2, <2>3, LocalStep
<1>2. CASE WaitScan(t)
  <2> DEFINE local == [call[t] EXCEPT !.cursor = plist, !.pending = NULL]
             label == IF plist = NULL THEN "del" ELSE "reap"
  <2>1. /\ ~isr.on /\ cpu.eip = t /\ pc[t] = "wait_spin" /\ pc' = [pc EXCEPT ![t] = label]
        /\ call' = [call EXCEPT ![t] = local] /\ intr' = (plist = NULL) /\ state' = state
        /\ UNCHANGED <<plist, firstProc, pnext, pcurrent, idle_process, ctx, life, idt, cpu, isr>>
    BY <1>2 DEF WaitScan, At, Goto, ringVars
  <2>2. local \in Locals /\ local.pending = NULL /\ local.cursor = plist
    BY <1>0 DEF Locals, TypeOK, Ptr
  <2>3. ReadyInv'
    BY <1>0, <2>1 DEF ReadyInv
  <2>4. plist # NULL => life[plist] = "queued"
    <3>1. Len(q) \in Nat /\ (plist = NULL <=> Len(q) = 0) /\ \A i \in 1 .. Len(q) : q[i] \in Procs
      BY RingFacts
    <3> QED BY <3>1 DEF IsRing, OnRing
  <2>5. label \in {"del", "reap"} /\ (label = "reap" => ~intr' /\ life[local.cursor] = "queued")
    BY <2>1, <2>2, <2>4
  <2> HIDE DEF local, label
  <2> QED BY <2>1, <2>2, <2>3, <2>5, LocalStep
<1>3. CASE WaitReturn(t)
  <2>1. /\ ~isr.on /\ cpu.eip = t /\ pc[t] = "del" /\ pc' = [pc EXCEPT ![t] = "sysret"]
        /\ call' = call /\ state' = state
        /\ UNCHANGED <<plist, firstProc, pnext, pcurrent, idle_process, ctx, life, idt, cpu, isr>>
    BY <1>3 DEF WaitReturn, At, Goto, ringVars
  <2>2. call' = [call EXCEPT ![t] = call[t]] /\ call[t] \in Locals
    BY <1>0, <2>1
  <2>3. ReadyInv'
    BY <1>0, <2>1 DEF ReadyInv
  <2> QED BY <2>1, <2>2, <2>3, LocalStep
<1>4. CASE SyscallReturn(t)
  <2>1. /\ ~isr.on /\ cpu.eip = t /\ pc[t] = "sysret" /\ pc' = [pc EXCEPT ![t] = "run"]
        /\ call' = [call EXCEPT ![t] = NoCall] /\ state' = state
        /\ UNCHANGED <<plist, firstProc, pnext, pcurrent, idle_process, ctx, life, idt, cpu, isr>>
    BY <1>4 DEF SyscallReturn, At, Goto, Return, ringVars
  <2>2. ReadyInv'
    BY <1>0, <2>1 DEF ReadyInv
  <2> QED BY <1>0, <2>1, <2>2, LocalStep
<1> QED BY <1>1, <1>2, <1>3, <1>4, ScanStep, DeleteStep

\* The timer interrupt saves the running thread into pcurrent; the search of schedule
\* finds the next process of the ring at its first turn, or comes back to pcurrent.
LEMMA ClockStep ==
  ASSUME SchedInv, ThreadInv, NEW q, IsRing(q), TimerInterrupt \/ schedule
  PROVE  ThreadInv' /\ QueueStep(q)
<1>0. /\ ReadyInv /\ BootInv /\ AddInv /\ ScanInv /\ ChainInv /\ IsrInv /\ CpuInv
      /\ pc \in [Procs -> Labels] /\ call \in [Procs -> Locals] /\ life \in [Procs -> Lives]
      /\ ctx \in [Procs -> Context] /\ state \in [Procs -> {CHILD, RUNNING, SLEEPING, READY}]
      /\ ControlInv /\ RunningIsCurrent /\ isr \in [on : BOOLEAN, n : Ptr, attempts : Nat]
  BY DEF ThreadInv, SchedInv, TypeOK, Locals
<1>1. pcurrent # NULL => /\ pcurrent \in Procs /\ life[pcurrent] = "queued"
                         /\ pnext[pcurrent] \in Procs /\ life[pnext[pcurrent]] = "queued"
  BY RingFacts
<1>2. CASE TimerInterrupt
  <2>1. /\ idt /\ intr /\ ~isr.on /\ pcurrent # NULL
        /\ ctx' = [ctx EXCEPT ![pcurrent] = cpu]
        /\ isr' = isr \/ isr' = [on |-> TRUE, n |-> pcurrent, attempts |-> 0]
        /\ intr' = ~isr'.on
        /\ UNCHANGED <<plist, firstProc, pnext, pcurrent, idle_process, state, life, idt, cpu, pc, call>>
    BY <1>2 DEF TimerInterrupt, save_process_context, SearchFrom, ringVars
  <2>2. /\ ctx'[pcurrent] = cpu /\ \A p \in Procs : p # pcurrent => ctx'[p] = ctx[p]
    BY <1>0, <1>1, <2>1
  <2>3. ReadyInv' /\ ScanInv' /\ ChainInv'
    BY <1>0, <2>1 DEF ReadyInv, ScanInv, ChainInv, Pending
  <2>4. BootInv'
    BY <1>0, <2>1 DEF BootInv
  <2>5. AddInv'
    <3>1. \A s \in Procs : Adding(s) => call[s].child # pcurrent /\ call[s].child \in Procs
      BY <1>0, <1>1, <2>1 DEF Adding, AddInv, ControlInv, Locals, Ptr
    <3> QED BY <1>0, <2>1, <2>2, <3>1 DEF AddInv, Adding
  <2>6. IsrInv'
    <3>1. cpu.eip \in {pcurrent, NULL} \/ Dead(cpu.eip)
      BY <1>0, <2>1 DEF CpuInv
    <3>2. Owns(pcurrent)'
      BY <2>1, <2>2, <3>1 DEF Owns, Dead
    <3>3. isr'.on => isr'.n = pcurrent
      BY <2>1
    <3>4. isr'.on => ~intr'
      BY <2>1
    <3> QED BY <2>1, <3>2, <3>3, <3>4 DEF IsrInv
  <2>7. CpuInv'
    BY <1>0, <2>1, <2>2 DEF CpuInv, Owns, Dead
  <2>8. QueueStep(q)
    BY <2>1, ListSame
  <2> QED BY <2>3, <2>4, <2>5, <2>6, <2>7, <2>8 DEF ThreadInv
<1>3. CASE schedule
  <2> DEFINE n == pnext[pcurrent]
  <2>1. /\ isr.on /\ isr.n = pcurrent /\ pcurrent # NULL /\ Owns(pcurrent) /\ idt /\ n # NULL
        /\ \A s \in Procs : pc[s] # "reap"
    BY <1>0, <1>1, <1>3, SchedulerAssumption DEF schedule, IsrInv, BootInv, ScanInv
  <2>2. /\ UNCHANGED <<plist, firstProc, pnext, idle_process, ctx, life, idt, pc, call>>
        /\ \/ SwitchTo(pcurrent) \/ SwitchTo(n)
           \/ /\ Skipped(n) /\ isr' = [isr EXCEPT !.n = n, !.attempts = isr.attempts + 1]
              /\ UNCHANGED <<state, pcurrent, cpu, intr>>
    BY <1>3, <2>1 DEF schedule, ringVars
  <2>3. AddInv' /\ ChainInv'
    BY <1>0, <2>2 DEF AddInv, Adding, ChainInv, Pending
  <2>4. BootInv'
    BY <1>0, <2>1, <2>2 DEF BootInv
  <2>5. ScanInv'
    BY <2>1, <2>2 DEF ScanInv
  <2>6. n \in Procs /\ life[n] = "queued"
    BY <1>1, <2>1
  <2> HIDE DEF n
  <2>7. ASSUME NEW m \in {pcurrent, n}, SwitchTo(m) PROVE ThreadInv' /\ QueueStep(q)
    <3>1. /\ pcurrent' = m /\ cpu'.eip = ctx[m].eip /\ ~isr'.on
          /\ m \in Procs /\ life[m] = "queued"
      BY <1>1, <2>1, <2>6, <2>7 DEF SwitchTo, RestoreRegs, IsrOff
    <3>2. ReadyInv'
      <4>1. \A p \in Procs : state[p] \in {READY, RUNNING} => state'[p] \in {READY, RUNNING}
        BY <1>0, <2>7 DEF SwitchTo
      <4> QED BY <1>0, <2>2, <4>1 DEF ReadyInv
    <3>3. IsrInv'
      BY <3>1 DEF IsrInv
    <3>4. Owns(m)
      BY <1>0, <2>1, <3>1 DEF CpuInv
    <3>5. \A p : Dead(p)' <=> Dead(p)
      BY <2>2 DEF Dead
    <3>6. cpu'.eip \in {m, NULL} \/ Dead(cpu'.eip)
      BY <3>1, <3>4 DEF Owns
    <3>7. \A p \in Procs : life'[p] = "queued" => Owns(p)'
      <4>1. \A p \in Procs : life[p] = "queued" => Owns(p)
        BY <1>0, <2>1 DEF CpuInv
      <4> QED BY <2>2, <3>5, <4>1 DEF Owns
    <3>8. CpuInv'
      <4>1. Dead(cpu'.eip) => Dead(cpu.eip)'
        BY <2>2 DEF Dead
      <4>2. cpu'.eip \in Procs => life'[cpu'.eip] = "queued" \/ Dead(cpu.eip)'
        BY <2>2, <3>1, <3>6, <4>1, SchedulerAssumption
      <4>3. ~Dead(cpu.eip)' => cpu'.eip \in {pcurrent', NULL}
        BY <3>1, <3>6, <4>1
      <4> QED BY <3>7, <4>2, <4>3 DEF CpuInv
    <3>9. QueueStep(q)
      <4>1. IsRing(q)'
        BY <2>1, <2>2, <2>7, <3>1, RingSame DEF n
      <4> QED BY <2>1, <2>7, <3>1, <4>1 DEF QueueStep, n
    <3> QED BY <2>3, <2>4, <2>5, <3>2, <3>3, <3>8, <3>9 DEF ThreadInv
  <2>8. CASE /\ Skipped(n) /\ isr' = [isr EXCEPT !.n = n, !.attempts = isr.attempts + 1]
             /\ UNCHANGED <<state, pcurrent, cpu, intr>>
    <3>1. n = pcurrent
      BY <1>0, <2>6, <2>8
         DEF Skipped, ReadyInv, RunningIsCurrent, ZOMBIE, RUNNING, SLEEPING, READY
    <3>2. isr'.on /\ isr'.n = n
      BY <1>0, <2>1, <2>8
    <3>3. IsrInv' /\ CpuInv' /\ ReadyInv'
      BY <1>0, <2>1, <2>2, <2>8, <3>1, <3>2 DEF IsrInv, CpuInv, ReadyInv, Owns, Dead
    <3>4. QueueStep(q)
      BY <2>2, <2>8, ListSame
    <3> QED BY <2>3, <2>4, <2>5, <3>3, <3>4 DEF ThreadInv
  <2> QED BY <2>2, <2>7, <2>8
<1> QED BY <1>2, <1>3

-------------------------------------------------------------------------------
(* The theorems. *)

\* A step of the scheduler from a state that satisfies the invariant.
LEMMA RingStep ==
  ASSUME SchedInv, ThreadInv, NEW q, IsRing(q), [Next]_vars
  PROVE  ThreadInv' /\ QueueStep(q)
<1>1. CASE TimerInterrupt \/ schedule
  BY <1>1, ClockStep
<1>2. ASSUME NEW t \in Procs, ThreadStep(t) \/ SystemCall(t)
      PROVE  ThreadInv' /\ QueueStep(q)
  BY <1>2, BootStep, CallStep, WaitCallStep DEF ThreadStep, SystemCall
<1>3. CASE UNCHANGED vars
  <2>1. ThreadInv'
    BY <1>3 DEF vars, ThreadInv, ReadyInv, BootInv, AddInv, Adding, ScanInv, ChainInv, Pending,
                IsrInv, CpuInv, Owns, Dead
  <2>2. QueueStep(q)
    BY <1>3, ListSame DEF vars
  <2> QED BY <2>1, <2>2
<1> QED BY <1>1, <1>2, <1>3 DEF Next, TimerIgnored

\* Whatever the step does to the ring, a ring is left.
LEMMA QueueStepRing == ASSUME NEW q, QueueStep(q) PROVE RingInv'
BY DEF QueueStep, RingInv

\* The boot starts with an empty ring.
LEMMA RingInit == Init => IsRing(<<>>) /\ ThreadInv
<1> SUFFICES ASSUME Init PROVE IsRing(<<>>) /\ ThreadInv
  OBVIOUS
<1>0. /\ plist = NULL /\ firstProc = NULL /\ pcurrent = NULL /\ idle_process = NULL
      /\ \A p \in Procs : life[p] = IF p = KernelMain THEN "private" ELSE "unborn"
      /\ \A p \in Procs : pc[p] = IF p = KernelMain THEN "boot_add" ELSE "run"
      /\ \A p \in Procs : call[p].pending = NULL
      /\ ~idt /\ cpu.eip = KernelMain /\ ~isr.on
      /\ KernelMain \in Procs /\ Idle \in Procs /\ KernelMain # Idle
  BY SchedulerAssumption DEF Init, NoCall, IsrOff
<1>1. IsRing(<<>>)
  BY <1>0 DEF IsRing, Linked, OnRing
<1>2. ReadyInv /\ BootInv /\ AddInv /\ ScanInv /\ ChainInv /\ IsrInv /\ CpuInv
  BY <1>0 DEF ReadyInv, BootInv, AddInv, Adding, ScanInv, ChainInv, Pending, IsrInv, CpuInv
<1> QED BY <1>1, <1>2 DEF ThreadInv

\* The inductive invariant holds in every state.
LEMMA RingAlways == Spec => [](SchedInv /\ RingInv /\ ThreadInv)
<1>1. Init => RingInv /\ ThreadInv
  BY RingInit DEF RingInv
<1>2. SchedInv /\ RingInv /\ ThreadInv /\ [Next]_vars => RingInv' /\ ThreadInv'
  <2> SUFFICES ASSUME SchedInv, RingInv, ThreadInv, [Next]_vars PROVE RingInv' /\ ThreadInv'
    OBVIOUS
  <2>1. PICK q : IsRing(q)
    BY DEF RingInv
  <2>2. ThreadInv' /\ QueueStep(q)
    BY <2>1, RingStep
  <2> QED BY <2>2, QueueStepRing
<1> QED BY <1>1, <1>2, SchedInvAlways, PTL DEF Spec

\* The walk of the model along the pointers is the one of the lemmas.
LEMMA RingOfList ==
  ASSUME NEW q, IsRing(q)
  PROVE  /\ RingSet = {p \in Procs : life[p] = "queued"}
         /\ RingSet = {q[i] : i \in 1 .. Len(q)}
         /\ RingSeq = [i \in 1 .. Len(q) |-> q[i]]
<1>1. Linked(q, pnext) /\ plist = IF Len(q) = 0 THEN NULL ELSE q[1]
  BY RingFacts DEF IsRing
<1>2. /\ RingSetOf(plist, pnext) = {q[i] : i \in 1 .. Len(q)}
      /\ Cardinality({q[i] : i \in 1 .. Len(q)}) = Len(q)
      /\ \A i \in 1 .. Len(q) : WalkOf(plist, pnext)[i - 1] = q[i]
  <2>1. RingSetOf(plist, pnext) = {q[i] : i \in 1 .. Len(q)}
    BY ONLY <1>1, RingWalk
  <2>2. Cardinality({q[i] : i \in 1 .. Len(q)}) = Len(q)
    BY ONLY <1>1, RingWalk
  <2>3. WalksAlong(q, plist, pnext)
    BY ONLY <1>1, RingWalk
  <2> QED BY <2>1, <2>2, <2>3 DEF WalksAlong
<1>3. Walk = WalkOf(plist, pnext)
  BY DEF Walk, WalkOf, WalkSteps
<1>4. RingSet = RingSetOf(plist, pnext)
  BY <1>3 DEF RingSet, RingSetOf
<1>5. {p \in Procs : life[p] = "queued"} = {q[i] : i \in 1 .. Len(q)}
  <2>1. \A i \in 1 .. Len(q) : q[i] \in Procs
    BY RingFacts
  <2> QED BY <2>1 DEF IsRing, OnRing
<1>6. RingSeq = [i \in 1 .. Len(q) |-> q[i]]
  <2>1. Cardinality(RingSet) = Len(q)
    BY <1>2, <1>4
  <2>2. \A i \in 1 .. Len(q) : Walk[i - 1] = q[i]
    BY <1>2, <1>3
  <2> QED BY ONLY <2>1, <2>2 DEF RingSeq
<1> QED BY <1>2, <1>4, <1>5, <1>6

\* The pointers always form one closed ring of exactly the processes that were added
\* and not yet taken off, with firstProc its tail and pcurrent on it, for any number of
\* processes and however addProcess, the scan of destroy_all_zombie and the timer
\* interleave.
THEOREM SchedulerRing == Spec => []RingOK
<1>1. RingInv => RingOK
  <2> SUFFICES ASSUME NEW q, IsRing(q) PROVE RingOK
    BY DEF RingInv
  <2>1. RingSet = {p \in Procs : life[p] = "queued"}
    BY RingOfList
  <2>2. /\ Len(q) \in Nat /\ \A i \in 1 .. Len(q) : q[i] \in Procs /\ pnext[q[i]] = q[After(q, i)]
        /\ (pcurrent = NULL <=> Len(q) = 0) /\ (plist = NULL <=> Len(q) = 0)
        /\ pcurrent # NULL => pcurrent \in Procs /\ life[pcurrent] = "queued"
    BY RingFacts
  <2>3. plist # NULL => /\ firstProc \in RingSet /\ pnext[firstProc] = plist
                        /\ pcurrent \in RingSet
    <3> SUFFICES ASSUME plist # NULL
                 PROVE  firstProc \in RingSet /\ pnext[firstProc] = plist /\ pcurrent \in RingSet
      OBVIOUS
    <3>1. Len(q) > 0 /\ Len(q) \in 1 .. Len(q) /\ After(q, Len(q)) = 1
      BY <2>2 DEF After
    <3>2. plist = q[1] /\ firstProc = q[Len(q)] /\ OnRing(q, firstProc)
      BY <3>1 DEF IsRing, OnRing
    <3> QED BY <2>1, <2>2, <3>1, <3>2 DEF IsRing
  <2>4. plist = NULL => firstProc = NULL /\ pcurrent = NULL
    BY <2>2 DEF IsRing
  <2> QED BY <2>1, <2>3, <2>4 DEF RingOK
<1> QED BY <1>1, RingAlways, PTL

\* The processor executes the thread of pcurrent, or none, and what every other
\* process on the list has saved is its own thread or the null registers it was made
\* with, except where wait has destroyed the process of a thread: for any number of
\* processes and any order of timer interrupts and calls.
THEOREM SchedulerNoForeignContext == Spec => []NoForeignContext
<1>1. RingInv /\ ThreadInv => NoForeignContext
  <2> SUFFICES ASSUME NEW q, IsRing(q), CpuInv PROVE NoForeignContext
    BY DEF RingInv, ThreadInv
  <2>1. RingSet = {p \in Procs : life[p] = "queued"}
    BY RingOfList
  <2> QED BY <2>1 DEF NoForeignContext, CpuInv, Owns
<1> QED BY <1>1, RingAlways, PTL

\* The sequence that the refinement maps the list to is the ring.
LEMMA RingSeqIsRing == \A q : IsRing(q) => RingSeq = q
<1> SUFFICES ASSUME NEW q, IsRing(q) PROVE RingSeq = q
  OBVIOUS
<1>1. RingSeq = [i \in 1 .. Len(q) |-> q[i]]
  BY RingOfList
<1>2. q \in Seq(Procs)
  BY RingFacts
<1> QED BY <1>1, <1>2

\* The same of the next state.
LEMMA RingSeqIsRingNext == (\A q : IsRing(q) => RingSeq = q)'
BY RingSeqIsRing, PTL

\* The successor in the queue is the process that the pointer leads to.
LEMMA SuccessorIsNext ==
  ASSUME NEW q, IsRing(q), NEW i \in 1 .. Len(q)
  PROVE  RR!Successor(q[i]) = pnext[q[i]]
<1>1. RingSeq = q /\ DOMAIN q = 1 .. Len(q) /\ Len(q) \in Nat /\ pnext[q[i]] = q[After(q, i)]
  BY RingSeqIsRing, RingFacts
<1> DEFINE j == CHOOSE k \in 1 .. Len(q) : q[k] = q[i]
<1>2. j \in 1 .. Len(q) /\ q[j] = q[i]
  <2>1. \E k \in 1 .. Len(q) : q[k] = q[i]
    OBVIOUS
  <2> QED BY <2>1, Zenon
<1>3. j = i
  <2> HIDE DEF j
  <2> QED BY <1>2 DEF IsRing, Linked
<1>4. RR!Successor(q[i]) = q[(j % Len(q)) + 1]
  BY <1>1 DEF RR!Successor
<1>5. (i % Len(q)) + 1 = After(q, i)
  <2>1. CASE i = Len(q)
    BY <1>1, <2>1 DEF After
  <2>2. CASE i # Len(q)
    <3>1. i \in Nat /\ Len(q) \in Nat /\ i < Len(q)
      <4>1. Len(q) \in Nat
        BY <1>1
      <4> QED BY ONLY <2>2, <4>1, i \in 1 .. Len(q)
    <3>2. i % Len(q) = i
      BY ONLY <3>1
    <3> QED BY <2>2, <3>2 DEF After
  <2> QED BY <2>1, <2>2
<1> HIDE DEF j
<1> QED BY <1>1, <1>3, <1>4, <1>5

\* The pointers implement the queue: boot, addProcess, the scan of destroy_all_zombie
\* and the timer do to the ring what module RoundRobin allows, so that a process joins at
\* the tail, leaves alone, and the processor goes to the cyclic successor.
THEOREM SchedulerRefinesRoundRobin == Spec => RoundRobinSpec
<1>1. Init => RR!RRInit
  <2> SUFFICES ASSUME Init PROVE RR!RRInit
    OBVIOUS
  <2>1. IsRing(<<>>) /\ pcurrent = NULL
    BY RingInit DEF Init
  <2>2. RingSeq = <<>>
    BY <2>1, RingSeqIsRing
  <2> QED BY <2>1, <2>2 DEF RR!RRInit
<1>2. SchedInv /\ RingInv /\ ThreadInv /\ [Next]_vars => [RR!RRNext]_(RR!rrVars)
  <2> SUFFICES ASSUME SchedInv, RingInv, ThreadInv, [Next]_vars
               PROVE  [RR!RRNext]_(RR!rrVars)
    OBVIOUS
  <2>1. PICK q : IsRing(q)
    BY DEF RingInv
  <2>2. QueueStep(q)
    BY <2>1, RingStep
  <2>3. /\ RingSeq = q /\ q \in Seq(Procs) /\ Len(q) \in Nat /\ DOMAIN q = 1 .. Len(q)
        /\ \A i \in 1 .. Len(q) : q[i] \in Procs
    BY <2>1, RingSeqIsRing, RingFacts
  <2>4. \A s : IsRing(s)' => RingSeq' = s
    BY RingSeqIsRingNext
  <2>5. \A i \in 1 .. Len(q) : RR!Successor(q[i]) = pnext[q[i]]
    BY <2>1, SuccessorIsNext
  <2>6. CASE IsRing(q)' /\ pcurrent' = pcurrent
    BY <2>3, <2>4, <2>6 DEF RR!rrVars
  <2>7. CASE IsRing(q)' /\ pcurrent # NULL /\ pcurrent' = pnext[pcurrent]
    <3>1. OnRing(q, pcurrent)
      BY <2>1, <2>7, RingFacts DEF IsRing
    <3>2. pcurrent' = RR!Successor(pcurrent)
      BY <2>5, <2>7, <3>1 DEF OnRing
    <3>3. RR!Rotate
      BY <2>3, <2>4, <2>7, <3>2 DEF RR!Rotate
    <3> QED BY <3>3 DEF RR!RRNext
  <2>8. ASSUME NEW p \in Procs, life[p] # "queued", IsRing(Append(q, p))',
               pcurrent' = IF pcurrent = NULL THEN p ELSE pcurrent
        PROVE  RR!RRNext
    <3>1. RingSeq' = Append(RingSeq, p)
      BY <2>3, <2>4, <2>8
    <3>2. p \notin RR!Queued
      BY <2>1, <2>3, <2>8 DEF RR!Queued, IsRing, OnRing
    <3>3. RR!Join(p)
      BY <2>8, <3>1, <3>2 DEF RR!Join
    <3> QED BY <3>3 DEF RR!RRNext
  <2>9. ASSUME NEW i \in 1 .. Len(q), IsRing(RemoveAt(q, i))',
               pcurrent' = IF pcurrent # q[i] THEN pcurrent
                           ELSE IF Len(q) = 1 THEN NULL ELSE pnext[q[i]]
        PROVE  RR!RRNext
    <3>1. RingSeq' = RemoveAt(q, i)
      BY <2>4, <2>9
    <3>2. pcurrent' = IF pcurrent # q[i] THEN pcurrent
                      ELSE IF Len(RingSeq) = 1 THEN NULL ELSE RR!Successor(q[i])
      BY <2>3, <2>5, <2>9
    <3>3. RR!Leave(q[i])
      BY <2>3, <3>1, <3>2 DEF RR!Leave, RR!RemoveAt, RemoveAt
    <3> QED BY <2>3, <3>3 DEF RR!RRNext
  <2> QED BY <2>2, <2>6, <2>7, <2>8, <2>9 DEF QueueStep
<1> QED BY <1>1, <1>2, RingAlways, PTL DEF Spec, RoundRobinSpec, RR!RRSpec
===============================================================================
