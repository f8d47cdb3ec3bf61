------------------------------ MODULE RoundRobin ------------------------------
(***************************************************************************)
(* What the process list of kmOS promises, without its pointers: processes *)
(* wait in a queue in the order they were added, one of them is current,   *)
(* and a switch hands the processor to the cyclic successor of the current *)
(* one.  Module Scheduler, which keeps the same queue as a ring of pnext   *)
(* pointers edited between cli and sti, is shown to implement this.        *)
(***************************************************************************)
EXTENDS Naturals, SequencesExt

CONSTANTS Procs,   \* the Process objects
          NULL     \* no process

VARIABLES queue,   \* the processes on the list, oldest first
          current  \* the process that owns the processor, or NULL

rrVars == <<queue, current>>

Queued == {queue[i] : i \in DOMAIN queue}

\* The process after p in the queue; the first one comes after the last.
Successor(p) ==
  LET i == CHOOSE j \in DOMAIN queue : queue[j] = p
  IN  queue[(i % Len(queue)) + 1]

RRInit == queue = <<>> /\ current = NULL

\* A process joins at the tail and runs at once only if nothing else does.
Join(p) ==
  /\ p \notin Queued
  /\ queue' = Append(queue, p)
  /\ current' = IF current = NULL THEN p ELSE current

\* A process leaves; when it was current its successor inherits the processor.
Leave(p) ==
  /\ \E i \in DOMAIN queue : queue[i] = p /\ queue' = RemoveAt(queue, i)
  /\ current' = IF current # p THEN current
                ELSE IF Len(queue) = 1 THEN NULL ELSE Successor(p)

\* A switch of process.
Rotate ==
  /\ current # NULL
  /\ current' = Successor(current)
  /\ UNCHANGED queue

RRNext == Rotate \/ \E p \in Procs : Join(p) \/ Leave(p)

RRSpec == RRInit /\ [][RRNext]_rrVars

===============================================================================
