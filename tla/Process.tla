------------------------------ MODULE Process ------------------------------
(***************************************************************************)
(* Processes and the scheduler: the process table, the two PID queues that *)
(* every handler uses (proc_q, unused_q), run_pid, and the boot.           *)
(*                                                                         *)
(* One trap is one step.  Kernel() in main.c saves the trapframe, calls    *)
(* one ISR, calls Scheduler() and reloads a process.  All gates are        *)
(* interrupt gates, so nothing interrupts that sequence.  Each handler of  *)
(* Timer, Semaphores, Mailboxes and ForkExit is an action that ends in     *)
(* Scheduler with the values its ISR leaves behind.                        *)
(*                                                                         *)
(* A queue is the sequence of its elements; RingQueue shows that the q_t   *)
(* ring of tool.c is one.                                                  *)
(***************************************************************************)
EXTENDS Integers, Sequences, FiniteSets, Functions

CONSTANTS
  MAX_PROC,  \* size of the process table
  Q_SIZE,    \* capacity of every PID queue
  NSYS,      \* processes created at boot (6 in main)
  Calls      \* the syscalls that the program of each PID makes

PID == 0 .. MAX_PROC-1
NONE == -1

CallName == {"Sleep", "SemGet", "SemPost", "SemWait", "MsgSnd", "MsgRcv",
             "Fork", "Wait", "Exit"}

\* Calls after which the caller may not run on.
Blocking == {"Sleep", "SemWait", "MsgRcv", "Wait", "Exit"}

\* A PID is never without a place in a queue of Q_SIZE; InitProc is there at
\* boot and its program (proc.c) makes no call that could block it.
ASSUME ProcessAssumption ==
  /\ MAX_PROC \in Nat /\ Q_SIZE \in Nat /\ NSYS \in Nat
  /\ 1 <= NSYS /\ NSYS <= MAX_PROC /\ MAX_PROC <= Q_SIZE
  /\ Calls \in [PID -> SUBSET CallName]
  /\ Calls[0] \cap Blocking = {}

State == {"UNUSED", "READY", "RUN", "SLEEP", "WAIT", "ZOMBIE", "WAIT4CHILD"}

VARIABLES
  run_pid,   \* the running process, NONE if there is none
  proc_q,    \* processes ready to run
  unused_q,  \* unused PIDs
  state      \* pcb[].state

procVars == <<run_pid, proc_q, unused_q, state>>
----------------------------------------------------------------------------
\* An EnQ that takes a queue to be full one element too early.
EnQOffByOne(x, q) == IF Len(q) < Q_SIZE - 1 THEN Append(q, x) ELSE q

\* EnQ drops the element when the queue is full; DeQ is Head and Tail.
EnQ(x, q) == IF Len(q) < Q_SIZE THEN Append(q, x) ELSE q

\* One EnQ for each element of s, in order.
EnQAll(s, q) ==
  IF Len(q) + Len(s) <= Q_SIZE THEN q \o s ELSE SubSeq(q \o s, 1, Q_SIZE)

\* A Scheduler that runs InitProc only when nobody else is ready.
SchedulerIdleLast(rp, pq, st) ==
  LET others == SelectSeq(pq, LAMBDA p : p # 0)
      next == Head(IF others # <<>> THEN others ELSE pq)
  IN
  IF rp = NONE /\ pq # <<>>
  THEN /\ run_pid' = next
       /\ proc_q' = SelectSeq(pq, LAMBDA p : p # next)
       /\ state' = [st EXCEPT ![next] = "RUN"]
  ELSE /\ run_pid' = rp
       /\ proc_q' = pq
       /\ state' = st

\* Scheduler() on the values the ISR left.  With no process to run it only
\* reports a panic, and the machine stops.
Scheduler(rp, pq, st) ==
  IF rp = NONE /\ pq # <<>>
  THEN /\ run_pid' = Head(pq)
       /\ proc_q' = Tail(pq)
       /\ state' = [st EXCEPT ![Head(pq)] = "RUN"]
  ELSE /\ run_pid' = rp
       /\ proc_q' = pq
       /\ state' = st

\* The running program makes this call.
MakesCall(c) ==
  /\ run_pid # NONE
  /\ c \in Calls[run_pid]

\* SetData, then NSYS times NewProcISR, then Scheduler: PIDs are taken from
\* unused_q in order, InitProc (0) is dispatched first.
ProcInit ==
  /\ run_pid = 0
  /\ proc_q = [i \in 1 .. NSYS-1 |-> i]
  /\ unused_q = [i \in 1 .. MAX_PROC-NSYS |-> NSYS + i - 1]
  /\ state = [p \in PID |->
               IF p = 0 THEN "RUN" ELSE IF p < NSYS THEN "READY" ELSE "UNUSED"]
----------------------------------------------------------------------------
ProcTypeOK ==
  /\ run_pid \in PID \cup {NONE}
  /\ proc_q \in Seq(PID)
  /\ unused_q \in Seq(PID)
  /\ state \in [PID -> State]
=============================================================================
