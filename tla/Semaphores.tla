----------------------------- MODULE Semaphores -----------------------------
(***************************************************************************)
(* Counting semaphores: SemGet hands out an id, SemWait takes a pass or    *)
(* blocks the caller, SemPost (also called from the printer and terminal   *)
(* interrupts) wakes the first waiter or leaves a pass.                    *)
(*                                                                         *)
(* A program waits on and posts ids that SemGet has handed out: no program *)
(* of the repository makes up an id.  A device interrupt may post its id   *)
(* at any time, before SemGet too (system_print_semaphore is 0 from boot). *)
(***************************************************************************)
EXTENDS Timer

CONSTANTS
  NSEM,         \* number of semaphores (Q_SIZE in main.c)
  DEVICE_SEMS,  \* the ids posted by PrinterISR and TerminalISR
  MAX_PASS      \* bound on pass_count

SEM == 0 .. NSEM-1

ASSUME SemaphoreAssumption ==
  /\ NSEM \in Nat /\ NSEM <= Q_SIZE
  /\ DEVICE_SEMS \subseteq SEM
  /\ MAX_PASS \in Nat

VARIABLES
  semaphore_q,  \* ids not handed out
  pass_count,   \* semaphore[].pass_count
  sem_wait_q    \* semaphore[].wait_q

semVars == <<semaphore_q, pass_count, sem_wait_q>>

SemInit ==
  /\ semaphore_q = [i \in 1 .. NSEM |-> i - 1]
  /\ pass_count = [s \in SEM |-> 0]
  /\ sem_wait_q = [s \in SEM |-> <<>>]

HandedOut == SEM \ Range(semaphore_q)
----------------------------------------------------------------------------
\* SemGetISR; when no id is left the caller gets -1 and nothing changes.
\* MyBzero forgets the passes and the waiters of the id.
SemGetISR ==
  /\ MakesCall("SemGet")
  /\ semaphore_q # <<>>
  /\ semaphore_q' = Tail(semaphore_q)
  /\ pass_count' = [pass_count EXCEPT ![Head(semaphore_q)] = 0]
  /\ sem_wait_q' = [sem_wait_q EXCEPT ![Head(semaphore_q)] = <<>>]
  /\ UNCHANGED <<procVars, timerVars>>

\* SemPostISR that leaves a pass and wakes the waiter too.
PostWakesAndPasses(s) ==
  /\ sem_wait_q[s] # <<>>
  /\ pass_count' = [pass_count EXCEPT ![s] = IF @ < MAX_PASS THEN @ + 1 ELSE @]
  /\ sem_wait_q' = [sem_wait_q EXCEPT ![s] = Tail(@)]
  /\ Scheduler(run_pid, EnQ(Head(sem_wait_q[s]), proc_q),
               [state EXCEPT ![Head(sem_wait_q[s])] = "READY"])
  /\ UNCHANGED unused_q

PostLeavesPass(s) ==
  /\ sem_wait_q[s] = <<>>
  /\ pass_count[s] < MAX_PASS
  /\ pass_count' = [pass_count EXCEPT ![s] = @ + 1]
  /\ UNCHANGED <<sem_wait_q, procVars>>

PostWakes(s) ==
  /\ sem_wait_q[s] # <<>>
  /\ sem_wait_q' = [sem_wait_q EXCEPT ![s] = Tail(@)]
  /\ Scheduler(run_pid, EnQ(Head(sem_wait_q[s]), proc_q),
               [state EXCEPT ![Head(sem_wait_q[s])] = "READY"])
  /\ UNCHANGED <<pass_count, unused_q>>

SemPostISR(s) ==
  /\ PostLeavesPass(s) \/ PostWakes(s)
  /\ UNCHANGED <<semaphore_q, timerVars>>

SemPost(s) == s \in HandedOut /\ MakesCall("SemPost") /\ SemPostISR(s)

\* PrinterISR and TerminalISR, while any process runs.
DevicePost(s) == run_pid # NONE /\ SemPostISR(s)

WaitTakesPass(s) ==
  /\ pass_count[s] > 0
  /\ pass_count' = [pass_count EXCEPT ![s] = @ - 1]
  /\ UNCHANGED <<sem_wait_q, procVars>>

WaitBlocks(s) ==
  /\ pass_count[s] <= 0
  /\ sem_wait_q' = [sem_wait_q EXCEPT ![s] = EnQ(run_pid, @)]
  /\ Scheduler(NONE, proc_q, [state EXCEPT ![run_pid] = "WAIT"])
  /\ UNCHANGED <<pass_count, unused_q>>

SemWaitISR(s) ==
  /\ s \in HandedOut
  /\ MakesCall("SemWait")
  /\ WaitTakesPass(s) \/ WaitBlocks(s)
  /\ UNCHANGED <<semaphore_q, timerVars>>
----------------------------------------------------------------------------
SemTypeOK ==
  /\ semaphore_q \in Seq(SEM)
  /\ pass_count \in [SEM -> Nat]
  /\ sem_wait_q \in [SEM -> Seq(PID)]

OnSem(s) == Range(sem_wait_q[s])

\* The semaphores of isr.c implement the abstract counting semaphore: a pass
\* is never lost, never given to two processes, and nobody waits while there
\* is one.
Counting == INSTANCE CountingSemaphore WITH
  Sem <- SEM, Proc <- PID,
  value <- [s \in SEM |-> pass_count[s] - Len(sem_wait_q[s])],
  blocked <- [s \in SEM |-> Range(sem_wait_q[s])]

PassesConserved == Counting!Spec
=============================================================================
