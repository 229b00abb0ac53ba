------------------------------- MODULE Kernel -------------------------------
(***************************************************************************)
(* The kernel of MAARKos: Kernel() in main.c, one action per interrupt,    *)
(* over the state of Process, Timer, Semaphores, Mailboxes and ForkExit.   *)
(*                                                                         *)
(* Programs are not modelled: the running one makes any call of its        *)
(* Calls[pid], with any argument.  GetPid and GetTime only write eax of    *)
(* the caller and are left out, as are calls that do nothing (SemGet with  *)
(* no id left, Fork with no PID or no RAM).                                *)
(***************************************************************************)
EXTENDS ForkExit

vars == <<procVars, timerVars, semVars, mailVars, pageVars>>

Init == ProcInit /\ TimerInit /\ SemInit /\ MailInit /\ PageInit

TimerIntr == TimerISR /\ UNCHANGED <<semVars, mailVars, pageVars>>

SleepIntr ==
  /\ \E seconds \in SleepArgs : SleepISR(seconds)
  /\ UNCHANGED <<semVars, mailVars, pageVars>>

SemIntr ==
  /\ \/ SemGetISR
     \/ \E s \in SEM : SemPost(s) \/ SemWaitISR(s)
  /\ UNCHANGED <<mailVars, pageVars>>

\* PRINTER_INTR and TERMINAL_INTR, as far as the kernel's queues see them.
DeviceIntr ==
  /\ \E s \in DEVICE_SEMS : DevicePost(s)
  /\ UNCHANGED <<mailVars, pageVars>>

MsgSndIntr ==
  /\ \E x \in PID, d \in Data : MsgSndISR(x, d)
  /\ UNCHANGED pageVars

MsgRcvIntr == MsgRcvISR /\ UNCHANGED pageVars

Next ==
  \/ TimerIntr
  \/ SleepIntr
  \/ SemIntr
  \/ DeviceIntr
  \/ MsgSndIntr
  \/ MsgRcvIntr
  \/ ForkISR
  \/ WaitISR
  \/ ExitISR

Spec == Init /\ [][Next]_vars
----------------------------------------------------------------------------
TypeOK ==
  /\ ProcTypeOK
  /\ TimerTypeOK
  /\ SemTypeOK
  /\ MailTypeOK
  /\ ppid \in [PID -> PID]
  /\ page_pid \in [Page -> PID \cup {NONE}]
  /\ page_addr \in [Page -> 0 .. NPAGES]
  /\ frames \in [PID -> SUBSET (0 .. NPAGES)]
  /\ reported \in [PID -> PID \cup {NONE}]

\* Where the state of a process and the queues agree.
QueuesMatchStates ==
  \A p \in PID :
    /\ p \in Range(unused_q) <=> state[p] = "UNUSED"
    /\ p \in Range(sleep_q) <=> state[p] = "SLEEP"
    /\ p \in Range(proc_q) <=> p # run_pid /\ state[p] \in {"READY", "RUN"}
    /\ state[p] = "WAIT" <=> \/ \E s \in SEM : p \in OnSem(s)
                             \/ \E x \in PID : p \in OnMbox(x)

NoDuplicates ==
  /\ IsInjective(unused_q)
  /\ IsInjective(sleep_q)
  /\ IsInjective(proc_q)
  /\ \A s \in SEM : IsInjective(sem_wait_q[s])
  /\ \A x \in PID : mbox_wait_q[x] # <<>> => mbox_wait_q[x] = <<x>>

OneWaitQueue ==
  /\ \A s, t \in SEM : s # t => OnSem(s) \cap OnSem(t) = {}
  /\ \A s \in SEM, x \in PID : OnSem(s) \cap OnMbox(x) = {}

\* SemGetISR, which clears the wait_q of the id it hands out, strands nobody.
NoWaitersBeforeSemGet ==
  /\ IsInjective(semaphore_q)
  /\ \A s \in Range(semaphore_q) : OnSem(s) = {}

\* No sequence of interrupts loses a process or puts it in two places: each
\* PID is in exactly the one queue its state names, once.  The handlers move
\* PIDs between seven kinds of queue by hand, and EnQ drops a PID silently
\* when a queue is full.
EveryPidInOnePlace ==
  /\ QueuesMatchStates
  /\ NoDuplicates
  /\ OneWaitQueue
  /\ NoWaitersBeforeSemGet

\* Scheduler never reports "not process to run": InitProc always can be run,
\* and at the end of each trap a process runs.
NeverPanics ==
  /\ state[0] \in {"READY", "RUN"}
  /\ run_pid # NONE
  /\ state[run_pid] = "RUN"

\* A parent blocked in Wait has no child that already exited: neither order
\* of Wait and Exit loses the wake-up.
NoLostExit ==
  \A p \in PID : state[p] = "WAIT4CHILD" =>
    ~ \E c \in PID : ppid[c] = p /\ state[c] = "ZOMBIE"

Forked == {p \in PID : p >= NSYS /\ state[p] # "UNUSED"}

\* A process that was forked owns PAGES real frames, shared with no other:
\* whatever Exit and Wait did to page_info, Fork never hands out a frame in
\* use, nor one whose address was wiped.
MemoryIsolation ==
  /\ \A p \in Forked : Cardinality(frames[p]) = PAGES /\ 0 \notin frames[p]
  /\ \A p, r \in Forked : p # r => frames[p] \cap frames[r] = {}

\* ExitISR recycles the pages of the process (isr.c:463): a PID that is
\* unused again uses no page.
PagesRecycled == \A p \in PID : state[p] = "UNUSED" => PagesOf(p) = {}

\* A step in which each process in proc_q keeps its turn, and moves up when
\* another one runs.
InOrder ==
  \A i \in DOMAIN proc_q :
    \/ run_pid' = proc_q[i]
    \/ \E j \in DOMAIN proc_q' :
         /\ proc_q'[j] = proc_q[i]
         /\ j <= i
         /\ run_pid' # run_pid => j < i

\* Round robin: whatever interrupts come, and whoever they make ready, a
\* process that waits for the processor is not overtaken.
NobodyOvertakes == [][InOrder]_vars

\* InitProc, which alone watches the keyboard (proc.c:23), gets the processor
\* again and again, however busy the others are.
KeyboardWatched == []<>(run_pid = 0)
=============================================================================
