------------------------------ MODULE ForkExit ------------------------------
(***************************************************************************)
(* Process creation and end: Fork, Wait, Exit, and the table of RAM pages. *)
(*                                                                         *)
(* page_info[k] is the frame of page k and the PID that uses it.  Fork     *)
(* takes PAGES free pages; they become the page tables, the code and the   *)
(* stack of the child.  Neither Exit nor Wait gives them back as one would *)
(* expect:                                                                 *)
(*   - ExitISR, when it frees the parent, resets one page of the child to  *)
(*     all zeros, which is PID 0 and address 0, not "free" (-1);           *)
(*   - WaitISR zeroes 4096 bytes from page_info[k].addr itself, not from   *)
(*     the frame it names, so every later entry of page_info becomes       *)
(*     PID 0, address 0.                                                   *)
(* What lies beyond page_info in memory is wiped too; that depends on the  *)
(* build and is left out.  So is the exit number: ExitISR and WaitISR read *)
(* it through the page tables of another process.                          *)
(***************************************************************************)
EXTENDS Mailboxes, FiniteSetsExt

CONSTANTS
  PAGES,   \* pages per process (5)
  NPAGES   \* the pages in page_info (MAX_PROC * 5)

ASSUME PagesAssumption == PAGES \in Nat \ {0} /\ NPAGES \in Nat

Page == 0 .. NPAGES-1

VARIABLES
  ppid,       \* pcb[].ppid
  page_pid,   \* page_info[].pid, NONE when free
  page_addr,  \* page_info[].addr: frame k+1 of page k, 0 once zeroed
  frames,     \* the frames Fork built into the address space of a process
  reported    \* the child that the last Wait of a process reported (ebx)

pageVars == <<ppid, page_pid, page_addr, frames, reported>>

PageInit ==
  /\ ppid = [p \in PID |-> 0]
  /\ page_pid = [k \in Page |-> NONE]
  /\ page_addr = [k \in Page |-> k + 1]
  /\ frames = [p \in PID |-> {}]
  /\ reported = [p \in PID |-> NONE]
----------------------------------------------------------------------------
FreePages == {k \in Page : page_pid[k] = NONE}

PagesOf(p) == {k \in Page : page_pid[k] = p}

\* The first n elements of a set of page numbers.
FirstPages(S, n) == {k \in S : Cardinality({j \in S : j < k}) < n}

ChildrenExited == {c \in PID : ppid[c] = run_pid /\ state[c] = "ZOMBIE"}

\* ForkISR without the search for free pages: the first pages are taken.
ForkTakesAnyPages ==
  LET child == Head(unused_q)
      pages == FirstPages(Page, PAGES)
  IN
  /\ MakesCall("Fork")
  /\ unused_q # <<>>
  /\ unused_q' = Tail(unused_q)
  /\ page_pid' = [k \in Page |-> IF k \in pages THEN child ELSE page_pid[k]]
  /\ frames' = [frames EXCEPT ![child] = {page_addr[k] : k \in pages}]
  /\ mbox' = [mbox EXCEPT ![child] = <<>>]
  /\ mbox_wait_q' = [mbox_wait_q EXCEPT ![child] = <<>>]
  /\ time' = [time EXCEPT ![child] = 0]
  /\ ppid' = [ppid EXCEPT ![child] = run_pid]
  /\ Scheduler(run_pid, EnQ(child, proc_q), [state EXCEPT ![child] = "READY"])
  /\ UNCHANGED <<system_time, wake_time, sleep_q, semVars, buf, page_addr, reported>>

\* ForkISR.  Without a PID or without PAGES free pages it only prints a
\* message: the caller is not told.
ForkISR ==
  LET child == Head(unused_q)
      pages == FirstPages(FreePages, PAGES)
  IN
  /\ MakesCall("Fork")
  /\ unused_q # <<>>
  /\ Cardinality(FreePages) >= PAGES
  /\ unused_q' = Tail(unused_q)
  /\ page_pid' = [k \in Page |-> IF k \in pages THEN child ELSE page_pid[k]]
  /\ frames' = [frames EXCEPT ![child] = {page_addr[k] : k \in pages}]
  /\ mbox' = [mbox EXCEPT ![child] = <<>>]
  /\ mbox_wait_q' = [mbox_wait_q EXCEPT ![child] = <<>>]
  /\ time' = [time EXCEPT ![child] = 0]
  /\ ppid' = [ppid EXCEPT ![child] = run_pid]
  /\ Scheduler(run_pid, EnQ(child, proc_q), [state EXCEPT ![child] = "READY"])
  /\ UNCHANGED <<system_time, wake_time, sleep_q, semVars, buf, page_addr, reported>>
----------------------------------------------------------------------------
\* WaitISR with no child that has exited.
WaitForChild ==
  /\ ChildrenExited = {}
  /\ Scheduler(NONE, proc_q, [state EXCEPT ![run_pid] = "WAIT4CHILD"])
  /\ UNCHANGED <<unused_q, pageVars>>

\* WaitISR reaps the first such child.  Its loop goes on, with page_num where
\* it was: it reports the second one, if there is one, finds no page of it
\* and returns.
ReapChild ==
  LET child == Min(ChildrenExited)
      others == ChildrenExited \ {child}
      page == Min(PagesOf(child))
  IN
  /\ ChildrenExited # {}
  /\ PagesOf(child) # {}
  /\ reported' = [reported EXCEPT ![run_pid] =
                    IF others = {} THEN child ELSE Min(others)]
  /\ page_addr' = [k \in Page |-> IF k >= page THEN 0 ELSE page_addr[k]]
  /\ page_pid' = [k \in Page |->
       IF k = page THEN NONE ELSE IF k > page THEN 0 ELSE page_pid[k]]
  /\ unused_q' = EnQ(child, unused_q)
  /\ state' = [state EXCEPT ![child] = "UNUSED"]
  /\ UNCHANGED <<run_pid, proc_q, ppid, frames>>

\* WaitISR when the pages of the child are gone: it is reported, but stays.
ReportChildOnly ==
  LET child == Min(ChildrenExited) IN
  /\ ChildrenExited # {}
  /\ PagesOf(child) = {}
  /\ reported' = [reported EXCEPT ![run_pid] = child]
  /\ UNCHANGED <<procVars, ppid, page_pid, page_addr, frames>>

WaitISR ==
  /\ MakesCall("Wait")
  /\ WaitForChild \/ ReapChild \/ ReportChildOnly
  /\ UNCHANGED <<timerVars, semVars, mailVars>>
----------------------------------------------------------------------------
\* An ExitISR that does not look at the state of the parent.
BecomeZombieAlways ==
  /\ Scheduler(NONE, proc_q, [state EXCEPT ![run_pid] = "ZOMBIE"])
  /\ UNCHANGED <<unused_q, pageVars>>

\* ExitISR while the parent is not in Wait.
BecomeZombie ==
  /\ state[ppid[run_pid]] # "WAIT4CHILD"
  /\ Scheduler(NONE, proc_q, [state EXCEPT ![run_pid] = "ZOMBIE"])
  /\ UNCHANGED <<unused_q, pageVars>>

ReleaseParent(st) == [st EXCEPT ![ppid[run_pid]] = "READY"]

\* An ExitISR that ends the caller and leaves run_pid set.
EndForParentRunsOn ==
  /\ state[ppid[run_pid]] = "WAIT4CHILD"
  /\ PagesOf(run_pid) # {}
  /\ reported' = [reported EXCEPT ![ppid[run_pid]] = run_pid]
  /\ unused_q' = EnQ(run_pid, unused_q)
  /\ Scheduler(run_pid, EnQ(ppid[run_pid], proc_q),
               [ReleaseParent(state) EXCEPT ![run_pid] = "UNUSED"])
  /\ UNCHANGED <<ppid, frames, page_pid, page_addr>>

\* ExitISR while the parent waits: one page entry becomes all zeros.
EndForParent ==
  LET parent == ppid[run_pid]
      page == Min(PagesOf(run_pid))
  IN
  /\ state[parent] = "WAIT4CHILD"
  /\ PagesOf(run_pid) # {}
  /\ reported' = [reported EXCEPT ![parent] = run_pid]
  /\ page_pid' = [page_pid EXCEPT ![page] = 0]
  /\ page_addr' = [page_addr EXCEPT ![page] = 0]
  /\ unused_q' = EnQ(run_pid, unused_q)
  /\ Scheduler(NONE, EnQ(parent, proc_q),
               [ReleaseParent(state) EXCEPT ![run_pid] = "UNUSED"])
  /\ UNCHANGED <<ppid, frames>>

\* ExitISR while the parent waits, but the pages of the caller are gone: it
\* returns before the caller is ended, and the caller runs on.
RunOnAfterExit ==
  LET parent == ppid[run_pid] IN
  /\ state[parent] = "WAIT4CHILD"
  /\ PagesOf(run_pid) = {}
  /\ reported' = [reported EXCEPT ![parent] = run_pid]
  /\ Scheduler(run_pid, EnQ(parent, proc_q), ReleaseParent(state))
  /\ UNCHANGED <<unused_q, ppid, page_pid, page_addr, frames>>

ExitISR ==
  /\ MakesCall("Exit")
  /\ BecomeZombie \/ EndForParent \/ RunOnAfterExit
  /\ UNCHANGED <<timerVars, semVars, mailVars>>
=============================================================================
