-------------------------------- MODULE Trap --------------------------------
(***************************************************************************)
(* Trap entry and exit (entry.S, trapframe.h, Kernel of main.c) and the    *)
(* system call stubs (syscall.c): the one CPU and the trapframes through   *)
(* which the processes share it, register by register.                     *)
(*                                                                         *)
(* A trapframe is the 16 words at trapframe_p, lowest address first.  That *)
(* of a forked process has the same virtual address in each of them, so    *)
(* the tables that cr3 names decide whose it is.                           *)
(*                                                                         *)
(* Which process is freed and which runs next is Kernel's matter: here any *)
(* one may be that can.  The gates are interrupt gates: no trap comes      *)
(* while the kernel runs.                                                  *)
(***************************************************************************)
EXTENDS Integers, Sequences

CONSTANTS
  SYSTEM,  \* processes that run under the tables of the kernel
  FORKED,  \* PIDs of processes that ForkISR makes
  Calls,   \* the calls that each process makes
  DATA     \* tells apart what a computation leaves in the registers

Proc == SYSTEM \cup FORKED
NOBODY == -1
KERNEL_TABLES == -1

ASSUME TrapAssumption ==
  /\ SYSTEM \subseteq Nat /\ FORKED \subseteq Nat
  /\ SYSTEM \cap FORKED = {} /\ 0 \in SYSTEM
  /\ \A p \in FORKED : Calls[p] \cap {"Fork", "Wait"} = {}

VARIABLES
  cpu,      \* the registers
  frame,    \* the trapframe of each process
  cr3,      \* the page tables in use
  run_pid,
  mode,     \* "user", "kernel" (an ISR is due) or "schedule"
  state,    \* "ready", "sleep", "wait", "mail", "child", "zombie" or "unused"
  ppid,
  kept,     \* history: the registers of each process at its last trap
  call,     \* history: what that trap was
  answer,   \* history: the result the kernel has for the process
  handed    \* history: the last handoff: to whom, under which tables, where

vars == <<cpu, frame, cr3, run_pid, mode, state, ppid, kept, call, answer, handed>>
----------------------------------------------------------------------------
General == {"edi", "esi", "ebp", "ebx", "edx", "ecx", "eax"}
Flow == {"eip", "eflags"}
Segments == {"gs", "fs", "es", "ds", "cs"}
Register == General \cup Flow \cup Segments

\* The words of trapframe_t.
trapframe_t ==
  <<"gs", "fs", "es", "ds", "edi", "esi", "ebp", "esp", "ebx", "edx", "ecx",
    "eax", "intr_num", "eip", "cs", "eflags">>

Slot(words, w) == CHOOSE i \in DOMAIN words : words[i] = w

\* An entry that pushes the number of the interrupt after the registers.
PushedLate ==
  <<"eflags", "cs", "eip", "eax", "ecx", "edx", "ebx", "esp", "ebp",
    "esi", "edi", "ds", "es", "fs", "gs", "intr_num">>

\* What the CPU, the entry of the interrupt and CommonRoutine push, in order.
Pushed ==
  <<"eflags", "cs", "eip", "intr_num", "eax", "ecx", "edx", "ebx", "esp", "ebp",
    "esi", "edi", "ds", "es", "fs", "gs">>

\* What Loader pops, in order; popa skips the word of esp.
Popped ==
  <<"gs", "fs", "es", "ds", "edi", "esi", "ebp", "skip", "ebx", "edx", "ecx",
    "eax", "skip", "eip", "cs", "eflags">>

\* The stubs of syscall.c: the registers that the compiler is told about, and
\* the one the result is read from.  An interrupt is no stub.
Clobbers(c) ==
  CASE c \in {"GetPid", "GetTime", "Sleep", "SemGet", "SemPost", "SemWait",
              "Fork", "Exit"} -> {"eax"}
    [] c \in {"MsgSnd", "MsgRcv", "Wait"} -> {"eax", "ebx"}
    [] OTHER -> {}

Result(c) ==
  CASE c \in {"GetPid", "GetTime", "SemGet"} -> {"eax"}
    [] c = "Wait" -> {"ebx"}
    [] OTHER -> {}

\* TripTerminal is int $35, that of the terminal itself.
Interrupts == {"Timer", "Printer", "Terminal"}

----------------------------------------------------------------------------
\* The page tables of a process, and whose trapframe lies at the address of
\* that of p under tables t.
Tables(p) == IF p \in SYSTEM THEN KERNEL_TABLES ELSE p
Visible(p, t) == IF p \in SYSTEM THEN p ELSE t

\* Words: the owner, the meaning, and a number.
Zero == <<0, "zero", 0>>
Segment(r) == IF r = "cs" THEN <<0, "KCODE", 0>> ELSE <<0, "KDATA", 0>>
PidWord(p) == <<p, "pid", 0>>
TimeWord == <<0, "time", 0>>
SemWord == <<0, "sem", 0>>

\* NewProcISR and ForkISR clear the stack and set eip, eflags and segments.
StartRegisters(p) ==
  [r \in Register |-> IF r \in General THEN Zero
                      ELSE IF r \in Segments THEN Segment(r) ELSE <<p, r, 0>>]
StartFrame(p) ==
  [i \in DOMAIN trapframe_t |->
     IF trapframe_t[i] \in Register THEN StartRegisters(p)[trapframe_t[i]] ELSE Zero]

NoHandOff == [to |-> NOBODY, tables |-> KERNEL_TABLES, at |-> Zero]

Init ==
  /\ run_pid = 0 /\ cr3 = KERNEL_TABLES /\ mode = "schedule"
  /\ cpu = StartRegisters(0)
  /\ frame = [p \in Proc |-> StartFrame(p)]
  /\ state = [p \in Proc |-> IF p \in SYSTEM THEN "ready" ELSE "unused"]
  /\ ppid = [p \in Proc |-> 0]
  /\ kept = [p \in Proc |-> StartRegisters(p)]
  /\ call = [p \in Proc |-> "Timer"]
  /\ answer = [p \in Proc |-> Zero]
  /\ handed = NoHandOff
----------------------------------------------------------------------------
\* Instructions between two calls: they may leave anything in the registers.
Compute ==
  /\ mode = "user"
  /\ \E d \in DATA :
       cpu' = [r \in Register |-> IF r \in Segments THEN cpu[r] ELSE <<run_pid, r, d>>]
  /\ kept' = [kept EXCEPT ![run_pid] = cpu']
  /\ call' = [call EXCEPT ![run_pid] = "Timer"]
  /\ answer' = [answer EXCEPT ![run_pid] = Zero]
  /\ UNCHANGED <<frame, cr3, run_pid, mode, state, ppid, handed>>

\* The words pushed, the last one lowest.
PushedFrame(c) ==
  [i \in DOMAIN Pushed |->
     LET w == Pushed[Len(Pushed) + 1 - i] IN
     IF w = "intr_num" THEN <<0, c, 0>> ELSE IF w = "esp" THEN Zero ELSE cpu[w]]

\* The trap c, and CommonRoutine: the frame is pushed where the running
\* process has its stack.  The kernel uses the general registers as it likes.
CommonRoutine(c) ==
  /\ mode = "user"
  /\ frame' = [frame EXCEPT ![Visible(run_pid, cr3)] = PushedFrame(c)]
  /\ kept' = [kept EXCEPT ![run_pid] = cpu]
  /\ call' = [call EXCEPT ![run_pid] = c]
  /\ cpu' = [r \in Register |-> IF r \in {"fs", "gs"} THEN cpu[r]
                                ELSE IF r \in Segments THEN Segment(r) ELSE Zero]
  /\ mode' = "kernel"
  /\ answer' = [answer EXCEPT ![run_pid] = Zero]
  /\ handed' = NoHandOff
  /\ UNCHANGED <<cr3, run_pid, state, ppid>>

Trap == mode = "user" /\ \E c \in Interrupts \cup Calls[run_pid] : CommonRoutine(c)
----------------------------------------------------------------------------
\* A field of pcb[p].trapframe_p under tables t, and frame after it is set.
Field(p, t, w) == frame[Visible(p, t)][Slot(trapframe_t, w)]
SetField(p, t, w, x) == [frame EXCEPT ![Visible(p, t)][Slot(trapframe_t, w)] = x]

\* The switch of Kernel.
Serves(names) ==
  /\ mode = "kernel"
  /\ \E c \in names : Field(run_pid, cr3, "intr_num") = <<0, c, 0>>
  /\ mode' = "schedule"

RunsOn == UNCHANGED <<run_pid, cr3>>
GivesUp == run_pid' = NOBODY /\ cr3' = KERNEL_TABLES
NoAnswer == UNCHANGED <<frame, answer>>

\* ISRs that free processes in a semaphore queue or in sleep_q, if any.
Frees(from) ==
  \E freed \in SUBSET {p \in Proc : state[p] \in from} :
    state' = [p \in Proc |-> IF p \in freed THEN "ready" ELSE state[p]]

TimerISR ==
  /\ Serves({"Timer"})
  /\ Frees({"sleep"})
  /\ RunsOn \/ GivesUp
  /\ NoAnswer /\ UNCHANGED handed

PostISRs ==
  /\ Serves({"Printer", "Terminal", "SemPost"})
  /\ Frees({"wait"})
  /\ RunsOn /\ NoAnswer /\ UNCHANGED handed

\* GetPidISR, GetTimeISR, SemGetISR (-1 is one more SemWord).
AnswerISRs ==
  /\ \/ Serves({"GetPid"}) /\ answer' = [answer EXCEPT ![run_pid] = PidWord(run_pid)]
     \/ Serves({"GetTime"}) /\ answer' = [answer EXCEPT ![run_pid] = TimeWord]
     \/ Serves({"SemGet"}) /\ answer' = [answer EXCEPT ![run_pid] = SemWord]
  /\ frame' = SetField(run_pid, cr3, "eax", answer'[run_pid])
  /\ RunsOn /\ UNCHANGED <<state, handed>>

\* SleepISR and SemWaitISR.
Blocks(s) == state' = [state EXCEPT ![run_pid] = s] /\ GivesUp

BlockISRs ==
  /\ \/ Serves({"Sleep"}) /\ Blocks("sleep")
     \/ Serves({"SemWait"}) /\ Blocks("wait")
     \/ Serves({"SemWait"}) /\ RunsOn /\ UNCHANGED state
  /\ NoAnswer /\ UNCHANGED handed

\* A handoff under the tables of the sender.
HandOffHere(freed) ==
  /\ state' = [state EXCEPT ![freed] = "ready"]
  /\ handed' = [to |-> freed, tables |-> cr3,
                at |-> IF Visible(freed, cr3) \in Proc THEN Field(freed, cr3, "ebx") ELSE Zero]

\* MsgSndISR to a waiting receiver: its tables are loaded for the copy.
HandOff(freed) ==
  /\ state' = [state EXCEPT ![freed] = "ready"]
  /\ handed' = [to |-> freed, tables |-> Tables(freed),
                at |-> Field(freed, Tables(freed), "ebx")]

MsgSndISR ==
  /\ Serves({"MsgSnd"})
  /\ \/ \E freed \in Proc : state[freed] = "mail" /\ HandOff(freed)
     \/ UNCHANGED <<state, handed>>
  /\ cr3' = Tables(run_pid) /\ UNCHANGED run_pid
  /\ NoAnswer

MsgRcvISR ==
  /\ Serves({"MsgRcv"})
  /\ Blocks("mail") \/ (RunsOn /\ UNCHANGED state)
  /\ NoAnswer /\ UNCHANGED handed
----------------------------------------------------------------------------
\* A refused Fork changes nothing; the frame of the child is written through
\* the address of its page.
Fork ==
  \/ UNCHANGED <<state, frame, ppid, kept, call>>
  \/ \E child \in FORKED :
       /\ state[child] = "unused"
       /\ state' = [state EXCEPT ![child] = "ready"]
       /\ frame' = [frame EXCEPT ![child] = StartFrame(child)]
       /\ ppid' = [ppid EXCEPT ![child] = run_pid]
       /\ kept' = [kept EXCEPT ![child] = StartRegisters(child)]
       /\ call' = [call EXCEPT ![child] = "Timer"]

ForkISR ==
  /\ Serves({"Fork"})
  /\ Fork
  /\ RunsOn /\ UNCHANGED <<answer, handed>>

Zombies == {p \in FORKED : state[p] = "zombie" /\ ppid[p] = run_pid}

\* The children reaped when the loop of WaitISR ends: those before the last
\* one looked at, of which no page was found, or all of them.
Reaped(last) ==
  {{z \in Zombies : z < last}} \cup {S \in {Zombies} : \A z \in S : z <= last}

\* A Wait that answers in eax.
WaitAnswersEax ==
  \E child \in Zombies : \E reaped \in Reaped(child) :
    /\ state' = [p \in Proc |-> IF p \in reaped THEN "unused" ELSE state[p]]
    /\ frame' = SetField(run_pid, cr3, "eax", PidWord(child))
    /\ answer' = [answer EXCEPT ![run_pid] = PidWord(child)]
    /\ RunsOn

\* WaitISR with children that have exited: the last one looked at is
\* reported.  Whose pages are found is ForkExit's matter.
WaitAnswers ==
  \E child \in Zombies : \E reaped \in Reaped(child) :
    /\ state' = [p \in Proc |-> IF p \in reaped THEN "unused" ELSE state[p]]
    /\ frame' = SetField(run_pid, cr3, "ebx", PidWord(child))
    /\ answer' = [answer EXCEPT ![run_pid] = PidWord(child)]
    /\ RunsOn

WaitISR ==
  /\ Serves({"Wait"})
  /\ WaitAnswers \/ (Zombies = {} /\ Blocks("child") /\ NoAnswer)
  /\ UNCHANGED handed

\* ExitISR: the result of the parent's Wait goes into the parent's frame.  A
\* caller of which no page is found runs on; when that is so is ForkExit's
\* matter.
ExitISR ==
  LET parent == ppid[run_pid] IN
  /\ Serves({"Exit"})
  /\ cr3' = KERNEL_TABLES
  /\ \/ /\ state[parent] # "child"
        /\ state' = [state EXCEPT ![run_pid] = "zombie"]
        /\ run_pid' = NOBODY
        /\ NoAnswer
     \/ /\ state[parent] = "child"
        /\ \/ /\ state' = [state EXCEPT ![run_pid] = "unused", ![parent] = "ready"]
              /\ run_pid' = NOBODY
           \/ /\ state' = [state EXCEPT ![parent] = "ready"]
              /\ UNCHANGED run_pid
        /\ frame' = SetField(parent, KERNEL_TABLES, "ebx", PidWord(run_pid))
        /\ answer' = [answer EXCEPT ![parent] = PidWord(run_pid)]
  /\ UNCHANGED handed

Kernel ==
  \/ /\ TimerISR \/ PostISRs \/ AnswerISRs \/ BlockISRs \/ MsgSndISR
        \/ MsgRcvISR \/ WaitISR \/ ExitISR
     /\ UNCHANGED <<cpu, ppid, kept, call>>
  \/ ForkISR /\ UNCHANGED cpu
----------------------------------------------------------------------------
\* A Kernel that leaves the tables of the ISR loaded.
LoaderWithoutTables ==
  \E p \in IF run_pid # NOBODY THEN {run_pid} ELSE {q \in Proc : state[q] = "ready"} :
    /\ mode = "schedule"
    /\ run_pid' = p
    /\ mode' = "user"
    /\ cpu' = [r \in Register |-> IF Visible(p, cr3) \in Proc
                 THEN frame[Visible(p, cr3)][Slot(Popped, r)] ELSE Zero]
    /\ UNCHANGED <<cr3, frame, state, ppid, kept, call, answer, handed>>

\* Scheduler, set_cr3 and Loader.
Loader ==
  \E p \in IF run_pid # NOBODY THEN {run_pid} ELSE {q \in Proc : state[q] = "ready"} :
    /\ mode = "schedule"
    /\ run_pid' = p
    /\ cr3' = Tables(p)
    /\ mode' = "user"
    /\ cpu' = [r \in Register |-> frame[Visible(p, Tables(p))][Slot(Popped, r)]]
    /\ UNCHANGED <<frame, state, ppid, kept, call, answer, handed>>

Next == Compute \/ Trap \/ Kernel \/ Loader

Spec == Init /\ [][Next]_vars
----------------------------------------------------------------------------
\* The kernel finds in the frame of the caller what the caller had in its
\* registers, and the number of the interrupt that came.
KernelSeesTheCaller ==
  mode = "kernel" =>
    /\ \A r \in Register : Field(run_pid, cr3, r) = kept[run_pid][r]
    /\ Field(run_pid, cr3, "intr_num") = <<0, call[run_pid], 0>>

\* A process goes on where it was with all its registers, whoever ran in
\* between, except those its stub declares as clobbered; after an interrupt
\* that is every register.
Resumes ==
  mode = "user" =>
    \A r \in Register \ Clobbers(call[run_pid]) : cpu[r] = kept[run_pid][r]

\* A stub returns the result of this call, in the register it reads: also if
\* another process gave it, while the caller waited.
ResultArrives ==
  mode = "user" => \A r \in Result(call[run_pid]) : cpu[r] = answer[run_pid]

\* A message handed over goes to the buffer that the receiver named, in the
\* memory of the receiver.
ReachesTheReceiver ==
  handed # NoHandOff =>
    /\ handed.tables = Tables(handed.to)
    /\ handed.at = kept[handed.to]["ebx"]
=============================================================================
