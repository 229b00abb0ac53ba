------------------------------ MODULE Programs ------------------------------
(***************************************************************************)
(* The programs of MAARKos as clients of Kernel: the shell (proc.c), the   *)
(* three servers it talks to, and the user programs it forks (make-bin).   *)
(*                                                                         *)
(* A program is the sequence of the calls it makes; a round is one turn of *)
(* its endless loop, chosen among those its input may lead to.  Between a  *)
(* request and its answer TerminalIn waits for a line to be typed, which   *)
(* may never happen; what else the servers do there is in Terminal and in  *)
(* FileSystem.  PrintDriver, whom only InitProc writes to, is left out.    *)
(*                                                                         *)
(* A forked process has page tables of its own, and its trapframe lies in  *)
(* its stack page; the system processes share the tables of the kernel.    *)
(* Exit and Wait read the exit number in that trapframe.                   *)
(***************************************************************************)
EXTENDS Kernel

CONSTANTS
  TERMINAL_IN, TERMINAL_OUT, FILE_SYSTEM  \* the PIDs of the servers

SHELL == 1
Servers == {TERMINAL_IN, TERMINAL_OUT, FILE_SYSTEM}

\* What the shell's SemGet returns: no other program here asks for an id.
in_q_sem == 0

ASSUME ProgramsAssumption == Servers = 2 .. NSYS-1 /\ in_q_sem \in DEVICE_SEMS

VARIABLES
  todo,      \* the calls each process has left in its round or program
  asked,     \* history: the server each process asked last
  child,     \* history: the process of the shell's command
  exit_num   \* the shell's exit_num

progVars == <<todo, asked, child, exit_num>>
allVars == <<vars, progVars>>
----------------------------------------------------------------------------
Call(c) == [call |-> c]
MsgSnd(server) == [call |-> "MsgSnd", to |-> server]

\* MsgSnd to a server, and MsgRcv of its answer.
Ask(server) == <<MsgSnd(server), Call("MsgRcv")>>

\* Prompt and input.
GetLine == Ask(TERMINAL_OUT) \o Ask(TERMINAL_IN)

\* Dir and Cat show what they have read, and read on.
ShowEntry == Ask(TERMINAL_OUT) \o Ask(FILE_SYSTEM)

\* A shell that starts two programs before it waits for them.
ShellRoundsTwoAtOnce ==
  {GetLine \o Ask(FILE_SYSTEM)
           \o <<Call("Fork"), Call("Fork"), Call("Wait"), Call("Wait")>>
           \o Ask(TERMINAL_OUT)}

\* The turns of the loops of UserShell: a line that is empty, "out" or a
\* right password; a wrong password; dir or cat of what cannot be read, dir of
\* a file, a name FileSystem does not know or that is no program; dir or cat;
\* a program.  Requests in a row to one server are taken as one.
ShellRounds ==
  {GetLine,
   GetLine \o Ask(TERMINAL_OUT),
   GetLine \o Ask(FILE_SYSTEM) \o Ask(TERMINAL_OUT),
   GetLine \o Ask(FILE_SYSTEM) \o ShowEntry,
   GetLine \o Ask(FILE_SYSTEM) \o <<Call("Fork"), Call("Wait")>>
           \o Ask(TERMINAL_OUT)}

\* TerminalIn waits for the characters of a line; the waits are taken as one.
TerminalInRounds == {<<Call("MsgRcv"), Call("SemWait"), Call("Answer")>>}

ServerRounds == {<<Call("MsgRcv"), Call("Answer")>>}

\* A hello that does not wait for the answer.
HelloWithoutMsgRcv == <<MsgSnd(TERMINAL_OUT), Call("Exit")>>

\* hello.S, prompt.S and sleep.S.
Hello == Ask(TERMINAL_OUT) \o <<Call("Exit")>>
Prompt == Ask(TERMINAL_OUT) \o Ask(TERMINAL_IN) \o Ask(TERMINAL_OUT) \o <<Call("Exit")>>
SleepBin == <<Call("Sleep"), Call("Exit")>>

Rounds(p) ==
  CASE p = SHELL -> ShellRounds
    [] p = TERMINAL_IN -> TerminalInRounds
    [] p \in Servers \ {TERMINAL_IN} -> ServerRounds
    [] OTHER -> {}

\* What process p may do next: go on with its plan, which for Dir and Cat may
\* lead to one more entry, or begin a round.
Plans(p) ==
  IF todo[p] = <<>> THEN Rounds(p)
  ELSE {todo[p]} \cup (IF p = SHELL /\ todo[p] = ShowEntry
                       THEN {ShowEntry \o ShowEntry} ELSE {})

\* The shell sets up the terminal and greets, which is one more request.
ProgInit ==
  /\ Init
  /\ todo = [p \in PID |->
       IF p = SHELL THEN <<Call("SemGet")>> \o Ask(TERMINAL_OUT) ELSE <<>>]
  /\ asked = [p \in PID |-> NONE]
  /\ child = NONE
  /\ exit_num = NONE
----------------------------------------------------------------------------
\* The page tables a process runs under (0: those of the kernel), and what is
\* read at the address of the trapframe of process p under tables t.
KERNEL_TABLES == 0
JUNK == -2
Tables(p) == IF p < NSYS THEN KERNEL_TABLES ELSE p
ReadNumber(p, t) == IF t = Tables(p) THEN p ELSE JUNK

\* Fork without a PID or without pages: the caller is not told.
ForkRefused ==
  /\ MakesCall("Fork")
  /\ unused_q = <<>> \/ Cardinality(FreePages) < PAGES
  /\ UNCHANGED vars

\* A program gives its PID as the number: no two say the same.  ExitISR has
\* loaded the kernel's tables; WaitISR runs under those of the caller.
ExitAndTell ==
  /\ ExitISR
  /\ exit_num' = IF state[ppid[run_pid]] = "WAIT4CHILD"
                 THEN ReadNumber(run_pid, KERNEL_TABLES) ELSE exit_num

WaitAndHear ==
  /\ WaitISR
  /\ exit_num' = IF ChildrenExited = {} THEN exit_num
                 ELSE ReadNumber(Min(ChildrenExited), Tables(run_pid))

MakeCall(i) ==
  \/ /\ i.call = "MsgSnd"
     /\ \E d \in Data : MsgSndISR(i.to, d)
     /\ UNCHANGED <<pageVars, exit_num>>
  \/ /\ i.call = "Answer"
     /\ \E d \in Data : MsgSndISR(buf[run_pid].sender, d)
     /\ UNCHANGED <<pageVars, exit_num>>
  \/ i.call = "MsgRcv" /\ MsgRcvIntr /\ UNCHANGED exit_num
  \/ /\ \/ i.call = "SemGet" /\ SemGetISR
        \/ i.call = "SemWait" /\ SemWaitISR(in_q_sem)
     /\ UNCHANGED <<mailVars, pageVars, exit_num>>
  \/ i.call = "Sleep" /\ SleepIntr /\ UNCHANGED exit_num
  \/ i.call = "Fork" /\ (ForkISR \/ ForkRefused) /\ UNCHANGED exit_num
  \/ i.call = "Wait" /\ WaitAndHear
  \/ i.call = "Exit" /\ ExitAndTell

\* A Fork took place: its PID left unused_q and starts a program.
Started(rest) ==
  /\ unused_q' # unused_q
  /\ child' = Head(unused_q)
  /\ \E program \in {Hello, Prompt, SleepBin} :
       todo' = [todo EXCEPT ![run_pid] = rest, ![Head(unused_q)] = program]

Continued(rest) ==
  /\ todo' = [todo EXCEPT ![run_pid] = rest]
  /\ child' = IF run_pid = SHELL /\ todo[SHELL] = <<>> THEN NONE ELSE child

\* The running process makes its next call.
Step(p) ==
  /\ run_pid = p
  /\ \E plan \in Plans(p) :
       LET i == Head(plan) IN
       /\ MakeCall(i)
       /\ IF i.call = "Fork" /\ unused_q' # unused_q
          THEN Started(Tail(plan)) ELSE Continued(Tail(plan))
       /\ asked' = [asked EXCEPT ![p] =
            IF i.call = "MsgSnd" THEN i.to ELSE IF i.call = "Exit" THEN NONE ELSE @]

Tock == TimerIntr /\ UNCHANGED progVars

\* TerminalISR, when somebody types: once the shell has set up the terminal.
LineTyped ==
  /\ in_q_sem \in HandedOut
  /\ DevicePost(in_q_sem)
  /\ UNCHANGED <<mailVars, pageVars, progVars>>

ProgNext == Tock \/ LineTyped \/ \E p \in PID : Step(p)

ProgSpec == ProgInit /\ [][ProgNext]_allVars

\* The timer ticks, and of the processes that get the processor again and
\* again some call is made in the end, before the slice is over.  Which one
\* need not be said, and nobody has to type.
ProgFairSpec ==
  /\ ProgSpec
  /\ WF_allVars(Tock)
  /\ SF_allVars(\E p \in PID \ {0} : Step(p))
----------------------------------------------------------------------------
Returned(p) ==
  /\ asked[p] # NONE /\ state[p] # "WAIT"
  /\ todo[p] = <<>> \/ Head(todo[p]).call # "MsgRcv"

\* An answer comes from the server that was asked: no answer is left over
\* from an earlier request, nor from an earlier process with the same PID.
AnswerIsTheServers == \A p \in PID : Returned(p) => buf[p].sender = asked[p]

Waited ==
  /\ child # NONE /\ state[SHELL] # "WAIT4CHILD"
  /\ \A i \in DOMAIN todo[SHELL] : todo[SHELL][i].call \notin {"Fork", "Wait"}

\* Wait reports the process that the command forked, in either order of Wait
\* and Exit: with one shell that waits for each command there are never two
\* zombies, the case in which WaitISR names the wrong one.
WaitReportsTheFork == Waited => reported[SHELL] = child

\* A process that has called Exit is gone, or a zombie: it never runs on, as
\* it would if ExitISR found no page of it.
ExitEndsTheProgram ==
  \A p \in PID : p >= NSYS /\ todo[p] = <<>> =>
    /\ state[p] \in {"UNUSED", "ZOMBIE"}
    /\ p # run_pid /\ p \notin Range(proc_q)

\* The shell is left in Wait only by a Fork that failed.
StuckOnlyAfterRefusal ==
  state[SHELL] = "WAIT4CHILD" =>
    child = NONE \/ state[child] \notin {"UNUSED", "ZOMBIE"}

\* TerminalIn is blocked in SemWait(in_q_sem).
WaitsForLine == OnSem(in_q_sem) # {}

\* A program that was forked ends, and the shell comes back to its prompt, again
\* and again: unless the program asked for a line and nobody ever types it.
ShellComesBack == <>[]WaitsForLine \/ []<>(child = NONE)

\* The number shown after " exit num: " (proc.c:237) is what the program gave
\* to Exit; sleep.S:6 "exits with a number that is the system time".
ShowsTheExitNumber == Waited => exit_num = child
=============================================================================
