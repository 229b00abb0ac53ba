---------------------------- MODULE Trap_proofs ----------------------------
(***************************************************************************)
(* For every set of processes and whatever calls they make, the frames     *)
(* through which they share the CPU keep what belongs to each of them.     *)
(***************************************************************************)
EXTENDS Trap, TLAPS

Fields == Register \cup {"intr_num"}
SlotOf(w) == Slot(trapframe_t, w)
-----------------------------------------------------------------------------
\* The layout: what is pushed, what trapframe_t names and what is popped are
\* the same words in the same places.
LEMMA FieldSlots ==
  /\ \A w \in Fields : SlotOf(w) \in 1 .. 16
  /\ \A v, w \in Fields : SlotOf(v) = SlotOf(w) => v = w
<1>1. /\ Slot(trapframe_t, "gs") = 1
      /\ Slot(trapframe_t, "fs") = 2
      /\ Slot(trapframe_t, "es") = 3
      /\ Slot(trapframe_t, "ds") = 4
  BY SMTT(60) DEF trapframe_t, Slot
<1>2. /\ Slot(trapframe_t, "edi") = 5
      /\ Slot(trapframe_t, "esi") = 6
      /\ Slot(trapframe_t, "ebp") = 7
      /\ Slot(trapframe_t, "ebx") = 9
  BY SMTT(60) DEF trapframe_t, Slot
<1>3. /\ Slot(trapframe_t, "edx") = 10
      /\ Slot(trapframe_t, "ecx") = 11
      /\ Slot(trapframe_t, "eax") = 12
  BY SMTT(60) DEF trapframe_t, Slot
<1>4. /\ Slot(trapframe_t, "intr_num") = 13
      /\ Slot(trapframe_t, "eip") = 14
      /\ Slot(trapframe_t, "cs") = 15
      /\ Slot(trapframe_t, "eflags") = 16
  BY SMTT(60) DEF trapframe_t, Slot
<1> QED
  BY <1>1, <1>2, <1>3, <1>4 DEF SlotOf, Fields, Register, General, Flow, Segments

LEMMA PoppedSlots == \A r \in Register : Slot(Popped, r) = SlotOf(r)
BY SMTT(60) DEF SlotOf, Slot, trapframe_t, Popped, Register, General, Flow, Segments

LEMMA PushedWords ==
  ASSUME NEW c
  PROVE  /\ DOMAIN PushedFrame(c) = 1 .. 16
         /\ \A r \in Register : PushedFrame(c)[SlotOf(r)] = cpu[r]
         /\ PushedFrame(c)[SlotOf("intr_num")] = <<0, c, 0>>
<1>1. DOMAIN PushedFrame(c) = 1 .. 16
  BY DEF PushedFrame, Pushed
<1>2. \A r \in Register : PushedFrame(c)[SlotOf(r)] = cpu[r]
  BY SMTT(60) DEF PushedFrame, Pushed, SlotOf, Slot, trapframe_t, Register, General, Flow, Segments
<1>3. PushedFrame(c)[SlotOf("intr_num")] = <<0, c, 0>>
  <2>1. SlotOf("intr_num") = 13
    BY DEF SlotOf, Slot, trapframe_t
  <2>2. Pushed[Len(Pushed) + 1 - 13] = "intr_num" /\ 13 \in DOMAIN Pushed
    BY DEF Pushed
  <2>3. PushedFrame(c)[13] = <<0, c, 0>>
    BY <2>2, Zenon DEF PushedFrame
  <2> QED
    BY <2>1, <2>3
<1> QED
  BY <1>1, <1>2, <1>3

LEMMA StartWords ==
  ASSUME NEW p
  PROVE  /\ DOMAIN StartFrame(p) = 1 .. 16
         /\ \A r \in Register : StartFrame(p)[SlotOf(r)] = StartRegisters(p)[r]
<1>1. DOMAIN StartFrame(p) = 1 .. 16
  BY DEF StartFrame, trapframe_t
<1>2. \A r \in Register : StartFrame(p)[SlotOf(r)] = StartRegisters(p)[r]
  BY SMTT(60) DEF StartFrame, SlotOf, Slot, trapframe_t, Register, General, Flow, Segments
<1> QED
  BY <1>1, <1>2
-----------------------------------------------------------------------------
\* The inductive invariant.  All of the registers of p are in its frame; all
\* but those that its stub gives up; the result of its call is.
KeepsAll(p) == \A r \in Register : frame[p][SlotOf(r)] = kept[p][r]
KeepsRest(p) ==
  \A r \in Register \ Clobbers(call[p]) : frame[p][SlotOf(r)] = kept[p][r]
HasAnswer(p) == \A r \in Result(call[p]) : frame[p][SlotOf(r)] = answer[p]

DomainsOK ==
  /\ DOMAIN frame = Proc /\ \A p \in Proc : DOMAIN frame[p] = 1 .. 16
  /\ DOMAIN state = Proc /\ DOMAIN kept = Proc /\ DOMAIN call = Proc
  /\ DOMAIN answer = Proc /\ ppid \in [Proc -> Proc]

RunningOK ==
  /\ mode \in {"user", "kernel", "schedule"}
  /\ run_pid \in Proc \cup {NOBODY}
  /\ mode # "schedule" => run_pid \in Proc /\ cr3 = Tables(run_pid)
  /\ run_pid \in Proc => state[run_pid] = "ready"

\* The call that a blocked process waits in.
BlockedIn(s) ==
  CASE s = "sleep" -> "Sleep" [] s = "wait" -> "SemWait"
    [] s = "mail" -> "MsgRcv" [] s = "child" -> "Wait"
BlockedStates == {"sleep", "wait", "mail", "child"}

FrameOK(p) ==
  /\ call[p] \in Interrupts \cup Calls[p]
  /\ state[p] \in BlockedStates => KeepsAll(p) /\ call[p] = BlockedIn(state[p])
  /\ state[p] = "ready" /\ (p = run_pid => mode = "schedule")
       => KeepsRest(p) /\ HasAnswer(p)

KernelOK ==
  mode = "kernel" =>
    /\ KeepsAll(run_pid)
    /\ frame[run_pid][SlotOf("intr_num")] = <<0, call[run_pid], 0>>
    /\ handed = NoHandOff

HandedOK ==
  handed # NoHandOff =>
    /\ run_pid \in Proc /\ handed.to \in Proc \ {run_pid}
    /\ ReachesTheReceiver

TInv ==
  /\ DomainsOK /\ RunningOK /\ \A p \in Proc : FrameOK(p)
  /\ KernelOK /\ Resumes /\ ResultArrives /\ HandedOK
-----------------------------------------------------------------------------
LEMMA ProcNat == NOBODY \notin Proc /\ KERNEL_TABLES \notin Proc /\ 0 \in SYSTEM
BY TrapAssumption DEF Proc, NOBODY, KERNEL_TABLES

\* Under its own tables a process sees its own frame.
LEMMA OwnFrame == \A p \in Proc : Visible(p, Tables(p)) = p
BY DEF Visible, Tables

\* What the stubs promise.
LEMMA Stubs ==
  /\ \A c : Result(c) \subseteq Clobbers(c) /\ Clobbers(c) \subseteq Register
  /\ \A c \in Interrupts \cup {"SemPost", "SemWait", "Sleep", "MsgSnd", "MsgRcv", "Fork", "Exit"} :
        Result(c) = {}
  /\ \A c \in Interrupts : Clobbers(c) = {}
  /\ \A c \in {"GetPid", "GetTime", "SemGet"} : Result(c) = {"eax"}
  /\ Result("Wait") = {"ebx"}
BY DEF Result, Clobbers, Interrupts, Register, General

\* Only processes of the kernel wait for children, so that the frame of the
\* parent is seen under the tables of the kernel.
LEMMA ParentsAreSystem ==
  ASSUME NEW p \in Proc, FrameOK(p), state[p] = "child"
  PROVE  p \in SYSTEM /\ Visible(p, KERNEL_TABLES) = p
BY TrapAssumption DEF FrameOK, BlockedStates, BlockedIn, Proc, Interrupts, Visible

\* The kernel serves the call that the caller made.
LEMMA ServedCall ==
  ASSUME TInv, NEW names, Serves(names)
  PROVE  /\ call[run_pid] \in names /\ mode = "kernel" /\ mode' = "schedule"
         /\ run_pid \in Proc /\ state[run_pid] = "ready" /\ cr3 = Tables(run_pid)
         /\ KeepsAll(run_pid) /\ handed = NoHandOff
         /\ Visible(run_pid, cr3) = run_pid
<1>1. mode = "kernel" /\ mode' = "schedule"
  BY DEF Serves
<1>2. /\ run_pid \in Proc /\ state[run_pid] = "ready" /\ cr3 = Tables(run_pid)
      /\ KeepsAll(run_pid) /\ handed = NoHandOff
      /\ frame[run_pid][SlotOf("intr_num")] = <<0, call[run_pid], 0>>
  BY <1>1 DEF TInv, RunningOK, KernelOK
<1>3. Visible(run_pid, cr3) = run_pid
  BY <1>2, OwnFrame
<1>4. PICK c \in names : frame[run_pid][SlotOf("intr_num")] = <<0, c, 0>>
  BY <1>3 DEF Serves, Field, SlotOf
<1>5. call[run_pid] = c
  BY <1>2, <1>4
<1> QED
  BY <1>1, <1>2, <1>3, <1>4, <1>5

\* A process that an ISR leaves alone.
Untouched(p) ==
  /\ state'[p] = state[p] /\ frame'[p] = frame[p] /\ kept'[p] = kept[p]
  /\ call'[p] = call[p] /\ answer'[p] = answer[p]

LEMMA UntouchedOK ==
  ASSUME NEW p \in Proc, FrameOK(p), Untouched(p), p # run_pid, mode' = "schedule"
  PROVE  FrameOK(p)'
BY DEF FrameOK, Untouched, KeepsAll, KeepsRest, HasAnswer

\* A blocked process that becomes ready, but for a parent of an exited child.
LEMMA FreedOK ==
  ASSUME NEW p \in Proc, FrameOK(p), state[p] \in {"sleep", "wait", "mail"},
         state'[p] = "ready", frame'[p] = frame[p], kept'[p] = kept[p],
         call'[p] = call[p]
  PROVE  FrameOK(p)'
BY Stubs DEF FrameOK, BlockedStates, BlockedIn, KeepsAll, KeepsRest, HasAnswer
-----------------------------------------------------------------------------
\* The end of an ISR that leaves a process running, or none.
LEMMA IsrEnds ==
  ASSUME TInv, NEW names, Serves(names), DomainsOK',
         \A p \in Proc : FrameOK(p)',
         \/ run_pid' = run_pid /\ state'[run_pid] = "ready"
         \/ run_pid' = NOBODY,
         handed' = handed
  PROVE  TInv'
<1>1. mode' = "schedule" /\ run_pid \in Proc /\ handed = NoHandOff
  BY ServedCall
<1>2. RunningOK'
  BY <1>1, ProcNat DEF RunningOK
<1> QED
  BY <1>1, <1>2 DEF TInv, KernelOK, Resumes, ResultArrives, HandedOK

\* The caller, when the kernel has nothing for it.
LEMMA CallerOK ==
  ASSUME TInv, NEW names, Serves(names), NEW p \in Proc, p = run_pid,
         Untouched(p), Result(call[p]) = {}
  PROVE  FrameOK(p)'
<1>1. /\ mode' = "schedule" /\ KeepsAll(p)
      /\ state[p] = "ready" /\ FrameOK(p)
  BY ServedCall DEF TInv
<1> QED
  BY <1>1 DEF FrameOK, Untouched, KeepsAll, KeepsRest, HasAnswer, BlockedStates

\* The caller, when it is blocked.
LEMMA BlockedOK ==
  ASSUME TInv, NEW names, Serves(names), NEW s \in BlockedStates,
         call[run_pid] = BlockedIn(s), state' = [state EXCEPT ![run_pid] = s],
         UNCHANGED <<frame, kept, call, answer>>, GivesUp
  PROVE  \A p \in Proc : FrameOK(p)'
<1>1. /\ mode' = "schedule" /\ run_pid \in Proc /\ KeepsAll(run_pid)
      /\ state[run_pid] = "ready" /\ DOMAIN state = Proc
  BY ServedCall DEF TInv, DomainsOK
<1> SUFFICES ASSUME NEW p \in Proc PROVE FrameOK(p)'
  OBVIOUS
<1>2. FrameOK(p)
  BY DEF TInv
<1>3. CASE p = run_pid
  <2>1. state'[p] = s /\ s # "ready"
    BY <1>1, <1>3 DEF BlockedStates
  <2> QED
    BY <1>1, <1>2, <1>3, <2>1 DEF FrameOK, KeepsAll
<1>4. CASE p # run_pid
  BY <1>1, <1>2, <1>4, UntouchedOK DEF Untouched
<1> QED
  BY <1>3, <1>4

\* ISRs that free processes of a queue and have nothing for the caller.
LEMMA FreeingOK ==
  ASSUME TInv, NEW names, Serves(names), Result(call[run_pid]) = {},
         NEW from \in SUBSET {"sleep", "wait", "mail"}, Frees(from),
         UNCHANGED <<frame, kept, call, answer>>
  PROVE  /\ \A p \in Proc : FrameOK(p)'
         /\ DOMAIN state' = Proc /\ state'[run_pid] = "ready"
<1>1. /\ mode' = "schedule" /\ run_pid \in Proc /\ KeepsAll(run_pid)
      /\ state[run_pid] = "ready" /\ DOMAIN state = Proc
  BY ServedCall DEF TInv, DomainsOK
<1>2. PICK freed \in SUBSET {p \in Proc : state[p] \in from} :
         state' = [p \in Proc |-> IF p \in freed THEN "ready" ELSE state[p]]
  BY DEF Frees
<1>3. DOMAIN state' = Proc /\ state'[run_pid] = "ready"
  BY <1>1, <1>2
<1>4. ASSUME NEW p \in Proc PROVE FrameOK(p)'
  <2>1. FrameOK(p)
    BY DEF TInv
  <2>2. CASE p \in freed
    <3>1. state[p] \in {"sleep", "wait", "mail"} /\ state'[p] = "ready"
      BY <1>2, <2>2
    <3> QED
      BY <2>1, <3>1, FreedOK
  <2>3. CASE p \notin freed
    <3>1. Untouched(p)
      BY <1>2, <2>3 DEF Untouched
    <3>2. CASE p = run_pid
      BY <3>1, <3>2, CallerOK
    <3>3. CASE p # run_pid
      BY <1>1, <2>1, <3>1, <3>3, UntouchedOK
    <3> QED
      BY <3>2, <3>3
  <2> QED
    BY <2>2, <2>3
<1> QED
  BY <1>3, <1>4
-----------------------------------------------------------------------------
LEMMA ComputeStep == TInv /\ Compute => TInv'
<1> SUFFICES ASSUME TInv, Compute PROVE TInv'
  OBVIOUS
<1>1. /\ mode = "user" /\ mode' = "user" /\ run_pid' = run_pid /\ run_pid \in Proc
      /\ UNCHANGED <<frame, cr3, state, ppid, handed>>
      /\ kept' = [kept EXCEPT ![run_pid] = cpu']
      /\ call' = [call EXCEPT ![run_pid] = "Timer"]
      /\ answer' = [answer EXCEPT ![run_pid] = Zero]
      /\ state[run_pid] = "ready"
  BY DEF Compute, TInv, RunningOK
<1>2. DomainsOK' /\ RunningOK' /\ KernelOK'
  BY <1>1 DEF TInv, DomainsOK, RunningOK, KernelOK
<1>3. kept'[run_pid] = cpu' /\ call'[run_pid] = "Timer"
  BY <1>1 DEF TInv, DomainsOK
<1>4. Resumes' /\ ResultArrives'
  BY <1>1, <1>3, Stubs DEF Resumes, ResultArrives, Interrupts
<1>5. ASSUME NEW p \in Proc PROVE FrameOK(p)'
  <2>1. FrameOK(p)
    BY DEF TInv
  <2>2. CASE p = run_pid
    BY <1>1, <1>3, <2>1, <2>2 DEF FrameOK, BlockedStates, Interrupts
  <2>3. CASE p # run_pid
    <3>1. kept'[p] = kept[p] /\ call'[p] = call[p] /\ answer'[p] = answer[p]
      BY <1>1, <2>3 DEF TInv, DomainsOK
    <3> QED
      BY <1>1, <2>1, <2>3, <3>1 DEF FrameOK, KeepsAll, KeepsRest, HasAnswer
  <2> QED
    BY <2>2, <2>3
<1>6. HandedOK'
  <2>1. CASE handed = NoHandOff
    BY <1>1, <2>1 DEF HandedOK
  <2>2. CASE handed # NoHandOff
    <3>1. handed.to \in Proc \ {run_pid} /\ ReachesTheReceiver
      BY <2>2 DEF TInv, HandedOK
    <3>2. kept'[handed.to] = kept[handed.to]
      BY <1>1, <3>1 DEF TInv, DomainsOK
    <3> QED
      BY <1>1, <2>2, <3>1, <3>2 DEF HandedOK, ReachesTheReceiver
  <2> QED
    BY <2>1, <2>2
<1> QED
  BY <1>2, <1>4, <1>5, <1>6 DEF TInv

LEMMA TrapStep == TInv /\ Trap => TInv'
<1> SUFFICES ASSUME TInv, mode = "user",
                    NEW c \in Interrupts \cup Calls[run_pid], CommonRoutine(c)
             PROVE TInv'
  BY DEF Trap
<1>1. /\ run_pid \in Proc /\ run_pid' = run_pid /\ mode' = "kernel"
      /\ state[run_pid] = "ready" /\ Visible(run_pid, cr3) = run_pid
      /\ UNCHANGED <<cr3, state, ppid>> /\ handed' = NoHandOff
  BY OwnFrame DEF TInv, RunningOK, CommonRoutine
<1>2. /\ frame' = [frame EXCEPT ![run_pid] = PushedFrame(c)]
      /\ kept' = [kept EXCEPT ![run_pid] = cpu]
      /\ call' = [call EXCEPT ![run_pid] = c]
      /\ answer' = [answer EXCEPT ![run_pid] = Zero]
  BY <1>1 DEF CommonRoutine
<1>3. /\ frame'[run_pid] = PushedFrame(c) /\ kept'[run_pid] = cpu
      /\ call'[run_pid] = c
      /\ \A p \in Proc : p # run_pid => Untouched(p)
  BY <1>1, <1>2 DEF TInv, DomainsOK, Untouched
<1>4. DomainsOK'
  <2>1. \A p \in Proc : DOMAIN frame'[p] = 1 .. 16
    BY <1>3, PushedWords DEF TInv, DomainsOK, Untouched
  <2> QED
    BY <1>1, <1>2, <2>1 DEF TInv, DomainsOK
<1>5. RunningOK' /\ HandedOK' /\ Resumes' /\ ResultArrives'
  BY <1>1 DEF TInv, RunningOK, HandedOK, Resumes, ResultArrives
<1>6. KernelOK'
  BY <1>1, <1>3, PushedWords DEF KernelOK, KeepsAll
<1>7. ASSUME NEW p \in Proc PROVE FrameOK(p)'
  <2>1. FrameOK(p)
    BY DEF TInv
  <2>2. CASE p = run_pid
    BY <1>1, <1>3, <2>2 DEF FrameOK, BlockedStates
  <2>3. CASE p # run_pid
    BY <1>1, <1>3, <2>1, <2>3 DEF FrameOK, Untouched, KeepsAll, KeepsRest, HasAnswer
  <2> QED
    BY <2>2, <2>3
<1> QED
  BY <1>4, <1>5, <1>6, <1>7 DEF TInv

LEMMA LoaderStep == TInv /\ Loader => TInv'
<1> SUFFICES ASSUME TInv,
                    NEW p \in IF run_pid # NOBODY THEN {run_pid}
                              ELSE {q \in Proc : state[q] = "ready"},
                    mode = "schedule", run_pid' = p, cr3' = Tables(p), mode' = "user",
                    cpu' = [r \in Register |->
                              frame[Visible(p, Tables(p))][Slot(Popped, r)]],
                    UNCHANGED <<frame, state, ppid, kept, call, answer, handed>>
             PROVE TInv'
  BY DEF Loader
<1>1. p \in Proc /\ state[p] = "ready" /\ FrameOK(p)
  BY DEF TInv, RunningOK
<1>2. KeepsRest(p) /\ HasAnswer(p)
  BY <1>1 DEF FrameOK
<1>3. \A r \in Register : cpu'[r] = frame[p][SlotOf(r)]
  BY <1>1, OwnFrame, PoppedSlots
<1>4. Resumes' /\ ResultArrives'
  <2>1. Result(call[p]) \subseteq Register
    BY Stubs
  <2> QED
    BY <1>2, <1>3, <2>1 DEF Resumes, ResultArrives, KeepsRest, HasAnswer
<1>5. DomainsOK' /\ RunningOK' /\ KernelOK'
  BY <1>1 DEF TInv, DomainsOK, RunningOK, KernelOK
<1>6. \A q \in Proc : FrameOK(q)'
  BY DEF TInv, FrameOK, KeepsAll, KeepsRest, HasAnswer
<1>7. HandedOK'
  BY <1>1, ProcNat DEF TInv, HandedOK, ReachesTheReceiver
<1> QED
  BY <1>4, <1>5, <1>6, <1>7 DEF TInv
-----------------------------------------------------------------------------
\* ISRs that write no frame.
QuietISR == TimerISR \/ PostISRs \/ BlockISRs \/ MsgRcvISR

LEMMA QuietStep ==
  TInv /\ QuietISR /\ UNCHANGED <<ppid, kept, call>> => TInv'
<1> SUFFICES ASSUME TInv, QuietISR, UNCHANGED <<ppid, kept, call>>
             PROVE  TInv'
  OBVIOUS
<1>1. UNCHANGED <<frame, answer, handed>>
  BY DEF QuietISR, TimerISR, PostISRs, BlockISRs, MsgRcvISR, NoAnswer
<1>2. ASSUME DOMAIN state' = Proc PROVE DomainsOK'
  BY <1>1, <1>2 DEF TInv, DomainsOK
<1>3. CASE TimerISR
  <2>1. Serves({"Timer"}) /\ Frees({"sleep"}) /\ (RunsOn \/ GivesUp)
    BY <1>3 DEF TimerISR
  <2>2. Result(call[run_pid]) = {}
    BY <2>1, ServedCall, Stubs DEF Interrupts
  <2>3. /\ \A p \in Proc : FrameOK(p)'
        /\ DOMAIN state' = Proc /\ state'[run_pid] = "ready"
    BY <1>1, <2>1, <2>2, FreeingOK
  <2> QED
    BY <1>1, <1>2, <2>1, <2>3, ServedCall, IsrEnds DEF RunsOn, GivesUp
<1>4. CASE PostISRs
  <2>1. Serves({"Printer", "Terminal", "SemPost"}) /\ Frees({"wait"}) /\ RunsOn
    BY <1>4 DEF PostISRs
  <2>2. Result(call[run_pid]) = {}
    BY <2>1, ServedCall, Stubs DEF Interrupts
  <2>3. /\ \A p \in Proc : FrameOK(p)'
        /\ DOMAIN state' = Proc /\ state'[run_pid] = "ready"
    BY <1>1, <2>1, <2>2, FreeingOK
  <2> QED
    BY <1>1, <1>2, <2>1, <2>3, ServedCall, IsrEnds DEF RunsOn
\* The three calls that may block.
<1>5. ASSUME NEW c \in {"Sleep", "SemWait", "MsgRcv"}, NEW s \in BlockedStates,
             Serves({c}), c = BlockedIn(s), Blocks(s)
      PROVE  TInv'
  <2>1. call[run_pid] = c /\ GivesUp /\ state' = [state EXCEPT ![run_pid] = s]
    BY <1>5, ServedCall DEF Blocks
  <2>2. \A p \in Proc : FrameOK(p)'
    BY <1>1, <1>5, <2>1, BlockedOK
  <2>3. DOMAIN state' = Proc
    BY <2>1 DEF TInv, DomainsOK
  <2> QED
    BY <1>1, <1>2, <1>5, <2>1, <2>2, <2>3, IsrEnds DEF GivesUp
<1>6. ASSUME NEW c \in {"SemWait", "MsgRcv"}, Serves({c}), RunsOn, UNCHANGED state
      PROVE  TInv'
  <2>1. /\ Result(call[run_pid]) = {} /\ state[run_pid] = "ready"
        /\ mode' = "schedule" /\ cr3 = Tables(run_pid)
    BY <1>6, ServedCall, Stubs
  <2>2. ASSUME NEW p \in Proc PROVE FrameOK(p)'
    <3>1. FrameOK(p) /\ Untouched(p)
      BY <1>1, <1>6 DEF TInv, Untouched
    <3>2. CASE p = run_pid
      BY <1>6, <2>1, <3>1, <3>2, CallerOK
    <3>3. CASE p # run_pid
      BY <2>1, <3>1, <3>3, UntouchedOK
    <3> QED
      BY <3>2, <3>3
  <2>3. DomainsOK'
    BY <1>2, <1>6 DEF TInv, DomainsOK
  <2> QED
    BY <1>1, <1>6, <2>1, <2>2, <2>3, IsrEnds DEF RunsOn
<1>7. CASE BlockISRs
  <2>1. CASE Serves({"Sleep"}) /\ Blocks("sleep")
    BY <1>5, <2>1 DEF BlockedStates, BlockedIn
  <2>2. CASE Serves({"SemWait"}) /\ Blocks("wait")
    BY <1>5, <2>2 DEF BlockedStates, BlockedIn
  <2>3. CASE Serves({"SemWait"}) /\ RunsOn /\ UNCHANGED state
    BY <1>6, <2>3
  <2> QED
    BY <1>7, <2>1, <2>2, <2>3 DEF BlockISRs
<1>8. CASE MsgRcvISR
  <2>1. CASE Serves({"MsgRcv"}) /\ Blocks("mail")
    BY <1>5, <2>1 DEF BlockedStates, BlockedIn
  <2>2. CASE Serves({"MsgRcv"}) /\ RunsOn /\ UNCHANGED state
    BY <1>6, <2>2
  <2> QED
    BY <1>8, <2>1, <2>2 DEF MsgRcvISR
<1> QED
  BY <1>3, <1>4, <1>7, <1>8 DEF QuietISR
-----------------------------------------------------------------------------
\* A result written into the frame of a, seen under tables t.
LEMMA AnswerOK ==
  ASSUME TInv, NEW a \in Proc, NEW t, Visible(a, t) = a, KeepsAll(a),
         NEW w \in Register, Result(call[a]) = {w}, NEW x,
         frame' = SetField(a, t, w, x), answer' = [answer EXCEPT ![a] = x],
         DOMAIN state' = Proc, state'[a] = "ready",
         UNCHANGED <<ppid, kept, call>>
  PROVE  /\ DomainsOK'
         /\ FrameOK(a)'
         /\ \A p \in Proc : p # a => frame'[p] = frame[p] /\ answer'[p] = answer[p]
<1>1. /\ DOMAIN frame = Proc /\ DOMAIN frame[a] = 1 .. 16 /\ DOMAIN answer = Proc
  BY DEF TInv, DomainsOK
<1>2. frame' = [frame EXCEPT ![a][SlotOf(w)] = x]
  BY DEF SetField, SlotOf
<1>3. SlotOf(w) \in 1 .. 16
  BY FieldSlots DEF Fields
<1>4. /\ frame'[a] = [frame[a] EXCEPT ![SlotOf(w)] = x]
      /\ \A p \in Proc : p # a => frame'[p] = frame[p]
      /\ DOMAIN frame' = Proc
  BY <1>1, <1>2
<1>5. /\ frame'[a][SlotOf(w)] = x /\ answer'[a] = x
      /\ DOMAIN frame'[a] = 1 .. 16
      /\ \A r \in Register \ {w} : frame'[a][SlotOf(r)] = frame[a][SlotOf(r)]
  <2>1. \A r \in Register \ {w} : SlotOf(r) \in 1 .. 16 /\ SlotOf(r) # SlotOf(w)
    BY FieldSlots DEF Fields
  <2> QED
    BY <1>1, <1>3, <1>4, <2>1
<1>6. DomainsOK'
  BY <1>1, <1>4, <1>5 DEF TInv, DomainsOK
<1>7. FrameOK(a)'
  <2>1. w \in Clobbers(call[a]) /\ FrameOK(a)
    BY Stubs DEF TInv
  <2> QED
    BY <1>5, <2>1 DEF FrameOK, KeepsAll, KeepsRest, HasAnswer, BlockedStates
<1>8. \A p \in Proc : p # a => answer'[p] = answer[p]
  BY <1>1
<1> QED
  BY <1>4, <1>6, <1>7, <1>8

LEMMA AnswerStep ==
  TInv /\ AnswerISRs /\ UNCHANGED <<ppid, kept, call>> => TInv'
<1> SUFFICES ASSUME TInv, AnswerISRs, UNCHANGED <<ppid, kept, call>>
             PROVE  TInv'
  OBVIOUS
<1> DEFINE x == answer'[run_pid]
<1>1. PICK c \in {"GetPid", "GetTime", "SemGet"} :
        Serves({c}) /\ answer' = [answer EXCEPT ![run_pid] = x]
  <2>1. DOMAIN answer = Proc /\ run_pid \in Proc
    BY ServedCall DEF AnswerISRs, TInv, DomainsOK
  <2> QED
    BY <2>1 DEF AnswerISRs
<1>2. /\ call[run_pid] = c /\ run_pid \in Proc /\ state[run_pid] = "ready"
      /\ cr3 = Tables(run_pid) /\ mode' = "schedule"
      /\ Visible(run_pid, cr3) = run_pid /\ KeepsAll(run_pid)
  BY <1>1, ServedCall
<1>3. /\ Result(call[run_pid]) = {"eax"} /\ DOMAIN state = Proc
      /\ "eax" \in Register
  BY <1>1, <1>2, Stubs DEF TInv, DomainsOK, Register, General
<1>4. frame' = SetField(run_pid, cr3, "eax", x) /\ RunsOn /\ UNCHANGED <<state, handed>>
  BY <1>3 DEF AnswerISRs
<1>5. ASSUME NEW p \in Proc, p = run_pid
      PROVE  /\ DomainsOK' /\ FrameOK(p)'
             /\ \A q \in Proc : q # p => frame'[q] = frame[q] /\ answer'[q] = answer[q]
  BY <1>1, <1>2, <1>3, <1>4, <1>5, AnswerOK
<1>6. ASSUME NEW p \in Proc, p # run_pid PROVE FrameOK(p)'
  BY <1>2, <1>4, <1>5, <1>6, UntouchedOK DEF TInv, Untouched
<1> QED
  BY <1>1, <1>2, <1>4, <1>5, <1>6, IsrEnds DEF RunsOn
-----------------------------------------------------------------------------
LEMMA MsgSndStep ==
  TInv /\ MsgSndISR /\ UNCHANGED <<ppid, kept, call>> => TInv'
<1> SUFFICES ASSUME TInv, MsgSndISR, UNCHANGED <<ppid, kept, call>>
             PROVE  TInv'
  OBVIOUS
<1>1. /\ Serves({"MsgSnd"}) /\ cr3' = Tables(run_pid)
      /\ UNCHANGED <<run_pid, frame, answer>>
  BY DEF MsgSndISR, NoAnswer
<1>2. /\ run_pid \in Proc /\ state[run_pid] = "ready" /\ mode' = "schedule"
      /\ Result(call[run_pid]) = {} /\ DOMAIN state = Proc
  BY <1>1, ServedCall, Stubs DEF TInv, DomainsOK
<1>3. ASSUME NEW p \in Proc, state'[p] = state[p] PROVE FrameOK(p)'
  <2>1. FrameOK(p) /\ Untouched(p)
    BY <1>1, <1>3 DEF TInv, Untouched
  <2>2. CASE p = run_pid
    BY <1>1, <1>2, <2>1, <2>2, CallerOK
  <2>3. CASE p # run_pid
    BY <1>2, <2>1, <2>3, UntouchedOK
  <2> QED
    BY <2>2, <2>3
<1>4. CASE UNCHANGED <<state, handed>>
  <2>1. DomainsOK'
    BY <1>1, <1>4 DEF TInv, DomainsOK
  <2> QED
    BY <1>1, <1>2, <1>3, <1>4, <2>1, IsrEnds
<1>5. ASSUME NEW freed \in Proc, state[freed] = "mail", HandOff(freed) PROVE TInv'
  <2>1. /\ state' = [state EXCEPT ![freed] = "ready"] /\ freed # run_pid
        /\ handed'.to = freed /\ handed'.tables = Tables(freed)
        /\ handed'.at = Field(freed, Tables(freed), "ebx")
    BY <1>2, <1>5 DEF HandOff
  <2>2. KeepsAll(freed) /\ FrameOK(freed)
    BY <1>5 DEF TInv, FrameOK, BlockedStates
  <2>3. handed'.at = kept[freed]["ebx"]
    BY <2>1, <2>2, OwnFrame DEF Field, KeepsAll, SlotOf, Register, General
  <2>4. HandedOK'
    BY <1>1, <1>2, <2>1, <2>3 DEF HandedOK, ReachesTheReceiver
  <2>5. ASSUME NEW p \in Proc PROVE FrameOK(p)'
    <3>1. CASE p = freed
      BY <1>1, <1>2, <1>5, <2>1, <2>2, <3>1, FreedOK
    <3>2. CASE p # freed
      BY <1>2, <1>3, <2>1, <3>2
    <3> QED
      BY <3>1, <3>2
  <2>6. DomainsOK'
    BY <1>1, <2>1 DEF TInv, DomainsOK
  <2>7. RunningOK'
    BY <1>1, <1>2, <2>1 DEF RunningOK
  <2> QED
    BY <1>2, <2>4, <2>5, <2>6, <2>7 DEF TInv, KernelOK, Resumes, ResultArrives
<1> QED
  BY <1>4, <1>5 DEF MsgSndISR
-----------------------------------------------------------------------------
LEMMA ForkStep == TInv /\ ForkISR => TInv'
<1> SUFFICES ASSUME TInv, ForkISR PROVE TInv'
  OBVIOUS
<1>1. Serves({"Fork"}) /\ Fork /\ RunsOn /\ UNCHANGED <<answer, handed>>
  BY DEF ForkISR
<1>2. /\ run_pid \in Proc /\ state[run_pid] = "ready" /\ mode' = "schedule"
      /\ cr3 = Tables(run_pid) /\ Result(call[run_pid]) = {}
  BY <1>1, ServedCall, Stubs
<1>3. ASSUME NEW p \in Proc, Untouched(p) PROVE FrameOK(p)'
  <2>1. FrameOK(p)
    BY DEF TInv
  <2>2. CASE p = run_pid
    BY <1>1, <1>2, <1>3, <2>2, CallerOK
  <2>3. CASE p # run_pid
    BY <1>2, <1>3, <2>1, <2>3, UntouchedOK
  <2> QED
    BY <2>2, <2>3
<1>4. CASE UNCHANGED <<state, frame, ppid, kept, call>>
  <2>1. DomainsOK'
    BY <1>1, <1>4 DEF TInv, DomainsOK
  <2>2. \A p \in Proc : FrameOK(p)'
    BY <1>1, <1>3, <1>4 DEF Untouched
  <2> QED
    BY <1>1, <1>2, <1>4, <2>1, <2>2, IsrEnds DEF RunsOn
<1>5. ASSUME NEW child \in FORKED, state[child] = "unused",
             state' = [state EXCEPT ![child] = "ready"],
             frame' = [frame EXCEPT ![child] = StartFrame(child)],
             ppid' = [ppid EXCEPT ![child] = run_pid],
             kept' = [kept EXCEPT ![child] = StartRegisters(child)],
             call' = [call EXCEPT ![child] = "Timer"]
      PROVE  TInv'
  <2>1. child \in Proc /\ child # run_pid
    BY <1>2, <1>5 DEF Proc
  <2>2. /\ state'[child] = "ready" /\ frame'[child] = StartFrame(child)
        /\ kept'[child] = StartRegisters(child) /\ call'[child] = "Timer"
        /\ \A p \in Proc : p # child => Untouched(p)
    BY <1>1, <1>5, <2>1 DEF TInv, DomainsOK, Untouched
  <2>3. FrameOK(child)'
    BY <2>2, StartWords, Stubs
      DEF FrameOK, BlockedStates, Interrupts, KeepsRest, HasAnswer
  <2>4. \A p \in Proc : FrameOK(p)'
    BY <1>3, <2>2, <2>3
  <2>5. DomainsOK'
    <3>1. \A p \in Proc : DOMAIN frame'[p] = 1 .. 16
      BY <2>2, StartWords DEF TInv, DomainsOK, Untouched
    <3>2. ppid' \in [Proc -> Proc]
      BY <1>2, <1>5 DEF TInv, DomainsOK
    <3> QED
      BY <1>1, <1>5, <3>1, <3>2 DEF TInv, DomainsOK
  <2>6. state'[run_pid] = "ready"
    BY <1>2, <2>1, <2>2 DEF Untouched
  <2> QED
    BY <1>1, <1>2, <2>4, <2>5, <2>6, IsrEnds DEF RunsOn
<1> QED
  BY <1>1, <1>4, <1>5 DEF Fork
-----------------------------------------------------------------------------
LEMMA WaitStep ==
  TInv /\ WaitISR /\ UNCHANGED <<ppid, kept, call>> => TInv'
<1> SUFFICES ASSUME TInv, WaitISR, UNCHANGED <<ppid, kept, call>>
             PROVE  TInv'
  OBVIOUS
<1>1. Serves({"Wait"}) /\ UNCHANGED handed
  BY DEF WaitISR
<1>2. /\ run_pid \in Proc /\ state[run_pid] = "ready" /\ mode' = "schedule"
      /\ cr3 = Tables(run_pid) /\ call[run_pid] = "Wait"
      /\ Visible(run_pid, cr3) = run_pid /\ KeepsAll(run_pid)
      /\ DOMAIN state = Proc
  BY <1>1, ServedCall DEF TInv, DomainsOK
<1>3. CASE Blocks("child") /\ NoAnswer
  <2>1. \A p \in Proc : FrameOK(p)'
    BY <1>1, <1>2, <1>3, BlockedOK DEF Blocks, NoAnswer, BlockedStates, BlockedIn
  <2>2. DomainsOK'
    BY <1>3 DEF TInv, DomainsOK, Blocks, NoAnswer
  <2> QED
    BY <1>1, <1>3, <2>1, <2>2, IsrEnds DEF Blocks, GivesUp
<1>4. CASE WaitAnswers
  <2>0. PICK child \in Zombies : \E reaped \in Reaped(child) :
          /\ state' = [p \in Proc |-> IF p \in reaped THEN "unused" ELSE state[p]]
          /\ frame' = SetField(run_pid, cr3, "ebx", PidWord(child))
          /\ answer' = [answer EXCEPT ![run_pid] = PidWord(child)]
          /\ RunsOn
    BY <1>4 DEF WaitAnswers
  <2>1. PICK reaped \in Reaped(child) :
          /\ state' = [p \in Proc |-> IF p \in reaped THEN "unused" ELSE state[p]]
          /\ frame' = SetField(run_pid, cr3, "ebx", PidWord(child))
          /\ answer' = [answer EXCEPT ![run_pid] = PidWord(child)]
          /\ RunsOn
    BY <2>0
  <2>2. reaped \subseteq Zombies /\ run_pid \notin reaped
    BY <1>2, <2>1 DEF Zombies, Reaped
  <2>3. /\ DOMAIN state' = Proc /\ state'[run_pid] = "ready"
        /\ \A p \in reaped \cap Proc : state'[p] = "unused"
        /\ \A p \in Proc \ reaped : state'[p] = state[p]
    BY <1>2, <2>1, <2>2
  <2>4. Result(call[run_pid]) = {"ebx"} /\ "ebx" \in Register
    BY <1>2, Stubs DEF Register, General
  <2>5. ASSUME NEW a \in Proc, a = run_pid
        PROVE  /\ DomainsOK' /\ FrameOK(a)'
               /\ \A q \in Proc : q # a => frame'[q] = frame[q] /\ answer'[q] = answer[q]
    BY <1>2, <2>1, <2>2, <2>3, <2>4, <2>5, AnswerOK
  <2>6. ASSUME NEW p \in Proc, p # run_pid PROVE FrameOK(p)'
    <3>1. FrameOK(p) /\ frame'[p] = frame[p] /\ answer'[p] = answer[p]
      BY <1>2, <2>5, <2>6 DEF TInv
    <3>2. CASE p \in reaped
      BY <2>3, <3>1, <3>2 DEF FrameOK, BlockedStates
    <3>3. CASE p \notin reaped
      BY <1>2, <2>3, <2>6, <3>1, <3>3, UntouchedOK DEF Untouched
    <3> QED
      BY <3>2, <3>3
  <2> QED
    BY <1>1, <1>2, <2>1, <2>2, <2>3, <2>5, <2>6, IsrEnds DEF RunsOn
<1> QED
  BY <1>3, <1>4 DEF WaitISR
-----------------------------------------------------------------------------
LEMMA ExitStep ==
  TInv /\ ExitISR /\ UNCHANGED <<ppid, kept, call>> => TInv'
<1> DEFINE parent == ppid[run_pid]
<1> SUFFICES ASSUME TInv, ExitISR, UNCHANGED <<ppid, kept, call>>
             PROVE  TInv'
  OBVIOUS
<1>1. Serves({"Exit"}) /\ UNCHANGED handed
  BY DEF ExitISR
<1>2. /\ run_pid \in Proc /\ state[run_pid] = "ready" /\ mode' = "schedule"
      /\ DOMAIN state = Proc /\ parent \in Proc
      /\ call[run_pid] = "Exit" /\ KeepsAll(run_pid)
  BY <1>1, ServedCall DEF TInv, DomainsOK
<1>3. CASE state' = [state EXCEPT ![run_pid] = "zombie"] /\ run_pid' = NOBODY /\ NoAnswer
  <2>1. ASSUME NEW p \in Proc PROVE FrameOK(p)'
    <3>1. FrameOK(p)
      BY DEF TInv
    <3>2. CASE p = run_pid
      BY <1>2, <1>3, <3>1, <3>2 DEF FrameOK, BlockedStates
    <3>3. CASE p # run_pid
      BY <1>2, <1>3, <3>1, <3>3, UntouchedOK DEF Untouched, NoAnswer
    <3> QED
      BY <3>2, <3>3
  <2>2. DomainsOK'
    BY <1>3 DEF TInv, DomainsOK, NoAnswer
  <2> QED
    BY <1>1, <1>3, <2>1, <2>2, IsrEnds
<1>4. ASSUME state[parent] = "child",
             \/ /\ state' = [state EXCEPT ![run_pid] = "unused", ![parent] = "ready"]
                /\ run_pid' = NOBODY
             \/ state' = [state EXCEPT ![parent] = "ready"] /\ run_pid' = run_pid,
             frame' = SetField(parent, KERNEL_TABLES, "ebx", PidWord(run_pid)),
             answer' = [answer EXCEPT ![parent] = PidWord(run_pid)]
      PROVE  TInv'
  <2>1. /\ parent # run_pid /\ FrameOK(parent) /\ KeepsAll(parent)
        /\ call[parent] = "Wait"
    BY <1>2, <1>4 DEF TInv, FrameOK, BlockedStates, BlockedIn
  <2>2. Visible(parent, KERNEL_TABLES) = parent
    BY <1>2, <1>4, <2>1, ParentsAreSystem
  <2>3. /\ DOMAIN state' = Proc /\ state'[parent] = "ready"
        /\ \/ state'[run_pid] = "unused" /\ run_pid' = NOBODY
           \/ state'[run_pid] = "ready" /\ run_pid' = run_pid
        /\ \A p \in Proc : p # run_pid /\ p # parent => state'[p] = state[p]
    BY <1>2, <1>4, <2>1
  <2>4. Result(call[parent]) = {"ebx"} /\ "ebx" \in Register
    BY <2>1, Stubs DEF Register, General
  <2>5. ASSUME NEW a \in Proc, a = parent
        PROVE  /\ DomainsOK' /\ FrameOK(a)'
               /\ \A q \in Proc : q # a => frame'[q] = frame[q] /\ answer'[q] = answer[q]
    BY <1>4, <2>1, <2>2, <2>3, <2>4, <2>5, AnswerOK
  <2>6. ASSUME NEW p \in Proc, p # parent PROVE FrameOK(p)'
    <3>1. FrameOK(p) /\ frame'[p] = frame[p] /\ answer'[p] = answer[p]
      BY <1>2, <2>5, <2>6 DEF TInv
    <3>2. CASE p = run_pid
      <4>1. Result(call[p]) = {} /\ kept'[p] = kept[p] /\ call'[p] = call[p]
        BY <1>2, <3>2, Stubs
      <4> QED
        BY <1>2, <2>3, <3>1, <3>2, <4>1
          DEF FrameOK, BlockedStates, KeepsAll, KeepsRest, HasAnswer
    <3>3. CASE p # run_pid
      BY <1>2, <2>3, <2>6, <3>1, <3>3, UntouchedOK DEF Untouched
    <3> QED
      BY <3>2, <3>3
  <2> QED
    BY <1>1, <1>2, <2>3, <2>5, <2>6, IsrEnds
<1> QED
  BY <1>3, <1>4 DEF ExitISR
-----------------------------------------------------------------------------
LEMMA TInvInit == Init => TInv
<1> SUFFICES ASSUME Init PROVE TInv
  OBVIOUS
<1>1. /\ run_pid = 0 /\ cr3 = KERNEL_TABLES /\ mode = "schedule" /\ handed = NoHandOff
      /\ frame = [p \in Proc |-> StartFrame(p)]
      /\ state = [p \in Proc |-> IF p \in SYSTEM THEN "ready" ELSE "unused"]
      /\ ppid = [p \in Proc |-> 0] /\ kept = [p \in Proc |-> StartRegisters(p)]
      /\ call = [p \in Proc |-> "Timer"] /\ answer = [p \in Proc |-> Zero]
  BY DEF Init
<1>2. 0 \in Proc /\ Tables(0) = KERNEL_TABLES /\ state[0] = "ready"
  BY <1>1, ProcNat DEF Proc, Tables
<1>3. DomainsOK
  BY <1>1, <1>2, StartWords DEF DomainsOK
<1>4. RunningOK
  BY <1>1, <1>2 DEF RunningOK
<1>5. ASSUME NEW p \in Proc PROVE FrameOK(p)
  BY <1>1, StartWords, Stubs DEF FrameOK, BlockedStates, Interrupts, KeepsRest, HasAnswer
<1> QED
  BY <1>1, <1>3, <1>4, <1>5 DEF TInv, KernelOK, Resumes, ResultArrives, HandedOK

LEMMA TInvStep == TInv /\ [Next]_vars => TInv'
<1> SUFFICES ASSUME TInv, [Next]_vars PROVE TInv'
  OBVIOUS
<1>1. CASE Compute
  BY <1>1, ComputeStep
<1>2. CASE Trap
  BY <1>2, TrapStep
<1>3. CASE Loader
  BY <1>3, LoaderStep
<1>4. CASE Kernel
  BY <1>4, QuietStep, AnswerStep, MsgSndStep, WaitStep, ExitStep, ForkStep
    DEF Kernel, QuietISR
<1>5. CASE UNCHANGED vars
  BY <1>5 DEF vars, TInv, DomainsOK, RunningOK, FrameOK, KeepsAll, KeepsRest,
    HasAnswer, KernelOK, Resumes, ResultArrives, HandedOK, ReachesTheReceiver
<1> QED
  BY <1>1, <1>2, <1>3, <1>4, <1>5 DEF Next

LEMMA TInvAlways == Spec => []TInv
BY TInvInit, TInvStep, PTL DEF Spec
-----------------------------------------------------------------------------
\* In every ISR the frame at hand is that of the caller, with the registers
\* as they were at the trap (CommonRoutine, trapframe_t).
THEOREM TheKernelSeesTheCaller == Spec => []KernelSeesTheCaller
<1>1. TInv => KernelSeesTheCaller
  <2> SUFFICES ASSUME TInv, mode = "kernel" PROVE KernelSeesTheCaller
    BY DEF KernelSeesTheCaller
  <2>1. run_pid \in Proc /\ Visible(run_pid, cr3) = run_pid
    BY OwnFrame DEF TInv, RunningOK
  <2> QED
    BY <2>1 DEF TInv, KernelOK, KernelSeesTheCaller, KeepsAll, Field, SlotOf
<1> QED
  BY <1>1, TInvAlways, PTL

\* A process goes on with its own registers, whatever the other processes did
\* meanwhile, and whichever page tables were loaded.
THEOREM EveryProcessResumes == Spec => []Resumes
<1>1. TInv => Resumes
  BY DEF TInv
<1> QED
  BY <1>1, TInvAlways, PTL

\* A stub returns what the kernel answered, also when the answer came from
\* the Exit of another process.
THEOREM EveryResultArrives == Spec => []ResultArrives
<1>1. TInv => ResultArrives
  BY DEF TInv
<1> QED
  BY <1>1, TInvAlways, PTL

\* A handoff goes to the address that the receiver gave, under the tables of
\* the receiver.
THEOREM HandOffReachesTheReceiver == Spec => []ReachesTheReceiver
<1>1. TInv => ReachesTheReceiver
  BY DEF TInv, HandedOK, ReachesTheReceiver
<1> QED
  BY <1>1, TInvAlways, PTL
=============================================================================
