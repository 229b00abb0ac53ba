------------------------------- MODULE Timer -------------------------------
(***************************************************************************)
(* Time: system_time, the time slice of the running process, Sleep and the *)
(* wake-up of sleepers at each tick.                                       *)
(*                                                                         *)
(* TimerSub walks sleep_q with "i < sleep_q.size" while each wake-up       *)
(* shrinks the queue.  So a tick with w wake-ups leaves up to w sleepers   *)
(* unexamined; they are at the front of the queue at the next tick.        *)
(***************************************************************************)
EXTENDS Process

CONSTANTS
  T_SLICE,    \* ticks in one run (10)
  TICKS,      \* ticks per second, the 100 of SleepISR
  TIME_MAX,   \* largest int: system_time wraps round (2^31-1)
  SleepArgs,  \* seconds a program may ask to sleep
  LAST_TICK   \* bound on system_time; outside Time there is none

ASSUME TimerAssumption ==
  /\ T_SLICE \in Nat \ {0}
  /\ TIME_MAX \in Nat
  /\ TICKS \in Nat
  /\ SleepArgs \subseteq Int

VARIABLES
  system_time,
  time,        \* pcb[].time: ticks of the current slice
  wake_time,   \* pcb[].wake_time
  sleep_q

timerVars == <<system_time, time, wake_time, sleep_q>>

Time == -TIME_MAX - 1 .. TIME_MAX

\* Two's complement addition.
Wrap(t) == ((t + TIME_MAX + 1) % (2 * TIME_MAX + 2)) - TIME_MAX - 1

TimerInit ==
  /\ system_time = 0
  /\ time = [p \in PID |-> 0]
  /\ wake_time = [p \in PID |-> 0]
  /\ sleep_q = <<>>
----------------------------------------------------------------------------
\* The elements of q at the positions in S, in order.
Nth(S, i) == CHOOSE j \in S : Cardinality({k \in S : k <= j}) = i

Pick(q, S) == [i \in 1 .. Cardinality(S) |-> q[Nth(S, i)]]

\* A test that misses a wake_time that has passed.
DueOnlyOnTheTick(now, j) == now = wake_time[sleep_q[j]]

\* Is the sleeper at position j of sleep_q to be woken?
Due(now, j) == now >= wake_time[sleep_q[j]]

\* A TimerSub that looks at the head of the queue only.
ExaminesHead(now) == {j \in DOMAIN sleep_q : j = 1}

\* Positions of sleep_q the loop of TimerSub reaches: at iteration i = j-1
\* the queue has shrunk by the wake-ups among the first j-1.
Examined(now) ==
  {j \in DOMAIN sleep_q :
     j - 1 < Len(sleep_q) - Cardinality({k \in 1 .. j-1 : Due(now, k)})}

WokenAt(now) == {j \in Examined(now) : Due(now, j)}

Woken(now) == Pick(sleep_q, WokenAt(now))

StillAsleep(now) ==
  Pick(sleep_q, DOMAIN sleep_q \ Examined(now))
    \o Pick(sleep_q, Examined(now) \ WokenAt(now))

StateAfterTick(now) ==
  [p \in PID |-> IF p \in Range(Woken(now)) THEN "READY" ELSE state[p]]

Tick(now) ==
  /\ run_pid # NONE
  /\ system_time # LAST_TICK
  /\ system_time' = now
  /\ sleep_q' = StillAsleep(now)
  /\ UNCHANGED <<unused_q, wake_time>>

\* TimerISR within the slice of the running process.
TickInSlice ==
  LET now == Wrap(system_time + 1) IN
  /\ Tick(now)
  /\ time[run_pid] + 1 # T_SLICE
  /\ time' = [time EXCEPT ![run_pid] = @ + 1]
  /\ Scheduler(run_pid, EnQAll(Woken(now), proc_q), StateAfterTick(now))

\* TimerISR at the end of the slice without the reset of pcb[].time.
EndOfSliceKeepsTime ==
  LET now == Wrap(system_time + 1) IN
  /\ Tick(now)
  /\ time[run_pid] + 1 = T_SLICE
  /\ time' = [time EXCEPT ![run_pid] = @ + 1]
  /\ Scheduler(NONE, EnQ(run_pid, EnQAll(Woken(now), proc_q)),
               [StateAfterTick(now) EXCEPT ![run_pid] = "READY"])

\* The same without queueing the process.
EndOfSliceForgets ==
  LET now == Wrap(system_time + 1) IN
  /\ Tick(now)
  /\ time[run_pid] + 1 = T_SLICE
  /\ time' = [time EXCEPT ![run_pid] = 0]
  /\ Scheduler(NONE, EnQAll(Woken(now), proc_q),
               [StateAfterTick(now) EXCEPT ![run_pid] = "READY"])

\* TimerISR at the end of the slice: the process goes behind those woken.
EndOfSlice ==
  LET now == Wrap(system_time + 1) IN
  /\ Tick(now)
  /\ time[run_pid] + 1 = T_SLICE
  /\ time' = [time EXCEPT ![run_pid] = 0]
  /\ Scheduler(NONE, EnQ(run_pid, EnQAll(Woken(now), proc_q)),
               [StateAfterTick(now) EXCEPT ![run_pid] = "READY"])

TimerISR == TickInSlice \/ EndOfSlice

\* The slice already used is kept in pcb[].time across the sleep.
SleepISR(seconds) ==
  /\ MakesCall("Sleep")
  /\ wake_time' = [wake_time EXCEPT ![run_pid] =
                     Wrap(system_time + seconds * TICKS)]
  /\ sleep_q' = EnQ(run_pid, sleep_q)
  /\ Scheduler(NONE, proc_q, [state EXCEPT ![run_pid] = "SLEEP"])
  /\ UNCHANGED <<unused_q, system_time, time>>
----------------------------------------------------------------------------
TimerTypeOK ==
  /\ system_time \in Time
  /\ time \in [PID -> 0 .. T_SLICE-1]
  /\ wake_time \in [PID -> Time]
  /\ sleep_q \in Seq(PID)

\* A sleeper that TimerSub skips is not forgotten: as long as system_time has
\* not wrapped, a process at position k of sleep_q that is late by d ticks has
\* k * 2^(d+1) < MAX_PROC.  So no sleeper is ever late by more than about
\* log2(MAX_PROC) ticks, whatever the others do.
LatenessBounded ==
  \A k \in DOMAIN sleep_q :
    LET late == system_time - wake_time[sleep_q[k]] IN
      late >= 0 => k * 2^(late + 1) < MAX_PROC
=============================================================================
