---------------------------- MODULE TimerSubLoop ----------------------------
(***************************************************************************)
(* The loop of TimerSub (isr.c:96) as it is written, to check the closed   *)
(* form that Timer uses: one DeQ from sleep_q per iteration, then an EnQ   *)
(* to proc_q or back to sleep_q, while i < sleep_q.size.                   *)
(***************************************************************************)
EXTENDS Timer

\* What the loop works on: sleep_q, proc_q and the states of the processes.
AtStart == [sleepers |-> sleep_q, ready |-> proc_q, states |-> state]

\* The body of the loop, for the sleeper that DeQ returns.
Body(now, r) ==
  LET sleepPID == Head(r.sleepers) IN
  IF now >= wake_time[sleepPID]
  THEN [sleepers |-> Tail(r.sleepers),
        ready |-> EnQ(sleepPID, r.ready),
        states |-> [r.states EXCEPT ![sleepPID] = "READY"]]
  ELSE [r EXCEPT !.sleepers = EnQ(sleepPID, Tail(r.sleepers))]

\* Iteration i, with the test before it.  Once the test fails it fails for
\* all i that follow, as r stays the same.
Iterate(now, i, r) == IF i < Len(r.sleepers) THEN Body(now, r) ELSE r

\* sleep_q never grows, so its length at the start bounds the iterations.
Loop(now) ==
  LET after[i \in 0 .. Len(sleep_q)] ==
        IF i = 0 THEN AtStart ELSE Iterate(now, i-1, after[i-1])
  IN after[Len(sleep_q)]

\* The positions TimerSub examines, the sleepers it wakes and the order it
\* leaves both queues in are those of Examined, Woken and StillAsleep, for
\* every queue and every set of wake times that can arise.
TimerSubIsLoop ==
  LET now == Wrap(system_time + 1) IN
    Loop(now) = [sleepers |-> StillAsleep(now),
                 ready |-> EnQAll(Woken(now), proc_q),
                 states |-> StateAfterTick(now)]
=============================================================================
