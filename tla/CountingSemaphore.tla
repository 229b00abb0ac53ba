------------------------- MODULE CountingSemaphore -------------------------
(***************************************************************************)
(* What a semaphore of MAARKos promises.  value[s] is the number of posts  *)
(* less the number of waits begun; when it is negative, that many          *)
(* processes are blocked.  Which of them a post releases is left open.     *)
(***************************************************************************)
EXTENDS Integers

CONSTANTS
  Sem,   \* semaphores
  Proc   \* processes

VARIABLES
  value,    \* posts less waits begun, since the semaphore was obtained
  blocked   \* the processes waiting

vars == <<value, blocked>>

Init ==
  /\ value = [s \in Sem |-> 0]
  /\ blocked = [s \in Sem |-> {}]

\* Obtaining a semaphore, which nobody may be waiting on.
Obtain(s) ==
  /\ blocked[s] = {}
  /\ value' = [value EXCEPT ![s] = 0]
  /\ UNCHANGED blocked

Post(s) ==
  /\ value' = [value EXCEPT ![s] = @ + 1]
  /\ IF value[s] < 0
     THEN \E p \in blocked[s] : blocked' = [blocked EXCEPT ![s] = @ \ {p}]
     ELSE UNCHANGED blocked

Wait(s, p) ==
  /\ \A t \in Sem : p \notin blocked[t]
  /\ value' = [value EXCEPT ![s] = @ - 1]
  /\ IF value[s] > 0
     THEN UNCHANGED blocked
     ELSE blocked' = [blocked EXCEPT ![s] = @ \cup {p}]

Next == \E s \in Sem : Obtain(s) \/ Post(s) \/ \E p \in Proc : Wait(s, p)

Spec == Init /\ [][Next]_vars
=============================================================================
