------------------------------ MODULE MCKernel ------------------------------
(* Values for the constants of Kernel.  The programs of the system          *)
(* processes follow proc.c; each run switches on the calls it is about.     *)
EXTENDS MailHistory, TimerSubLoop

\* Everybody but InitProc sleeps.
CallsTime == [p \in PID |-> IF p = 0 THEN {} ELSE {"Sleep"}]

\* PID 1 is the shell; forked programs end with Exit.
CallsFork ==
  [p \in PID |->
    IF p = 0 THEN {} ELSE IF p < NSYS THEN {"Fork", "Wait"} ELSE {"Exit"}]

\* InitProc sends, PID 1 forks, waits and receives, and the two programs it
\* forks sleep, post, send and exit.
CallsAll ==
  [p \in PID |->
    CASE p = 0 -> {"MsgSnd"}
      [] p = 1 -> {"SemGet", "SemWait", "MsgRcv", "Fork", "Wait"}
      [] OTHER -> {"Sleep", "SemPost", "MsgSnd", "Exit"}]
=============================================================================
