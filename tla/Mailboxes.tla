----------------------------- MODULE Mailboxes -----------------------------
(***************************************************************************)
(* Message passing: one mailbox per process, a ring of messages and a      *)
(* queue of processes waiting for one.  MsgSnd to a mailbox with a waiter  *)
(* bypasses the ring and writes the message into the waiter's buffer.      *)
(*                                                                         *)
(* Every program of the repository receives from its own mailbox only.     *)
(* A message is its sender and one datum; time_stamp is left out, nothing  *)
(* reads it.                                                               *)
(***************************************************************************)
EXTENDS Semaphores

CONSTANTS
  MBOX_SIZE,  \* messages a mailbox holds (Q_SIZE in type.h)
  Data        \* message contents

ASSUME MailboxAssumption == MBOX_SIZE \in Nat \ {0}

VARIABLES
  mbox,         \* mbox[].msg, oldest first
  mbox_wait_q,  \* mbox[].wait_q
  buf           \* the message each process received last

mailVars == <<mbox, mbox_wait_q, buf>>

Message == [sender : PID, data : Data]

NoMessage == [sender |-> NONE]

MailInit ==
  /\ mbox = [p \in PID |-> <<>>]
  /\ mbox_wait_q = [p \in PID |-> <<>>]
  /\ buf = [p \in PID |-> NoMessage]
----------------------------------------------------------------------------
\* MsgEnQ: on a full mailbox the message is dropped and the sender not told.
MsgEnQ(m, q) == IF Len(q) < MBOX_SIZE THEN Append(q, m) ELSE q

\* A send to the ring that does not look at the queue of receivers.
EnqueueAlways(x, m) ==
  /\ mbox' = [mbox EXCEPT ![x] = MsgEnQ(m, @)]
  /\ UNCHANGED <<procVars, mbox_wait_q, buf>>

Enqueue(x, m) ==
  /\ mbox_wait_q[x] = <<>>
  /\ mbox' = [mbox EXCEPT ![x] = MsgEnQ(m, @)]
  /\ UNCHANGED <<procVars, mbox_wait_q, buf>>

\* A handoff that puts the message into the ring as well.
HandOffTwice(x, m) ==
  LET freed == Head(mbox_wait_q[x]) IN
  /\ mbox_wait_q[x] # <<>>
  /\ mbox_wait_q' = [mbox_wait_q EXCEPT ![x] = Tail(@)]
  /\ buf' = [buf EXCEPT ![freed] = m]
  /\ Scheduler(run_pid, EnQ(freed, proc_q), [state EXCEPT ![freed] = "RUN"])
  /\ mbox' = [mbox EXCEPT ![x] = MsgEnQ(m, @)]
  /\ UNCHANGED unused_q

\* The freed process is queued with state RUN, as the code has it.
HandOff(x, m) ==
  LET freed == Head(mbox_wait_q[x]) IN
  /\ mbox_wait_q[x] # <<>>
  /\ mbox_wait_q' = [mbox_wait_q EXCEPT ![x] = Tail(@)]
  /\ buf' = [buf EXCEPT ![freed] = m]
  /\ Scheduler(run_pid, EnQ(freed, proc_q), [state EXCEPT ![freed] = "RUN"])
  /\ UNCHANGED <<mbox, unused_q>>

MsgSndISR(x, d) ==
  LET m == [sender |-> run_pid, data |-> d] IN
  /\ MakesCall("MsgSnd")
  /\ Enqueue(x, m) \/ HandOff(x, m)
  /\ UNCHANGED <<timerVars, semVars>>

Receive(x) ==
  /\ mbox[x] # <<>>
  /\ buf' = [buf EXCEPT ![run_pid] = Head(mbox[x])]
  /\ mbox' = [mbox EXCEPT ![x] = Tail(@)]
  /\ UNCHANGED <<procVars, mbox_wait_q>>

AwaitMail(x) ==
  /\ mbox[x] = <<>>
  /\ mbox_wait_q' = [mbox_wait_q EXCEPT ![x] = EnQ(run_pid, @)]
  /\ Scheduler(NONE, proc_q, [state EXCEPT ![run_pid] = "WAIT"])
  /\ UNCHANGED <<mbox, buf, unused_q>>

MsgRcvISR ==
  /\ MakesCall("MsgRcv")
  /\ Receive(run_pid) \/ AwaitMail(run_pid)
  /\ UNCHANGED <<timerVars, semVars>>
----------------------------------------------------------------------------
MailTypeOK ==
  /\ mbox \in [PID -> Seq(Message)]
  /\ mbox_wait_q \in [PID -> Seq(PID)]
  /\ buf \in [PID -> Message \cup {NoMessage}]

OnMbox(x) == Range(mbox_wait_q[x])

\* Nobody sleeps on mail that has arrived: while a process waits on a
\* mailbox, the ring of that mailbox is empty.
NobodyWaitsOnMail == \A x \in PID : OnMbox(x) # {} => mbox[x] = <<>>
=============================================================================
