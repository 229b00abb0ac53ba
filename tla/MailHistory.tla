---------------------------- MODULE MailHistory ----------------------------
(***************************************************************************)
(* Kernel with a history of the mail.  The history is written from what    *)
(* MsgSnd is asked to send and from what is found in the buffer of the     *)
(* process whose MsgRcv completes; it never looks into the mailboxes.      *)
(***************************************************************************)
EXTENDS Kernel

VARIABLES
  owed,    \* messages accepted for a process and not received yet
  cheated  \* processes that received something else than they were owed

\* Bound: as in the programs, mail goes to processes that receive.
Receivers == {x \in PID : "MsgRcv" \in Calls[x]}

historyVars == <<owed, cheated>>
withHistory == <<vars, historyVars>>

HistoryInit ==
  /\ Init
  /\ owed = [p \in PID |-> <<>>]
  /\ cheated = {}

\* The MsgRcv of p completes when the messages in due are owed to it.
Receives(p, due) ==
  /\ owed' = [owed EXCEPT ![p] = Tail(due)]
  /\ cheated' = IF buf'[p] = Head(due) THEN cheated ELSE cheated \cup {p}

SendToWaiter(x, d) ==
  /\ mbox_wait_q[x] # <<>>
  /\ MsgSndISR(x, d)
  /\ Receives(Head(mbox_wait_q[x]), Append(owed[x], [sender |-> run_pid, data |-> d]))

SendToRing(x, d) ==
  /\ mbox_wait_q[x] = <<>>
  /\ Len(owed[x]) < MBOX_SIZE
  /\ MsgSndISR(x, d)
  /\ owed' = [owed EXCEPT ![x] = Append(@, [sender |-> run_pid, data |-> d])]
  /\ UNCHANGED cheated

\* The mailbox is full: the message is lost.
SendIsDropped(x, d) ==
  /\ mbox_wait_q[x] = <<>>
  /\ Len(owed[x]) >= MBOX_SIZE
  /\ MsgSndISR(x, d)
  /\ UNCHANGED historyVars

ReceiveNow ==
  /\ MsgRcvISR
  /\ run_pid' = run_pid
  /\ Receives(run_pid, owed[run_pid])

ReceiveLater ==
  /\ MsgRcvISR
  /\ run_pid' # run_pid
  /\ UNCHANGED historyVars

\* ForkISR empties the mailbox of the new process.
ForkClearsMail ==
  /\ ForkISR
  /\ owed' = [owed EXCEPT ![Head(unused_q)] = <<>>]
  /\ UNCHANGED cheated

HistoryNext ==
  \/ /\ \E x \in Receivers, d \in Data :
          SendToWaiter(x, d) \/ SendToRing(x, d) \/ SendIsDropped(x, d)
     /\ UNCHANGED pageVars
  \/ (ReceiveNow \/ ReceiveLater) /\ UNCHANGED pageVars
  \/ ForkClearsMail
  \/ /\ TimerIntr \/ SleepIntr \/ SemIntr \/ DeviceIntr \/ WaitISR \/ ExitISR
     /\ UNCHANGED historyVars

HistorySpec == HistoryInit /\ [][HistoryNext]_withHistory
----------------------------------------------------------------------------
\* Mail is delivered in the order it was accepted, once, and whole: the
\* handoff to a waiting receiver never overtakes mail in the ring, and a
\* message accepted is either received or still in the mailbox.
DeliveredInOrder == cheated = {} /\ owed = mbox
=============================================================================
