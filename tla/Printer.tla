------------------------------ MODULE Printer ------------------------------
(***************************************************************************)
(* The printer driver (PrintDriver), PrinterISR, and InitProc, which sends *)
(* it a message when somebody presses "p".  The driver and the printer     *)
(* keep in step through one semaphore: the printer interrupts once when    *)
(* its reset is over and once for each character it has printed.           *)
(*                                                                         *)
(* All messages are the same text, so a message is the number of its       *)
(* characters.  The semaphore is its value (PassesConserved of             *)
(* Semaphores): -1 means that the driver is blocked on it.                 *)
(* The printer is external: a strobe while it is not ready is lost.        *)
(***************************************************************************)
EXTENDS Integers

CONSTANTS
  CHARS,     \* characters of a message
  MBOX_SIZE  \* messages a mailbox holds

ASSUME PrinterAssumption == CHARS \in Nat /\ MBOX_SIZE \in Nat

VARIABLES
  pc,       \* where PrintDriver is
  left,     \* characters p has not passed
  mail,     \* messages in the mailbox of the driver
  sem,      \* semaphore[system_print_semaphore]
  printer,  \* "off", "resetting", "ready" or "busy"
  irq,      \* 1 when the printer has raised PRINTER_INTR
  lost      \* history: 1 after a strobe into a printer not ready

vars == <<pc, left, mail, sem, printer, irq, lost>>

Init ==
  /\ pc = "start" /\ left = 0 /\ mail = 0 /\ sem = 0
  /\ printer = "off" /\ irq = 0 /\ lost = 0
----------------------------------------------------------------------------
\* SemGet, the reset with PC_IRQEN, and Sleep(1).
Reset ==
  /\ pc = "start"
  /\ pc' = "sleep"
  /\ sem' = 0
  /\ printer' = "resetting"
  /\ UNCHANGED <<left, mail, irq, lost>>

\* A driver that takes the printer to be ready after Sleep(1).
WakeTrusts ==
  /\ pc = "sleep"
  /\ pc' = "rcv"
  /\ UNCHANGED <<left, mail, sem, printer, irq, lost>>

\* Sleep(1) ends, before or after the reset does; then SemWait.
Wake ==
  /\ pc = "sleep"
  /\ pc' = "reset"
  /\ sem' = sem - 1
  /\ UNCHANGED <<left, mail, printer, irq, lost>>

\* That SemWait returns.
IsReset ==
  /\ pc = "reset" /\ sem >= 0
  /\ pc' = "rcv"
  /\ UNCHANGED <<left, mail, sem, printer, irq, lost>>

\* MsgRcv; with no mail the driver waits in it.
GetMessage ==
  /\ pc = "rcv" /\ mail > 0
  /\ pc' = "print"
  /\ mail' = mail - 1
  /\ left' = CHARS
  /\ UNCHANGED <<sem, printer, irq, lost>>

\* DATA, STROBE, and SemWait.
Strobe ==
  /\ pc = "print" /\ left > 0
  /\ pc' = "wait"
  /\ sem' = sem - 1
  /\ printer' = "busy"
  /\ lost' = IF printer = "ready" THEN lost ELSE 1
  /\ UNCHANGED <<left, mail, irq>>

\* That SemWait returns; p++.
Printed ==
  /\ pc = "wait" /\ sem >= 0
  /\ pc' = "print"
  /\ left' = left - 1
  /\ UNCHANGED <<mail, sem, printer, irq, lost>>

EndOfMessage ==
  /\ pc = "print" /\ left = 0
  /\ pc' = "rcv"
  /\ UNCHANGED <<left, mail, sem, printer, irq, lost>>

PrintDriver ==
  Reset \/ Wake \/ IsReset \/ GetMessage \/ Strobe \/ Printed \/ EndOfMessage

\* The printer has ended its reset, or printed a character.
Ready ==
  /\ printer \in {"resetting", "busy"}
  /\ printer' = "ready"
  /\ irq' = 1
  /\ UNCHANGED <<pc, left, mail, sem, lost>>

\* A PrinterISR that posts only if somebody waits.
PostOnlyToWaiter ==
  /\ irq = 1
  /\ irq' = 0
  /\ sem' = IF sem < 0 THEN sem + 1 ELSE sem
  /\ UNCHANGED <<pc, left, mail, printer, lost>>

PrinterISR ==
  /\ irq = 1
  /\ irq' = 0
  /\ sem' = sem + 1
  /\ UNCHANGED <<pc, left, mail, printer, lost>>

\* InitProc sees the key "p"; a full mailbox drops the message.
PressP ==
  /\ mail' = IF mail < MBOX_SIZE THEN mail + 1 ELSE mail
  /\ UNCHANGED <<pc, left, sem, printer, irq, lost>>

Next == PrintDriver \/ Ready \/ PrinterISR \/ PressP

Spec == Init /\ [][Next]_vars

\* The driver runs when it can; the printer ends what it does.
FairSpec == Spec /\ WF_vars(PrintDriver) /\ WF_vars(Ready) /\ WF_vars(PrinterISR)
----------------------------------------------------------------------------
TypeOK ==
  /\ pc \in {"start", "sleep", "reset", "rcv", "print", "wait"}
  /\ left \in 0 .. CHARS
  /\ mail \in 0 .. MBOX_SIZE
  /\ sem \in {-1, 0, 1}
  /\ printer \in {"off", "resetting", "ready", "busy"}
  /\ irq \in {0, 1} /\ lost \in {0, 1}

\* The interrupts that have come or are to come, less those waited for.
Owed ==
  sem + irq + (IF printer \in {"resetting", "busy"} THEN 1 ELSE 0)

\* The driver and the printer stay in step: while the driver has a SemWait to
\* pass there is exactly one interrupt for it, otherwise there is none, so it
\* never goes on with the interrupt of an earlier character.
InStep ==
  /\ Owed = IF pc = "sleep" THEN 1 ELSE 0
  /\ sem < 0 => pc \in {"reset", "wait"}
  /\ ~ (irq = 1 /\ printer \in {"resetting", "busy"})
  /\ printer = "off" => pc = "start"

\* No character is strobed into a printer that is resetting or busy.
NothingLost == lost = 0

\* Every message that was accepted is printed, to its last character: the
\* driver has nothing left now and then, or never stops ending messages.
\* The mailbox gives them out in order, so none is passed over.
MessagesPrinted ==
  []<>(mail = 0 /\ pc = "rcv") \/ []<><<EndOfMessage>>_vars
=============================================================================
