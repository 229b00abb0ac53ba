--------------------------- MODULE Printer_proofs ---------------------------
(* Proofs about Printer, for messages of any length and any mailbox.        *)
EXTENDS Printer, TLAPS

\* NothingLost follows from InStep; TypeOK needs the driver to wait for the
\* interrupts of a character only while there is a character.
HasCharacter == pc = "wait" => left > 0

IInv == TypeOK /\ InStep /\ NothingLost /\ HasCharacter

LEMMA InitHolds == Init => IInv
BY PrinterAssumption DEF PrinterAssumption, Init, IInv, TypeOK, InStep, Owed, NothingLost, HasCharacter

\* While the driver is about to strobe, nothing is owed: the printer is ready.
LEMMA ReadyToPrint ==
  ASSUME IInv, pc = "print"
  PROVE  printer = "ready" /\ sem = 0 /\ irq = 0
BY DEF IInv, TypeOK, InStep, Owed

LEMMA NextKeeps == IInv /\ [Next]_vars => IInv'
<1> SUFFICES ASSUME IInv, [Next]_vars
             PROVE  IInv'
  OBVIOUS
<1> USE PrinterAssumption DEF PrinterAssumption, IInv, TypeOK, InStep, Owed, NothingLost, HasCharacter
<1>1. CASE Reset
  BY <1>1 DEF Reset
<1>2. CASE Wake
  BY <1>2 DEF Wake
<1>3. CASE IsReset
  BY <1>3 DEF IsReset
<1>4. CASE GetMessage
  BY <1>4 DEF GetMessage
<1>5. CASE Strobe
  BY <1>5, ReadyToPrint DEF Strobe
<1>6. CASE Printed
  BY <1>6 DEF Printed
<1>7. CASE EndOfMessage
  BY <1>7 DEF EndOfMessage
<1>8. CASE Ready
  BY <1>8 DEF Ready
<1>9. CASE PrinterISR
  BY <1>9 DEF PrinterISR
<1>10. CASE PressP
  BY <1>10 DEF PressP
<1>11. CASE UNCHANGED vars
  BY <1>11 DEF vars
<1> QED
  BY <1>1, <1>2, <1>3, <1>4, <1>5, <1>6, <1>7, <1>8, <1>9, <1>10, <1>11
  DEF Next, PrintDriver

\* The driver and the printer keep in step, whenever the reset ends, whenever
\* the printer interrupts and however often "p" is pressed.
THEOREM DriverInStep == Spec => []InStep
<1>1. Spec => []IInv
  BY InitHolds, NextKeeps, PTL DEF Spec
<1>2. IInv => InStep
  BY DEF IInv
<1> QED
  BY <1>1, <1>2, PTL

\* The driver strobes no character into a printer that is not ready.
THEOREM NoCharacterLost == Spec => []NothingLost
<1>1. Spec => []IInv
  BY InitHolds, NextKeeps, PTL DEF Spec
<1>2. IInv => NothingLost
  BY DEF IInv
<1> QED
  BY <1>1, <1>2, PTL
=============================================================================
