----------------------------- MODULE RingQueue -----------------------------
(***************************************************************************)
(* The circular queue of tool.c: q_t with EnQ and DeQ.  mbox_t repeats it  *)
(* with messages instead of PIDs (MsgEnQ, MsgDeQ).  The code keeps three   *)
(* redundant cursors, head, tail and size, and EnQ takes a different path  *)
(* when the queue is empty: it writes at head, not at tail.  Whether the   *)
(* array is still a FIFO after any sequence of calls rests on the three    *)
(* cursors agreeing.                                                       *)
(*                                                                         *)
(* Kernel calls run with interrupts disabled, so EnQ and DeQ are atomic    *)
(* here.                                                                   *)
(***************************************************************************)
EXTENDS Integers, Sequences

CONSTANTS
  Elem,     \* what is queued: PIDs, characters, messages
  Zero,     \* the contents MyBzero leaves in every cell
  Nothing,  \* DeQ's answer on an empty queue (-1)
  N         \* number of cells (20 in type.h and in tool.c)

ASSUME NAssumption == N \in Nat \ {0}

VARIABLES
  q,        \* q_t.q[]
  head,     \* q_t.head: next cell to take from
  tail,     \* q_t.tail: next cell to write to
  size,     \* q_t.size
  got       \* what the last DeQ returned

vars == <<q, head, tail, size, got>>

Cell == 0 .. N-1

\* A cursor that wraps one cell too late.
AdvanceOffByOne(cursor) == IF cursor = N THEN 0 ELSE cursor + 1

\* "x++; if (x == 20) x = 0": the cursors wrap by comparison.
Advance(cursor) == IF cursor + 1 = N THEN 0 ELSE cursor + 1
----------------------------------------------------------------------------
Init ==
  /\ q = [i \in Cell |-> Zero]
  /\ head = 0
  /\ tail = 0
  /\ size = 0
  /\ got = Nothing

EnQEmpty(x) ==
  /\ size = 0
  /\ q' = [q EXCEPT ![head] = x]
  /\ tail' = Advance(tail)
  /\ size' = size + 1
  /\ UNCHANGED <<head, got>>

\* As EnQAppend, but the cell written is found from head alone.
EnQAppendAtHead(x) ==
  /\ size > 0 /\ size < N
  /\ q' = [q EXCEPT ![head] = x]
  /\ tail' = Advance(tail)
  /\ size' = size + 1
  /\ UNCHANGED <<head, got>>

EnQAppend(x) ==
  /\ size > 0 /\ size < N
  /\ q' = [q EXCEPT ![tail] = x]
  /\ tail' = Advance(tail)
  /\ size' = size + 1
  /\ UNCHANGED <<head, got>>

\* EnQ on a full queue only prints a message: it is a stuttering step.
EnQ(x) == EnQEmpty(x) \/ EnQAppend(x)

\* DeQ without the cursor moving back to 0 or the size shrinking.
DeQKeepsSize ==
  /\ size # 0
  /\ got' = q[head]
  /\ head' = Advance(head)
  /\ UNCHANGED <<q, tail, size>>

DeQTakes ==
  /\ size # 0
  /\ got' = q[head]
  /\ head' = Advance(head)
  /\ size' = size - 1
  /\ UNCHANGED <<q, tail>>

DeQEmpty ==
  /\ size = 0
  /\ got' = Nothing
  /\ UNCHANGED <<q, head, tail, size>>

DeQ == DeQTakes \/ DeQEmpty

Next == (\E x \in Elem : EnQ(x)) \/ DeQ

Spec == Init /\ [][Next]_vars
----------------------------------------------------------------------------
RingTypeOK ==
  /\ q \in [Cell -> Elem \cup {Zero}]
  /\ head \in Cell
  /\ tail \in Cell
  /\ size \in 0 .. N
  /\ got \in Elem \cup {Zero, Nothing}

\* The three cursors agree: tail is size cells after head, round the ring.
\* This is why EnQ may write at head when the queue is empty, and why a full
\* queue, where head = tail again, is told from an empty one.
CursorsAgree ==
  tail = IF head + size < N THEN head + size ELSE head + size - N

Inv == RingTypeOK /\ CursorsAgree

\* The cell of the i-th oldest element.
CellOf(i) == IF head + i - 1 < N THEN head + i - 1 ELSE head + i - 1 - N

Contents == [i \in 1 .. size |-> q[CellOf(i)]]

Fifo == INSTANCE BoundedFifo WITH Capacity <- N, fifo <- Contents

\* The ring of tool.c behaves as a bounded FIFO, whatever the order of EnQ
\* and DeQ calls: nothing is lost, duplicated or reordered while cursors wrap.
IsFifo == Fifo!Spec
=============================================================================
