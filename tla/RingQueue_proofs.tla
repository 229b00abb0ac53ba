-------------------------- MODULE RingQueue_proofs --------------------------
(***************************************************************************)
(* For every size of the ring and every set of elements, the ring of       *)
(* tool.c keeps its cursors in agreement and is a bounded FIFO.            *)
(***************************************************************************)
EXTENDS RingQueue, TLAPS

\* A cursor stays inside the ring.
LEMMA AdvanceInCell ==
  ASSUME NEW c \in Cell
  PROVE  Advance(c) \in Cell
BY NAssumption DEF Advance, Cell

LEMMA InitInv == Init => Inv
BY NAssumption DEF Init, Inv, RingTypeOK, CursorsAgree, Cell

LEMMA NextInv == Inv /\ [Next]_vars => Inv'
<1> SUFFICES ASSUME Inv, [Next]_vars PROVE Inv'
  OBVIOUS
<1> USE NAssumption DEF Inv, RingTypeOK, CursorsAgree, Cell
<1>1. ASSUME NEW x \in Elem, EnQEmpty(x) PROVE Inv'
  BY <1>1 DEF EnQEmpty, Advance
<1>2. ASSUME NEW x \in Elem, EnQAppend(x) PROVE Inv'
  BY <1>2 DEF EnQAppend, Advance
<1>3. CASE DeQTakes
  BY <1>3 DEF DeQTakes, Advance
<1>4. CASE DeQEmpty
  BY <1>4 DEF DeQEmpty
<1>5. CASE UNCHANGED vars
  BY <1>5 DEF vars
<1> QED
  BY <1>1, <1>2, <1>3, <1>4, <1>5 DEF Next, EnQ, DeQ

\* The three cursors agree in every reachable state: EnQ may write at head
\* when the queue is empty, and a full queue is told from an empty one.
THEOREM CursorsAlwaysAgree == Spec => [](RingTypeOK /\ CursorsAgree)
BY InitInv, NextInv, PTL DEF Spec, Inv

\* No cursor leaves the ring and size stays within it, in a reachable state.
THEOREM RingWellTyped == Spec => []RingTypeOK
BY CursorsAlwaysAgree, PTL
-----------------------------------------------------------------------------
LEMMA InitIsFifo == Init => Fifo!Init
BY DEF Init, Fifo!Init, Contents

\* Each step of the ring is one step of the FIFO.
LEMMA NextIsFifo == Inv /\ [Next]_vars => [Fifo!Next]_Fifo!vars
<1> SUFFICES ASSUME Inv, [Next]_vars PROVE [Fifo!Next]_Fifo!vars
  OBVIOUS
<1> USE NAssumption DEF Inv, RingTypeOK, CursorsAgree, Cell, CellOf
<1>len. Len(Contents) = size /\ Contents \in Seq(Elem \cup {Zero})
  BY DEF Contents
<1>1. ASSUME NEW x \in Elem, EnQ(x) PROVE Fifo!Put(x)
  <2>1. /\ size < N
        /\ size' = size + 1
        /\ head' = head
        /\ got' = got
        /\ q' = [q EXCEPT ![CellOf(size + 1)] = x]
    BY <1>1 DEF EnQ, EnQEmpty, EnQAppend
  <2>2. CellOf(size + 1) \in Cell
    BY <2>1
  <2>3. \A i \in 1 .. size : CellOf(i) \in Cell /\ CellOf(i) # CellOf(size + 1)
    BY <2>1
  <2>4. Contents' = [i \in 1 .. size + 1 |-> q'[CellOf(i)]]
    BY <2>1 DEF Contents
  <2>5. \A i \in 1 .. size + 1 :
          q'[CellOf(i)] = IF i = size + 1 THEN x ELSE q[CellOf(i)]
    BY <2>1, <2>2, <2>3
  <2>6. Contents' = [i \in 1 .. size + 1 |->
                      IF i = size + 1 THEN x ELSE q[CellOf(i)]]
    BY <2>4, <2>5
  <2>7. Append(Contents, x) = [i \in 1 .. size + 1 |->
                      IF i = size + 1 THEN x ELSE q[CellOf(i)]]
    BY <1>len DEF Contents
  <2> QED
    BY <1>len, <2>1, <2>6, <2>7 DEF Fifo!Put
<1>2. ASSUME DeQTakes PROVE Fifo!Get
  <2>1. /\ size > 0
        /\ size' = size - 1
        /\ q' = q
        /\ got' = q[head]
        /\ head' = Advance(head)
    BY <1>2 DEF DeQTakes
  <2>2. Contents # <<>> /\ Head(Contents) = q[head]
    BY <1>len, <2>1 DEF Contents
  <2>3. Contents' = [i \in 1 .. size - 1 |->
          q[IF Advance(head) + i - 1 < N THEN Advance(head) + i - 1
                                         ELSE Advance(head) + i - 1 - N]]
    BY <2>1 DEF Contents
  <2>4. Tail(Contents) = [i \in 1 .. size - 1 |-> q[CellOf(i + 1)]]
    BY <1>len, <2>1 DEF Contents
  <2>5. \A i \in 1 .. size - 1 :
          CellOf(i + 1) = IF Advance(head) + i - 1 < N
                          THEN Advance(head) + i - 1
                          ELSE Advance(head) + i - 1 - N
    BY <2>1 DEF Advance
  <2>6. Contents' = Tail(Contents)
    BY <2>3, <2>4, <2>5
  <2> QED
    BY <2>1, <2>2, <2>6 DEF Fifo!Get
<1>3. ASSUME DeQEmpty PROVE Fifo!GetNothing
  BY <1>3 DEF DeQEmpty, Fifo!GetNothing, Contents
<1>4. ASSUME UNCHANGED vars PROVE UNCHANGED Fifo!vars
  BY <1>4 DEF vars, Fifo!vars, Contents
<1> QED
  BY <1>1, <1>2, <1>3, <1>4 DEF Next, DeQ, Fifo!Next

\* The ring implements the bounded FIFO, for every N: the queues of the other
\* modules may be sequences.
THEOREM RingIsFifo == Spec => IsFifo
BY InitIsFifo, NextIsFifo, CursorsAlwaysAgree, PTL
DEF Spec, IsFifo, Fifo!Spec, Inv
=============================================================================
