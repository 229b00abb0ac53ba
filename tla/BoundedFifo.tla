---------------------------- MODULE BoundedFifo ----------------------------
(***************************************************************************)
(* What a queue of MAARKos promises its users: first in, first out, at     *)
(* most Capacity elements, an element offered to a full queue is dropped,  *)
(* and taking from an empty queue yields Nothing (the -1 of tool.c).       *)
(* RingQueue shows that the q_t arrays of tool.c keep this promise.        *)
(***************************************************************************)
EXTENDS Naturals, Sequences

CONSTANTS
  Elem,      \* what can be queued
  Capacity,  \* most elements held at a time
  Nothing    \* the answer to taking from an empty queue

VARIABLES
  fifo,      \* the queued elements, oldest first
  got        \* the answer to the last Get

vars == <<fifo, got>>

Init ==
  /\ fifo = <<>>
  /\ got = Nothing

Put(x) ==
  /\ Len(fifo) < Capacity
  /\ fifo' = Append(fifo, x)
  /\ UNCHANGED got

Get ==
  /\ fifo # <<>>
  /\ got' = Head(fifo)
  /\ fifo' = Tail(fifo)

GetNothing ==
  /\ fifo = <<>>
  /\ got' = Nothing
  /\ UNCHANGED fifo

Next ==
  \/ \E x \in Elem : Put(x)
  \/ Get
  \/ GetNothing

Spec == Init /\ [][Next]_vars
=============================================================================
