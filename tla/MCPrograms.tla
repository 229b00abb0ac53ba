---------------------------- MODULE MCPrograms ----------------------------
(* Every process but InitProc may make every call its program has.          *)
EXTENDS Programs

CallsOfPrograms == [p \in PID |-> IF p = 0 THEN {} ELSE CallName]
=============================================================================
