----------------------------- MODULE MCTerminal -----------------------------
(* Workloads for Terminal: output with echo, input beyond a full in_q, and   *)
(* both in a build that needs three instructions for size++.                 *)
EXTENDS Terminal

Workload(atomic, texts, keys, arrived) ==
  [atomic |-> atomic, texts |-> texts, keys |-> keys, arrived |-> arrived]

MCWorkloads ==
  {Workload(TRUE, {<<"a", "nl">>, <<"b">>}, {"x", "cr"}, 1),
   Workload(TRUE, {}, {"x", "cr"}, N + 1),
   Workload(FALSE, {<<"b">>}, {"cr"}, 1)}
=============================================================================
