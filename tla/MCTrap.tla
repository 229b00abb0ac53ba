------------------------------- MODULE MCTrap -------------------------------
(* InitProc, a second process of the kernel that forks, and two programs,    *)
(* each with a part of the calls it could make.                              *)
EXTENDS Trap

MCSystem == {0, 1}
MCForked == {2, 3}

MCCalls ==
  [p \in MCSystem \cup MCForked |->
    CASE p = 0 -> {"MsgSnd"}
      [] p = 1 -> {"SemGet", "SemPost", "Fork", "Wait"}
      [] p = 2 -> {"GetPid", "MsgRcv", "Exit"}
      [] OTHER -> {"GetTime", "Sleep", "SemWait", "MsgSnd", "Exit"}]
=============================================================================
