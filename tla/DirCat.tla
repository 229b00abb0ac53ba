------------------------------- MODULE DirCat -------------------------------
(***************************************************************************)
(* The "dir" and "cat" commands of a shell (Dir and Cat in proc.c), each a *)
(* sequence of requests to FileSystem.  The terminal is left out: shown is *)
(* what the command in progress has put out.                               *)
(*                                                                         *)
(* MAARKos boots one shell.  fd_array and its owners are made for several, *)
(* and several are modelled.  The message is a local of Dir and Cat:       *)
(* number[0] holds anything until OPEN_OBJ sets it.  The result of         *)
(* OPEN_OBJ is not looked at.                                              *)
(***************************************************************************)
EXTENDS FileSystem, Functions

VARIABLES
  pc,      \* the request whose answer a shell is waiting for
  cmd,     \* "dir" or "cat"
  target,  \* the name given to the command
  shown    \* positions of the target that were shown

shellVars == <<pc, cmd, target, shown>>
vars == <<requests, reply, fdVars, after, shellVars>>

DirCatInit ==
  /\ FileInit
  /\ pc = [c \in Shells |-> "idle"]
  /\ cmd = [c \in Shells |-> "dir"]
  /\ target = [c \in Shells |-> NULL]
  /\ shown = [c \in Shells |-> <<>>]
----------------------------------------------------------------------------
\* MsgSnd to FileSystem; the shell then waits for the answer.
Send(c, code, name, fd) ==
  /\ requests' = Append(requests,
       [sender |-> c, code |-> code, name |-> name, fd |-> fd])
  /\ reply' = [reply EXCEPT ![c] = NoReply]
  /\ pc' = [pc EXCEPT ![c] = code]

\* The command returns.
Finish(c) ==
  /\ pc' = [pc EXCEPT ![c] = "idle"]
  /\ reply' = [reply EXCEPT ![c] = NoReply]
  /\ UNCHANGED requests

Command(c) ==
  \E k \in {"dir", "cat"}, n \in Names, junk \in -1 .. MAX_FD :
    /\ pc[c] = "idle"
    /\ cmd' = [cmd EXCEPT ![c] = k]
    /\ target' = [target EXCEPT ![c] = n]
    /\ shown' = [shown EXCEPT ![c] = <<>>]
    /\ Send(c, "CHK_OBJ", n, junk)

\* dir of a file shows its attributes, cat of a directory its usage.
Checked(c) ==
  LET isDir == target[c] \in DOMAIN Dirs
      goesOn == reply[c].code = "GOOD" /\ (cmd[c] = "dir" <=> isDir)
  IN
  /\ pc[c] = "CHK_OBJ"
  /\ IF goesOn THEN Send(c, "OPEN_OBJ", target[c], reply[c].fd) ELSE Finish(c)
  /\ UNCHANGED <<cmd, target, shown>>

Opened(c) ==
  /\ pc[c] = "OPEN_OBJ"
  /\ Send(c, "READ_OBJ", target[c], reply[c].fd)
  /\ UNCHANGED <<cmd, target, shown>>

ShowMore(c) ==
  /\ pc[c] = "READ_OBJ" /\ reply[c].code = "GOOD"
  /\ shown' = [shown EXCEPT ![c] = @ \o reply[c].data]
  /\ Send(c, "READ_OBJ", target[c], reply[c].fd)
  /\ UNCHANGED <<cmd, target>>

ReadEnds(c) ==
  /\ pc[c] = "READ_OBJ" /\ reply[c].code # "GOOD"
  /\ Send(c, "CLOSE_OBJ", target[c], reply[c].fd)
  /\ UNCHANGED <<cmd, target, shown>>

Closed(c) ==
  /\ pc[c] = "CLOSE_OBJ"
  /\ Finish(c)
  /\ UNCHANGED <<cmd, target, shown>>

\* MsgRcv returns with the answer.
Receive(c) ==
  /\ reply[c] # NoReply
  /\ Checked(c) \/ Opened(c) \/ ShowMore(c) \/ ReadEnds(c) \/ Closed(c)
  /\ UNCHANGED <<fdVars, after>>

ServeRequest == Serve /\ UNCHANGED shellVars

Next ==
  \/ \E c \in Shells : Command(c) /\ UNCHANGED <<fdVars, after>>
  \/ \E c \in Shells : Receive(c)
  \/ ServeRequest

Spec == DirCatInit /\ [][Next]_vars

\* FileSystem and the shells get the processor again and again: slices end,
\* and nobody is overtaken (NobodyOvertakes of Kernel).
FairSpec ==
  /\ Spec
  /\ WF_vars(ServeRequest)
  /\ \A c \in Shells : WF_vars(Receive(c))
----------------------------------------------------------------------------
\* What there is to show: the bytes of a file, the named entries of a
\* directory.
Content(n) ==
  IF n \in DOMAIN Files THEN 1 .. Files[n]
  ELSE IF n \in DOMAIN Dirs
  THEN LET e == Entries(n) IN
       {i \in DOMAIN e : e[i] = "name" /\ \A j \in 1 .. i : e[j] # "end"}
  ELSE {}

InOrder(s) == \A i, j \in DOMAIN s : i < j => s[i] < s[j]

\* A command shows the object it was given, from the start, in order, once,
\* whole, or nothing of it: never another object that was opened through the
\* same descriptor or by another shell, though the result of OPEN_OBJ is
\* ignored and READ_OBJ is sent with whatever number[0] holds.
ShowsTheObject ==
  \A c \in Shells :
    LET content == Content(target[c]) IN
    /\ InOrder(shown[c])
    /\ Range(shown[c]) \subseteq content
    /\ \A x \in content, y \in Range(shown[c]) : x < y => x \in Range(shown[c])
    /\ pc[c] = "CLOSE_OBJ" => Range(shown[c]) \in {{}, content}

\* A shell between two commands holds no descriptor, whatever went wrong in
\* the last one: commands do not use up fd_array.
NoDescriptorLeft ==
  \A c \in Shells, fd \in FD : pc[c] = "idle" => owner[fd] # c

\* Every command ends.
CommandEnds == \A c \in Shells : pc[c] # "idle" ~> pc[c] = "idle"
=============================================================================
